CONSTANTS
  m1 = m1
  m2 = m2
  placeholder = placeholder
  None = None
  Clear = Clear
  Focus <- MCFocus
  Machine <- MCMachine
  Identity <- MCIdentity
  Customer = {c1, c2}
  Site = {s1}
  Token = {t1, t2}
  Quota = 2
  Threshold = 2
  Request = {r1, r2}
  Editor = {e1, e2}
  Beat = {b1, b2}
  Attempts = 2
  MaxRows = 3
  Computer = {d1, d2}
  Nobody = Nobody
  Studies <- MCStudies
  Tab = {w1, w2}
  MaxTokens = 3
SPECIFICATION ControlSpec
INVARIANTS EnrolledOnce SiteOfCustomer TamperKeyAgrees ScoreExplained PageOfOneDevice OneDescendant
PROPERTIES PresenceFollowsHeartbeats ConsoleCatchesUp
CHECK_DEADLOCK FALSE
