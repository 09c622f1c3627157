\* Two remediations or approvals overlap, for one alert at a time.
SPECIFICATION Spec
CONSTANTS
  Alert = {a1}
  NoAlert = NoAlert
  Task = {t1, t2}
  MaxAttempts = 1
  MaxExecutions = 2
  MaxApprovals = 2
  MaxIncidents = 1
SYMMETRY Symmetric
CHECK_DEADLOCK FALSE
INVARIANTS
  EveryActionAuthorised
  OutcomeShown
  OneAttempt

