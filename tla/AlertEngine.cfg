\* A rule of each class of conditions; two evaluations overlap.
SPECIFICATION FairSpec
CONSTANTS
  Focus <- Studies
  Signature = {c1}
  NoSignature = NoSignature
  Evaluator = {v1, v2}
  MaxOverrides = 2
  Request = {q1, q2}
  MaxAlerts = 3
CHECK_DEADLOCK FALSE
INVARIANTS
  DuplicatesBounded
  ShownIsApplied
PROPERTIES
  AlertsFollowCondition
