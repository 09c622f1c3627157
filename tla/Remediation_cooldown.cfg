\* One remediation at a time, and a rule nobody changes.
SPECIFICATION Spec
CONSTANTS
  Alert = {a1}
  NoAlert = NoAlert
  Task = {t1}
  MaxAttempts = 2
  MaxExecutions = 2
  MaxApprovals = 1
  MaxIncidents = 0
CHECK_DEADLOCK FALSE
PROPERTIES
  CooldownBetweenAttempts
