SPECIFICATION RollupSpec
CONSTANTS
  Sample = {s1, s2}
  HourlyJob = {j1, j2}
  DailyJob = {d1, d2}
  CleanupJob = {c1}
  HoursPerDay = 2
  RawKept = 2
  HourlyKept = 4
  DailyKept = 4
  MaxHour = 5
  Studies <- MCStudies
SYMMETRY Symmetry
INVARIANT RollupsAreComplete
PROPERTY RollupsGrow
CHECK_DEADLOCK FALSE
