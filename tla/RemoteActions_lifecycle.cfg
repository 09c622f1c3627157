\* Two actions, so that the agent holds one while the next one waits.
SPECIFICATION Spec
CONSTANTS
  NumActions = 2
  Slot = {s1}
  NoCall = NoCall
  ClockSkew = TRUE
  MaxLate = 0
  MaxCrashes = 1
  MaxServerFaults = 1
PROPERTY ImplementsLifecycle
