\* Nothing fails and the clocks agree.
SPECIFICATION Spec
CONSTANTS
  NumActions = 1
  Slot = {s1, s2}
  NoCall = NoCall
  ClockSkew = FALSE
  MaxLate = 0
  MaxCrashes = 0
  MaxServerFaults = 0
INVARIANT NeverBlocked
