\* Pairs of kinds of reports, two requests at a time, and the faults between them.
SPECIFICATION Spec
CONSTANTS
  Focus <- MCFocus
  Machine <- MCMachine
  App = {"torrent", "both"}
  Rule = {"p2p", "games"}
  DefaultRule = {"p2p"}
  Forbids <- MCForbids
  Slot = {s1, s2}
  MaxTime <- MCMaxTime
  MaxFaults = 1
  MaxEdits = 1
SYMMETRY Symmetric
CHECK_DEADLOCK FALSE
INVARIANTS
  AcceptedIsShown
  ChangesAddUp
  KnownSoftware
  ForbiddenIsAlertedOnce
