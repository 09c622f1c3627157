\* One event of history and two more, a crash and a critical event, in batches
\* of two; two faults of any kind; both loops may have a request in progress.
SPECIFICATION FairSpec
CONSTANTS
  MaxEvents = 3
  History = 1
  Crashes = {2}
  Critical = {3}
  MaxBatch = 2
  Slot = {s1, s2}
  NoSlot = NoSlot
  MaxItems = 4
  MaxFaults = 2
INVARIANTS
  IInv
  NothingForgotten
  ExactWithoutFaults
PROPERTIES
  EventArrives
