\* Security events, metrics and inventories in a queue of three units; the
\* process ends twice and the file system fails once.  Once all items were
\* offered and handled the queue is idle, which is no deadlock.
SPECIFICATION Spec
CONSTANTS
  Priority = {1, 5, 6}
  Size = {1, 2}
  MaxBytes = 3
  MaxItems = 4
  MaxCrashes = 2
  MaxErrors = 1
CHECK_DEADLOCK FALSE
INVARIANTS
  IInv
  Durable
  WithinCapacity
PROPERTIES
  EvictedByWorth
  ImplementsDurableQueue
