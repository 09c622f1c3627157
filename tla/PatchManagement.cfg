SPECIFICATION Spec
CONSTANTS
  KB = {k1}
  Found = {"PENDING_DOWNLOAD"}
  Handler = {h1}
  Delay = 1
  MaxRequests = 2
  MaxTime = 1
  MaxFaults = 1
INVARIANTS
  NothingIsStranded
  SuccessIsVerified
CHECK_DEADLOCK FALSE
