\* One action, every kind of fault, an abandoned request beside the live one.
SPECIFICATION FairSpec
CONSTANTS
  NumActions = 1
  Slot = {s1, s2}
  NoCall = NoCall
  ClockSkew = TRUE
  MaxLate = 1
  MaxCrashes = 1
  MaxServerFaults = 1
INVARIANTS
  IInv
  AtMostOnce
  NeverRunUnlessStarted
  HonestOutcome
  ExecutedReportIsAcceptable
  AckedOutcomeIsRecorded
  FollowUpsOnce
PROPERTIES
  ActionsSettle
