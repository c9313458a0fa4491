SPECIFICATION FairSpec
CONSTANTS
  MaxAttempts = 2
  RequestHeader = 2
  ResponseHeader = 1
  Requests <- SmallRequests
CHECK_DEADLOCK FALSE
INVARIANTS TypeOK NothingCutShort InOrder FailureHasCause
PROPERTIES Returns ThreadsEnd ImplementsOutcome
