SPECIFICATION Spec
CONSTANTS
  RetryCount = 1
  MatchRetry = 1
  MaxRequests = 3
INVARIANTS
  TypeOK
  ReadsInOrder
  OkIsComplete
  WritesConfirmed
  ComparesOwnRegister
  RequestLength
PROPERTY Terminates
CHECK_DEADLOCK FALSE
