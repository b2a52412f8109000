\* Two requests in parallel, one fault.
SPECIFICATION BoundedFairSpec
CONSTANTS
  Slots = {r1, r2}
  MaxAttempts = 2
  MaxSends = 2
  MaxFaults = 1
INVARIANTS
  TypeOK
  UnmixedCodeAttempts
  LoginsPerCode
PROPERTIES
  LockStoresOnlyPassed
  UnmixedCodeLogsIn
\* All codes are sent and used up: nothing is left to do.
CHECK_DEADLOCK FALSE
