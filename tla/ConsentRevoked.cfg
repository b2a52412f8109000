\* One request at a time, one consent.
SPECIFICATION ConsentSpec
CONSTANTS
  Requests = {r1}
  Keys = {read}
INVARIANT RevokedIsInactive
CHECK_DEADLOCK FALSE
