\* Two requests in parallel, one fault.
SPECIFICATION MCSpec
CONSTANTS
  r1 = r1
  r2 = r2
  Slots = {r1, r2}
  MaxTokens = 3
  AccessTtl = 1
  BlacklistTtl = 1
  RefreshTtl = 2
  MaxFaults = 1
SYMMETRY SlotSymmetry
INVARIANTS
  TypeOK
  ReplacedIsRevoked
  LoggedOutStaysOut
  SerialOneActivePerLogin
  SerialEndedStaysEnded
\* All token pairs are issued and expired: nothing is left to do.
CHECK_DEADLOCK FALSE
