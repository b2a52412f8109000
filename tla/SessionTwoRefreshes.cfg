\* Two refreshes of one session.
SPECIFICATION MCSpec
CONSTANTS
  r1 = r1
  r2 = r2
  Slots = {r1, r2}
  MaxTokens = 3
  AccessTtl = 1
  BlacklistTtl = 1
  RefreshTtl = 2
  MaxFaults = 0
INVARIANTS
  OneActivePerLogin
\* All token pairs are issued and expired: nothing is left to do.
CHECK_DEADLOCK FALSE
