\* Two requests on one application: a decision overwrites another.
SPECIFICATION Spec
CONSTANTS
  Users = {u1}
  Staff = {s1}
  Loans = {l1}
  r1 = r1
  r2 = r2
  Slots = {r1, r2}
  Amounts = {200000}
  MaxFailures = 0
  System = system
  Null = null
PROPERTY OnlyTableMoves
CHECK_DEADLOCK FALSE
