\* One request at a time, two applications of one borrower, a failure anywhere:
\* the service implements its contract.
SPECIFICATION Spec
CONSTANTS
  Users = {u1}
  Staff = {s1}
  Loans = {l1, l2}
  r1 = r1
  r2 = r2
  Slots = {r1}
  Amounts <- MCAmounts
  MaxFailures = 1
  System = system
  Null = null
INVARIANT OneActiveLoan
PROPERTY ImplementsContract
\* Both applications are settled and nothing is left to do.
CHECK_DEADLOCK FALSE
