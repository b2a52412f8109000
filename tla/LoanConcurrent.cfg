\* Two requests in flight on one application, up to one failure.
SPECIFICATION FairSpec
CONSTANTS
  Users = {u1}
  Staff = {s1}
  Loans = {l1}
  r1 = r1
  r2 = r2
  Slots = {r1, r2}
  Amounts <- MCAmounts
  MaxFailures = 1
  System = system
  Null = null
INVARIANTS
  TypeOK
  HistoryFollowsTable
  LargeLoanTwoSteps
  MoneyAfterDecision
  EffectsAreRecorded
  HistoryHasNoGap
PROPERTY
  RequestsEnd
\* The one application is settled, or rejected, and nothing is left to do.
CHECK_DEADLOCK FALSE
