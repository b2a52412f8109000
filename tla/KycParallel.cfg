\* Two requests and two jobs in parallel, two faults.
SPECIFICATION Spec
CONSTANTS
  r1 = r1
  r2 = r2
  j1 = j1
  j2 = j2
  a1 = a1
  a2 = a2
  Slots = {r1, r2}
  Jobs = {j1, j2}
  Sessions = {k1, k2}
  Aadhaars = {a1, a2}
  MaxFaults = 2
  Null = null
SYMMETRY KycSymmetry
INVARIANTS
  TypeOK
  FullyVerifiedIsEarned
PROPERTIES
  IdentityIsStable
