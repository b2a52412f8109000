--------------------------------- MODULE MCKyc ---------------------------------
(* Finite instances of Kyc.                                                    *)
EXTENDS Kyc, TLC

CONSTANTS r1, r2, j1, j2, a1, a2

KycSymmetry == Permutations({r1, r2}) \cup Permutations({j1, j2})
                 \cup Permutations({a1, a2})
===============================================================================
