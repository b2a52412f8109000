------------------------------- MODULE MCSessions ------------------------------
(* Finite instances of Sessions, with a history variable that says whether two *)
(* requests were ever in flight together.                                      *)
EXTENDS Sessions, TLC

CONSTANTS r1, r2

SlotSymmetry == Permutations({r1, r2})

VARIABLE overlapped

MCInit == Init /\ overlapped = FALSE

MCNext ==
  /\ Next
  /\ overlapped' = (overlapped \/ \E p, q \in Slots : /\ p # q
                                                     /\ req'[p] # Idle
                                                     /\ req'[q] # Idle)

MCSpec == MCInit /\ [][MCNext]_<<vars, overlapped>>

\* refresh's rotation, as long as requests come one at a time: a login has one
\* session that can be refreshed, wherever a request is cut off.
SerialOneActivePerLogin == overlapped \/ OneActivePerLogin

\* logoutAll, as long as requests come one at a time: a login that it ended
\* stays without active sessions.
SerialEndedStaysEnded == overlapped \/ EndedStaysEnded
===============================================================================
