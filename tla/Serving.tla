-------------------------------- MODULE Serving --------------------------------
(* What the record-keeping services of the backend share: requests that one    *)
(* Node process, or several, handle at the same time.  Each await of a handler *)
(* ends a step.                                                                *)
EXTENDS Naturals, FiniteSets

CONSTANT Requests \* handlers that can run at the same time

ASSUME RequestsFinite == IsFiniteSet(Requests)
===============================================================================
