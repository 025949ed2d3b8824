------------------------- MODULE BlueprintLifecycleMC ------------------------
(* Instances of BlueprintLifecycle for TLC. *)
EXTENDS BlueprintLifecycle, TLC

CONSTANTS good, open, bad, k1, r1, r2

\* Requests are interchangeable; the runs that use this check no liveness.
RequestSymmetry == Permutations(Requests)
=============================================================================
