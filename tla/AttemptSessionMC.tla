-------------------------- MODULE AttemptSessionMC --------------------------
(* Instances of AttemptSession for TLC: an objective question worth 1 point  *)
(* and an open one worth 2, answers that are blank or right.                 *)
EXTENDS AttemptSession, TLC

CONSTANTS a1, a2, q1, q2, r1, r2, blank, right

MCPoints == [q \in Questions |-> IF q \in Open THEN 2 ELSE 1]

MCLocalScore ==
  [q \in Questions |-> [a \in Answers |-> IF a = blank THEN 0 ELSE Points[q]]]

\* The requests are interchangeable; none of the runs that use this symmetry
\* checks a liveness property.
RequestSymmetry == Permutations(Requests)
=============================================================================
