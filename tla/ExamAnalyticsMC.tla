--------------------------- MODULE ExamAnalyticsMC ---------------------------
(***************************************************************************)
(* ExamAnalytics on a small instance.                                      *)
(***************************************************************************)
EXTENDS ExamAnalytics, TLC

CONSTANTS ann, bob, a1, a2, b1, algebra, proof, r1, r2

\* One attempt of the other user; the second version has another skill.
MCOwnerOf == [a \in Attempts |-> IF a = b1 THEN bob ELSE ann]
MCSkillsOf == (1 :> {algebra}) @@ (2 :> {algebra, proof})

AnalyticsSymmetry == Permutations(Requests)
==============================================================================
