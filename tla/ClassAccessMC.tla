--------------------------- MODULE ClassAccessMC ---------------------------
(***************************************************************************)
(* ClassAccess on small instances.                                         *)
(***************************************************************************)
EXTENDS ClassAccess, TLC

CONSTANTS teacher, math, art, e1, e2, a1, c1

\* Two subjects of one teacher; the class belongs to the first.
MCOwner == [s \in Subjects |-> teacher]
MCSubjectOf == [x \in Exams \cup Classes |-> IF x = a1 THEN art ELSE math]

\* Pupils, the exams of the first subject and the updates are interchangeable.
AccessSymmetry ==
    Permutations(Users \ {teacher}) \cup Permutations(Exams \ {a1}) \cup Permutations(Editors)
=============================================================================
