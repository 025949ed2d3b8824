---------------------------- MODULE ExamCopiesMC ----------------------------
(***************************************************************************)
(* ExamCopies on a small instance.                                         *)
(***************************************************************************)
EXTENDS ExamCopies, TLC

CONSTANTS oral, ann, bob, r1, r2

\* Three points for two questions, and a section worth less than its questions.
Plain == [s \in Sections |-> [count |-> 2, points |-> 3]]
Tight == [s \in Sections |-> [count |-> 2, points |-> 1]]
MCConfigs == {Plain, Tight}
MCForms == {Plain}

MCAnswers == {[questions |-> [s \in Sections |-> q], sound |-> q # <<1, 1, 1>>] :
                q \in {<<1, 2>>, <<1, 1>>, <<1, 1, 1>>}}

CopiesSymmetry == Permutations(Users) \cup Permutations(Requests)
=============================================================================
