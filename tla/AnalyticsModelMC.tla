--------------------------- MODULE AnalyticsModelMC ---------------------------
(***************************************************************************)
(* AnalyticsModel over four skills and three kinds of mock.                 *)
(***************************************************************************)
EXTENDS AnalyticsModel

CONSTANTS logic, sets, graphs, proofs

good == [score |-> 100, difficulty |-> "easy", share |-> 4, sure |-> 100]
fair == [score |-> 60, difficulty |-> "hard", share |-> 2, sure |-> 75]
poor == [score |-> 10, difficulty |-> "matched", share |-> 0, sure |-> 35]
doubtful == [score |-> 100, difficulty |-> "matched", share |-> 1, sure |-> 10]

MCBlueprint == <<proofs, graphs, sets, logic>>
MCWeight == [s \in Skills |-> CASE s = logic -> 40 [] s = sets -> 30 [] OTHER -> 15]
MCLabel == [s \in Skills |-> CASE s = logic -> 1 [] s = sets -> 2
                               [] s = graphs -> 3 [] OTHER -> 4]

\* The same mock done well or badly, which asks about logic twice, and one that
\* shows gaps in three skills and says little about the one the others leave out.
MCMocks ==
  { [s \in Skills |-> CASE s = logic -> <<good, fair>> [] s = sets -> <<good>>
                       [] OTHER -> <<>>],
    [s \in Skills |-> CASE s = logic -> <<poor, fair>> [] s = sets -> <<poor>>
                       [] OTHER -> <<>>],
    [s \in Skills |-> CASE s = logic -> <<fair>> [] s = proofs -> <<doubtful>>
                       [] OTHER -> <<poor, poor>>] }
==============================================================================
