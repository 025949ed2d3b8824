--------------------------- MODULE AttemptContract ---------------------------
(***************************************************************************)
(* What the API promises about an attempt, without requests, transactions  *)
(* or graders (README.md, "Core API": "Start or resume an active attempt", *)
(* "Submit and evaluate idempotently", "Read evaluated result"): an attempt*)
(* is opened once, evaluated at most once, and its one verdict is what     *)
(* every client that asks is told.  AttemptSession implements it.          *)
(***************************************************************************)
CONSTANTS Attempts, Score, None

VARIABLES
  phase,     \* "absent", "in_progress" or "evaluated"
  verdict,   \* the score of an evaluated attempt, else None
  told       \* the scores clients have been told

vars == <<phase, verdict, told>>

Init ==
  /\ phase = [a \in Attempts |-> "absent"]
  /\ verdict = [a \in Attempts |-> None]
  /\ told = [a \in Attempts |-> {}]

Start(a) ==
  /\ phase[a] = "absent"
  /\ phase' = [phase EXCEPT ![a] = "in_progress"]
  /\ UNCHANGED <<verdict, told>>

Evaluate(a, s) ==
  /\ phase[a] = "in_progress"
  /\ phase' = [phase EXCEPT ![a] = "evaluated"]
  /\ verdict' = [verdict EXCEPT ![a] = s]
  /\ UNCHANGED told

Tell(a) ==
  /\ phase[a] = "evaluated"
  /\ told' = [told EXCEPT ![a] = @ \cup {verdict[a]}]
  /\ UNCHANGED <<phase, verdict>>

Next == \E a \in Attempts : Start(a) \/ Tell(a) \/ \E s \in Score : Evaluate(a, s)

Spec == Init /\ [][Next]_vars
=============================================================================
