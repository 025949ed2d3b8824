--------------------------- MODULE SessionContract ---------------------------
(***************************************************************************)
(* What signing in promises about one account's login sessions: a login    *)
(* opens a session once, the session lives on through any number of token  *)
(* rotations, and once it has been closed nothing opens it again.          *)
(***************************************************************************)

CONSTANT Logins

VARIABLE session    \* what has become of each login

Init == session = [l \in Logins |-> "none"]

SignIn(l) == session[l] = "none" /\ session' = [session EXCEPT ![l] = "open"]

SignOut(l) == session[l] = "open" /\ session' = [session EXCEPT ![l] = "closed"]

Next == \E l \in Logins : SignIn(l) \/ SignOut(l)

Spec == Init /\ [][Next]_session
==============================================================================
