--------------------------- MODULE AuthSessionMC ---------------------------
(***************************************************************************)
(* AuthSession on small instances.                                         *)
(***************************************************************************)
EXTENDS AuthSession, TLC

\* Requests are interchangeable, and so are tokens.
AuthSymmetry == Permutations(Requests) \cup Permutations(Tokens)
=============================================================================
