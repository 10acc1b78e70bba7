--------------------------- MODULE MCAuthSessions ---------------------------
(* Instances of AuthSessions for TLC. *)
EXTENDS AuthSessionsInv, TLC

\* Tokens and requests are interchangeable: no definition names one.
Symmetry == Permutations(Tokens) \cup Permutations(Requests)

=============================================================================
