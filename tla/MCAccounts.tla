----------------------------- MODULE MCAccounts -----------------------------
(* Instance of Accounts for TLC. *)
EXTENDS Accounts, TLC

Symmetry == Permutations(Requests) \cup Permutations(Emails)

=============================================================================
