----------------------------- MODULE MCRequests -----------------------------
(* Instance of Requests for TLC. *)
EXTENDS Requests

=============================================================================
