---------------------------- MODULE MCMigrations ----------------------------
(* Instance of Migrations for TLC. *)
EXTENDS Migrations

=============================================================================
