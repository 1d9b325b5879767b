-------------------------- MODULE MCMigrateEngine --------------------------
(* An instance of MigrateEngine for TLC. *)
EXTENDS MigrateEngine

CONSTANTS e1, e2, e3

=============================================================================
