-------------------------- MODULE MCInMemoryQueue --------------------------
(* An instance of InMemoryQueue for TLC. *)
EXTENDS InMemoryQueue

CONSTANTS j1, j2, j3, w1, w2

=============================================================================
