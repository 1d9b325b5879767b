---------------------------- MODULE MCAppServer ----------------------------
(* An instance of AppServer for TLC. *)
EXTENDS AppServer, TLC

CONSTANTS a1, a2, c1, c2, c3

Symmetry == Permutations({a1, a2}) \cup Permutations({c1, c2, c3})

=============================================================================
