---------------------------- MODULE MCSQLBackend ----------------------------
(* Instances of SQLBackend for TLC. *)
EXTENDS SQLBackend, TLC

CONSTANTS j1, j2, n1, n2, w1, w2

\* Two workers on two nodes.
TwoNodes == (w1 :> n1) @@ (w2 :> n2)

\* Two workers sharing one instance and its pool.
OneNode == (w1 :> n1) @@ (w2 :> n1)

\* The clock of n2 is one RetryDelay ahead of that of n1.
SkewedClocks == (n1 :> 0) @@ (n2 :> 1)

SameClock == (n1 :> 0)

JobSymmetry == Permutations({j1, j2})

=============================================================================
