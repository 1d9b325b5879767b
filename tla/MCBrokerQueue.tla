--------------------------- MODULE MCBrokerQueue ---------------------------
(* An instance of BrokerQueue for TLC. *)
EXTENDS BrokerQueue, TLC

CONSTANTS e1, e2, bad, w1, w2

\* bad has a schedule of zero.
Schedules == e1 :> <<30>> @@ e2 :> <<60>> @@ bad :> <<0>>

=============================================================================
