----------------------------- MODULE MCFirewall -----------------------------
(* Firewall for TLC: the units of one service on one machine.               *)
EXTENDS Firewall

OneService == [u \in Unit |-> CHOOSE s \in Service : TRUE]

=============================================================================
