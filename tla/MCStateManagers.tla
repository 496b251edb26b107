-------------------------- MODULE MCStateManagers --------------------------
(* StateManagers for TLC: a principal and a subordinate charm.               *)
EXTENDS StateManagers, TLC

CONSTANTS wordpress, logging, juju_info, local

Server == [service_name |-> wordpress, relation_type |-> juju_info,
           relation_name |-> juju_info, relation_role |-> "server",
           relation_scope |-> "container"]
SubordinateClient ==
    [service_name |-> logging, relation_type |-> juju_info,
     relation_name |-> local, relation_role |-> "client",
     relation_scope |-> "container"]
ContainerEndpoints == {Server, SubordinateClient}
Peer == [Server EXCEPT !.relation_role = "peer", !.relation_scope = "global"]
PeerEndpoints == {Peer}

Zero == {0}
Two == 0..1

Symmetry == Permutations(Client)
=============================================================================
