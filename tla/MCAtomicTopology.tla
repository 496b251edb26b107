-------------------------- MODULE MCAtomicTopology --------------------------
(* AtomicTopology for TLC: two charms, a principal and a subordinate, that   *)
(* can be related in both scopes.                                            *)
EXTENDS StatusReport, RelationEndpoints, TLC

CONSTANTS wordpress, logging, juju_info, syslog, local, logs, cluster

\* Each charm also has a peer relation, which a user may try to join.
MCEndpoint ==
    {[service_name |-> logging, relation_type |-> juju_info, relation_name |-> local,
      relation_role |-> "client", relation_scope |-> "container"],
     [service_name |-> logging, relation_type |-> syslog, relation_name |-> logs,
      relation_role |-> "client", relation_scope |-> "container"],
     [service_name |-> wordpress, relation_type |-> syslog, relation_name |-> logs,
      relation_role |-> "server", relation_scope |-> "container"]} \cup
    {[service_name |-> n, relation_type |-> syslog, relation_name |-> cluster,
      relation_role |-> "peer", relation_scope |-> "global"] : n \in {wordpress, logging}} \cup
    {[service_name |-> n, relation_type |-> juju_info, relation_name |-> juju_info,
      relation_role |-> "server", relation_scope |-> "global"] : n \in {wordpress, logging}}

MCNameRank == (cluster :> 1) @@ (juju_info :> 2) @@ (local :> 3) @@ (logs :> 4)

MCMachineId == 0..1
MCServiceId == 0..2
MCUnitId == 0..1
MCRelationId == 0..2

\* The hypotheses of NoRelationTwice and EndpointsByName.
ASSUME UniqueRelationNames
ASSUME ImplicitReserved
=============================================================================
