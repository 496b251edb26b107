--------------------------- MODULE TopologyChanges ---------------------------
(***************************************************************************)
(* The change functions that the state managers hand to                    *)
(* StateBase._retry_topology_change (juju.state.{machine,service,relation}).*)
(*                                                                         *)
(* A request names a change function and the values its closure captured;  *)
(* Outcomes(t, q) is the set of topologies the function of request q can   *)
(* leave when it is run on t, empty when it raises.                        *)
(***************************************************************************)
EXTENDS Topology, Sequences

CONSTANT
    Endpoint      \* the relation endpoints of the charms in use

ASSUME EndpointAssumption == Endpoint \subseteq RelationEndpoint

\* RelationEndpoint.may_relate_to
may_relate_to(e1, e2) ==
    /\ e1.relation_type = e2.relation_type
    /\ <<e1.relation_role, e2.relation_role>> \in
        {<<"server", "client">>, <<"client", "server">>, <<"peer", "peer">>}

\* The argument lists add_relation_state accepts: one endpoint (the command
\* line passes a peer endpoint then) or two that may relate.
EndpointLists ==
    {<<e>> : e \in {p \in Endpoint : p.relation_role = "peer"}} \cup
    {<<p[1], p[2]>> : p \in {q \in Endpoint \X Endpoint :
                               q[1] # q[2] /\ may_relate_to(q[1], q[2])}}

\* A relation is container scoped as soon as one of its endpoints is.
relation_scope(endpoints) ==
    IF \E i \in DOMAIN endpoints : endpoints[i].relation_scope = "container"
    THEN "container" ELSE "global"
-----------------------------------------------------------------------------
(* Requests *)

AddMachine(m) == [change |-> "add_machine", machine |-> m]
RemoveMachine(m) == [change |-> "remove_machine", machine |-> m]
AddService(s, name) == [change |-> "add_service", service |-> s, name |-> name]
RemoveService(s) == [change |-> "remove_service", service |-> s]
AddUnit(s, u, container) ==
    [change |-> "add_unit", service |-> s, unit |-> u, container |-> container]
RemoveUnit(s, u) == [change |-> "remove_unit", service |-> s, unit |-> u]
AssignUnit(s, u, m) ==
    [change |-> "assign_unit", service |-> s, unit |-> u, machine |-> m]
AssignUnusedUnit(s, u) ==
    [change |-> "assign_unused_unit", service |-> s, unit |-> u]
UnassignUnit(s, u) == [change |-> "unassign_unit", service |-> s, unit |-> u]
AddRelation(r, endpoints, services) ==
    [change |-> "add_relation", relation |-> r, endpoints |-> endpoints,
     services |-> services]
RemoveRelation(r) == [change |-> "remove_relation", relation |-> r]
-----------------------------------------------------------------------------
(* Change functions *)

\* Removing a machine that is gone already is not an error.
remove_machine_change(t, m) ==
    IF has_machine(t, m) THEN remove_machine(t, m) ELSE {t}

add_service_change(t, s, name) ==
    IF find_service_with_name(t, name) # None THEN {} ELSE add_service(t, s, name)

\* A subordinate lives where its principal does and is never assigned;
\* assigning a unit again to its own machine changes nothing.
assign_unit(t, s, u, m) ==
    IF ~has_service_unit(t, s, u) \/ t.units[u].container # None THEN {}
    ELSE IF t.units[u].machine = None THEN assign_service_unit_to_machine(t, s, u, m)
    ELSE Unless_raised(t.units[u].machine = m, t)

\* Mutant of unused_machines: takes every machine but the root machine.
any_machines(t) == t.machines \ {RootMachine}

unused_machines(t) ==
    {m \in t.machines : m # RootMachine /\ ~machine_has_units(t, m)}

\* The first unused machine, in the order of the ids; NoUnusedMachines is
\* raised when there is none.
assign_unused_unit(t, s, u) ==
    UNION {assign_service_unit_to_machine(t, s, u, m) :
             m \in {m1 \in unused_machines(t) :
                      \A m2 \in unused_machines(t) : m1 <= m2}}

unassign_unit(t, s, u) ==
    IF ~has_service_unit(t, s, u) THEN {}
    ELSE IF t.units[u].machine = None THEN {t}
    ELSE unassign_service_unit_from_machine(t, s, u)

\* services[i] is the id that endpoints[i]'s service had when it was looked
\* up, before the change function runs.
assign_endpoint(t, r, endpoints, services, i) ==
    IF services[i] = None THEN {}
    ELSE assign_service_to_relation(t, r, services[i],
            endpoints[i].relation_name, endpoints[i].relation_role)

add_relation_change(t, r, endpoints, services) ==
    LET added == add_relation(t, r, endpoints[1].relation_type,
                              relation_scope(endpoints))
        first == UNION {assign_endpoint(t1, r, endpoints, services, 1) : t1 \in added}
    IN  IF has_relation_between_endpoints(t, endpoints) THEN {}
        ELSE IF Len(endpoints) = 1 THEN first
        ELSE UNION {assign_endpoint(t1, r, endpoints, services, 2) : t1 \in first}

Outcomes(t, q) ==
    CASE q.change = "add_machine"        -> add_machine(t, q.machine)
      [] q.change = "remove_machine"     -> remove_machine_change(t, q.machine)
      [] q.change = "add_service"        -> add_service_change(t, q.service, q.name)
      [] q.change = "remove_service"     -> remove_service(t, q.service)
      [] q.change = "add_unit"           -> add_service_unit(t, q.service, q.unit,
                                                             q.container)
      [] q.change = "remove_unit"        -> remove_service_unit(t, q.service, q.unit)
      [] q.change = "assign_unit"        -> assign_unit(t, q.service, q.unit, q.machine)
      [] q.change = "assign_unused_unit" -> assign_unused_unit(t, q.service, q.unit)
      [] q.change = "unassign_unit"      -> unassign_unit(t, q.service, q.unit)
      [] q.change = "add_relation"       -> add_relation_change(t, q.relation,
                                                q.endpoints, q.services)
      [] q.change = "remove_relation"    -> remove_relation(t, q.relation)
=============================================================================
