--------------------------- MODULE AtomicTopology ---------------------------
(***************************************************************************)
(* What the state managers promise of the /topology node: however many     *)
(* commands and agents change it at once, it goes through a sequence of    *)
(* atomic changes, each applied to the topology the one before left.       *)
(***************************************************************************)
EXTENDS TopologyChanges

CONSTANT Subordinate   \* the names of the services with a subordinate charm

VARIABLES
    topology,   \* the content of /topology
    issued      \* history: every unit ever added, with the name it was given

vars == <<topology, issued>>

\* The units t2 has and t has not, each with the name it is given.
NewUnits(t, t2) ==
    {[unit |-> u, name |-> get_service_unit_name(t2, u)] :
       u \in {v \in UnitId : t.units[v] = None /\ t2.units[v] # None}}

Init == topology = InitialTopology /\ issued = {}

\* A change function succeeds with one of the outcomes.
Apply(outcomes) == \E t \in outcomes :
    /\ topology' = t
    /\ issued' = issued \cup NewUnits(topology, t)

AddMachineState == \E m \in MachineId : Apply(add_machine(topology, m))

\* Only the command line removes machines, and it refuses the root machine.
RemoveMachineState == \E m \in MachineId \ {RootMachine} :
    Apply(remove_machine_change(topology, m))

AddServiceState == \E s \in ServiceId, n \in ServiceName :
    Apply(add_service_change(topology, s, n))

RemoveServiceState == \E s \in ServiceId : Apply(remove_service(topology, s))

\* A container is a unit of a principal service, and holds subordinate units.
_validate_principal_container(t, s, c) ==
    /\ t.units[c] # None
    /\ t.services[t.units[c].service] \notin Subordinate
    /\ t.services[s] \in Subordinate

\* A unit's id is a ZooKeeper sequence number: it is new.  Only the commands
\* add units without a container, and never to a subordinate service.
AddUnitState == \E s \in ServiceId, u \in UnitId, c \in UnitId \cup {None} :
    /\ \A i \in issued : i.unit # u
    /\ IF c = None THEN topology.services[s] \notin Subordinate
                   ELSE _validate_principal_container(topology, s, c)
    /\ Apply(add_service_unit(topology, s, u, c))

RemoveUnitState == \E s \in ServiceId, u \in UnitId :
    Apply(remove_service_unit(topology, s, u))

AssignToMachine == \E s \in ServiceId, u \in UnitId, m \in MachineId :
    Apply(assign_unit(topology, s, u, m))

\* Only place_unit asks for an unused machine, and only for units that were
\* added without a container: assign_unused_unit itself does not look.
AssignToUnusedMachine == \E s \in ServiceId, u \in UnitId :
    /\ has_service_unit(topology, s, u) => topology.units[u].container = None
    /\ Apply(assign_unused_unit(topology, s, u))

UnassignFromMachine == \E s \in ServiceId, u \in UnitId :
    Apply(unassign_unit(topology, s, u))

\* The ids of the endpoints' services are those they have now.
AddRelationState == \E r \in RelationId, eps \in EndpointLists :
    Apply(add_relation_change(topology, r, eps, [i \in DOMAIN eps |->
            find_service_with_name(topology, eps[i].service_name)]))

RemoveRelationState == \E r \in RelationId : Apply(remove_relation(topology, r))

Next ==
    \/ AddMachineState \/ RemoveMachineState
    \/ AddServiceState \/ RemoveServiceState
    \/ AddUnitState \/ RemoveUnitState
    \/ AssignToMachine \/ AssignToUnusedMachine \/ UnassignFromMachine
    \/ AddRelationState \/ RemoveRelationState

Spec == Init /\ [][Next]_vars
-----------------------------------------------------------------------------
\* The types of the topology and of the names its mutators have issued.
TypeOK ==
    /\ topology \in TopologyType
    /\ issued \subseteq [unit : UnitId, name : ServiceName \X Nat]

\* The bootstrap machine and every machine a unit is assigned to are in the
\* topology: remove_machine_state and the assignments exclude each other.
AssignedMachinesExist ==
    /\ RootMachine \in topology.machines
    /\ \A u \in UnitId : topology.units[u] # None =>
            topology.units[u].machine \in topology.machines \cup {None}

\* The service of every unit, and every service a relation names, is in the
\* topology, although a service is removed in many steps.
ReferencedServicesExist ==
    /\ \A u \in UnitId : topology.units[u] # None =>
            has_service(topology, topology.units[u].service)
    /\ \A r \in RelationId, s \in ServiceId :
            relation_has_service(topology, r, s) => has_service(topology, s)

\* find_service_with_name has one answer: no two services share a name.
ServiceNamesUnique == \A s1, s2 \in ServiceId :
    has_service(topology, s1) /\ topology.services[s1] = topology.services[s2]
        => s1 = s2

\* A unit name is never given to a second unit, not even after the unit, or
\* its whole service, was removed and a service of that name deployed again.
UnitNamesNeverReused == \A i, j \in issued : i.name = j.name => i = j

\* The next sequence number of a name is above every number given out under
\* it: add_service_unit moves it on and nothing, not even removing the
\* service, moves it back.
SequencesAhead == \A i \in issued : i.name[2] < topology.unit_sequence[i.name[1]]

\* A unit keeps in the topology the name it was given.
UnitNamesKept == \A u \in UnitId : topology.units[u] # None =>
    [unit |-> u, name |-> get_service_unit_name(topology, u)] \in issued

\* In a relation no two services play the same role.
RolesExclusive == \A r \in RelationId, s1, s2 \in ServiceId :
    relation_has_service(topology, r, s1) /\ relation_has_service(topology, r, s2) =>
        LET services == topology.relations[r].services
        IN  services[s1].role = services[s2].role => s1 = s2

\* A unit inside a container has no machine of its own, so its machine is the
\* one of its principal (get_assigned_machine_id).
SubordinatesUnassigned == \A u \in UnitId :
    topology.units[u] # None /\ topology.units[u].container # None
        => topology.units[u].machine = None

\* Two endpoints of one scope are never joined by two relations, whoever
\* adds relations at the same time: add_relation_state checks inside its
\* change function.
NoDuplicateRelations == \A eps \in EndpointLists :
    (\A i, j \in DOMAIN eps : eps[i].relation_scope = eps[j].relation_scope) =>
        \A r1, r2 \in get_relation_between_endpoints(topology, eps) : r1 = r2

\* A charm uses a name for one relation.  charm.metadata does not check it, but
\* the hooks of a relation are found by its name alone.
UniqueRelationNames == \A e1, e2 \in Endpoint :
    e1.service_name = e2.service_name /\ e1.relation_name = e2.relation_name => e1 = e2
=============================================================================
