--------------------------- MODULE StateManagers ---------------------------
(***************************************************************************)
(* Clients of the state managers (commands and agents, each a process with *)
(* its own ZooKeeper session) changing one environment concurrently.       *)
(*                                                                         *)
(* Every method of a state manager is a list of changes to /topology with  *)
(* reads of /topology and creations of sequence nodes before and between   *)
(* them.  A change goes through retry_change: read content and version,    *)
(* run the change function on the parsed content, write the result if the  *)
(* version is still the one that was read, start again otherwise.  Between *)
(* any two ZooKeeper calls of a client the others may run, and a client    *)
(* may die.                                                                *)
(***************************************************************************)
EXTENDS TopologyChanges, FiniteSets

CONSTANTS
    Client,            \* the processes
    Subordinate,       \* the names of the services with a subordinate charm
    Policy             \* the placement policies of the provider

ASSUME ClientAssumption ==
    /\ Subordinate \subseteq ServiceName
    /\ Policy \subseteq {"unassigned", "local"}

VARIABLES
    topology,   \* the content of /topology
    issued,     \* history: every unit ever added, with the name it was given
    created,    \* the ids of the sequence nodes created so far, by parent
    agenda,     \* the changes each client has still to make, in order
    content,    \* what each client's retry_change read, None if it has not
    current     \* the clients that read the version /topology still has

vars == <<topology, issued, created, agenda, content, current>>

Atomic == INSTANCE AtomicTopology

Ids == [machine |-> MachineId, service |-> ServiceId,
        unit |-> UnitId, relation |-> RelationId]

Init ==
    /\ Atomic!Init
    /\ created = [machine |-> {RootMachine}, service |-> {}, unit |-> {},
                  relation |-> {}]
    /\ agenda = [c \in Client |-> <<>>]
    /\ content = [c \in Client |-> None]
    /\ current = {}

\* client.create(path, flags=SEQUENCE): ids ascend and are never reused.
CreateSequence(node, id) ==
    /\ id \in Ids[node] \ created[node]
    /\ \A i \in Ids[node] \ created[node] : id <= i
    /\ created' = [created EXCEPT ![node] = @ \cup {id}]

Idle(c) == agenda[c] = <<>>

\* Client c calls a method that will make the changes of list.
Begin(c, list) ==
    /\ Idle(c)
    /\ agenda' = [agenda EXCEPT ![c] = list]
    /\ UNCHANGED <<topology, issued, content, current>>

\* The marker of remove_service_state's second read; not a change.
ListUnits(s) == [change |-> "list_units", service |-> s]

\* A dictionary or a set is iterated in any order.
Orders(S) == {f \in [1..Cardinality(S) -> S] :
                 \A i, j \in 1..Cardinality(S) : f[i] = f[j] => i = j}
-----------------------------------------------------------------------------
(* The methods, up to their first topology change *)

RemoveMachineState(c) == \E m \in MachineId \ {RootMachine} :
    Begin(c, <<RemoveMachine(m)>>) /\ UNCHANGED created

AddServiceState(c) == \E s \in ServiceId, n \in ServiceName :
    CreateSequence("service", s) /\ Begin(c, <<AddService(s, n)>>)

\* A subordinate service is refused while it is related to a principal.
SubordinateInUse(s) ==
    /\ topology.services[s] \in Subordinate
    /\ \E r \in get_relations_for_service(topology, s), s2 \in ServiceId \ {s} :
        /\ topology.relations[r].scope = "container"
        /\ relation_has_service(topology, r, s2)
        /\ topology.services[s2] \notin Subordinate

RemoveServiceState(c) == \E s \in ServiceId :
    /\ has_service(topology, s) /\ ~SubordinateInUse(s)
    /\ \E order \in Orders(get_relations_for_service(topology, s)) :
        Begin(c, [i \in DOMAIN order |-> RemoveRelation(order[i])] \o <<ListUnits(s)>>)
    /\ UNCHANGED created

\* place_unit, for a unit that was just added.
Placement(policy, s, u) ==
    IF policy = "local" THEN AssignUnit(s, u, RootMachine) ELSE AssignUnusedUnit(s, u)

AddUnitState(c) == \E s \in ServiceId, u \in UnitId, policy \in Policy :
    /\ has_service(topology, s) /\ topology.services[s] \notin Subordinate
    /\ CreateSequence("unit", u)
    /\ Begin(c, <<AddUnit(s, u, None), Placement(policy, s, u)>>)

\* The agent of a principal unit adds a unit of the subordinate service at the
\* other end of a container relation.
AddSubordinateUnit(c) ==
    \E r \in RelationId, principal \in UnitId, s \in ServiceId, u \in UnitId :
        /\ has_relation(topology, r) /\ topology.units[principal] # None
        /\ topology.relations[r].scope = "container"
        /\ relation_has_service(topology, r, s)
        /\ relation_has_service(topology, r, topology.units[principal].service)
        /\ topology.units[principal].service # s
        /\ topology.services[s] \in Subordinate
        /\ topology.services[topology.units[principal].service] \notin Subordinate
        /\ CreateSequence("unit", u)
        /\ Begin(c, <<AddUnit(s, u, principal)>>)

\* The unit is unassigned in a change of its own, then removed.
RemoveUnitChanges(s, u) == <<UnassignUnit(s, u), RemoveUnit(s, u)>>

RemoveUnitState(c) == \E s \in ServiceId, u \in UnitId :
    /\ has_service_unit(topology, s, u) /\ topology.services[s] \notin Subordinate
    /\ Begin(c, RemoveUnitChanges(s, u))
    /\ UNCHANGED created

AddRelationState(c) == \E r \in RelationId, eps \in EndpointLists :
    /\ \A i \in DOMAIN eps : find_service_with_name(topology, eps[i].service_name) # None
    /\ ~has_relation_between_endpoints(topology, eps)
    /\ CreateSequence("relation", r)
    /\ Begin(c, <<AddRelation(r, eps, [i \in DOMAIN eps |->
                    find_service_with_name(topology, eps[i].service_name)])>>)

\* A relation between two services with a container-scoped end is refused.
RemoveRelationState(c) == \E eps \in EndpointLists :
    /\ Len(eps) = 1 \/ relation_scope(eps) = "global"
    /\ \E r \in get_relation_between_endpoints(topology, eps) :
        Begin(c, <<RemoveRelation(r)>>)
    /\ UNCHANGED created
-----------------------------------------------------------------------------
(* retry_change, one topology change of a method after the other *)

Change(c) == Head(agenda[c])
Changing(c) == ~Idle(c) /\ content[c] # None
Results(c) == Outcomes(content[c], Change(c))

\* The change is over; client c goes on with list.
GoOn(c, list) ==
    /\ agenda' = [agenda EXCEPT ![c] = list]
    /\ content' = [content EXCEPT ![c] = None]

\* Mutant of ReadTopology: after a conflict reads the version but goes on with
\* the content parsed before.
ReadVersionOnly(c) ==
    /\ ~Idle(c) /\ Change(c).change # "list_units"
    /\ content' = [content EXCEPT ![c] = IF @ = None THEN topology ELSE @]
    /\ current' = current \cup {c}
    /\ UNCHANGED <<topology, issued, created, agenda>>

ReadTopology(c) ==
    /\ ~Idle(c) /\ content[c] = None /\ Change(c).change # "list_units"
    /\ content' = [content EXCEPT ![c] = topology]
    /\ current' = current \cup {c}
    /\ UNCHANGED <<topology, issued, created, agenda>>

\* Mutant of WriteTopology: writes whatever the version is.
WriteUnversioned(c) ==
    /\ Changing(c)
    /\ \E t \in Results(c) \ {content[c]} :
        /\ topology' = t
        /\ issued' = issued \cup Atomic!NewUnits(topology, t)
    /\ GoOn(c, Tail(agenda[c])) /\ current' = {}
    /\ UNCHANGED created

\* The version matches: the node is written and every other version read is old.
WriteTopology(c) ==
    /\ Changing(c) /\ c \in current
    /\ \E t \in Results(c) \ {content[c]} :
        /\ topology' = t
        /\ issued' = issued \cup Atomic!NewUnits(topology, t)
    /\ GoOn(c, Tail(agenda[c])) /\ current' = {}
    /\ UNCHANGED created

\* BadVersionException: retry_change starts again.
Conflict(c) ==
    /\ Changing(c) /\ c \notin current
    /\ Results(c) \ {content[c]} # {}
    /\ content' = [content EXCEPT ![c] = None]
    /\ UNCHANGED <<topology, issued, created, agenda, current>>

\* The function left the content as it was: nothing is written, whatever the
\* version is by now.
KeepTopology(c) ==
    /\ Changing(c) /\ content[c] \in Results(c)
    /\ GoOn(c, Tail(agenda[c])) /\ current' = current \ {c}
    /\ UNCHANGED <<topology, issued, created>>

\* NoUnusedMachines, the exception _unassigned_placement handles.
NoUnusedMachines(c) ==
    /\ Change(c).change = "assign_unused_unit"
    /\ has_service_unit(content[c], Change(c).service, Change(c).unit)
    /\ unused_machines(content[c]) = {}

\* _unassigned_placement creates a machine, then assigns the unit to it.
PlaceOnNewMachine(c) ==
    /\ Changing(c) /\ NoUnusedMachines(c)
    /\ \E m \in MachineId :
        /\ CreateSequence("machine", m)
        /\ GoOn(c, <<AddMachine(m), AssignUnit(Change(c).service, Change(c).unit, m)>>)
    /\ current' = current \ {c}
    /\ UNCHANGED <<topology, issued>>

\* Any other exception ends the method where it is; no change is undone.
Raise(c) ==
    /\ Changing(c) /\ Results(c) = {} /\ ~NoUnusedMachines(c)
    /\ GoOn(c, <<>>) /\ current' = current \ {c}
    /\ UNCHANGED <<topology, issued, created>>

\* remove_service_state reads the units after the relations are gone.
ReadUnits(c) ==
    /\ ~Idle(c) /\ Change(c).change = "list_units"
    /\ LET s == Change(c).service
       IN  IF has_service(topology, s)
           THEN \E order \in Orders(get_service_units(topology, s)) :
                agenda' = [agenda EXCEPT ![c] =
                    [i \in 1..2 * Len(order) |->
                        RemoveUnitChanges(s, order[(i + 1) \div 2])[2 - (i % 2)]]
                    \o <<RemoveService(s)>>]
           ELSE agenda' = [agenda EXCEPT ![c] = <<>>]
    /\ UNCHANGED <<topology, issued, created, content, current>>

\* The process is killed, or loses its session, between two calls.
Die(c) ==
    /\ ~Idle(c)
    /\ GoOn(c, <<>>) /\ current' = current \ {c}
    /\ UNCHANGED <<topology, issued, created>>

Next == \E c \in Client :
    \/ RemoveMachineState(c) \/ AddServiceState(c) \/ RemoveServiceState(c)
    \/ AddUnitState(c) \/ AddSubordinateUnit(c) \/ RemoveUnitState(c)
    \/ AddRelationState(c) \/ RemoveRelationState(c)
    \/ ReadTopology(c) \/ WriteTopology(c) \/ Conflict(c) \/ KeepTopology(c)
    \/ PlaceOnNewMachine(c) \/ Raise(c) \/ ReadUnits(c) \/ Die(c)

Spec == Init /\ [][Next]_vars
-----------------------------------------------------------------------------
Request ==
    {AddMachine(m) : m \in MachineId} \cup {RemoveMachine(m) : m \in MachineId} \cup
    {AddService(s, n) : s \in ServiceId, n \in ServiceName} \cup
    {RemoveService(s) : s \in ServiceId} \cup {ListUnits(s) : s \in ServiceId} \cup
    {AddUnit(s, u, p) : s \in ServiceId, u \in UnitId, p \in UnitId \cup {None}} \cup
    {RemoveUnit(s, u) : s \in ServiceId, u \in UnitId} \cup
    {AssignUnit(s, u, m) : s \in ServiceId, u \in UnitId, m \in MachineId} \cup
    {AssignUnusedUnit(s, u) : s \in ServiceId, u \in UnitId} \cup
    {UnassignUnit(s, u) : s \in ServiceId, u \in UnitId} \cup
    {AddRelation(r, eps, f) : r \in RelationId, eps \in EndpointLists,
                              f \in [{1} -> ServiceId] \cup [{1, 2} -> ServiceId]} \cup
    {RemoveRelation(r) : r \in RelationId}

\* The types of the clients' state: agendas hold requests on ids that exist.
TypeOK ==
    /\ Atomic!TypeOK
    /\ created \in [machine : SUBSET MachineId, service : SUBSET ServiceId,
                    unit : SUBSET UnitId, relation : SUBSET RelationId]
    /\ \A c \in Client : agenda[c] \in Seq(Request)
    /\ content \in [Client -> TopologyType \cup {None}]
    /\ current \subseteq Client

\* No update is lost and none is applied to a stale topology: whatever the
\* clients do, /topology changes as if every change were atomic, with the
\* service ids of a new relation looked up at that moment.
ImplementsAtomicTopology == Atomic!Spec

\* A machine handed out by assign_to_unused_machine has no unit at the moment
\* of the assignment, although the machines were read earlier.
ReusedMachinesAreUnused ==
    [][\A c \in Client, u \in UnitId :
         /\ ~Idle(c) /\ Change(c).change = "assign_unused_unit" /\ agenda'[c] # agenda[c]
         /\ topology'.units[u] # topology.units[u]
         => ~machine_has_units(topology, topology'.units[u].machine)]_vars
=============================================================================
