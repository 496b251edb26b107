------------------------------ MODULE Topology ------------------------------
(***************************************************************************)
(* The /topology node of a juju environment and the mutators of            *)
(* juju.state.topology.InternalTopology.                                   *)
(*                                                                         *)
(* A topology is a value: the code parses the YAML of the node, mutates    *)
(* the parsed dictionaries and dumps them again.  A mutator is therefore   *)
(* an operator from a topology to the SET of the topologies it can return: *)
(* one when it succeeds, none when it raises an exception (the caller then *)
(* drops the half-changed copy, so what it holds is of no consequence).    *)
(*                                                                         *)
(* Dictionaries whose keys come and go are total functions that map an     *)
(* absent key to None.  A unit is kept under its id with its service in a  *)
(* field, where the code nests it under its service.                       *)
(***************************************************************************)
EXTENDS Integers

CONSTANTS
    MachineId,    \* sequence numbers of /machines/machine-*
    ServiceId,    \* sequence numbers of /services/service-*
    UnitId,       \* sequence numbers of /units/unit-*
    RelationId,   \* sequence numbers of /relations/relation-*
    ServiceName,  \* names users give to services
    Interface,    \* relation types
    RelationName, \* names charms give to their relations
    None          \* Python's None, and an absent dictionary key

ASSUME IdAssumption ==
    /\ MachineId \subseteq Nat /\ ServiceId \subseteq Nat
    /\ UnitId \subseteq Nat /\ RelationId \subseteq Nat
    /\ 0 \in MachineId

ASSUME NoneAssumption ==
    /\ None \notin MachineId /\ None \notin ServiceId
    /\ None \notin UnitId /\ None \notin RelationId
    /\ None \notin ServiceName

\* The machine of the provisioning agent, "machine-%010d" % 0.
RootMachine == 0

Role == {"client", "server", "peer"}
Scope == {"global", "container"}

\* juju.state.endpoint.RelationEndpoint: one end of a relation, as users name it.
RelationEndpoint ==
    [service_name : ServiceName, relation_type : Interface,
     relation_name : RelationName, relation_role : Role, relation_scope : Scope]

Unit == [service : ServiceId, sequence : Nat,
         container : UnitId \cup {None}, machine : MachineId \cup {None}]

Relation ==
    [interface : Interface, scope : Scope,
     services : [ServiceId -> [name : RelationName, role : Role] \cup {None}]]

\* What a dictionary holds is not None.
ASSUME EntryAssumption ==
    None \notin Unit /\ None \notin Relation /\ None \notin [name : RelationName, role : Role]

TopologyType ==
    [machines : SUBSET MachineId,
     services : [ServiceId -> ServiceName \cup {None}],
     units : [UnitId -> Unit \cup {None}],
     unit_sequence : [ServiceName -> Nat],
     relations : [RelationId -> Relation \cup {None}]]

\* What juju.state.initialize leaves behind: the bootstrap machine only.
InitialTopology ==
    [machines |-> {RootMachine},
     services |-> [s \in ServiceId |-> None],
     units |-> [u \in UnitId |-> None],
     unit_sequence |-> [n \in ServiceName |-> 0],
     relations |-> [r \in RelationId |-> None]]

\* The outcome of a mutator that returns t when its checks pass and raises
\* otherwise.
Unless_raised(checks, t) == IF checks THEN {t} ELSE {}
-----------------------------------------------------------------------------
(* Queries *)

has_machine(t, m) == m \in t.machines
has_service(t, s) == s \in ServiceId /\ t.services[s] # None
has_relation(t, r) == t.relations[r] # None

has_service_unit(t, s, u) ==
    has_service(t, s) /\ t.units[u] # None /\ t.units[u].service = s

get_service_units(t, s) == {u \in UnitId : has_service_unit(t, s, u)}

get_service_units_in_machine(t, m) ==
    {u \in UnitId : t.units[u] # None /\ t.units[u].machine = m}

machine_has_units(t, m) == get_service_units_in_machine(t, m) # {}

\* The id of the named service, or None.
find_service_with_name(t, name) ==
    IF \E s \in ServiceId : t.services[s] = name
    THEN CHOOSE s \in ServiceId : t.services[s] = name
    ELSE None

\* The name users see, "%s/%s" % (service_name, sequence).
get_service_unit_name(t, u) ==
    <<t.services[t.units[u].service], t.units[u].sequence>>

relation_has_service(t, r, s) ==
    t.relations[r] # None /\ t.relations[r].services[s] # None

get_relations_for_service(t, s) ==
    {r \in RelationId : relation_has_service(t, r, s)}

\* Mutant of joins_endpoints: takes the interface for the relation's name.
joins_endpoints_by_type(t, r, endpoints) ==
    /\ has_relation(t, r)
    /\ \A i \in DOMAIN endpoints :
        LET e == endpoints[i]
            s == find_service_with_name(t, e.service_name)
        IN  /\ s # None
            /\ relation_has_service(t, r, s)
            /\ t.relations[r].services[s].name = e.relation_type
            /\ t.relations[r].scope = e.relation_scope

\* Does relation r join all the endpoints?  The scope a relation has is
\* compared with the scope of every endpoint.
joins_endpoints(t, r, endpoints) ==
    /\ has_relation(t, r)
    /\ \A i \in DOMAIN endpoints :
        LET e == endpoints[i]
            s == find_service_with_name(t, e.service_name)
        IN  /\ s # None
            /\ relation_has_service(t, r, s)
            /\ t.relations[r].services[s].name = e.relation_name
            /\ t.relations[r].scope = e.relation_scope

has_relation_between_endpoints(t, endpoints) ==
    \E r \in RelationId : joins_endpoints(t, r, endpoints)

\* The relations of which the code returns the first it meets: those between
\* the endpoints, whatever their scopes.
get_relation_between_endpoints(t, endpoints) ==
    {r \in RelationId :
       /\ has_relation(t, r)
       /\ t.relations[r].interface = endpoints[1].relation_type
       /\ \A i \in DOMAIN endpoints :
            LET s == find_service_with_name(t, endpoints[i].service_name)
            IN  /\ s # None
                /\ relation_has_service(t, r, s)
                /\ t.relations[r].services[s].name = endpoints[i].relation_name}
-----------------------------------------------------------------------------
(* Mutators *)

add_machine(t, m) ==
    Unless_raised(~has_machine(t, m), [t EXCEPT !.machines = @ \cup {m}])

remove_machine(t, m) ==
    Unless_raised(has_machine(t, m) /\ ~machine_has_units(t, m),
                  [t EXCEPT !.machines = @ \ {m}])

\* Mutant of add_service: numbers the units of a name from 0 again.
add_service_resetting_sequence(t, s, name) ==
    Unless_raised(/\ ~has_service(t, s)
                  /\ \A s2 \in ServiceId : t.services[s2] # name,
                  [t EXCEPT !.services[s] = name, !.unit_sequence[name] = 0])

\* The sequence of a name survives the service: only a missing entry is set
\* to 0, and the function holds 0 for a missing entry.
add_service(t, s, name) ==
    Unless_raised(/\ ~has_service(t, s)
                  /\ \A s2 \in ServiceId : t.services[s2] # name,
                  [t EXCEPT !.services[s] = name])

\* Mutant of remove_service: does not look for relations of the service.
remove_service_in_use(t, s) ==
    Unless_raised(has_service(t, s),
                  [t EXCEPT !.services[s] = None,
                            !.units = [u \in UnitId |->
                                IF has_service_unit(t, s, u) THEN None ELSE @[u]]])

\* Deleting the service's dictionary deletes the units nested in it.
remove_service(t, s) ==
    Unless_raised(/\ has_service(t, s)
                  /\ get_relations_for_service(t, s) = {},
                  [t EXCEPT !.services[s] = None,
                            !.units = [u \in UnitId |->
                                IF has_service_unit(t, s, u) THEN None
                                                             ELSE @[u]]])

\* A subordinate unit needs a container-scoped relation between its service
\* and the service of the principal unit it lives in.
has_container_relation(t, s, principal) ==
    /\ t.units[principal] # None
    /\ \E r \in get_relations_for_service(t, s) :
        /\ relation_has_service(t, r, t.units[principal].service)
        /\ t.relations[r].scope = "container"

add_service_unit(t, s, u, container) ==
    Unless_raised(/\ has_service(t, s)
                  /\ t.units[u] = None
                  /\ container # None => has_container_relation(t, s, container),
                  [t EXCEPT !.units[u] = [service   |-> s,
                                          sequence  |-> t.unit_sequence[t.services[s]],
                                          container |-> container,
                                          machine   |-> None],
                            !.unit_sequence[t.services[s]] = @ + 1])

remove_service_unit(t, s, u) ==
    Unless_raised(has_service_unit(t, s, u), [t EXCEPT !.units[u] = None])

assign_service_unit_to_machine(t, s, u, m) ==
    Unless_raised(/\ has_service_unit(t, s, u)
                  /\ has_machine(t, m)
                  /\ t.units[u].machine = None,
                  [t EXCEPT !.units[u].machine = m])

unassign_service_unit_from_machine(t, s, u) ==
    Unless_raised(has_service_unit(t, s, u) /\ t.units[u].machine # None,
                  [t EXCEPT !.units[u].machine = None])

add_relation(t, r, interface, scope) ==
    Unless_raised(~has_relation(t, r),
                  [t EXCEPT !.relations[r] =
                      [interface |-> interface, scope |-> scope,
                       services |-> [s \in ServiceId |-> None]]])

remove_relation(t, r) ==
    Unless_raised(has_relation(t, r), [t EXCEPT !.relations[r] = None])

\* Neither the service nor another service in its role may be in the relation.
assign_service_to_relation(t, r, s, name, role) ==
    Unless_raised(/\ has_service(t, s)
                  /\ has_relation(t, r)
                  /\ \A s2 \in ServiceId :
                        relation_has_service(t, r, s2) =>
                            s2 # s /\ t.relations[r].services[s2].role # role,
                  [t EXCEPT !.relations[r].services[s] =
                      [name |-> name, role |-> role]])
=============================================================================
