---------------------------- MODULE StatusReport ----------------------------
(***************************************************************************)
(* What "juju status" (juju/control/status.py) makes of a topology: which  *)
(* services, units and machines it shows and where, for a scope that       *)
(* filters services and units.  The command reads the topology once for    *)
(* each thing it asks; here it reads one topology throughout.              *)
(*                                                                         *)
(* A glob of the scope stands for the set of names it matches.             *)
(***************************************************************************)
EXTENDS AtomicTopology, FiniteSets

\* The scope of a command: each filter is None or the set of what matches it.
Scopes ==
    [services : {{n} : n \in ServiceName} \cup {None}, units : {{u} : u \in UnitId} \cup {None}]

Everything == [services |-> None, units |-> None]

-----------------------------------------------------------------------------
(* What the state objects tell *)

get_all_service_states(t) == {s \in ServiceId : has_service(t, s)}

get_service_unit_principal(t, u) == t.units[u].container

\* Mutant of get_container: the error of a container that is gone is not caught.
get_container_or_raise(t, u) == get_service_unit_principal(t, u)

\* None, too, when the topology no longer knows the container.
get_container(t, u) ==
    LET c == get_service_unit_principal(t, u)
    IN  IF c # None /\ t.units[c] # None THEN c ELSE None

\* The machine of a unit in a container is that of its principal.
get_assigned_machine_id(t, u) ==
    LET machine[v \in {w \in UnitId : t.units[w] # None}] ==
            IF t.units[v].machine # None THEN t.units[v].machine
            ELSE IF get_container(t, v) # None THEN machine[get_container(t, v)]
            ELSE None
    IN  machine[u]

get_service_states(t, r) == {s \in ServiceId : relation_has_service(t, r, s)}

-----------------------------------------------------------------------------
(* Pass 1 *)

Matches(filter, x) == filter = None \/ x \in filter

_process_services(t, scope) ==
    {s \in get_all_service_states(t) : Matches(scope.services, t.services[s])}

_process_units(t, scope, s) == {u \in get_service_units(t, s) : Matches(scope.units, u)}

\* Mutant of _process_service: a service none of whose units match is kept.
_process_service_anyway(t, scope, s) == TRUE

\* A unit filter that no unit of a service matches takes the service out.
_process_service(t, scope, s) == scope.units = None \/ _process_units(t, scope, s) # {}

service_data(t, scope) == {s \in _process_services(t, scope) : _process_service(t, scope, s)}

unit_data(t, scope) == UNION {_process_units(t, scope, s) : s \in _process_services(t, scope)}

\* The service at the other end; the only one of a peer relation.
rel_services(t, s, r) ==
    IF Cardinality(get_service_states(t, r)) > 1
    THEN get_service_states(t, r) \ {s} ELSE get_service_states(t, r)

\* "Unexpected relationship with more than 2 endpoints", or none at all.
_process_relation_map_raises(t, s) ==
    \E r \in get_relations_for_service(t, s) : Cardinality(rel_services(t, s, r)) # 1

\* For each relation name the names of the services at the other ends.
_process_relations(t, s) ==
    [n \in {t.relations[r].services[s].name : r \in get_relations_for_service(t, s)} |->
        {t.services[s2] : s2 \in UNION {rel_services(t, s, r) :
            r \in {q \in get_relations_for_service(t, s) : t.relations[q].services[s].name = n}}}]

seen_machines(t, scope) == {get_assigned_machine_id(t, u) : u \in unit_data(t, scope)}

-----------------------------------------------------------------------------
(* Pass 2 *)

\* The services that had a unit in a container.
subordinates(t, scope) ==
    {t.units[u].service : u \in {v \in unit_data(t, scope) : get_container(t, v) # None}}

\* The unit of a container must have been gathered too: KeyError.
_process_subordinates_raises(t, scope) ==
    \E u \in unit_data(t, scope) :
        get_container(t, u) \notin unit_data(t, scope) \cup {None}

\* What is shown under unit c, and directly under service s: nothing, once a
\* unit of the service was found in a container.
nested_units(t, scope, c) == {u \in unit_data(t, scope) : get_container(t, u) = c}

top_units(t, scope, s) ==
    IF s \in subordinates(t, scope) THEN {}
    ELSE {u \in unit_data(t, scope) : t.units[u].service = s /\ get_container(t, u) = None}

_process_machines(t, scope) ==
    {m \in t.machines : scope = Everything \/ m \in seen_machines(t, scope)}

status_raises(t, scope) ==
    \/ \E s \in _process_services(t, scope) : _process_relation_map_raises(t, s)
    \/ _process_subordinates_raises(t, scope)

status(t, scope) ==
    [services |-> [s \in service_data(t, scope) |->
                      [units |-> top_units(t, scope, s), relations |-> _process_relations(t, s)]],
     units |-> [u \in unit_data(t, scope) |-> nested_units(t, scope, u)],
     machines |-> _process_machines(t, scope)]

-----------------------------------------------------------------------------

\* How often unit u is shown: under its service and under other units.
Places(report, u) ==
    {s \in DOMAIN report.services : u \in report.services[s].units}
        \cup {<<c>> : c \in {v \in DOMAIN report.units : u \in report.units[v]}}

\* A unit whose principal was removed before it.
Orphan(t, u) == t.units[u].container # None /\ get_container(t, u) = None

\* Without a scope the command succeeds on every topology, and shows every
\* unit in one place and the machine it is on; only a unit whose principal was
\* removed may be missing, when another unit of its service still has one
\* (status.py:479).
StatusShowsEveryUnit ==
    /\ ~status_raises(topology, Everything)
    /\ LET report == status(topology, Everything)
       IN  \A u \in UnitId : topology.units[u] # None =>
             /\ Cardinality(Places(report, u)) \in
                  IF Orphan(topology, u) THEN {0, 1} ELSE {1}
             /\ get_assigned_machine_id(topology, u) \in report.machines \cup {None}

\* A scope that holds the principals of the units it holds shows what the
\* whole report shows of its units, their services and their machines, no
\* more and no less; for any other scope the command fails with a KeyError
\* (status.py:467).
ScopedStatusAgrees == \A scope \in Scopes \ {Everything} :
    LET inside == {u \in UnitId : topology.units[u] # None
                      /\ Matches(scope.units, u)
                      /\ Matches(scope.services, topology.services[topology.units[u].service])}
        closed == \A u \in inside : get_container(topology, u) \in inside \cup {None}
        whole  == status(topology, Everything)
        report == status(topology, scope)
    IN  /\ status_raises(topology, scope) <=> ~closed
        /\ closed =>
             /\ DOMAIN report.units = inside
             /\ \A u \in inside : report.units[u] = whole.units[u] \cap inside
             /\ scope.units # None =>
                  DOMAIN report.services = {topology.units[u].service : u \in inside}
             /\ \A s \in DOMAIN report.services :
                  whole.services[s].units \cap inside \subseteq report.services[s].units
             /\ report.machines = {get_assigned_machine_id(topology, u) : u \in inside} \ {None}
=============================================================================
