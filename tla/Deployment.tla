----------------------------- MODULE Deployment -----------------------------
(***************************************************************************)
(* The commands that bring units into being.  deploy publishes a charm     *)
(* (juju/charm/publisher.py), adds a service for it and its first unit;    *)
(* add-unit adds units; set-constraints sets constraints on the            *)
(* environment or a service.  Constraints are frozen into a unit when it   *)
(* is added, and into a machine when one is added for the unit; a unit is  *)
(* placed on an unused machine whose constraints can satisfy the unit's    *)
(* (juju/state/placement.py).  Commands interleave between their reads and *)
(* writes and may die.  A change of the topology is one step here; its own *)
(* races are modelled in StateManagers.                                    *)
(***************************************************************************)
EXTENDS Constraints

CONSTANTS Gone, Client, Service, Unit, Machine, Typed,
          default_series,   \* of the environment's configuration
          Charm,     \* the charms, each with its series
          Content,   \* checksums: what a charm may contain in a repository
          MaxSets    \* bound: how often constraints are set or deploy is called

RootMachine == 0
NoData == [n \in {} |-> None]

ASSUME DeploymentAssumption ==
    /\ Machine \subseteq Nat /\ RootMachine \in Machine
    /\ Charm \in [DOMAIN Charm -> Series] /\ default_series \in Series
    /\ Gone # None /\ None \notin Content
    /\ \A S \in SUBSET names :
          /\ None \notin [data : DataOn(S), typed : Typed, charm : DOMAIN Charm, sha : Content]
          /\ None \notin [data : DataOn(S), charm : DOMAIN Charm,
                          typed : [env : Typed \cup {NoData}, service : Typed]]

VARIABLES
    environment,  \* the node /constraints with what was typed (history); None
                  \* in an environment from before constraints
    charms,       \* the node of each charm: the checksum it was published with
    storage,      \* the bundles in the provider's storage
    services,     \* the node of each service, or None
    units,        \* the node of each unit: its constraints, and history of
                  \* what was typed where; None before it is added, Gone after
    machines,     \* the node of each machine: its constraints, None, or Gone
    assigned,     \* the topology: the machine of each unit, or None
    client,       \* what each command is doing
    sets

published == <<charms, storage>>
vars == <<environment, published, services, units, machines, assigned, client, sets>>

Idle == [pc |-> "idle"]
Live(x) == x \notin {None, Gone}
has_units(m) == \E u \in Unit : assigned[u] = m
Goto(c, state) == client' = [client EXCEPT ![c] = state]

\* EnvironmentStateManager.set_constraints
environment_data(data) == [n \in DOMAIN data \ {"ubuntu-series"} |-> data[n]]

\* bootstrap: the first machine and the environment get the same constraints,
\* with the environment's default series; or the code was older.
Init ==
    /\ \/ \E typed \in Typed : \E data \in parse(typed) :
            /\ machines = [m \in Machine |->
                   IF m = RootMachine THEN with_series(data, default_series) ELSE None]
            /\ environment = [data |-> environment_data(with_series(data, default_series)),
                              typed |-> typed]
       \/ /\ machines = [m \in Machine |-> IF m = RootMachine THEN NoData ELSE None]
          /\ environment = None
    /\ charms = [k \in DOMAIN Charm |-> None] /\ storage = {}
    /\ services = [s \in Service |-> None]
    /\ units = [u \in Unit |-> None] /\ assigned = [u \in Unit |-> None]
    /\ client = [c \in Client |-> Idle] /\ sets = 0

get_in_legacy_environment == environment = None

\* Constraints are refused in an environment from before constraints, and
\* configuration keys they replace are refused in any other.
check_constraints(typed) == typed = NoData \/ ~get_in_legacy_environment
check_environment == DefaultInstanceType = None \/ get_in_legacy_environment

-----------------------------------------------------------------------------
(* set-constraints *)

Sets == sets < MaxSets /\ sets' = sets + 1

\* At least one constraint is named.
SetEnvironment(typed) ==
    /\ Sets /\ typed # NoData /\ check_constraints(typed)
    /\ \E data \in parse(typed) :
         environment' = [data |-> environment_data(data), typed |-> typed]
    /\ UNCHANGED <<published, services, units, machines, assigned, client>>

\* The series is the one of the service's charm, whatever is set.
SetService(s, typed) ==
    /\ Sets /\ typed # NoData /\ check_constraints(typed)
    /\ services[s] # None
    /\ \E data \in parse(typed) :
         services' = [services EXCEPT ![s].data = with_series(data, Charm[services[s].charm]),
                                      ![s].typed = typed]
    /\ UNCHANGED <<environment, published, units, machines, assigned, client>>

-----------------------------------------------------------------------------
(* deploy *)

\* The charm found in the user's repository has some content.  add_charm looks
\* whether the charm is published already.
Deploy(c, s, typed, k, sha) ==
    /\ Sets /\ client[c] = Idle
    /\ check_constraints(typed) /\ check_environment
    /\ \E data \in parse(typed) :
         Goto(c, [pc |-> IF charms[k] # None THEN "add_service" ELSE "put", service |-> s,
                  data |-> data, typed |-> typed, charm |-> k, sha |-> sha])
    /\ UNCHANGED <<environment, published, services, units, machines, assigned>>

\* The name under which a bundle is stored holds its checksum.
_publish_one(c) ==
    /\ client[c].pc = "put"
    /\ storage' = storage \cup {<<client[c].charm, client[c].sha>>}
    /\ Goto(c, [client[c] EXCEPT !.pc = "create"])
    /\ UNCHANGED <<environment, charms, services, units, machines, assigned, sets>>

\* Mutant of add_charm_state: the node of another upload is overwritten.
add_charm_state_over(c) ==
    /\ client[c].pc = "create"
    /\ charms' = [charms EXCEPT ![client[c].charm] = client[c].sha]
    /\ Goto(c, [client[c] EXCEPT !.pc = "add_service"])
    /\ UNCHANGED <<environment, storage, services, units, machines, assigned, sets>>

add_charm_state(c) ==
    /\ client[c].pc = "create" /\ charms[client[c].charm] = None
    /\ charms' = [charms EXCEPT ![client[c].charm] = client[c].sha]
    /\ Goto(c, [client[c] EXCEPT !.pc = "add_service"])
    /\ UNCHANGED <<environment, storage, services, units, machines, assigned, sets>>

\* NodeExists.  The checksum is compared with a deferred, which it never
\* equals: also an upload of the same content ends the command.
_eb_verify_duplicate(c) ==
    /\ client[c].pc = "create" /\ charms[client[c].charm] # None
    /\ Goto(c, Idle)
    /\ UNCHANGED <<environment, published, services, units, machines, assigned, sets>>

\* Then the first unit is added.  A name that is in use ends the command.
AddServiceState(c) ==
    /\ client[c].pc = "add_service"
    /\ \E s \in {client[c].service}, k \in {client[c].charm} :
         IF services[s] # None THEN Goto(c, Idle) /\ UNCHANGED services
         ELSE /\ services' = [services EXCEPT ![s] =
                    [data |-> with_series(client[c].data, Charm[k]),
                     typed |-> client[c].typed, charm |-> k, sha |-> charms[k]]]
              /\ Goto(c, [pc |-> "environment", service |-> s])
    /\ UNCHANGED <<environment, published, units, machines, assigned, sets>>

-----------------------------------------------------------------------------
(* add-unit *)

AddUnit(c, s) ==
    /\ client[c] = Idle /\ services[s] # None /\ check_environment
    /\ Goto(c, [pc |-> "environment", service |-> s])
    /\ UNCHANGED <<environment, published, services, units, machines, assigned, sets>>

\* The constraints of the environment are read, then the service's.
ReadEnvironment(c) ==
    /\ client[c].pc = "environment"
    /\ Goto(c, [pc |-> "service", service |-> client[c].service,
                env |-> IF environment = None THEN [data |-> NoData, typed |-> NoData]
                        ELSE environment])
    /\ UNCHANGED <<environment, published, services, units, machines, assigned, sets>>

get_constraints(env, service) == update(env, service)

\* The unit gets a frozen copy of both.
AddUnitState(c, u) ==
    /\ client[c].pc = "service" /\ units[u] = None
    /\ \A v \in Unit : units[v] = None => u <= v
    /\ \E service \in {services[client[c].service]} :
         units' = [units EXCEPT ![u] =
            [data  |-> get_constraints(client[c].env.data, service.data),
             typed |-> [env |-> client[c].env.typed, service |-> service.typed],
             charm |-> service.charm]]
    /\ Goto(c, [pc |-> "place", unit |-> u])
    /\ UNCHANGED <<environment, published, services, machines, assigned, sets>>

\* Placement policy "local"; that the constraints do not match is only logged.
_local_placement(c) ==
    /\ client[c].pc = "place" /\ Live(units[client[c].unit])
    /\ assigned' = [assigned EXCEPT ![client[c].unit] = RootMachine]
    /\ Goto(c, Idle)
    /\ UNCHANGED <<environment, published, services, units, machines, sets>>

unused_machines == {m \in Machine \ {RootMachine} : Live(machines[m]) /\ ~has_units(m)}

suitable(u) == {m \in unused_machines : can_satisfy(machines[m], units[u].data)}

\* The first unused machine that can satisfy the unit.
assign_to_unused_machine(c) ==
    /\ client[c].pc = "place" /\ Live(units[client[c].unit])
    /\ \E m \in suitable(client[c].unit) :
         /\ \A m2 \in suitable(client[c].unit) : m <= m2
         /\ assigned' = [assigned EXCEPT ![client[c].unit] = m]
    /\ Goto(c, Idle)
    /\ UNCHANGED <<environment, published, services, units, machines, sets>>

\* NoUnusedMachines: a machine is added with the constraints of the unit,
\* which must be complete.
add_machine_state(c, m) ==
    /\ client[c].pc = "place" /\ Live(units[client[c].unit])
    /\ suitable(client[c].unit) = {}
    /\ machines[m] = None /\ \A m2 \in Machine : machines[m2] = None => m <= m2
    /\ complete(units[client[c].unit].data)
    /\ machines' = [machines EXCEPT ![m] = units[client[c].unit].data]
    /\ Goto(c, [pc |-> "assign", unit |-> client[c].unit, machine |-> m])
    /\ UNCHANGED <<environment, published, services, units, assigned, sets>>

\* Meanwhile the machine may have been given to another unit: both share it.
assign_to_machine(c) ==
    /\ client[c].pc = "assign"
    /\ Live(units[client[c].unit]) /\ Live(machines[client[c].machine])
    /\ assigned' = [assigned EXCEPT ![client[c].unit] = client[c].machine]
    /\ Goto(c, Idle)
    /\ UNCHANGED <<environment, published, services, units, machines, sets>>

\* The unit or the machine was removed: the command ends with an error.
PlacementFails(c) ==
    /\ client[c].pc \in {"place", "assign"}
    /\ \/ ~Live(units[client[c].unit])
       \/ client[c].pc = "assign" /\ ~Live(machines[client[c].machine])
    /\ Goto(c, Idle)
    /\ UNCHANGED <<environment, published, services, units, machines, assigned, sets>>

RemoveUnitState(u) ==
    /\ Live(units[u])
    /\ units' = [units EXCEPT ![u] = Gone]
    /\ assigned' = [assigned EXCEPT ![u] = None]
    /\ UNCHANGED <<environment, published, services, machines, client, sets>>

RemoveMachineState(m) ==
    /\ m # RootMachine /\ Live(machines[m]) /\ ~has_units(m)
    /\ machines' = [machines EXCEPT ![m] = Gone]
    /\ UNCHANGED <<environment, published, services, units, assigned, client, sets>>

\* The process of a command is killed.
Die(c) ==
    /\ client[c] # Idle /\ Goto(c, Idle)
    /\ UNCHANGED <<environment, published, services, units, machines, assigned, sets>>

Next ==
    \/ \E typed \in Typed : SetEnvironment(typed)
    \/ \E typed \in Typed, s \in Service : SetService(s, typed)
    \/ \E c \in Client, s \in Service, typed \in Typed, k \in DOMAIN Charm, sha \in Content :
          Deploy(c, s, typed, k, sha)
    \/ \E c \in Client : _publish_one(c) \/ add_charm_state(c) \/ _eb_verify_duplicate(c)
                          \/ AddServiceState(c)
    \/ \E c \in Client, s \in Service : AddUnit(c, s)
    \/ \E c \in Client : ReadEnvironment(c)
    \/ \E c \in Client, u \in Unit : AddUnitState(c, u)
    \/ \E c \in Client : _local_placement(c) \/ assign_to_unused_machine(c)
    \/ \E c \in Client, m \in Machine : add_machine_state(c, m)
    \/ \E c \in Client : assign_to_machine(c) \/ PlacementFails(c) \/ Die(c)
    \/ \E u \in Unit : RemoveUnitState(u)
    \/ \E m \in Machine : RemoveMachineState(m)

Spec == Init /\ [][Next]_vars

-----------------------------------------------------------------------------

\* get-constraints
constraints_get(data) == [n \in names |-> Get(data, n)]

\* What a level says of a name: typed, cleared by what it conflicts with, or
\* nothing.
Says(typed, n) ==
    IF n \in DOMAIN typed THEN {convert(n, raw_value(n, typed[n]))}
    ELSE IF \E n2 \in DOMAIN typed : n \in conflicts[n2] /\ raw_value(n2, typed[n2]) # None
    THEN {None} ELSE {}

\* A unit shows for each name what its service said of it when the unit was
\* added, else what the environment said, else juju's default: a name that is
\* set clears, at every lower level, the names it conflicts with, so that cpu
\* or mem and instance-type are never set together and the instance type never
\* hides a cpu or mem that was asked for.
OverridesHonoured == \A u \in Unit : Live(units[u]) =>
    \A n \in names \ Computed :
        LET service == Says(units[u].typed.service, n)
            env     == Says(units[u].typed.env, n)
        IN  constraints_get(units[u].data)[n] \in
                IF service # {} THEN service
                ELSE IF env # {} THEN env ELSE {convert(n, default[n])}

\* A unit that was not forced onto the bootstrap machine is on a machine whose
\* EC2 instance has the series of the unit's charm, the architecture and zone
\* and at least the cpu and memory that the unit asks for, or is of the type
\* it asks for: also when the machine was added for another unit, when the
\* constraints have changed since, and when two commands chose one machine.
UnitsFitInstances == \A u \in Unit :
    (DefaultInstanceType = None /\ Live(units[u]) /\ assigned[u] \notin {None, RootMachine}) =>
        LET spec  == get_machine_spec(machines[assigned[u]])
            wants == constraints_get(units[u].data)
        IN  /\ spec.series = Charm[units[u].charm]
            /\ wants["arch"] \in {None, spec.arch}
            /\ wants["ec2-zone"] \in {None, spec.zone}
            /\ wants["instance-type"] \in {None, spec.instance_type}
            /\ spec.instance_type # None =>
                 /\ wants["cpu"] # None => INSTANCE_TYPES[spec.instance_type].cpu >= wants["cpu"]
                 /\ wants["mem"] # None => INSTANCE_TYPES[spec.instance_type].mem >= wants["mem"]

\* The charm of every service is published, and the bundle in storage is the
\* one that was published when the service was added, whoever else uploads the
\* charm from a repository of their own and wherever a command dies.
ServicesHaveTheirCharm == \A s \in Service : services[s] # None =>
    /\ charms[services[s].charm] = services[s].sha
    /\ <<services[s].charm, services[s].sha>> \in storage
=============================================================================
