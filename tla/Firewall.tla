------------------------------ MODULE Firewall ------------------------------
(***************************************************************************)
(* The firewall manager (juju/state/firewall.py): the ports open on a      *)
(* machine are to be those its units of exposed services ask for.          *)
(*                                                                         *)
(* It hears of changes through watches that set other watches: services,   *)
(* then the exposed flag of each, then its units once it is exposed, then  *)
(* the ports of each unit; and the units assigned to each machine.  A      *)
(* callback is a list of steps; the first callback of a watch runs inside  *)
(* the callback that sets it.  StopWatcher, raised by a step, ends the     *)
(* innermost watch whose callback it is part of.                           *)
(***************************************************************************)
EXTENDS Naturals, SequencesExt

CONSTANTS
    Service, Unit, Machine, Port,
    ServiceOf,     \* the service of each unit
    MaxExposed,    \* bound: times a service is exposed
    MaxChanges,    \* bound: changes to flags and ports, removals, provider errors together
    MaxPasses,     \* bound: machines whose ports are being set at one time
    None

ASSUME FirewallAssumption ==
    /\ ServiceOf \in [Unit -> Service]
    /\ MaxExposed \in Nat /\ MaxChanges \in Nat /\ MaxPasses \in Nat \ {0}

VARIABLES
    services, units, \* what /topology has
    removed,         \* units removed or being removed: none returns
    assigned,        \* the machine of each unit, or None
    exposed,         \* services with an exposed node
    exposures,       \* times each service was exposed
    wanted,          \* the ports node of each unit
    changes,         \* changes to flags and ports, removals and provider errors so far
    provisioned,     \* machines with an instance
    opened,          \* the provider: ports open on each machine
    watched_services,  \* None, 0 for NotExposed, or which of watched_units is current
    watched_units,     \* the sets of exposed units of a service, one per exposure
    old_units,         \* units in the _old_topology of the service's state
    watched_machines,
    old_assigned,      \* _WatchAssignedUnits._old_units of each machine
    retry,             \* _retry_machines_on_port_error
    armed,             \* watches whose callback is set
    due,               \* watches whose node changed since it was last read
    todo,              \* the steps left of each watch's callback
    cut,               \* history: services whose flag is no longer watched
    missed             \* history: services exposed again whose units went unnoticed

topology == <<services, units, removed, assigned>>
settings == <<exposed, exposures, wanted>>
provider == <<provisioned, opened>>
manager  == <<watched_services, watched_units, old_units, watched_machines,
              old_assigned, retry>>
history  == <<cut, missed>>
watches  == <<armed, due, todo, history>>
vars     == <<topology, settings, changes, provider, manager, watches>>

\* The watches: of the services; of a service's flag; of its units and of a
\* unit's ports, for each exposure; of the units of a machine; and the call by
\* which the provisioning agent has a machine checked, which is like a callback.
Exposure == 1..MaxExposed
ServicesWatch == <<"services">>
FlagWatch(s) == <<"flag", s>>
UnitsWatch(s, g) == <<"units", s, g>>
PortsWatch(u, g) == <<"ports", u, g>>
MachineWatch(m) == <<"machine", m>>
Check == <<"check">>
Watch == {ServicesWatch, Check} \cup {FlagWatch(s) : s \in Service}
         \cup {UnitsWatch(s, g) : s \in Service, g \in Exposure}
         \cup {PortsWatch(u, g) : u \in Unit, g \in Exposure}
         \cup {MachineWatch(m) : m \in Machine}

UnitsOf(s) == {u \in units : ServiceOf[u] = s}
UnitsOn(m) == {u \in units : assigned[u] = m}

Init ==
    /\ services = Service /\ units = {} /\ removed = {}
    /\ assigned = [u \in Unit |-> None]
    /\ exposed = {} /\ exposures = [s \in Service |-> 0]
    /\ wanted = [u \in Unit |-> {}] /\ changes = 0
    /\ provisioned = {} /\ opened = [m \in Machine |-> {}]
    /\ watched_services = [s \in Service |-> None]
    /\ watched_units = [s \in Service |-> <<>>]
    /\ old_units = [s \in Service |-> {}]
    /\ watched_machines = {} /\ old_assigned = [m \in Machine |-> {}] /\ retry = {}
    /\ armed = {ServicesWatch} /\ due = {ServicesWatch}
    /\ todo = [w \in Watch |-> <<>>] /\ cut = {} /\ missed = {}
-----------------------------------------------------------------------------
(* Commands and unit agents *)

Change == changes < MaxChanges /\ changes' = changes + 1

\* The watches there are: an event of any other is of no consequence.
Arm(w) == <<"arm", w>>
Placed == armed \cup {w \in Watch : \E v \in Watch : Arm(w) \in Range(todo[v])}
Tell(ws) == due' = due \cup (ws \cap Placed)
UnitsWatches(s) == {UnitsWatch(s, g) : g \in Exposure}

add_unit_state ==
    /\ \E u \in Unit \ (units \cup removed) :
          /\ ServiceOf[u] \in services
          /\ units' = units \cup {u}
          /\ Tell(UnitsWatches(ServiceOf[u]))
    /\ UNCHANGED <<services, removed, assigned, settings, changes, provider, manager,
                   armed, todo, history>>

assign_to_machine ==
    /\ \E u \in units, m \in Machine :
          /\ assigned[u] = None /\ u \notin removed
          /\ assigned' = [assigned EXCEPT ![u] = m]
          /\ Tell({MachineWatch(m)})
    /\ UNCHANGED <<services, units, removed, settings, changes, provider, manager, armed,
                   todo, history>>

\* remove-unit and destroy-service first take units off their machines.
unassign_from_machine ==
    /\ \E u \in units :
          /\ assigned[u] # None /\ Change
          /\ assigned' = [assigned EXCEPT ![u] = None]
          /\ removed' = removed \cup {u}
          /\ Tell({MachineWatch(assigned[u])})
    /\ UNCHANGED <<services, units, settings, provider, manager, armed,
                   todo, history>>

remove_unit_state ==
    /\ \E u \in units :
          /\ assigned[u] = None
          /\ IF u \in removed THEN UNCHANGED changes ELSE Change
          /\ units' = units \ {u} /\ removed' = removed \cup {u}
          /\ Tell(UnitsWatches(ServiceOf[u]))
    /\ UNCHANGED <<services, assigned, settings, provider, manager, armed, todo, history>>

remove_service_state ==
    /\ \E s \in services :
          /\ \A u \in UnitsOf(s) : assigned[u] = None
          /\ Change
          /\ services' = services \ {s}
          /\ units' = units \ UnitsOf(s) /\ removed' = removed \cup UnitsOf(s)
          /\ exposed' = exposed \ {s}
          /\ Tell({ServicesWatch} \cup UnitsWatches(s) \cup
                  IF s \in exposed THEN {FlagWatch(s)} ELSE {})
    /\ UNCHANGED <<assigned, exposures, wanted, provider, manager, armed,
                   todo, history>>

\* The exposed node of a service is there, made, or deleted.
get_exposed_flag(s) == s \in exposed
set_exposed_flag(s) ==
    /\ exposed' = exposed \cup {s} /\ Tell({FlagWatch(s)})
    /\ exposures' = [exposures EXCEPT ![s] = @ + 1]
    /\ Change
clear_exposed_flag(s) ==
    /\ exposed' = exposed \ {s} /\ Tell({FlagWatch(s)})
    /\ UNCHANGED exposures /\ Change

expose ==
    /\ \E s \in services :
          ~get_exposed_flag(s) /\ exposures[s] < MaxExposed /\ set_exposed_flag(s)
    /\ UNCHANGED <<topology, wanted, provider, manager, armed, todo, history>>

unexpose ==
    /\ \E s \in services : get_exposed_flag(s) /\ clear_exposed_flag(s)
    /\ UNCHANGED <<topology, wanted, provider, manager, armed, todo, history>>

\* A unit's ports node is rewritten; writing what it holds is no change of it.
Rewrite(u, ports) ==
    /\ Change /\ ports # wanted[u]
    /\ wanted' = [wanted EXCEPT ![u] = ports]
    /\ Tell({PortsWatch(u, g) : g \in Exposure})
open_port(u, p)  == Rewrite(u, wanted[u] \cup {p})
close_port(u, p) == Rewrite(u, wanted[u] \ {p})

\* The tools open-port and close-port, served for a unit's hook.
open_port_command ==
    /\ \E u \in units, p \in Port : open_port(u, p)
    /\ UNCHANGED <<topology, exposed, exposures, provider, manager, armed, todo, history>>

close_port_command ==
    /\ \E u \in units, p \in Port : close_port(u, p)
    /\ UNCHANGED <<topology, exposed, exposures, provider, manager, armed, todo, history>>

\* The provisioning agent records an instance for the machine.
provision ==
    /\ \E m \in Machine \ provisioned : provisioned' = provisioned \cup {m}
    /\ UNCHANGED <<topology, settings, changes, opened, manager, watches>>
-----------------------------------------------------------------------------
(* Callbacks *)

\* The first step of the callback of each watch.
callback(w) ==
    CASE w[1] = "services" -> <<"services">>
      [] w[1] = "flag"     -> <<"flag", w[2]>>
      [] w[1] = "units"    -> <<"units", w[2], w[3]>>
      [] w[1] = "ports"    -> <<"ports", w[2], w[3]>>
      [] w[1] = "machine"  -> <<"machine", w[2]>>

IsArm(action) == action[1] = "arm"

\* What a watch has to do: the rest of its callback, or the callback if its
\* node changed and the watch is set.
Todo(w) == IF w \in armed \cap due THEN <<callback(w), Arm(w)>> ELSE todo[w]
Doing(w, kind) == Todo(w) # <<>> /\ Head(Todo(w))[1] = kind
Step(w) == Head(Todo(w))

\* These steps are left.  Watches whose callback has returned are set again.
Left(w, steps) ==
    LET n == CHOOSE n \in 0..Len(steps) :
                 /\ \A i \in 1..n : IsArm(steps[i])
                 /\ n < Len(steps) => ~IsArm(steps[n + 1])
    IN  /\ todo' = [todo EXCEPT ![w] = SubSeq(steps, n + 1, Len(steps))]
        /\ armed' = (armed \ (IF todo[w] = <<>> THEN {w} ELSE {}))
                    \cup {steps[i][2] : i \in 1..n}

\* The step is done, and these are to be done before the others.
Then(w, steps) == Left(w, steps \o Tail(Todo(w))) /\ UNCHANGED cut

\* StopWatcher: what is left of the innermost callback is dropped, and its
\* watch not set again.
StopWatcher(w) ==
    LET i == SelectInSeq(Todo(w), IsArm)
    IN  /\ Left(w, SubSeq(Todo(w), i + 1, Len(Todo(w))))
        /\ cut' = cut \cup {s \in Service : Todo(w)[i] = Arm(FlagWatch(s))}

watch_service_changes(w) ==
    /\ Doing(w, "services")
    /\ due' = due \ {ServicesWatch}
    /\ watched_services' = [s \in Service |->
           IF s \in services THEN watched_services[s] ELSE None]
    /\ \E order \in SetToSeqs(services) :
           Then(w, [i \in DOMAIN order |-> <<"service", order[i]>>])
    /\ UNCHANGED <<topology, settings, provider, watched_units, old_units,
                   watched_machines, old_assigned, retry>>

setup_new_service_watch(w) ==
    /\ Doing(w, "service")
    /\ LET s == Step(w)[2]
       IN  IF watched_services[s] # None \/ s \notin services
           THEN Then(w, <<>>) /\ UNCHANGED watched_services
           ELSE /\ watched_services' = [watched_services EXCEPT ![s] = 0]
                /\ Then(w, <<<<"flag", s>>, Arm(FlagWatch(s))>>)
    /\ UNCHANGED <<topology, settings, provider, watched_units, old_units,
                   watched_machines, old_assigned, retry, due>>

\* cb_watch_service_exposed_flag, up to the ports of each unit.
watch_exposed_flag(w) ==
    /\ Doing(w, "flag")
    /\ LET s == Step(w)[2]
       IN  /\ due' = due \ {FlagWatch(s)}
           /\ IF s \notin services THEN StopWatcher(w)
              ELSE /\ \E order \in SetToSeqs(UnitsOf(s)) :
                          Then(w, [i \in DOMAIN order |-> <<"unit", order[i]>>]
                                  \o <<<<"exposed", s, s \in exposed>>>>)
    /\ UNCHANGED <<topology, settings, provider, manager>>

\* The end of that callback: a new, empty set of units to watch if exposed.
service_exposed(w) ==
    /\ Doing(w, "exposed")
    /\ LET s == Step(w)[2]
           g == Len(watched_units[s]) + 1
       IN  /\ missed' = missed \ {s}
           /\ IF Step(w)[3]
              THEN /\ watched_services' = [watched_services EXCEPT ![s] = g]
                   /\ watched_units' = [watched_units EXCEPT ![s] = Append(@, {})]
                   /\ Then(w, <<<<"units", s, g>>, Arm(UnitsWatch(s, g))>>)
              ELSE /\ watched_services' = [watched_services EXCEPT ![s] = 0]
                   /\ Then(w, <<>>)
                   /\ UNCHANGED watched_units
    /\ UNCHANGED <<topology, settings, provider, old_units, watched_machines,
                   old_assigned, retry, due>>

\* Mutant of current_exposure: the callback fills the set of the exposure its
\* watch was set for.
current_exposure_stale(s, g) == IF watched_services[s] \in {None, 0} THEN 0 ELSE g

\* The set a callback fills is looked up when it runs, whichever exposure g its
\* watch was set for.
current_exposure(s, g) == watched_services[s]

\* The first callback of a watch runs inside the callback that sets it.
First(w) == w # UnitsWatch(Step(w)[2], Step(w)[3])

\* watch_service_unit_states and cb_check_service_units: only a difference from
\* the topology this service's state last saw, in any of its watches, counts.
check_service_units(w) ==
    /\ Doing(w, "units")
    /\ LET s == Step(w)[2]
           g == current_exposure(s, Step(w)[3])
           new == UnitsOf(s)
       IN  /\ due' = due \ {UnitsWatch(s, Step(w)[3])}
           /\ IF new = old_units[s]
              THEN /\ Then(w, <<>>) /\ UNCHANGED watched_units
                   /\ missed' = IF /\ First(w) /\ g = Step(w)[3]
                                   /\ ~(new \subseteq watched_units[s][g])
                                THEN missed \cup {s} ELSE missed
              ELSE IF g \in {None, 0}
              THEN StopWatcher(w) /\ UNCHANGED <<watched_units, missed>>
              ELSE /\ missed' = missed \ {s}
                   /\ watched_units' =
                          [watched_units EXCEPT ![s][g] = @ \ (old_units[s] \ new)]
                   /\ \E order \in SetToSeqs(new) :
                          Then(w, [i \in DOMAIN order |-> <<"watch", order[i], g>>]
                                  \o <<<<"seen", s, new>>>>)
    /\ UNCHANGED <<topology, settings, provider, watched_services, old_units,
                   watched_machines, old_assigned, retry>>

\* _old_topology is set when the callback has returned.
topology_seen(w) ==
    /\ Doing(w, "seen")
    /\ old_units' = [old_units EXCEPT ![Step(w)[2]] = Step(w)[3]]
    /\ Then(w, <<>>)
    /\ UNCHANGED <<topology, settings, provider, watched_services, watched_units,
                   watched_machines, old_assigned, retry, due>>

setup_watch_ports(w) ==
    /\ Doing(w, "watch")
    /\ LET u == Step(w)[2]
           g == Step(w)[3]
           s == ServiceOf[u]
       IN  IF u \in watched_units[s][g]
           THEN Then(w, <<>>) /\ UNCHANGED <<watched_units, due>>
           ELSE /\ watched_units' = [watched_units EXCEPT ![s][g] = @ \cup {u}]
                /\ IF u \notin units
                   THEN Then(w, <<>>) /\ UNCHANGED due
                   ELSE /\ due' = due \ {PortsWatch(u, g)}
                        /\ Then(w, <<<<"ports", u, g>>, Arm(PortsWatch(u, g))>>)
    /\ UNCHANGED <<topology, settings, provider, watched_services, old_units,
                   watched_machines, old_assigned, retry>>

\* cb_watch_ports: watched as long as the unit is in the current set.
watch_ports(w) ==
    /\ Doing(w, "ports")
    /\ LET u == Step(w)[2]
           s == ServiceOf[u]
           g == watched_services[s]
       IN  /\ due' = due \ {PortsWatch(u, Step(w)[3])}
           /\ IF g \in {None, 0} THEN StopWatcher(w)
              ELSE IF u \notin watched_units[s][g] THEN StopWatcher(w)
              ELSE Then(w, <<<<"unit", u>>>>)
    /\ UNCHANGED <<topology, settings, provider, manager>>

\* _WatchAssignedUnits.
watch_assigned_units(w) ==
    /\ Doing(w, "machine")
    /\ LET m == Step(w)[2]
       IN  /\ due' = due \ {MachineWatch(m)}
           /\ old_assigned' = [old_assigned EXCEPT ![m] = UnitsOn(m)]
           /\ Then(w, IF UnitsOn(m) # old_assigned[m] THEN <<<<"pass", m>>>> ELSE <<>>)
    /\ UNCHANGED <<topology, settings, provider, watched_services, watched_units,
                   old_units, watched_machines, retry>>

\* process_machine, by which the provisioning agent has failed ports set again
\* and a machine first watched.
process_machine ==
    /\ todo[Check] = <<>>
    /\ \E m \in provisioned :
          /\ m \in retry \/ m \notin watched_machines
          /\ retry' = retry \ {m}
          /\ watched_machines' = watched_machines \cup {m}
          /\ todo' = [todo EXCEPT ![Check] =
                 (IF m \in retry THEN <<<<"pass", m>>>> ELSE <<>>) \o
                 (IF m \in watched_machines THEN <<>>
                  ELSE <<<<"machine", m>>, Arm(MachineWatch(m))>>)]
    /\ UNCHANGED <<topology, settings, changes, provider, watched_services, watched_units,
                   old_units, old_assigned, armed, due, history>>
-----------------------------------------------------------------------------
(* Setting ports *)

open_close_ports(w) ==
    /\ Doing(w, "unit")
    /\ LET u == Step(w)[2]
       IN  IF u \notin units THEN StopWatcher(w)
           ELSE /\ Then(w, IF assigned[u] = None THEN <<>>
                           ELSE <<<<"pass", assigned[u]>>>>)
               
    /\ UNCHANGED <<topology, settings, provider, manager, due>>

Passing(w) == Doing(w, "apply")

\* An error is logged, and the machine tried again at the next check.
Failed(w, m) ==
    /\ retry' = retry \cup {m}
    /\ Then(w, <<>>)

Policy(m) == UNION {wanted[u] : u \in {v \in UnitsOn(m) : ServiceOf[v] \in exposed}}

\* open_close_ports_on_machine: what the units of the machine ask for, those of
\* exposed services; with no instance there is nothing to do.
open_close_ports_on_machine(w) ==
    /\ Doing(w, "pass")
    /\ Cardinality({v \in Watch : Passing(v)}) < MaxPasses
    /\ LET m == Step(w)[2]
       IN  \/ /\ Then(w, IF m \in provisioned THEN <<<<"apply", m, Policy(m)>>>>
                         ELSE <<>>)
              /\ UNCHANGED <<retry, changes>>
           \/ Change /\ Failed(w, m)
    /\ UNCHANGED <<topology, settings, provisioned, opened, watched_services,
                   watched_units, old_units, watched_machines, old_assigned, due>>

\* Mutant of Apply: ports are opened and never closed.
Apply_opening(m, to_open, to_close) == opened[m] \cup to_open

Apply(m, to_open, to_close) == (opened[m] \cup to_open) \ to_close

\* get_opened_ports, then open_port for each port to open and close_port for each
\* to close; an error leaves the rest undone.
set_ports(w) ==
    /\ Doing(w, "apply")
    /\ LET m == Step(w)[2]
           to_open == Step(w)[3] \ opened[m]
           to_close == opened[m] \ Step(w)[3]
       IN  \/ /\ opened' = [opened EXCEPT ![m] = Apply(m, to_open, to_close)]
              /\ Then(w, <<>>)
              /\ UNCHANGED <<retry, changes>>
           \/ /\ Change /\ Failed(w, m)
              /\ \E ps \in SUBSET to_open :
                     opened' = [opened EXCEPT ![m] = Apply(m, ps, {})]
    /\ UNCHANGED <<topology, settings, provisioned, watched_services, watched_units,
                   old_units, watched_machines, old_assigned, due>>

step(w) ==
    \/ (service_exposed(w) \/ check_service_units(w)) /\ UNCHANGED changes
    \/ (open_close_ports_on_machine(w) \/ set_ports(w)) /\ UNCHANGED missed
    \/ /\ \/ watch_service_changes(w) \/ setup_new_service_watch(w)
          \/ watch_exposed_flag(w) \/ topology_seen(w) \/ setup_watch_ports(w)
          \/ watch_ports(w) \/ watch_assigned_units(w) \/ open_close_ports(w)
       /\ UNCHANGED <<changes, missed>>
-----------------------------------------------------------------------------
Next ==
    \/ add_unit_state \/ assign_to_machine \/ unassign_from_machine
    \/ remove_unit_state \/ remove_service_state \/ expose
    \/ unexpose \/ open_port_command \/ close_port_command \/ provision
    \/ process_machine
    \/ \E w \in {v \in Watch : Todo(v) # <<>>} : step(w)

Spec == Init /\ [][Next]_vars
-----------------------------------------------------------------------------
(* Properties *)

\* Nothing is going on, and nothing that happened is still to be noticed.
Settled ==
    /\ \A w \in Watch : todo[w] = <<>>
    /\ armed \cap due = {}
    /\ retry = {} /\ provisioned \subseteq watched_machines

\* "Makes changes in the firewall settings": when the manager has come to rest,
\* each machine has exactly the ports open that its units of exposed services
\* want, whatever changed while it was at work, and though steps failed.  This is
\* as long as no unit is removed, and none goes unnoticed when its service is
\* exposed again (missed).
PortsFollowPolicy ==
    Settled /\ removed = {} /\ missed = {} => \A m \in provisioned : opened[m] = Policy(m)

\* "Permanently watch ports until service is no longer exposed" (cb_watch_ports):
\* at rest, every unit of an exposed service has its ports watched, however the
\* callbacks of one exposure and the next, which share the topology last seen,
\* have overlapped, and no unit of another is.  Left out are services whose flag
\* watch ended because a unit was removed while its callback ran, and those
\* exposed again of which the first callback found the units it had seen before
\* (_setup_service_unit_watch): the code watches those no more, until one comes
\* or goes.
UnitsWatched ==
    Settled => \A s \in services \ (cut \cup missed) :
        LET g == watched_services[s]
        IN  IF s \notin exposed THEN g = 0
            ELSE /\ g # 0
                 /\ UnitsOf(s) \subseteq watched_units[s][g]
                 /\ \A u \in UnitsOf(s) : PortsWatch(u, g) \in armed
=============================================================================
