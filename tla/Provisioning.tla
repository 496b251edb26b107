---------------------------- MODULE Provisioning ----------------------------
(***************************************************************************)
(* The provisioning agent (juju/agents/provision.py) over the EC2 provider *)
(* (juju/providers/ec2): it starts an instance for each machine of the     *)
(* topology and shuts down the instances no machine uses.                  *)
(*                                                                         *)
(* One pass over the machines runs at a time; it is started by a change of *)
(* the machines in /topology or by a timer, and every call it makes to the *)
(* provider or to ZooKeeper is a step: machines come and go, instances     *)
(* fail and the agent dies between any two.                                *)
(***************************************************************************)
EXTENDS Naturals, FiniteSets

CONSTANTS
    MaxMachine,    \* bound: machine ids are 0..MaxMachine, 0 is the bootstrap machine
    MaxInstance,   \* bound: instances ever launched
    MaxTrouble,    \* bound: provider errors, lost instances and deaths together
    None

ASSUME ProvisioningAssumption ==
    /\ MaxMachine \in Nat /\ MaxInstance \in Nat \ {0} /\ MaxTrouble \in Nat
    /\ None \notin Nat

VARIABLES
    machines,           \* the machines of /topology
    used_ids,           \* the sequence nodes of /machines ever created
    provider_machine,   \* /machines/<id>: the instance recorded, or None
    instances,          \* EC2: launched instances, their machine group and state
    groups,             \* EC2: the machine security groups
    environment,        \* does /environment exist?
    up,                 \* the agent: "off", "waiting" for /environment or "on"
    watched,            \* the machines as the watch last read them, None at first
    current_machines,   \* ProvisioningAgent._current_machines
    pass,               \* process_machines, where it is; None when not executing
    trouble             \* errors, losses and deaths so far

state    == <<machines, used_ids, provider_machine, environment>>
provider == <<instances, groups>>
agent    == <<up, watched, current_machines, pass>>
vars     == <<state, provider, agent, trouble>>

Machine  == 0..MaxMachine
Instance == 1..MaxInstance

Live(i)  == i \in DOMAIN instances /\ instances[i].state # "terminated"
Found(i) == i \in DOMAIN instances /\ instances[i].state = "running"

\* The first instance is machine 0's as bootstrap left it: ZooKeeper and the
\* agent run there, and are no more once it has terminated.
Bootstrapped == Live(1)
-----------------------------------------------------------------------------
\* What bootstrap left: machine 0 runs as the first instance.
Init ==
    /\ machines = {0} /\ used_ids = {0}
    /\ provider_machine = [m \in Machine |-> IF m = 0 THEN 1 ELSE None]
    /\ instances = [i \in {1} |-> [machine |-> 0, state |-> "running"]]
    /\ groups = {0}
    /\ environment = FALSE
    /\ up = "off" /\ watched = None /\ current_machines = {} /\ pass = None
    /\ trouble = 0

Trouble == trouble < MaxTrouble /\ trouble' = trouble + 1
-----------------------------------------------------------------------------
(* Commands: the machines of the topology *)

add_machine_state ==
    \E m \in Machine \ used_ids :
        /\ Bootstrapped /\ m - 1 \in used_ids
        /\ machines' = machines \cup {m}
        /\ used_ids' = used_ids \cup {m}
        /\ UNCHANGED <<provider_machine, environment, provider, agent, trouble>>

terminate_machine ==
    \E m \in machines \ {0} :
        /\ Bootstrapped
        /\ machines' = machines \ {m}
        /\ provider_machine' = [provider_machine EXCEPT ![m] = None]
        /\ UNCHANGED <<used_ids, environment, provider, agent, trouble>>

\* The first command that needs it writes /environment.
push_environment ==
    /\ Bootstrapped /\ ~environment
    /\ environment' = TRUE
    /\ UNCHANGED <<machines, used_ids, provider_machine, provider, agent, trouble>>
-----------------------------------------------------------------------------
(* The agent *)

\* start, up to configure_environment.
start ==
    /\ up = "off" /\ Bootstrapped
    /\ up' = "waiting"
    /\ UNCHANGED <<state, provider, watched, current_machines, pass, trouble>>

\* The environment is there, or its watch fires: the watches and the timer are
\* set.
configure_environment ==
    /\ up = "waiting" /\ environment
    /\ up' = "on"
    /\ UNCHANGED <<state, provider, watched, current_machines, pass, trouble>>

\* The pass is one that this callback waits for.
Busy(by) == IF pass = None THEN FALSE ELSE pass.by = by

\* concurrent_execution_guard: a call while a pass is on does nothing.  early
\* is history: the timer went off before the machines were first read.
process_machines(list, by) ==
    pass' = IF pass # None THEN pass
            ELSE [phase |-> "list", by |-> by, early |-> by = "timer" /\ watched = None,
                  todo |-> list, map |-> {},
                  kept |-> {}, machine |-> None, instance |-> None]

\* Mutant of watch_machine_changes: the machines are kept only when a pass starts.
watch_machine_changes_when_idle ==
    /\ current_machines' = IF pass = None THEN machines ELSE current_machines
    /\ process_machines(machines, "watch")

watch_machine_changes ==
    /\ current_machines' = machines
    /\ process_machines(machines, "watch")

\* The topology watch fires unless its former callback has not returned.
watch_machine_states ==
    /\ up = "on"
    /\ ~Busy("watch")
    /\ watched # machines
    /\ watched' = machines
    /\ watch_machine_changes
    /\ UNCHANGED <<state, provider, up, trouble>>

\* The timer is set again when the pass it started has ended.  The first time
\* it may go off before the watch has called back: no machines are known then.
periodic_machine_check ==
    /\ up = "on"
    /\ ~Busy("timer")
    /\ process_machines(current_machines, "timer")
    /\ UNCHANGED <<state, provider, up, watched, current_machines, trouble>>

Forget == up' = "off" /\ watched' = None /\ current_machines' = {} /\ pass' = None

\* The agent's process dies, at any step.
die ==
    /\ up # "off"
    /\ Trouble
    /\ Forget
    /\ UNCHANGED <<state, provider>>
-----------------------------------------------------------------------------
(* process_machines and what it calls *)

At(phase) == pass # None /\ pass.phase = phase

\* An error that is no ProviderError ends the pass; the guard is reset.
Raised == Trouble /\ pass' = None

\* MachineStateNotFound or ProviderError: this machine is passed over.
Skipped == pass' = [pass EXCEPT !.phase = "machines", !.machine = None,
                                !.instance = None]

\* get_machines: the instances of the environment that are running, or an
\* error, which ends the pass.
get_machines ==
    /\ At("list")
    /\ \/ /\ pass' = [pass EXCEPT !.phase = "machines",
                                  !.map = {i \in DOMAIN instances : Found(i)}]
          /\ UNCHANGED trouble
       \/ Raised
    /\ UNCHANGED <<state, provider, up, watched, current_machines>>

\* Mutant of process_machine: the id of a machine that runs is not returned.
process_machine_unkept(p, m) ==
    IF m \notin machines \/ provider_machine[m] \in p.map THEN p
    ELSE [p EXCEPT !.phase = "groups", !.machine = m]

\* process_machine, up to start_machine: a machine that is gone is passed over,
\* one that runs is kept, and any other is to be launched.
process_machine(p, m) ==
    IF m \notin machines THEN p
    ELSE IF provider_machine[m] \in p.map
    THEN [p EXCEPT !.kept = @ \cup {provider_machine[m]}]
    ELSE [p EXCEPT !.phase = "groups", !.machine = m]

\* The next machine of the list, which is a set: any of them.
next_machine ==
    /\ At("machines")
    /\ \E m \in pass.todo :
           pass' = process_machine([pass EXCEPT !.todo = @ \ {m}], m)
    /\ UNCHANGED <<state, provider, up, watched, current_machines, trouble>>

\* A group is in use as long as an instance of it has not terminated.
InUse(m) == \E i \in DOMAIN instances : Live(i) /\ instances[i].machine = m

\* Mutant of ensure_groups: the group of a former launch is used again.
ensure_groups_kept(m) ==
    /\ groups' = groups \cup {m}
    /\ pass' = [pass EXCEPT !.phase = "run"]

\* _ensure_groups: the group a former launch left is replaced, unless an
\* instance still uses it.
ensure_groups(m) ==
    IF m \in groups /\ InUse(m)
    THEN Skipped /\ UNCHANGED groups
    ELSE groups' = groups \cup {m} /\ pass' = [pass EXCEPT !.phase = "run"]

\* EC2LaunchMachine.start_machine, up to run_instances.
launch ==
    /\ At("groups")
    /\ \/ ensure_groups(pass.machine) /\ UNCHANGED trouble
       \/ Trouble /\ Skipped /\ UNCHANGED groups
       \/ Raised /\ UNCHANGED groups
    /\ UNCHANGED <<state, instances, up, watched, current_machines>>

run_instances ==
    /\ At("run")
    /\ \/ \E i \in Instance \ DOMAIN instances :
             /\ \A j \in Instance : j < i => j \in DOMAIN instances
             /\ instances' = [j \in DOMAIN instances \cup {i} |->
                    IF j = i THEN [machine |-> pass.machine, state |-> "running"]
                    ELSE instances[j]]
             /\ pass' = [pass EXCEPT !.phase = "record", !.instance = i]
             /\ UNCHANGED trouble
       \/ Raised /\ UNCHANGED instances
    /\ UNCHANGED <<state, groups, up, watched, current_machines>>

\* set_instance_id, which finds no node if the machine was removed meanwhile.
set_instance_id ==
    /\ At("record")
    /\ IF pass.machine \in machines
       THEN /\ provider_machine' =
                   [provider_machine EXCEPT ![pass.machine] = pass.instance]
            /\ pass' = [pass EXCEPT !.phase = "machines", !.machine = None,
                            !.instance = None, !.kept = @ \cup {pass.instance}]
       ELSE Skipped /\ UNCHANGED provider_machine
    /\ UNCHANGED <<machines, used_ids, environment, provider, up, watched,
                   current_machines, trouble>>

unused == pass.map \ pass.kept

\* shutdown_machines of one instance that is not used, if it is still found.
shutdown_machine ==
    /\ At("machines") /\ pass.todo = {}
    /\ \E i \in unused :
          \/ /\ Found(i)
             /\ instances' = [instances EXCEPT ![i].state = "shutting-down"]
             /\ pass' = [pass EXCEPT !.phase = "poll", !.map = @ \ {i}, !.instance = i]
             /\ UNCHANGED trouble
          \/ /\ ~Found(i)
             /\ pass' = [pass EXCEPT !.map = @ \ {i}]
             /\ UNCHANGED <<instances, trouble>>
          \/ /\ Trouble
             /\ pass' = [pass EXCEPT !.map = @ \ {i}]
             /\ UNCHANGED instances
    /\ UNCHANGED <<state, groups, up, watched, current_machines>>

\* remove_security_groups waits for the instance to terminate and deletes its
\* group, or gives up.
remove_security_groups ==
    /\ At("poll")
    /\ \/ ~Live(pass.instance) /\ groups' = groups \ {instances[pass.instance].machine}
          /\ Skipped /\ UNCHANGED trouble
       \/ Live(pass.instance) /\ Trouble /\ Skipped /\ UNCHANGED groups
       \/ Raised /\ UNCHANGED groups
    /\ UNCHANGED <<state, instances, up, watched, current_machines>>

finish ==
    /\ At("machines") /\ pass.todo = {} /\ unused = {}
    /\ pass' = None
    /\ UNCHANGED <<state, provider, up, watched, current_machines, trouble>>

process ==
    \/ get_machines \/ next_machine \/ launch \/ run_instances
    \/ set_instance_id \/ shutdown_machine \/ remove_security_groups \/ finish
-----------------------------------------------------------------------------
(* EC2 *)

terminated ==
    /\ \E i \in DOMAIN instances :
          /\ instances[i].state = "shutting-down"
          /\ instances' = [instances EXCEPT ![i].state = "terminated"]
          /\ IF i = 1 THEN Forget ELSE UNCHANGED agent
    /\ UNCHANGED <<state, groups, trouble>>

\* An instance other than the bootstrap machine's is lost.
lost ==
    /\ \E i \in DOMAIN instances :
          /\ Found(i) /\ instances[i].machine # 0
          /\ instances' = [instances EXCEPT ![i].state = "terminated"]
    /\ Trouble
    /\ UNCHANGED <<state, groups, agent>>
-----------------------------------------------------------------------------
Next ==
    \/ add_machine_state \/ terminate_machine \/ push_environment
    \/ start \/ configure_environment \/ watch_machine_states
    \/ periodic_machine_check \/ die \/ process \/ terminated \/ lost

Spec == Init /\ [][Next]_vars

\* The agent is restarted, its steps are taken, the timer goes off and EC2
\* terminates what it was asked to.  Users need not act, except that
\* /environment is written once.
FairSpec ==
    /\ Spec
    /\ WF_vars(push_environment) /\ WF_vars(start) /\ WF_vars(configure_environment)
    /\ WF_vars(watch_machine_states) /\ WF_vars(periodic_machine_check)
    /\ WF_vars(process) /\ WF_vars(terminated)
-----------------------------------------------------------------------------
(* Properties *)

TypeOK ==
    /\ machines \subseteq used_ids /\ used_ids \subseteq Machine
    /\ provider_machine \in [Machine -> Instance \cup {None}]
    /\ DOMAIN instances \subseteq Instance
    /\ \A i \in DOMAIN instances : instances[i] \in
           [machine : Machine, state : {"running", "shutting-down", "terminated"}]
    /\ groups \subseteq Machine
    /\ environment \in BOOLEAN
    /\ up \in {"off", "waiting", "on"}
    /\ watched \in {None} \cup SUBSET Machine
    /\ current_machines \subseteq Machine
    /\ pass = None \/ pass \in
           [phase : {"list", "machines", "groups", "run", "record", "poll"},
            by : {"watch", "timer"}, early : BOOLEAN, todo : SUBSET Machine,
            map : SUBSET Instance, kept : SUBSET Instance, machine : Machine \cup {None},
            instance : Instance \cup {None}]
    /\ trouble \in 0..MaxTrouble

\* A machine never has two instances that have not terminated, though the agent
\* may die between launching one and recording it, lose track of it in a failed
\* pass, and launch again: the machine's security group stands in the way
\* (ec2/launch.py, _ensure_groups).
OneInstancePerMachine ==
    \A i, j \in DOMAIN instances :
        Live(i) /\ Live(j) /\ instances[i].machine = instances[j].machine => i = j

\* "Verify that all running machines within the provider correspond to
\* machine_ids within the topology.  If they don't then shut them down"
\* (process_machines): the instance recorded for a machine of the topology is
\* shut down by no pass, whatever fails in it and however old its list of
\* machines, but one the timer began before the watch had first called back
\* (periodic_machine_check), which has no list.
UsedInstancesKept ==
    [][\A m \in machines, i \in DOMAIN instances :
           provider_machine[m] = i /\ instances[i].state = "running"
               => instances'[i].state # "shutting-down" \/ pass.early]_vars

\* Once users, EC2 and the machine of the agent leave it alone, every machine of
\* the topology runs and nothing else does: what a pass that failed, was skipped
\* by the guard or died has left undone, a later one does.  A check before the
\* machines were first read may shut down the first instance, and so end it all.
AllProvisioned ==
    /\ \A m \in machines : provider_machine[m] # None /\ Found(provider_machine[m])
    /\ \A i \in DOMAIN instances :
           Live(i) => \E m \in machines : provider_machine[m] = i
EventuallyProvisioned == []Bootstrapped => <>[]AllProvisioned
=============================================================================
