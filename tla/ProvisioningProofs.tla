------------------------- MODULE ProvisioningProofs -------------------------
(***************************************************************************)
(* The provisioning agent never gives a machine two instances, and shuts   *)
(* down an instance that is in use in no pass but one that began before    *)
(* the machines were first read, for any number of machines, instances and *)
(* failures.                                                               *)
(***************************************************************************)
EXTENDS Provisioning, TLAPS

InstanceType == [machine : Machine, state : {"running", "shutting-down", "terminated"}]

\* TypeOK, and that instances is a function.
Types == TypeOK /\ instances \in [DOMAIN instances -> InstanceType]

\* The group of a live instance is there, so a machine whose group is missing
\* has no instance.
LiveInGroups == \A i \in DOMAIN instances : Live(i) => instances[i].machine \in groups

\* Between _ensure_groups and run_instances the machine has no instance, and
\* its group is there.
AboutToRun == At("run") =>
    /\ pass.machine \in groups
    /\ \A i \in DOMAIN instances : Live(i) => instances[i].machine # pass.machine

\* An instance that was told to terminate is the last of its machine.
AboutToRemoveGroup == At("poll") =>
    /\ pass.instance \in DOMAIN instances
    /\ \A i \in DOMAIN instances :
        Live(i) /\ instances[i].machine = instances[pass.instance].machine
            => i = pass.instance

\* A pass that launches has a machine, and an instance once it runs.
Launching ==
    /\ At("groups") \/ At("run") \/ At("record") => pass.machine \in Machine
    /\ At("record") => pass.instance \in DOMAIN instances

\* The inductive invariant of OneInstancePerMachine.
OneInv ==
    /\ Types /\ LiveInGroups /\ AboutToRun /\ AboutToRemoveGroup /\ Launching
    /\ OneInstancePerMachine
-----------------------------------------------------------------------------
\* bootstrap left machine 0 with the first instance.
LEMMA OneInit == Init => OneInv
<1> SUFFICES ASSUME Init PROVE OneInv
  OBVIOUS
<1> USE ProvisioningAssumption DEF Init
<1>1. /\ DOMAIN instances = {1} /\ instances[1] = [machine |-> 0, state |-> "running"]
      /\ instances \in [DOMAIN instances -> InstanceType]
  BY DEF InstanceType, Machine
<1>2. TypeOK
  <2>1. 0 \in Machine /\ 1 \in Instance /\ {0} \subseteq Machine /\ 0 \in 0..MaxTrouble
    BY DEF Machine, Instance
  <2>2. provider_machine \in [Machine -> Instance \cup {None}]
    BY <2>1
  <2> QED BY <1>1, <2>1, <2>2 DEF TypeOK, InstanceType
<1>3. LiveInGroups /\ OneInstancePerMachine
  BY <1>1 DEF LiveInGroups, OneInstancePerMachine
<1>4. AboutToRun /\ AboutToRemoveGroup /\ Launching
  BY DEF AboutToRun, AboutToRemoveGroup, Launching, At
<1> QED BY <1>1, <1>2, <1>3, <1>4 DEF OneInv, Types

\* What the types allow pass to be when it is executing.
Pass == [phase : {"list", "machines", "groups", "run", "record", "poll"},
         by : {"watch", "timer"}, early : BOOLEAN, todo : SUBSET Machine,
         map : SUBSET Instance, kept : SUBSET Instance, machine : Machine \cup {None},
         instance : Instance \cup {None}]

\* Commands and the callbacks of the agent launch nothing and stop nothing.
LEMMA OneCommands ==
    ASSUME OneInv,
           \/ add_machine_state \/ terminate_machine \/ push_environment
           \/ start \/ configure_environment
    PROVE  OneInv'
<1>1. UNCHANGED <<provider, watched, current_machines, pass, trouble>>
  BY DEF add_machine_state, terminate_machine, push_environment, start,
         configure_environment, agent, state
<1>2. TypeOK'
  <2>1. CASE add_machine_state
    BY <2>1 DEF OneInv, Types, TypeOK, add_machine_state, provider, agent
  <2>2. CASE terminate_machine
    BY <2>2 DEF OneInv, Types, TypeOK, terminate_machine, provider, agent
  <2>3. CASE push_environment
    BY <2>3 DEF OneInv, Types, TypeOK, push_environment, provider, agent
  <2>4. CASE start \/ configure_environment
    BY <2>4 DEF OneInv, Types, TypeOK, start, configure_environment, provider, state
  <2> QED BY <2>1, <2>2, <2>3, <2>4
<1> QED BY <1>1, <1>2 DEF OneInv, Types, LiveInGroups, AboutToRun, AboutToRemoveGroup,
                          Launching, OneInstancePerMachine, Live, At, provider

\* A pass that is over, or that has just begun, is at none of the steps the
\* invariant speaks of.
LEMMA OneCallbacks ==
    ASSUME OneInv, watch_machine_states \/ periodic_machine_check \/ die
    PROVE  OneInv'
<1>1. /\ instances' = instances /\ groups' = groups /\ machines' = machines
      /\ used_ids' = used_ids /\ provider_machine' = provider_machine
      /\ environment' = environment
  BY DEF watch_machine_states, periodic_machine_check, die, state, provider
<1>2. pass' = pass \/ pass' = None \/ \E list \in SUBSET Machine, by \in {"watch", "timer"} :
        pass' = [phase |-> "list", by |-> by, early |-> by = "timer" /\ watched = None,
                 todo |-> list, map |-> {}, kept |-> {}, machine |-> None,
                 instance |-> None]
  BY DEF watch_machine_states, periodic_machine_check, die, Forget, watch_machine_changes,
         process_machines, OneInv, Types, TypeOK
<1>3. /\ up' \in {"off", "waiting", "on"} /\ watched' \in {None} \cup SUBSET Machine
      /\ current_machines' \subseteq Machine /\ trouble' \in 0..MaxTrouble
  BY ProvisioningAssumption DEF watch_machine_states, periodic_machine_check, die, Forget,
         watch_machine_changes, Trouble, OneInv, Types, TypeOK
<1>4. pass' = None \/ pass' \in Pass
  <2>1. ASSUME NEW list \in SUBSET Machine, NEW by \in {"watch", "timer"},
               pass' = [phase |-> "list", by |-> by, early |-> by = "timer" /\ watched = None,
                        todo |-> list, map |-> {}, kept |-> {}, machine |-> None,
                        instance |-> None]
        PROVE  pass' \in Pass
    <3>1. PICK e \in BOOLEAN : e = (by = "timer" /\ watched = None)
      OBVIOUS
    <3>2. pass' = [phase |-> "list", by |-> by, early |-> e, todo |-> list, map |-> {},
                   kept |-> {}, machine |-> None, instance |-> None]
      BY <2>1, <3>1
    <3> QED BY <3>2 DEF Pass
  <2>2. pass = None \/ pass \in Pass
    BY DEF Pass, OneInv, Types, TypeOK
  <2> QED BY <1>2, <2>1, <2>2
<1>5. Types'
  BY <1>1, <1>3, <1>4 DEF OneInv, Types, TypeOK, Pass
<1>6. \A phase \in {"groups", "run", "record", "poll"} : At(phase)' => pass' = pass
  BY <1>2 DEF At
<1>7. AboutToRun' /\ AboutToRemoveGroup' /\ Launching'
  BY <1>1, <1>6 DEF OneInv, AboutToRun, AboutToRemoveGroup, Launching, At, Live
<1> QED BY <1>1, <1>5, <1>7 DEF OneInv, LiveInGroups, OneInstancePerMachine, Live

\* An instance that terminates, for whatever reason; the first one takes the
\* agent with it.
LEMMA OneTerminates ==
    ASSUME OneInv, terminated \/ lost
    PROVE  OneInv'
<1>1. PICK i \in DOMAIN instances :
        instances' = [instances EXCEPT ![i].state = "terminated"]
  BY DEF terminated, lost
<1>2. /\ groups' = groups /\ machines' = machines /\ used_ids' = used_ids
      /\ provider_machine' = provider_machine /\ environment' = environment
      /\ trouble' \in 0..MaxTrouble
  BY ProvisioningAssumption DEF terminated, lost, state, Trouble, OneInv, Types, TypeOK
<1>3. /\ DOMAIN instances' = DOMAIN instances
      /\ instances' \in [DOMAIN instances -> InstanceType]
      /\ \A j \in DOMAIN instances : instances'[j].machine = instances[j].machine
      /\ \A j : Live(j)' => Live(j)
  BY <1>1 DEF OneInv, Types, InstanceType, Live
<1>4. UNCHANGED agent \/ Forget
  BY DEF terminated, lost
<1>5. CASE UNCHANGED agent
  <2>1. Types'
    BY <1>2, <1>3, <1>5 DEF OneInv, Types, TypeOK, InstanceType, agent
  <2> QED BY <1>2, <1>3, <1>5, <2>1 DEF OneInv, LiveInGroups, AboutToRun, AboutToRemoveGroup,
                               Launching, OneInstancePerMachine, At, agent
<1>6. CASE Forget
  <2>1. Types'
    BY <1>2, <1>3, <1>6 DEF OneInv, Types, TypeOK, InstanceType, Forget
  <2>2. AboutToRun' /\ AboutToRemoveGroup' /\ Launching'
    BY <1>6 DEF Forget, AboutToRun, AboutToRemoveGroup, Launching, At
  <2> QED BY <1>2, <1>3, <2>1, <2>2 DEF OneInv, LiveInGroups, OneInstancePerMachine
<1> QED BY <1>4, <1>5, <1>6

\* The steps of a pass that touch neither instances nor groups.
LEMMA OnePassOnly ==
    ASSUME OneInv, instances' = instances, groups' = groups,
           machines' \subseteq used_ids', used_ids' \subseteq Machine,
           provider_machine' \in [Machine -> Instance \cup {None}],
           environment' = environment, up' = up, watched' = watched,
           current_machines' = current_machines, trouble' \in 0..MaxTrouble,
           \/ pass' = None
           \/ /\ pass' \in Pass /\ pass'.phase \in {"machines", "groups"}
              /\ pass'.phase = "groups" => pass'.machine \in Machine
    PROVE  OneInv'
<1>1. Types'
  BY DEF OneInv, Types, TypeOK, Pass
<1>2. AboutToRun' /\ AboutToRemoveGroup' /\ Launching'
  BY DEF AboutToRun, AboutToRemoveGroup, Launching, At
<1> QED BY <1>1, <1>2 DEF OneInv, LiveInGroups, OneInstancePerMachine, Live

\* The steps of a pass up to the launch, and what follows it.
LEMMA OneGetMachines == ASSUME OneInv, get_machines PROVE OneInv'
<1>1. pass \in Pass
  BY DEF get_machines, At, OneInv, Types, TypeOK, Pass
<1>2. pass' = None \/ (pass' \in Pass /\ pass'.phase = "machines")
  <2>1. PICK found : found = {i \in DOMAIN instances : Found(i)}
    OBVIOUS
  <2>2. found \in SUBSET Instance
    BY <2>1 DEF OneInv, Types, TypeOK
  <2>3. pass' = None \/ pass' = [pass EXCEPT !.phase = "machines", !.map = found]
    BY <2>1 DEF get_machines, Raised
  <2> QED BY <1>1, <2>2, <2>3 DEF Pass
<1>3. trouble' \in 0..MaxTrouble
  BY ProvisioningAssumption DEF get_machines, Raised, Trouble, OneInv, Types, TypeOK
<1> QED BY <1>2, <1>3, OnePassOnly DEF get_machines, state, provider, OneInv, Types, TypeOK

\* A machine of the list is kept, passed over or to be launched.
LEMMA OneNextMachine == ASSUME OneInv, next_machine PROVE OneInv'
<1>1. pass \in Pass /\ pass.phase = "machines"
  BY DEF next_machine, At, OneInv, Types, TypeOK, Pass
<1>2. PICK m \in pass.todo : pass' = process_machine([pass EXCEPT !.todo = @ \ {m}], m)
  BY DEF next_machine
<1>3. m \in Machine /\ provider_machine[m] \in Instance \cup {None}
  BY <1>1 DEF Pass, OneInv, Types, TypeOK
<1>4. /\ pass' \in Pass /\ pass'.phase \in {"machines", "groups"}
      /\ pass'.phase = "groups" => pass'.machine \in Machine
  BY <1>1, <1>2, <1>3 DEF process_machine, Pass
<1> QED BY <1>4, OnePassOnly DEF next_machine, state, provider, OneInv, Types, TypeOK

\* _ensure_groups lets a launch go on only for a machine without instance.
LEMMA OneLaunch == ASSUME OneInv, launch PROVE OneInv'
<1>1. pass \in Pass /\ pass.machine \in Machine
  BY DEF launch, At, OneInv, Types, TypeOK, Pass, Launching
<1>2. trouble' \in 0..MaxTrouble
  BY ProvisioningAssumption DEF launch, Raised, Trouble, OneInv, Types, TypeOK
<1>3. CASE groups' = groups /\ (pass' = None \/ Skipped)
  <2>1. pass' = None \/ (pass' \in Pass /\ pass'.phase = "machines")
    BY <1>1, <1>3 DEF Skipped, Pass
  <2> QED BY <1>2, <1>3, <2>1, OnePassOnly DEF launch, state, OneInv, Types, TypeOK
<1>4. CASE /\ ~(pass.machine \in groups /\ InUse(pass.machine))
           /\ groups' = groups \cup {pass.machine}
           /\ pass' = [pass EXCEPT !.phase = "run"]
  <2>1. pass' \in Pass /\ pass'.phase = "run" /\ pass'.machine = pass.machine
    BY <1>1, <1>4 DEF Pass
  <2>2. instances' = instances
    BY DEF launch
  <2>3. Types'
    BY <1>1, <1>2, <1>4, <2>1, <2>2 DEF launch, state, OneInv, Types, TypeOK, Pass
  <2>4. \A i \in DOMAIN instances : Live(i) => instances[i].machine # pass.machine
    BY <1>4 DEF InUse, OneInv, LiveInGroups
  <2>5. AboutToRun' /\ AboutToRemoveGroup' /\ Launching'
    BY <1>1, <1>4, <2>1, <2>2, <2>4 DEF AboutToRun, AboutToRemoveGroup, Launching, At, Live
  <2> QED BY <1>4, <2>2, <2>3, <2>5 DEF OneInv, LiveInGroups, OneInstancePerMachine, Live
<1> QED BY <1>3, <1>4 DEF launch, ensure_groups, Raised

\* run_instances gives an instance to a machine that has none.
LEMMA OneRunInstances == ASSUME OneInv, run_instances PROVE OneInv'
<1>1. pass \in Pass /\ pass.machine \in Machine /\ At("run")
  BY DEF run_instances, At, OneInv, Types, TypeOK, Pass, Launching
<1>2. CASE Raised /\ UNCHANGED instances
  <2>1. trouble' \in 0..MaxTrouble
    BY <1>2, ProvisioningAssumption DEF Raised, Trouble, OneInv, Types, TypeOK
  <2> QED BY <1>2, <2>1, OnePassOnly DEF Raised, run_instances, state, OneInv, Types, TypeOK
<1>3. CASE \E i \in Instance \ DOMAIN instances :
             /\ instances' = [j \in DOMAIN instances \cup {i} |->
                    IF j = i THEN [machine |-> pass.machine, state |-> "running"]
                    ELSE instances[j]]
             /\ pass' = [pass EXCEPT !.phase = "record", !.instance = i]
             /\ UNCHANGED trouble
  <2>1. PICK i \in Instance \ DOMAIN instances :
             /\ instances' = [j \in DOMAIN instances \cup {i} |->
                    IF j = i THEN [machine |-> pass.machine, state |-> "running"]
                    ELSE instances[j]]
             /\ pass' = [pass EXCEPT !.phase = "record", !.instance = i]
             /\ UNCHANGED trouble
    BY <1>3
  <2>2. pass' \in Pass /\ pass'.phase = "record" /\ pass'.instance = i
        /\ pass'.machine = pass.machine
    BY <1>1, <2>1 DEF Pass
  <2>3. /\ DOMAIN instances' = DOMAIN instances \cup {i}
        /\ instances'[i] = [machine |-> pass.machine, state |-> "running"]
        /\ \A j \in DOMAIN instances : instances'[j] = instances[j]
    BY <2>1
  <2>4. \A j \in DOMAIN instances' : instances'[j] \in InstanceType
    BY <1>1, <2>3 DEF OneInv, Types, InstanceType
  <2>5. instances' \in [DOMAIN instances' -> InstanceType]
    BY <2>1, <2>4
  <2>6. Types'
    <3>1. groups' = groups /\ UNCHANGED <<state, up, watched, current_machines>>
      BY DEF run_instances
    <3>2. DOMAIN instances' \subseteq Instance
      BY <2>3 DEF OneInv, Types, TypeOK
    <3> QED BY <2>1, <2>2, <2>4, <2>5, <3>1, <3>2
            DEF OneInv, Types, TypeOK, InstanceType, Pass, state
  <2>7. /\ \A j \in DOMAIN instances : Live(j)' => Live(j)
        /\ \A j \in DOMAIN instances' : Live(j)' => j = i \/ j \in DOMAIN instances
        /\ instances'[i].machine = pass.machine
    BY <2>3 DEF Live
  <2>8. pass.machine \in groups /\ groups' = groups
    BY <1>1 DEF OneInv, AboutToRun, run_instances
  <2>9. LiveInGroups'
    BY <2>3, <2>7, <2>8 DEF OneInv, LiveInGroups
  <2>10. OneInstancePerMachine'
    <3> SUFFICES ASSUME NEW j \in DOMAIN instances', NEW k \in DOMAIN instances',
                        Live(j)', Live(k)', instances'[j].machine = instances'[k].machine
                 PROVE  j = k
      BY DEF OneInstancePerMachine
    <3>1. \A l \in DOMAIN instances : Live(l) => instances[l].machine # pass.machine
      BY <1>1 DEF OneInv, AboutToRun
    <3> QED BY <2>3, <2>7, <3>1 DEF OneInv, OneInstancePerMachine
  <2>11. AboutToRun' /\ AboutToRemoveGroup' /\ Launching'
    BY <1>1, <2>2, <2>3 DEF AboutToRun, AboutToRemoveGroup, Launching, At
  <2> QED BY <2>6, <2>9, <2>10, <2>11 DEF OneInv
<1> QED BY <1>2, <1>3 DEF run_instances

\* Recording an instance changes neither instances nor groups.
LEMMA OneSetInstanceId == ASSUME OneInv, set_instance_id PROVE OneInv'
<1>1. /\ pass \in Pass /\ pass.machine \in Machine
      /\ pass.instance \in DOMAIN instances /\ pass.instance \in Instance
  BY DEF set_instance_id, At, OneInv, Types, TypeOK, Pass, Launching
<1>2. pass' \in Pass /\ pass'.phase = "machines"
  <2>1. pass.kept \cup {pass.instance} \in SUBSET Instance
    BY <1>1 DEF Pass
  <2>2. \/ pass' = [pass EXCEPT !.phase = "machines", !.machine = None, !.instance = None]
        \/ pass' = [pass EXCEPT !.phase = "machines", !.machine = None, !.instance = None,
                                !.kept = pass.kept \cup {pass.instance}]
    BY <1>1 DEF set_instance_id, Skipped, Pass
  <2> QED BY <1>1, <2>1, <2>2 DEF Pass
<1>3. provider_machine' \in [Machine -> Instance \cup {None}]
  BY <1>1 DEF set_instance_id, OneInv, Types, TypeOK
<1> QED BY <1>2, <1>3, OnePassOnly DEF set_instance_id, provider, OneInv, Types, TypeOK

\* An instance told to terminate was live: it is the one of its machine.
LEMMA OneShutdown == ASSUME OneInv, shutdown_machine PROVE OneInv'
<1>1. pass \in Pass /\ pass.phase = "machines"
  BY DEF shutdown_machine, At, OneInv, Types, TypeOK, Pass
<1>2. /\ groups' = groups /\ UNCHANGED <<state, up, watched, current_machines>>
      /\ trouble' \in 0..MaxTrouble
  BY ProvisioningAssumption DEF shutdown_machine, Trouble, OneInv, Types, TypeOK
<1>3. PICK i \in unused :
        \/ /\ Found(i)
           /\ instances' = [instances EXCEPT ![i].state = "shutting-down"]
           /\ pass' = [pass EXCEPT !.phase = "poll", !.map = @ \ {i}, !.instance = i]
        \/ pass' = [pass EXCEPT !.map = @ \ {i}] /\ instances' = instances
  BY DEF shutdown_machine
<1>4. CASE pass' = [pass EXCEPT !.map = @ \ {i}] /\ instances' = instances
  <2>1. pass' \in Pass /\ pass'.phase = "machines"
    BY <1>1, <1>4 DEF Pass
  <2> QED BY <1>2, <1>4, <2>1, OnePassOnly DEF state, OneInv, Types, TypeOK
<1>5. CASE /\ Found(i)
           /\ instances' = [instances EXCEPT ![i].state = "shutting-down"]
           /\ pass' = [pass EXCEPT !.phase = "poll", !.map = @ \ {i}, !.instance = i]
  <2>1. i \in DOMAIN instances /\ Live(i) /\ i \in Instance
    BY <1>5 DEF Found, Live, OneInv, Types, TypeOK
  <2>2. pass' \in Pass /\ pass'.phase = "poll" /\ pass'.instance = i
    BY <1>1, <1>5, <2>1 DEF Pass
  <2>3. /\ DOMAIN instances' = DOMAIN instances
        /\ instances' \in [DOMAIN instances -> InstanceType]
        /\ \A j \in DOMAIN instances : instances'[j].machine = instances[j].machine
        /\ \A j : Live(j)' => Live(j)
    BY <1>5, <2>1 DEF OneInv, Types, InstanceType, Live
  <2>4. Types'
    BY <1>2, <2>2, <2>3 DEF OneInv, Types, TypeOK, InstanceType, Pass, state
  <2>5. AboutToRun' /\ Launching'
    BY <2>2 DEF AboutToRun, Launching, At
  <2>6. AboutToRemoveGroup'
    BY <2>1, <2>2, <2>3 DEF OneInv, OneInstancePerMachine, AboutToRemoveGroup
  <2> QED BY <1>2, <2>3, <2>4, <2>5, <2>6 DEF OneInv, LiveInGroups, OneInstancePerMachine
<1> QED BY <1>3, <1>4, <1>5

\* The group that goes is the one of a machine without a live instance.
LEMMA OneRemoveGroups == ASSUME OneInv, remove_security_groups PROVE OneInv'
<1>1. /\ pass \in Pass /\ At("poll") /\ pass.instance \in DOMAIN instances
      /\ instances \in [DOMAIN instances -> InstanceType]
  BY DEF remove_security_groups, At, OneInv, Types, TypeOK, Pass, AboutToRemoveGroup
<1>2. /\ UNCHANGED <<state, instances, up, watched, current_machines>>
      /\ trouble' \in 0..MaxTrouble
  BY ProvisioningAssumption
  DEF remove_security_groups, Raised, Trouble, OneInv, Types, TypeOK
<1>3. pass' = None \/ (pass' \in Pass /\ pass'.phase = "machines")
  BY <1>1 DEF remove_security_groups, Raised, Skipped, Pass
<1>4. CASE groups' = groups
  BY <1>2, <1>3, <1>4, OnePassOnly DEF state, OneInv, Types, TypeOK
<1>5. CASE /\ ~Live(pass.instance)
           /\ groups' = groups \ {instances[pass.instance].machine}
  <2>1. \A i \in DOMAIN instances :
            Live(i) => instances[i].machine # instances[pass.instance].machine
    BY <1>1, <1>5 DEF OneInv, AboutToRemoveGroup
  <2>2. LiveInGroups'
    BY <1>2, <1>5, <2>1 DEF OneInv, LiveInGroups, Live
  <2>3. Types'
    BY <1>2, <1>3, <1>5 DEF OneInv, Types, TypeOK, Pass, state
  <2>4. AboutToRun' /\ AboutToRemoveGroup' /\ Launching'
    BY <1>3 DEF AboutToRun, AboutToRemoveGroup, Launching, At
  <2> QED BY <1>2, <2>2, <2>3, <2>4 DEF OneInv, OneInstancePerMachine, Live
<1> QED BY <1>4, <1>5 DEF remove_security_groups

\* Every step of the agent, of users and of EC2 keeps the invariant.
LEMMA OneNext == ASSUME OneInv, [Next]_vars PROVE OneInv'
<1>1. CASE UNCHANGED vars
  BY <1>1 DEF vars, state, provider, agent, OneInv, Types, TypeOK, LiveInGroups, AboutToRun,
              AboutToRemoveGroup, Launching, OneInstancePerMachine, At, Live
<1>2. CASE finish
  <2>1. OneInv'
    BY <1>2, OnePassOnly DEF finish, state, provider, OneInv, Types, TypeOK
  <2> QED BY <2>1
<1>3. CASE \/ add_machine_state \/ terminate_machine \/ push_environment
           \/ start \/ configure_environment
  BY <1>3, OneCommands
<1>4. CASE watch_machine_states \/ periodic_machine_check \/ die
  BY <1>4, OneCallbacks
<1>5. CASE terminated \/ lost
  BY <1>5, OneTerminates
<1>6. CASE process
  BY <1>2, <1>6, OneGetMachines, OneNextMachine, OneLaunch, OneRunInstances,
     OneSetInstanceId, OneShutdown, OneRemoveGroups DEF process
<1> QED BY <1>1, <1>3, <1>4, <1>5, <1>6 DEF Next

\* The invariant holds throughout.
LEMMA OneInvariance == Spec => []OneInv
BY OneInit, OneNext, PTL DEF Spec

\* Whatever fails or dies between launching an instance and recording it, a
\* machine never has two instances: its security group stands in the way.
THEOREM OneInstance == Spec => []OneInstancePerMachine
BY OneInvariance, PTL DEF OneInv
-----------------------------------------------------------------------------
(* Instances in use are kept *)

\* The ids of the machines the agent knows of were created, and a machine that
\* is not in the topology has no instance recorded.
IdsUsed ==
    /\ current_machines \subseteq used_ids
    /\ \A m \in Machine \ machines : provider_machine[m] = None

\* A pass that looks after the recorded instances: any but one the timer began
\* before the machines were first read.
Looking == pass # None /\ ~pass.early
USE DEF Looking

\* Once the machines were read, the list the agent keeps has every machine
\* with a recorded instance.
RecordedKnown == watched # None \/ Looking =>
    \A m \in machines : provider_machine[m] # None => m \in current_machines

\* A machine the pass has still to look at, or is launching, is in that list.
ListKnown == pass # None => \A m \in pass.todo \cup ({pass.machine} \ {None}) :
    m \in used_ids /\ (m \in machines => m \in current_machines)

\* What is recorded will still be looked at, was kept, or is not among the
\* instances that may be shut down.
RecordedSafe == Looking => \A m \in machines : provider_machine[m] # None =>
    \/ m \in pass.todo
    \/ ~At("list") /\ provider_machine[m] \in pass.kept
    \/ ~At("list") /\ provider_machine[m] \notin pass.map

\* The inductive invariant of UsedInstancesKept.
KeptInv == IdsUsed /\ RecordedKnown /\ ListKnown /\ RecordedSafe

\* Nothing but a pass that records looks at recorded instances.
LEMMA KeptInit == Init => KeptInv
BY ProvisioningAssumption DEF Init, KeptInv, IdsUsed, RecordedKnown, ListKnown, RecordedSafe

\* A machine that comes has a new id and no instance; one that goes takes its
\* record along.
LEMMA KeptCommands ==
    ASSUME OneInv, KeptInv, add_machine_state \/ terminate_machine
    PROVE  KeptInv'
<1>1. UNCHANGED <<watched, current_machines, pass>>
  BY DEF add_machine_state, terminate_machine, agent
<1>2. CASE add_machine_state
  <2>1. PICK m \in Machine \ used_ids :
            machines' = machines \cup {m} /\ used_ids' = used_ids \cup {m}
    BY <1>2 DEF add_machine_state
  <2>2. provider_machine' = provider_machine
    BY <1>2 DEF add_machine_state
  <2>3. provider_machine[m] = None
    BY <2>1 DEF OneInv, Types, TypeOK, KeptInv, IdsUsed
  <2> QED BY <1>1, <2>1, <2>2, <2>3
          DEF KeptInv, IdsUsed, RecordedKnown, ListKnown, RecordedSafe, At
<1>3. CASE terminate_machine
  <2>1. PICK m \in machines \ {0} : /\ machines' = machines \ {m}
                                    /\ provider_machine' = [provider_machine EXCEPT ![m] = None]
    BY <1>3 DEF terminate_machine
  <2>2. used_ids' = used_ids
    BY <1>3 DEF terminate_machine
  <2>3. /\ provider_machine \in [Machine -> Instance \cup {None}] /\ machines \subseteq Machine
    BY DEF OneInv, Types, TypeOK
  <2>4. /\ provider_machine'[m] = None
        /\ \A m2 \in Machine \ {m} : provider_machine'[m2] = provider_machine[m2]
    BY <2>1, <2>3
  <2>5. IdsUsed'
    BY <1>1, <2>1, <2>2, <2>4 DEF KeptInv, IdsUsed
  <2>6. RecordedKnown'
    BY <1>1, <2>1, <2>3, <2>4 DEF KeptInv, RecordedKnown
  <2>7. ListKnown'
    BY <1>1, <2>1, <2>2 DEF KeptInv, ListKnown
  <2>8. RecordedSafe'
    BY <1>1, <2>1, <2>3, <2>4 DEF KeptInv, RecordedSafe, At
  <2> QED BY <2>5, <2>6, <2>7, <2>8 DEF KeptInv
<1> QED BY <1>2, <1>3

\* The list of a pass that begins has every machine with an instance.
LEMMA KeptCallbacks ==
    ASSUME OneInv, KeptInv,
           watch_machine_states \/ periodic_machine_check \/ die
    PROVE  KeptInv'
<1>1. /\ machines' = machines /\ used_ids' = used_ids
      /\ provider_machine' = provider_machine
  BY DEF watch_machine_states, periodic_machine_check, die, state
<1>2. machines \subseteq used_ids /\ machines \subseteq Machine
  BY DEF OneInv, Types, TypeOK
<1>3. CASE die
  <2>1. watched' = None /\ current_machines' = {} /\ pass' = None
    BY <1>3 DEF die, Forget
  <2> QED BY <1>1, <2>1 DEF KeptInv, IdsUsed, RecordedKnown, ListKnown, RecordedSafe
<1>4. ASSUME NEW list, NEW by, process_machines(list, by), list = current_machines',
             \/ current_machines' = machines
             \/ /\ current_machines' = current_machines /\ watched' = watched
                /\ by = "timer"
      PROVE  KeptInv'
  <2>1. IdsUsed'
    BY <1>1, <1>2, <1>4 DEF KeptInv, IdsUsed
  <2>2. CASE pass' = pass
    BY <1>1, <1>4, <2>1, <2>2 DEF KeptInv, RecordedKnown, ListKnown, RecordedSafe, At
  <2>3. CASE pass' = [phase |-> "list", by |-> by, early |-> by = "timer" /\ watched = None,
                      todo |-> list, map |-> {}, kept |-> {}, machine |-> None,
                      instance |-> None]
    <3>1. /\ pass'.todo = list /\ pass'.machine = None
          /\ pass'.early <=> by = "timer" /\ watched = None
      BY <2>3
    <3>2. list \subseteq used_ids
      BY <1>2, <1>4 DEF KeptInv, IdsUsed
    <3>3. ListKnown'
      BY <1>1, <1>4, <3>1, <3>2 DEF ListKnown
    <3>4. RecordedKnown'
      BY <1>1, <1>4, <3>1 DEF KeptInv, RecordedKnown
    <3>5. RecordedSafe'
      BY <1>1, <1>4, <3>1, <3>4 DEF RecordedSafe, RecordedKnown
    <3> QED BY <2>1, <3>3, <3>4, <3>5 DEF KeptInv
  <2> QED BY <1>4, <2>2, <2>3 DEF process_machines
<1>5. CASE watch_machine_states
  BY <1>4, <1>5 DEF watch_machine_states, watch_machine_changes
<1>6. CASE periodic_machine_check
  BY <1>4, <1>6 DEF periodic_machine_check
<1> QED BY <1>3, <1>5, <1>6

\* A pass that goes on with what it has to look at, or ends, loses no record.
LEMMA KeptPass ==
    ASSUME KeptInv, machines' = machines, used_ids' = used_ids,
           provider_machine' = provider_machine, watched' = watched,
           current_machines' = current_machines, pass # None,
           \/ pass' = None
           \/ /\ pass'.phase # "list" /\ pass.phase # "list"
              /\ pass'.todo = pass.todo /\ pass'.kept = pass.kept
              /\ pass'.early = pass.early /\ pass'.map \subseteq pass.map /\ pass'.machine \in {pass.machine, None}
    PROVE  KeptInv'
<1>1. IdsUsed' /\ RecordedKnown'
  BY DEF KeptInv, IdsUsed, RecordedKnown
<1>2. ListKnown'
  BY DEF KeptInv, ListKnown
<1>3. RecordedSafe'
  BY DEF KeptInv, RecordedSafe, At
<1> QED BY <1>1, <1>2, <1>3 DEF KeptInv

\* The instances are listed before any machine is looked at.
LEMMA KeptGetMachines == ASSUME OneInv, KeptInv, get_machines PROVE KeptInv'
<1>1. pass \in Pass /\ pass.phase = "list" /\ pass # None
  BY DEF get_machines, At, OneInv, Types, TypeOK, Pass
<1>2. /\ machines' = machines /\ used_ids' = used_ids /\ watched' = watched
      /\ provider_machine' = provider_machine /\ current_machines' = current_machines
  BY DEF get_machines, state
<1>3. CASE pass' = None
  BY <1>1, <1>2, <1>3, KeptPass
<1>4. CASE pass' = [pass EXCEPT !.phase = "machines",
                                !.map = {i \in DOMAIN instances : Found(i)}]
  <2>1. /\ pass'.phase = "machines" /\ pass'.todo = pass.todo /\ pass'.machine = pass.machine
        /\ pass'.early = pass.early
    BY <1>1, <1>4 DEF Pass
  <2>2. IdsUsed' /\ RecordedKnown' /\ ListKnown'
    BY <1>1, <1>2, <2>1 DEF KeptInv, IdsUsed, RecordedKnown, ListKnown
  <2>3. RecordedSafe'
    BY <1>1, <1>2, <2>1 DEF KeptInv, RecordedSafe, At
  <2> QED BY <2>2, <2>3 DEF KeptInv
<1> QED BY <1>3, <1>4 DEF get_machines, Raised

\* A machine that was looked at was kept, is gone, or is to be launched.
LEMMA KeptNextMachine == ASSUME OneInv, KeptInv, next_machine PROVE KeptInv'
<1>1. pass \in Pass /\ pass.phase = "machines" /\ pass # None
  BY DEF next_machine, At, OneInv, Types, TypeOK, Pass
<1>2. /\ machines' = machines /\ used_ids' = used_ids /\ watched' = watched
      /\ provider_machine' = provider_machine /\ current_machines' = current_machines
  BY DEF next_machine, state
<1>3. PICK m \in pass.todo : pass' = process_machine([pass EXCEPT !.todo = @ \ {m}], m)
  BY DEF next_machine
<1>4. /\ pass'.phase \in {"machines", "groups"} /\ pass'.todo = pass.todo \ {m}
      /\ pass'.map = pass.map /\ pass'.machine \in {pass.machine, m}
      /\ pass'.early = pass.early
      /\ pass.kept \subseteq pass'.kept
      /\ m \in machines /\ provider_machine[m] \in pass.map => provider_machine[m] \in pass'.kept
  BY <1>1, <1>3 DEF process_machine, Pass
<1>5. IdsUsed' /\ RecordedKnown'
  BY <1>1, <1>2, <1>4 DEF KeptInv, IdsUsed, RecordedKnown
<1>6. ListKnown'
  BY <1>1, <1>2, <1>3, <1>4 DEF KeptInv, ListKnown
<1>7. RecordedSafe'
  BY <1>1, <1>2, <1>4 DEF KeptInv, RecordedSafe, At
<1> QED BY <1>5, <1>6, <1>7 DEF KeptInv

\* The instance that is recorded is kept in the same step.
LEMMA KeptSetInstanceId == ASSUME OneInv, KeptInv, set_instance_id PROVE KeptInv'
<1>1. /\ pass \in Pass /\ pass.phase = "record" /\ pass # None /\ pass.machine \in Machine
      /\ provider_machine \in [Machine -> Instance \cup {None}]
      /\ machines \subseteq Machine
  BY DEF set_instance_id, At, OneInv, Types, TypeOK, Pass, Launching
<1>2. /\ machines' = machines /\ used_ids' = used_ids /\ watched' = watched
      /\ current_machines' = current_machines
  BY DEF set_instance_id
<1>3. CASE pass.machine \notin machines
  <2>1. Skipped /\ provider_machine' = provider_machine
    BY <1>3 DEF set_instance_id
  <2> QED BY <1>1, <1>2, <2>1, KeptPass DEF Skipped, Pass
<1>4. CASE pass.machine \in machines
  <2>1. /\ provider_machine' = [provider_machine EXCEPT ![pass.machine] = pass.instance]
        /\ pass' = [pass EXCEPT !.phase = "machines", !.machine = None,
                        !.instance = None, !.kept = @ \cup {pass.instance}]
    BY <1>4 DEF set_instance_id
  <2>2. /\ pass'.phase = "machines" /\ pass'.todo = pass.todo /\ pass'.map = pass.map
        /\ pass'.machine = None /\ pass'.kept = pass.kept \cup {pass.instance}
        /\ pass'.early = pass.early
    BY <1>1, <2>1 DEF Pass
  <2>3. /\ provider_machine'[pass.machine] = pass.instance
        /\ \A m \in Machine \ {pass.machine} : provider_machine'[m] = provider_machine[m]
    BY <1>1, <2>1
  <2>4. pass.machine \in current_machines
    BY <1>1, <1>4, ProvisioningAssumption DEF KeptInv, ListKnown, Machine
  <2>5. IdsUsed'
    BY <1>2, <1>4, <2>3 DEF KeptInv, IdsUsed
  <2>6. RecordedKnown'
    BY <1>1, <1>2, <2>2, <2>3, <2>4 DEF KeptInv, RecordedKnown
  <2>7. ListKnown'
    BY <1>1, <1>2, <2>2 DEF KeptInv, ListKnown
  <2>8. RecordedSafe'
    BY <1>1, <1>2, <2>2, <2>3 DEF KeptInv, RecordedSafe, At
  <2> QED BY <2>5, <2>6, <2>7, <2>8 DEF KeptInv
<1> QED BY <1>3, <1>4

\* The other steps of a pass record nothing.
LEMMA KeptProcess ==
    ASSUME OneInv, KeptInv,
           launch \/ run_instances \/ shutdown_machine \/ remove_security_groups \/ finish
    PROVE  KeptInv'
<1>1. /\ machines' = machines /\ used_ids' = used_ids /\ watched' = watched
      /\ provider_machine' = provider_machine /\ current_machines' = current_machines
  BY DEF launch, run_instances, shutdown_machine, remove_security_groups, finish, state
<1>2. pass \in Pass /\ pass # None /\ pass.phase # "list"
  BY DEF launch, run_instances, shutdown_machine, remove_security_groups, finish, At,
         OneInv, Types, TypeOK, Pass
<1>3. \/ pass' = None
      \/ /\ pass'.phase # "list"
         /\ pass'.todo = pass.todo /\ pass'.kept = pass.kept
         /\ pass'.early = pass.early /\ pass'.map \subseteq pass.map /\ pass'.machine \in {pass.machine, None}
  <2>1. CASE launch
    BY <1>2, <2>1 DEF launch, ensure_groups, Skipped, Raised, Pass
  <2>2. CASE run_instances
    BY <1>2, <2>2 DEF run_instances, Raised, Pass
  <2>3. CASE shutdown_machine
    <3>1. PICK i \in unused :
            \/ pass' = [pass EXCEPT !.phase = "poll", !.map = @ \ {i}, !.instance = i]
            \/ pass' = [pass EXCEPT !.map = @ \ {i}]
      BY <2>3 DEF shutdown_machine
    <3>2. pass.phase = "machines"
      BY <2>3 DEF shutdown_machine, At
    <3> QED BY <1>2, <3>1, <3>2 DEF Pass
  <2>4. CASE remove_security_groups \/ finish
    BY <1>2, <2>4 DEF remove_security_groups, finish, Skipped, Raised, Pass
  <2> QED BY <2>1, <2>2, <2>3, <2>4
<1> QED BY <1>1, <1>2, <1>3, KeptPass

\* Every step keeps the records safe.
LEMMA KeptNext == ASSUME OneInv, KeptInv, [Next]_vars PROVE KeptInv'
<1>1. CASE \/ UNCHANGED vars \/ push_environment \/ start \/ configure_environment
           \/ terminated \/ lost
  <2>1. /\ UNCHANGED <<machines, used_ids, provider_machine>>
        /\ UNCHANGED <<watched, current_machines, pass>> \/ Forget
    BY <1>1 DEF vars, push_environment, start, configure_environment, terminated, lost,
                state, agent
  <2>2. CASE UNCHANGED <<watched, current_machines, pass>>
    BY <2>1, <2>2 DEF KeptInv, IdsUsed, RecordedKnown, ListKnown, RecordedSafe, At
  <2>3. CASE Forget
    BY <2>1, <2>3 DEF Forget, KeptInv, IdsUsed, RecordedKnown, ListKnown, RecordedSafe
  <2> QED BY <2>1, <2>2, <2>3
<1>2. CASE add_machine_state \/ terminate_machine
  BY <1>2, KeptCommands
<1>3. CASE watch_machine_states \/ periodic_machine_check \/ die
  BY <1>3, KeptCallbacks
<1>4. CASE process
  BY <1>4, KeptGetMachines, KeptNextMachine, KeptSetInstanceId, KeptProcess DEF process
<1> QED BY <1>1, <1>2, <1>3, <1>4 DEF Next

\* When a pass that had a list shuts an instance down it has looked at every
\* machine.
LEMMA KeptStep ==
    ASSUME OneInv, KeptInv, [Next]_vars, NEW m \in machines, NEW i \in DOMAIN instances,
           provider_machine[m] = i, instances[i].state = "running"
    PROVE  instances'[i].state # "shutting-down" \/ pass.early
<1>0. /\ instances \in [DOMAIN instances -> InstanceType]
      /\ DOMAIN instances \subseteq Instance
  BY DEF OneInv, Types, TypeOK
<1>1. CASE shutdown_machine
  <2>1. PICK j \in unused :
            \/ instances' = [instances EXCEPT ![j].state = "shutting-down"]
            \/ instances' = instances
    BY <1>1 DEF shutdown_machine
  <2>2. At("machines") /\ pass # None /\ pass.todo = {}
    BY <1>1 DEF shutdown_machine, At
  <2>3. provider_machine[m] # None
    BY <1>0, ProvisioningAssumption DEF Instance
  <2>4. i \notin unused \/ pass.early
    BY <2>2, <2>3 DEF KeptInv, RecordedSafe, unused
  <2> QED BY <1>0, <2>1, <2>4
<1>2. CASE terminated
  <2>1. PICK j \in DOMAIN instances :
            instances' = [instances EXCEPT ![j].state = "terminated"]
    BY <1>2 DEF terminated
  <2> QED BY <1>0, <2>1 DEF InstanceType
<1>3. CASE lost
  <2>1. PICK j \in DOMAIN instances :
            instances' = [instances EXCEPT ![j].state = "terminated"]
    BY <1>3 DEF lost
  <2> QED BY <1>0, <2>1 DEF InstanceType
<1>4. CASE run_instances
  BY <1>0, <1>4 DEF run_instances
<1>5. CASE UNCHANGED instances
  BY <1>5
<1>6. \/ shutdown_machine \/ terminated \/ lost \/ run_instances \/ UNCHANGED instances
  BY DEF Next, vars, provider, process, add_machine_state, terminate_machine,
         push_environment, start, configure_environment, watch_machine_states,
         periodic_machine_check, die, get_machines, next_machine, launch, set_instance_id,
         remove_security_groups, finish
<1> QED BY <1>1, <1>2, <1>3, <1>4, <1>5, <1>6

\* However old the list of a pass is, the instance recorded for a machine of
\* the topology is shut down only by a pass the timer began before the machines
\* were first read (agents/provision.py, periodic_machine_check).
THEOREM UsedKept == Spec => UsedInstancesKept
<1>1. Init => KeptInv
  BY KeptInit
<1>2. OneInv /\ KeptInv /\ [Next]_vars => KeptInv'
  BY KeptNext
<1>3. OneInv /\ KeptInv /\ [Next]_vars =>
        [\A m \in machines, i \in DOMAIN instances :
           provider_machine[m] = i /\ instances[i].state = "running"
               => instances'[i].state # "shutting-down" \/ pass.early]_vars
  BY KeptStep
<1> QED BY <1>1, <1>2, <1>3, OneInvariance, PTL DEF Spec, UsedInstancesKept
=============================================================================
