------------------------------ MODULE UnitAgent ------------------------------
(***************************************************************************)
(* The unit agent: its workflow (juju/unit/workflow.py over                *)
(* juju/lib/statemachine.py), the lifecycle operations the transitions     *)
(* perform (juju/unit/lifecycle.py), and the callbacks by which users'     *)
(* requests reach it (juju/agents/unit.py).                                *)
(*                                                                         *)
(* The workflow lock lets one party fire transitions at a time: the agent  *)
(* as it starts, or the callback of one of three watches.  A transition is *)
(* recorded as inflight, its action carried out step by step, and its      *)
(* destination recorded; the process may die between any two steps, and a  *)
(* new one resumes from what is on disk.                                   *)
(***************************************************************************)
EXTENDS Naturals, SequencesExt

CONSTANTS
    Faults,       \* what may fail: "hook", "prepare", "extract", "torn"
    MaxCharm,     \* bound: upgrades of the service
    MaxCrashes,   \* bound: deaths of the agent process
    None

ASSUME UnitAgentAssumption ==
    /\ Faults \subseteq {"hook", "prepare", "extract", "torn"}
    /\ MaxCharm \in Nat /\ MaxCrashes \in Nat

VARIABLES
    disk,            \* the workflow state file: state and inflight transition
    zookeeper,       \* the state as commands see it
    up,              \* the process: "off", "starting", "on" or "failed"
    first,           \* the watches whose first callback is still to end
    lost,            \* the watches a callback ended by raising
    lock,            \* who holds the workflow lock, then who waits for it
    job,             \* the request each party is to carry out
    firing,          \* the transition the holder fires, and what is left to do
    executor,        \* HookExecutor.running
    lifecycle,       \* UnitLifecycle.running
    resolved,        \* the unit's resolved node
    upgrade_flag,    \* the unit's upgrade node
    config_changed,  \* the configuration changed since the watch last fired
    resolving,       \* a resolved command that found the unit not running
    publishing,      \* an upgrade command between its two writes
    service_charm,   \* the charm the service is to run
    unit_charm,      \* the charm the unit is recorded to run
    owed,            \* history: a new charm is in place, its hook is to run
    torn,            \* history: the process died while writing the state file
    stranded,        \* history: a forced upgrade failed and left the executor stopped
    crashes          \* deaths so far

process  == <<up, first, lost, lock, job, firing>>
running  == <<executor, lifecycle>>
commands == <<resolving, publishing>>
requests == <<resolved, upgrade_flag, config_changed, commands, service_charm>>
history  == <<owed, torn, stranded, crashes>>
vars     == <<disk, zookeeper, process, running, requests, unit_charm, history>>

Watch == {"resolved", "config", "upgrade"}
Party == Watch \cup {"start"}
Charm == 0..MaxCharm
-----------------------------------------------------------------------------
(* The workflow *)

Transition(source, destination, error, alias, action) ==
    [source |-> source, destination |-> destination, error |-> error,
     alias |-> alias, action |-> action]

\* The transitions, each with the steps of its do_* method.  Nothing fires
\* the stop transitions; they are left out.
UnitWorkflow == [
    install |-> Transition(None, "installed", "error_install", None, <<"install">>),
    error_install |-> Transition(None, "install_error", None, None, <<>>),
    retry_install |-> Transition("install_error", "installed", None, "retry", <<>>),
    retry_install_hook |-> Transition("install_error", "installed", None, "retry_hook",
        <<"install">>),
    start |-> Transition("installed", "started", "error_start", None,
        <<"config-changed", "start", "run">>),
    error_start |-> Transition("installed", "start_error", None, None, <<>>),
    retry_start |-> Transition("start_error", "started", None, "retry", <<"run">>),
    retry_start_hook |-> Transition("start_error", "started", None, "retry_hook",
        <<"config-changed", "start", "run">>),
    upgrade_charm |-> Transition("started", "started", "upgrade_charm_error", None,
        <<"prepare">>),
    upgrade_charm_error |-> Transition("started", "charm_upgrade_error", None, None, <<>>),
    retry_upgrade_charm_error |-> Transition("charm_upgrade_error", "charm_upgrade_error",
        None, None, <<>>),
    retry_upgrade_charm |-> Transition("charm_upgrade_error", "started",
        "retry_upgrade_charm_error", "retry", <<"prepare">>),
    retry_upgrade_charm_hook |-> Transition("charm_upgrade_error", "started",
        "retry_upgrade_charm_error", "retry_hook", <<"prepare">>),
    configure |-> Transition("started", "started", "error_configure", None,
        <<"verify", "config-changed">>),
    error_configure |-> Transition("started", "configure_error", None, None, <<"halt">>),
    error_retry_configure |-> Transition("configure_error", "configure_error",
        None, None, <<"halt">>),
    retry_configure |-> Transition("configure_error", "started",
        "error_retry_configure", "retry", <<"run">>),
    retry_configure_hook |-> Transition("configure_error", "started",
        "error_retry_configure", "retry_hook", <<"run", "verify", "config-changed">>)]

TransitionId == DOMAIN UnitWorkflow
State == {UnitWorkflow[t].source : t \in TransitionId} \cup
         {UnitWorkflow[t].destination : t \in TransitionId}
automatic == {"install", "start"}

Step == {"store", "install", "config-changed", "start", "run", "halt", "verify", "prepare",
         "pause", "extract", "record", "upgrade-charm", "resume"}

\* What the holder of the lock fires: a transition, the choice of an automatic
\* one, or a forced upgrade outside any transition; and the steps left to do.
Firing == [id : TransitionId \cup {"automatic", "force"}, todo : Seq(Step),
           charm : Charm \cup {None}]

ASSUME NoneAssumption ==
    /\ None \notin Firing
    /\ None \notin {UnitWorkflow[t].destination : t \in TransitionId} \cup TransitionId
    /\ None \notin {"retry", "retry_hook", "normal", "force", "configure"}

\* (run_executor, run_lifecycle) for what is on disk.
mid_upgrade == \/ disk.state = "charm_upgrade_error"
               \/ disk.state = "started" /\ disk.inflight = "upgrade_charm"

\* Mutant of run_executor: started units only.
run_executor_started == disk.state = "started" /\ ~mid_upgrade

run_executor == ~mid_upgrade
run_lifecycle == disk.state \in {"charm_upgrade_error", "started"}
-----------------------------------------------------------------------------
Init ==
    /\ disk = [state |-> None, inflight |-> None]
    /\ up = "off" /\ first = <<>> /\ lost = {} /\ lock = <<>>
    /\ job = [p \in Party |-> None] /\ firing = None
    /\ executor = FALSE /\ lifecycle = FALSE
    /\ resolved = None /\ upgrade_flag = None /\ config_changed = FALSE
    /\ zookeeper = None /\ resolving = None /\ publishing = None
    /\ service_charm = 0 /\ unit_charm = 0
    /\ owed = FALSE /\ torn = FALSE /\ stranded = FALSE /\ crashes = 0

Holder == Head(lock)

\* The holder's callback returns: the lock goes to the next and the watch
\* listens again.
Return ==
    /\ lock' = Tail(lock)
    /\ job' = [job EXCEPT ![Holder] = None]
    /\ firing' = None
    /\ up' = IF Holder = "start" THEN "on" ELSE up
    /\ first' = IF Holder = "start" THEN <<"resolved", "config", "upgrade">>
                ELSE IF first # <<>> /\ Head(first) = Holder THEN Tail(first)
                ELSE first
    /\ UNCHANGED lost

\* It raises: cb_watch_resolved logs the error, any other watch is not set
\* again, and an agent that was starting goes no further.
Raise ==
    IF Holder = "resolved" THEN Return
    ELSE /\ lock' = Tail(lock)
         /\ job' = [job EXCEPT ![Holder] = None]
         /\ firing' = None
         /\ up' = IF Holder = "start" THEN "failed" ELSE up
         /\ lost' = IF Holder = "start" THEN lost
                    ELSE IF first # <<>> /\ Head(first) = Holder
                    THEN lost \cup Range(first) ELSE lost \cup {Holder}
         /\ UNCHANGED first

\* What was stored on disk is stored in ZooKeeper before anything else is done.
Carry(id, todo) ==
    firing' = [id |-> id, todo |-> <<"store">> \o todo, charm |-> None]

\* fire_transition, up to the transition's action.
fire_transition(t) ==
    IF UnitWorkflow[t].source = disk.state
    THEN /\ disk' = [disk EXCEPT !.inflight = t]
         /\ Carry(t, UnitWorkflow[t].action)
         /\ UNCHANGED <<up, first, lost, lock, job>>
    ELSE Raise /\ UNCHANGED disk

\* The transitions with an alias from the current state.
aliased(alias) ==
    {t \in TransitionId : /\ UnitWorkflow[t].source = disk.state
                          /\ UnitWorkflow[t].alias = alias}

fire_transition_alias(alias) ==
    IF aliased(alias) = {} THEN Raise /\ UNCHANGED disk
    ELSE \E t \in aliased(alias) : fire_transition(t)

\* After a transition: an automatic one from the state reached, if any.
Automatic ==
    /\ firing # None /\ firing.id = "automatic" /\ firing.todo = <<>>
    /\ LET ts == {t \in automatic : UnitWorkflow[t].source = disk.state}
       IN  IF ts = {} THEN Return /\ UNCHANGED disk
           ELSE \E t \in ts : fire_transition(t)
    /\ UNCHANGED <<zookeeper, running, requests, unit_charm, history>>

\* A new process, with the executor and the lifecycle the state calls for.
Start ==
    /\ up = "off"
    /\ up' = "starting" /\ lock' = <<"start">>
    /\ executor' = run_executor /\ lifecycle' = run_lifecycle
    /\ UNCHANGED <<disk, zookeeper, first, lost, job, firing, requests, unit_charm, history>>

Acquired(p) == lock # <<>> /\ Holder = p /\ firing = None

\* synchronize: complete an abandoned transition, or fire automatic ones.
Synchronize ==
    /\ Acquired("start")
    /\ IF disk.inflight # None THEN fire_transition(disk.inflight)
       ELSE /\ firing' = [id |-> "automatic", todo |-> <<>>, charm |-> None]
            /\ UNCHANGED <<disk, up, first, lost, lock, job>>
    /\ UNCHANGED <<zookeeper, running, requests, unit_charm, history>>

cb_watch_resolved ==
    /\ Acquired("resolved")
    /\ IF disk.state = "started" THEN Return /\ UNCHANGED disk
       ELSE fire_transition_alias(job["resolved"])
    /\ UNCHANGED <<zookeeper, running, requests, unit_charm, history>>

cb_watch_upgrade_flag ==
    /\ Acquired("upgrade")
    /\ IF disk.state = "started" THEN fire_transition("upgrade_charm")
       ELSE /\ IF job["upgrade"] = "force"
               THEN firing' = [id |-> "force", todo |-> <<"prepare">>, charm |-> None]
                    /\ UNCHANGED <<up, first, lost, lock, job>>
               ELSE Return
            /\ UNCHANGED disk
    /\ UNCHANGED <<zookeeper, running, requests, unit_charm, history>>

cb_watch_config_changed ==
    /\ Acquired("config")
    /\ IF disk.state = "started" THEN fire_transition("configure")
       ELSE Return /\ UNCHANGED disk
    /\ UNCHANGED <<zookeeper, running, requests, unit_charm, history>>
-----------------------------------------------------------------------------
(* The steps of an action *)

Doing(step) == firing # None /\ firing.todo # <<>> /\ Head(firing.todo) = step

Done == /\ firing' = [firing EXCEPT !.todo = Tail(@)]
        /\ UNCHANGED <<disk, up, first, lost, lock, job>>

\* DiskWorkflowState stores in ZooKeeper what it has written to disk.
StoreState ==
    /\ Doing("store")
    /\ Done /\ zookeeper' = disk.state
    /\ UNCHANGED <<running, requests, unit_charm, history>>

\* A hook through the executor's queue: it waits while the executor is stopped.
HookEnds ==
    /\ \E h \in {"install", "config-changed", "start"} : Doing(h)
    /\ executor
    /\ Done
    /\ UNCHANGED <<zookeeper, running, requests, unit_charm, history>>

\* UnitLifecycle.start and stop, as far as the workflow sees them.
RunLifecycle ==
    /\ Doing("run")
    /\ Done /\ lifecycle' = TRUE
    /\ UNCHANGED <<zookeeper, executor, requests, unit_charm, history>>

\* Mutant of HaltLifecycle: forgets that the lifecycle stopped.
HaltUnnoticed ==
    /\ Doing("halt")
    /\ IF lifecycle THEN Done ELSE Raise /\ UNCHANGED disk
    /\ UNCHANGED <<zookeeper, running, requests, unit_charm, history>>

\* "Already Stopped" and "Needs to be running" are assertions: they raise
\* through the transition, which stays inflight.
HaltLifecycle ==
    /\ Doing("halt")
    /\ IF lifecycle THEN Done ELSE Raise /\ UNCHANGED disk
    /\ lifecycle' = FALSE
    /\ UNCHANGED <<zookeeper, executor, requests, unit_charm, history>>

VerifyRunning ==
    /\ Doing("verify")
    /\ IF lifecycle THEN Done ELSE Raise /\ UNCHANGED disk
    /\ UNCHANGED <<zookeeper, running, requests, unit_charm, history>>

\* Mutant of fire_hooks: only a new charm has its hook run.
fire_no_hooks == FALSE

\* The fire_hooks argument of upgrade_charm.
fire_hooks == firing.id # "retry_upgrade_charm"

\* Mutant of upgrade_steps: stops the executor for the hook only.
upgrade_unpaused(ready) ==
    (IF ready THEN <<"extract", "record">> ELSE <<>>)
    \o <<"pause">>
    \o (IF (ready \/ fire_hooks) /\ firing.id # "force" THEN <<"upgrade-charm">> ELSE <<>>)
    \o <<"resume">>

\* upgrade_charm once the charms are known: a new charm always has its hook run.
upgrade_steps(ready) ==
    <<"pause">>
    \o (IF ready THEN <<"extract", "record">> ELSE <<>>)
    \o (IF (ready \/ fire_hooks) /\ firing.id # "force" THEN <<"upgrade-charm">> ELSE <<>>)
    \o <<"resume">>

PrepareUpgrade ==
    /\ Doing("prepare")
    /\ firing' = [firing EXCEPT !.todo = upgrade_steps(service_charm # unit_charm),
                                !.charm = service_charm]
    /\ UNCHANGED <<disk, zookeeper, up, first, lost, lock, job, running, requests, unit_charm,
                   history>>

PauseExecutor ==
    /\ Doing("pause")
    /\ Done /\ executor' = FALSE
    /\ UNCHANGED <<zookeeper, lifecycle, requests, unit_charm, history>>

ExtractCharm ==
    /\ Doing("extract")
    /\ Done /\ owed' = (owed \/ firing.id # "force")
    /\ UNCHANGED <<zookeeper, running, requests, unit_charm, torn, stranded, crashes>>

RecordCharm ==
    /\ Doing("record")
    /\ Done /\ unit_charm' = firing.charm
    /\ UNCHANGED <<zookeeper, running, requests, history>>

\* A priority hook: the executor must be stopped.
UpgradeHookEnds ==
    /\ Doing("upgrade-charm") /\ ~executor
    /\ Done /\ owed' = FALSE
    /\ UNCHANGED <<zookeeper, running, requests, unit_charm, torn, stranded, crashes>>

ResumeExecutor ==
    /\ Doing("resume") /\ ~executor
    /\ Done /\ executor' = TRUE /\ stranded' = FALSE
    /\ UNCHANGED <<zookeeper, lifecycle, requests, unit_charm, owed, torn, crashes>>

\* The steps that may fail, each by the fault that makes it fail.
fault == [s \in {"install", "config-changed", "start", "upgrade-charm", "prepare", "extract",
                  "record"} |->
             IF s = "prepare" THEN "prepare"
             ELSE IF s \in {"extract", "record"} THEN "extract" ELSE "hook"]

\* set_inflight(None)
forget_transition == disk' = [disk EXCEPT !.inflight = None]

\* A hook or an upgrade fails: the error transition is fired, or the
\* transition is forgotten; outside a transition the error is raised, and an
\* executor that was stopped for the upgrade stays so.
ActionFails ==
    /\ firing # None /\ firing.todo # <<>>
    /\ LET s == Head(firing.todo)
       IN  /\ s \in DOMAIN fault /\ fault[s] \in Faults
           /\ s \in {"install", "config-changed", "start"} => executor
    /\ IF firing.id = "force" THEN Raise /\ UNCHANGED disk
       ELSE IF UnitWorkflow[firing.id].error # None
       THEN fire_transition(UnitWorkflow[firing.id].error)
       ELSE Return /\ forget_transition
    /\ stranded' = (stranded \/ (firing.id = "force" /\ ~executor))
    /\ UNCHANGED <<zookeeper, running, requests, unit_charm, owed, torn, crashes>>

\* The action is over: the new state is stored, and with it no transition.
\* A user who resolves an upgrade without hooks waives its hook.
SetState ==
    /\ firing # None /\ firing.id # "automatic" /\ firing.todo = <<>>
    /\ IF firing.id = "force" THEN Return /\ UNCHANGED <<disk, owed>>
       ELSE /\ disk' = [state |-> UnitWorkflow[firing.id].destination, inflight |-> None]
            /\ Carry("automatic", <<>>)
            /\ owed' = (owed /\ firing.id # "retry_upgrade_charm")
            /\ UNCHANGED <<up, first, lost, lock, job>>
    /\ UNCHANGED <<zookeeper, running, requests, unit_charm, torn, stranded, crashes>>
-----------------------------------------------------------------------------
(* Watches, users, deaths *)

\* May watch p call back?  Callbacks of one watch follow each other; the
\* watches are set one after the other's first callback.
Listening(p) ==
    /\ up = "on" /\ p \notin lost /\ job[p] = None
    /\ p \in Range(first) => p = Head(first)

Enqueue(p, request) ==
    /\ job' = [job EXCEPT ![p] = request]
    /\ lock' = Append(lock, p)
    /\ UNCHANGED first

\* A first callback that finds nothing to do.
NothingFirst(p) ==
    /\ first' = IF first # <<>> /\ Head(first) = p THEN Tail(first) ELSE first
    /\ UNCHANGED <<job, lock>>

\* The callback reads and clears the node, then waits for the lock.
TakeResolved ==
    /\ Listening("resolved")
    /\ IF resolved # None THEN Enqueue("resolved", resolved)
       ELSE "resolved" \in Range(first) /\ NothingFirst("resolved")
    /\ resolved' = None
    /\ UNCHANGED <<disk, zookeeper, up, lost, firing, running, upgrade_flag, config_changed,
                   commands, service_charm, unit_charm, history>>

TakeUpgradeFlag ==
    /\ Listening("upgrade")
    /\ upgrade_flag # None \/ "upgrade" \in Range(first)
    /\ IF upgrade_flag # None /\ service_charm # unit_charm
       THEN Enqueue("upgrade", upgrade_flag) ELSE NothingFirst("upgrade")
    /\ upgrade_flag' = None
    /\ UNCHANGED <<disk, zookeeper, up, lost, firing, running, resolved, config_changed,
                   commands, service_charm, unit_charm, history>>

TakeConfigChange ==
    /\ Listening("config")
    /\ config_changed \/ "config" \in Range(first)
    /\ Enqueue("config", "configure")
    /\ config_changed' = FALSE
    /\ UNCHANGED <<disk, zookeeper, up, lost, firing, running, resolved, upgrade_flag,
                   commands, service_charm, unit_charm, history>>

\* What a command finds in ZooKeeper.
is_unit_running == zookeeper = "started"

\* juju resolved, with or without --retry.
ResolveUnit == \E retry \in {"retry", "retry_hook"} :
    /\ resolving = None /\ ~is_unit_running
    /\ resolving' = retry
    /\ UNCHANGED <<disk, zookeeper, process, running, resolved, upgrade_flag, config_changed,
                   publishing, service_charm, unit_charm, history>>

\* set_resolved, which fails if the node is there.  The unit may run by now.
SetResolved ==
    /\ resolving # None
    /\ resolved' = IF resolved = None THEN resolving ELSE resolved
    /\ resolving' = None
    /\ UNCHANGED <<disk, zookeeper, process, running, upgrade_flag, config_changed,
                   publishing, service_charm, unit_charm, history>>

ChangeConfig ==
    /\ ~config_changed
    /\ config_changed' = TRUE
    /\ UNCHANGED <<disk, zookeeper, process, running, resolved, upgrade_flag,
                   commands, service_charm, unit_charm, history>>

\* juju upgrade-charm: a new charm for the service, then the unit's flag,
\* unless the command saw the unit not running and does not force it.
PublishCharm == \E kind \in {"normal", "force"} :
    /\ publishing = None /\ service_charm < MaxCharm
    /\ service_charm' = service_charm + 1
    /\ publishing' = [force |-> kind, seen |-> kind = "force"]
    /\ UNCHANGED <<disk, zookeeper, process, running, resolved, resolving, upgrade_flag,
                   config_changed, unit_charm, history>>

CheckUnit ==
    /\ publishing # None /\ ~publishing.seen
    /\ publishing' = IF is_unit_running THEN [publishing EXCEPT !.seen = TRUE] ELSE None
    /\ UNCHANGED <<disk, zookeeper, process, running, resolved, resolving, upgrade_flag,
                   config_changed, service_charm, unit_charm, history>>

\* set_upgrade_flag leaves a flag that is there, or fails on it.
MarkUnit ==
    /\ publishing # None /\ publishing.seen
    /\ upgrade_flag' = IF upgrade_flag = None THEN publishing.force ELSE upgrade_flag
    /\ publishing' = None
    /\ UNCHANGED <<disk, zookeeper, process, running, resolved, resolving, config_changed,
                   service_charm, unit_charm, history>>

\* Is the state file, which is truncated and then written, open?
Storing == lock # <<>> /\
    (firing # None /\ firing.todo # <<>> => Head(firing.todo) \in DOMAIN fault)

Die ==
    /\ up # "off" /\ crashes < MaxCrashes
    /\ \/ UNCHANGED <<disk, torn>>
       \/ /\ "torn" \in Faults /\ Storing
          /\ disk' = [state |-> None, inflight |-> None] /\ torn' = TRUE
    /\ up' = "off" /\ first' = <<>> /\ lost' = {} /\ lock' = <<>>
    /\ job' = [p \in Party |-> None] /\ firing' = None
    /\ executor' = FALSE /\ lifecycle' = FALSE /\ stranded' = FALSE
    /\ crashes' = crashes + 1
    /\ UNCHANGED <<zookeeper, requests, unit_charm, owed>>

\* What the agent does of itself.
Agent ==
    \/ Start \/ Synchronize \/ Automatic
    \/ cb_watch_resolved \/ cb_watch_upgrade_flag \/ cb_watch_config_changed
    \/ StoreState \/ HookEnds \/ RunLifecycle \/ HaltLifecycle \/ VerifyRunning
    \/ PrepareUpgrade \/ PauseExecutor \/ ExtractCharm \/ RecordCharm
    \/ UpgradeHookEnds \/ ResumeExecutor \/ SetState
    \/ TakeResolved \/ TakeUpgradeFlag \/ TakeConfigChange

User == ResolveUnit \/ SetResolved \/ CheckUnit \/ ChangeConfig \/ PublishCharm \/ MarkUnit

Next == Agent \/ ActionFails \/ User \/ Die

\* The agent's steps are callbacks of one event loop, and hooks end.
Spec == Init /\ [][Next]_vars
FairSpec == Spec /\ WF_vars(Agent)
-----------------------------------------------------------------------------
\* The types of the agent's state; each party waits for the lock at most once.
TypeOK ==
    /\ disk \in [state : State, inflight : TransitionId \cup {None}]
    /\ up \in {"off", "starting", "on", "failed"}
    /\ Range(first) \subseteq Watch /\ lost \subseteq Watch
    /\ Range(lock) \subseteq Party /\ Len(lock) <= 4
    /\ job \in [Party -> {None, "retry", "retry_hook", "normal", "force", "configure"}]
    /\ firing # None =>
        /\ firing.id \in TransitionId \cup {"automatic", "force"}
        /\ Range(firing.todo) \subseteq Step
        /\ firing.charm \in Charm \cup {None}
    /\ executor \in BOOLEAN /\ lifecycle \in BOOLEAN
    /\ resolved \in {None, "retry", "retry_hook"}
    /\ upgrade_flag \in {None, "normal", "force"} 
    /\ publishing # None => publishing \in [force : {"normal", "force"}, seen : BOOLEAN]
    /\ config_changed \in BOOLEAN
    /\ zookeeper \in State /\ resolving \in {None, "retry", "retry_hook"}
    /\ service_charm \in Charm /\ unit_charm \in Charm
    /\ owed \in BOOLEAN /\ torn \in BOOLEAN /\ stranded \in BOOLEAN /\ crashes \in 0..MaxCrashes

AtRest == up = "on" /\ lock = <<>>

\* Between transitions the lifecycle runs exactly when the state on disk says
\* so, and the executor is stopped only where an upgrade failed: in its error
\* state, or after a forced one, which no state records.  Hooks, downloads and
\* extractions may fail, be retried or be cut short on the way.  Nor is a
\* transition that was given up still recorded, for a later start to fire.
AgreesWithState == AtRest =>
    /\ lifecycle = run_lifecycle
    /\ executor \/ disk.state = "charm_upgrade_error" \/ stranded
    /\ disk.inflight = None

\* A unit is started again after an upgrade only when the new charm's hook
\* has run or a user waived it, although the process may die in between.
UpgradeHookRuns == AtRest /\ disk.state = "started" => torn \/ ~owed

\* No queued hook can run while the charm is being replaced.
PausedWhileReplacing ==
    Doing("extract") \/ Doing("record") \/ Doing("upgrade-charm") => ~executor

\* A queued hook waits for an executor that a failed forced upgrade left stopped.
HookStranded == stranded /\ \E h \in {"install", "config-changed", "start"} : Doing(h)

\* Every request that is taken is carried out or turned down: nobody waits
\* for ever for the workflow lock, or for a hook in a stopped executor.  Only
\* after a forced upgrade failed to replace the charm does the next hook wait,
\* and everyone behind it: nothing but a new process starts the executor then.
RequestsAnswered ==
    \A p \in Party : p \in Range(lock) ~> p \notin Range(lock) \/ HookStranded
=============================================================================
