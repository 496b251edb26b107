--------------------------- MODULE RelationWorkflow ---------------------------
(***************************************************************************)
(* The relations of one unit: the workflow of each (RelationWorkflowState, *)
(* juju/unit/workflow.py), the lifecycle it starts and stops               *)
(* (UnitRelationLifecycle, juju/unit/lifecycle.py), and the part of        *)
(* UnitLifecycle that makes, resolves and departs them.                    *)
(*                                                                         *)
(* Coroutines take turns at three kinds of locks, each of them first come  *)
(* first served: the unit's run lock, and for every relation a workflow    *)
(* lock and a run lock, which a hook holds from before it is queued in the *)
(* executor until it has ended.  What a coroutine has left to do is a      *)
(* sequence of steps, each lasting to its next wait.  The process may die  *)
(* between any two; workflow states, the list of known relations and the   *)
(* changes scheduled for hooks are kept on disk.                           *)
(***************************************************************************)
EXTENDS Naturals, SequencesExt

CONSTANTS
    Relation,      \* relations the unit's service may have
    MaxCrashes,    \* bound: deaths of the agent process
    MaxFailures,   \* bound: charm upgrades that fail
    None

ASSUME RelationWorkflowAssumption == MaxCrashes \in Nat /\ MaxFailures \in Nat

VARIABLES
    topology,     \* each relation: "never" yet, "there" or "gone"
    resolved,     \* the relations named by the unit's relation-resolved node
    disk,         \* each relation's workflow file: state, inflight transition
    stored,       \* the known relations written by _store_relations
    pending,      \* the relations with a change scheduled for a hook
    unit,         \* the unit's workflow file: state, inflight transition
    agent,        \* the process runs
    executor,     \* HookExecutor.running
    running,      \* UnitLifecycle._running
    known,        \* UnitLifecycle._relations, None before they are loaded
    life,         \* each relation's lifecycle, scheduler and watcher
    locks,        \* each lock: who holds it, then who waits for it
    todo,         \* each coroutine: the steps it has left
    watches,      \* the watches of the unit lifecycle that are set
    seen,         \* the relations the membership watch last processed
    resolved_event, \* relation-resolved changed since its watch last fired
    first,        \* the watches whose first callback start() waits for
    broken,       \* history: the relations whose broken hook this process has run
    crashes,      \* deaths so far
    failures      \* charm upgrades that failed, or that a death cut short

persistent == <<disk, stored, pending, unit>>
callbacks  == <<watches, seen, resolved_event, first>>
history    == <<broken, crashes, failures>>
vars == <<topology, resolved, persistent, agent, executor, running, known, life,
          locks, todo, callbacks, history>>

\* The coroutines: the callbacks of the two watches, the unit workflow, and
\* the scheduler loop of each relation, named by the relation.
Party == {"relations", "resolved", "unit"} \cup Relation
Lock == {<<"unit", None>>} \cup ({"workflow", "run"} \X Relation)
There == {r \in Relation : topology[r] = "there"}

RelationWorkflow == [
    start        |-> [source |-> None,    destination |-> "up"],
    stop         |-> [source |-> "up",    destination |-> "down"],
    restart      |-> [source |-> "down",  destination |-> "up"],
    error        |-> [source |-> "up",    destination |-> "error"],
    reset        |-> [source |-> "error", destination |-> "up"],
    depart       |-> [source |-> "up",    destination |-> "departed"],
    down_depart  |-> [source |-> "down",  destination |-> "departed"],
    error_depart |-> [source |-> "error", destination |-> "departed"]]

\* A new UnitRelationLifecycle: its scheduler's flag and loops, its watcher,
\* and whether it has an error handler.
NewLifecycle == [executing |-> FALSE, loops |-> 0, watching |-> FALSE, handler |-> TRUE]
-----------------------------------------------------------------------------
(* Steps *)

Step(op, r, arg) == [op |-> op, r |-> r, arg |-> arg]
Acquire(kind, r) == Step("acquire", r, kind)
Release(kind, r) == Step("release", r, kind)

\* The steps f(r) of every relation of a set, in whichever order.
Each(S, f(_)) == {FlattenSeq([i \in DOMAIN s |-> f(s[i])]) : s \in SetToSeqs(S)}

\* UnitRelationLifecycle.start and stop.
start_lifecycle(r, start_watches, start_scheduler) ==
    <<Step("start", r, <<start_watches, start_scheduler>>)>>
stop_lifecycle(r, stop_watches) == <<Step("stop", r, stop_watches)>>

\* transition_state under the workflow lock.
Transit(r, state) ==
    <<Acquire("workflow", r), Step("transition", r, state), Release("workflow", r)>>

\* The do_* methods.
do_depart(r) == stop_lifecycle(r, TRUE) \o <<Step("depart", r, None), Step("broken", r, None)>>

\* Mutant of do_error: the watches are stopped as well.
do_error_all(r) == stop_lifecycle(r, TRUE)

do_error(r) == stop_lifecycle(r, FALSE)

action(r, t) ==
    CASE t \in {"start", "restart"} -> start_lifecycle(r, TRUE, TRUE)
      [] t = "reset" -> start_lifecycle(r, FALSE, TRUE)
      [] t = "stop" -> stop_lifecycle(r, TRUE)
      [] t = "error" -> do_error(r)
      [] OTHER -> do_depart(r)

\* RelationWorkflowState.synchronize, up to the state machine's own.
synchronize(r) ==
    stop_lifecycle(r, TRUE) \o
    (IF disk[r].state = "up" THEN start_lifecycle(r, TRUE, TRUE)
     ELSE IF disk[r].state = "error" THEN start_lifecycle(r, TRUE, FALSE)
     ELSE <<>>) \o <<Step("resume", r, None)>>

add_relation(r) ==
    <<Step("know", r, None), Acquire("workflow", r), Step("synchronize", r, None),
      Release("workflow", r)>>

depart_relation(r) ==
    <<Step("pop", r, None)>> \o Transit(r, "departed") \o <<Step("store", None, None)>>

\* UnitLifecycle.start and stop, without the unit's own hooks.
start_unit(start_relations) ==
    <<Acquire("unit", None), Step("load", None, None)>> \o
    (IF start_relations THEN <<Step("raise", None, None)>> ELSE <<>>) \o
    <<Step("watch", None, None), Release("unit", None), Step("wait", None, None)>>
stop_unit == <<Acquire("unit", None), Step("lower", None, None), Step("halt", None, None),
               Release("unit", None)>>
upgrade_charm == <<Acquire("unit", None), Step("pause", None, None), Step("upgrade", None, None)>>
-----------------------------------------------------------------------------
(* Coroutines *)

NoLife  == [r \in Relation |-> NewLifecycle]
NoLocks == [l \in Lock |-> <<>>]
NoSteps == [p \in Party |-> <<>>]

Init ==
    /\ topology = [r \in Relation |-> "never"]
    /\ resolved = {} /\ stored = {} /\ pending = {}
    /\ disk = [r \in Relation |-> [state |-> None, inflight |-> None]]
    /\ unit = [state |-> "started", inflight |-> None]
    /\ agent = FALSE /\ executor = FALSE /\ running = FALSE /\ known = None
    /\ life = NoLife /\ locks = NoLocks /\ todo = NoSteps
    /\ watches = {} /\ seen = None /\ resolved_event = FALSE /\ first = {}
    /\ broken = {} /\ crashes = 0 /\ failures = 0

\* p is about to take a step op, and waits for no lock.
At(p, op) ==
    /\ todo[p] # <<>> /\ Head(todo[p]).op = op
    /\ \A l \in Lock : p \in Range(locks[l]) => Head(locks[l]) = p

R(p) == Head(todo[p]).r
Arg(p) == Head(todo[p]).arg

\* p has taken its step, and is to take others before what was left.
Then(p, steps) == todo' = [todo EXCEPT ![p] = steps \o Tail(@)]
Queued(kind, r, p) == [locks EXCEPT ![<<kind, r>>] = Append(@, p)]
Unlocked(kind, r) == [locks EXCEPT ![<<kind, r>>] = Tail(@)]

acquire(p) ==
    /\ At(p, "acquire") /\ Then(p, <<>>)
    /\ locks' = Queued(Arg(p), R(p), p)
    /\ UNCHANGED <<topology, resolved, persistent, agent, executor, running, known, life,
                   callbacks, history>>

release(p) ==
    /\ At(p, "release") /\ Then(p, <<>>)
    /\ locks' = Unlocked(Arg(p), R(p))
    /\ UNCHANGED <<topology, resolved, persistent, agent, executor, running, known, life,
                   callbacks, history>>
-----------------------------------------------------------------------------
(* A relation's lifecycle and workflow *)

\* start and stop are one step if the run lock is free, and otherwise ask for
\* it and wait.
wait_run_lock(p) ==
    /\ At(p, "start") \/ At(p, "stop")
    /\ locks[<<"run", R(p)>>] # <<>> /\ p \notin Range(locks[<<"run", R(p)>>])
    /\ locks' = Queued("run", R(p), p)
    /\ UNCHANGED <<topology, resolved, persistent, agent, executor, running, known, life, todo,
                   callbacks, history>>

UnderRunLock(p) ==
    IF locks[<<"run", R(p)>>] = <<>> THEN UNCHANGED locks
    ELSE Head(locks[<<"run", R(p)>>]) = p /\ locks' = Unlocked("run", R(p))

\* UnitRelationLifecycle.start.
start(p) ==
    /\ At(p, "start") /\ UnderRunLock(p) /\ Then(p, <<>>)
    /\ life' = [life EXCEPT ![R(p)] =
           [@ EXCEPT !.executing = @ \/ Arg(p)[2],
                     !.loops = IF Arg(p)[2] /\ ~life[R(p)].executing THEN @ + 1 ELSE @,
                     !.watching = @ \/ Arg(p)[1]]]
    /\ UNCHANGED <<topology, resolved, persistent, agent, executor, running, known, callbacks,
                   history>>

\* Mutant of stop: the scheduler goes on.
stop_watcher(p) ==
    /\ At(p, "stop") /\ UnderRunLock(p) /\ Then(p, <<>>)
    /\ life' = [life EXCEPT ![R(p)].watching = @ /\ ~Arg(p)]
    /\ UNCHANGED <<topology, resolved, persistent, agent, executor, running, known, callbacks,
                   history>>

\* UnitRelationLifecycle.stop; a loop that waits for a change ends at once.
stop(p) ==
    /\ At(p, "stop") /\ UnderRunLock(p) /\ Then(p, <<>>)
    /\ life' = [life EXCEPT ![R(p)] =
           [@ EXCEPT !.executing = FALSE,
                     !.loops = IF todo[R(p)] = <<>> THEN 0 ELSE @,
                     !.watching = @ /\ ~Arg(p)]]
    /\ UNCHANGED <<topology, resolved, persistent, agent, executor, running, known, callbacks,
                   history>>

\* fire_transition: record it as inflight, act, then set_state.
fire_transition(p, r, t) ==
    /\ disk' = [disk EXCEPT ![r].inflight = t]
    /\ Then(p, action(r, t) \o <<Step("state", r, RelationWorkflow[t].destination)>>)

transition_state(p) ==
    /\ At(p, "transition")
    /\ LET ts == {t \in DOMAIN RelationWorkflow :
                      /\ RelationWorkflow[t].source = disk[R(p)].state
                      /\ RelationWorkflow[t].destination = Arg(p)}
       IN  IF ts = {} THEN Then(p, <<>>) /\ UNCHANGED disk
           ELSE \E t \in ts : fire_transition(p, R(p), t)
    /\ UNCHANGED <<topology, resolved, stored, pending, unit, agent, executor, running, known,
                   life, locks, callbacks, history>>

set_state(p) ==
    /\ At(p, "state") /\ Then(p, <<>>)
    /\ disk' = [disk EXCEPT ![R(p)] = [state |-> Arg(p), inflight |-> None]]
    /\ UNCHANGED <<topology, resolved, stored, pending, unit, agent, executor, running, known,
                   life, locks, callbacks, history>>

Synchronize(p) ==
    /\ At(p, "synchronize") /\ Then(p, synchronize(R(p)))
    /\ UNCHANGED <<topology, resolved, persistent, agent, executor, running, known, life, locks,
                   callbacks, history>>

\* WorkflowState.synchronize: the abandoned transition, or the automatic one.
Resume(p) ==
    /\ At(p, "resume")
    /\ LET d == disk[R(p)]
       IN  IF d.inflight # None THEN fire_transition(p, R(p), d.inflight)
           ELSE IF d.state = None THEN fire_transition(p, R(p), "start")
           ELSE Then(p, <<>>) /\ UNCHANGED disk
    /\ UNCHANGED <<topology, resolved, stored, pending, unit, agent, executor, running, known,
                   life, locks, callbacks, history>>

\* do_depart takes over the errors, and asks for the run lock for the hook.
depart(p) ==
    /\ At(p, "depart") /\ Then(p, <<>>)
    /\ life' = [life EXCEPT ![R(p)].handler = FALSE]
    /\ locks' = Queued("run", R(p), p)
    /\ UNCHANGED <<topology, resolved, persistent, agent, executor, running, known, callbacks,
                   history>>

\* The broken hook has run; whether it failed makes no difference.
BrokenHook(p) ==
    /\ At(p, "broken") /\ executor /\ Then(p, <<>>)
    /\ broken' = broken \cup {R(p)}
    /\ locks' = Unlocked("run", R(p))
    /\ UNCHANGED <<topology, resolved, persistent, agent, executor, running, known, life,
                   callbacks, crashes, failures>>
-----------------------------------------------------------------------------
(* The scheduler's loop *)

\* The watcher schedules a change.
Change(r) ==
    /\ agent /\ life[r].watching /\ r \notin pending
    /\ pending' = pending \cup {r}
    /\ UNCHANGED <<topology, resolved, disk, stored, unit, agent, executor, running, known, life,
                   locks, todo, callbacks, history>>

\* The loop takes it, and asks for the run lock.
TakeChange(r) ==
    /\ life[r].loops > 0 /\ todo[r] = <<>> /\ r \in pending
    /\ todo' = [todo EXCEPT ![r] = <<Step("hook", r, None)>>]
    /\ locks' = Queued("run", r, r)
    /\ UNCHANGED <<topology, resolved, persistent, agent, executor, running, known, life,
                   callbacks, history>>

\* Whoever waits for the run lock goes first: the loop goes on unless that
\* one stops the scheduler, or another has.
Stopping(r) ==
    \/ ~life[r].executing
    \/ Len(locks[<<"run", r>>]) > 1 /\ Head(todo[locks[<<"run", r>>][2]]).op = "stop"

HookSucceeds(r) ==
    /\ At(r, "hook") /\ executor /\ Then(r, <<>>)
    /\ pending' = pending \ {r}
    /\ life' = [life EXCEPT ![r].loops = IF Stopping(r) THEN @ - 1 ELSE @]
    /\ locks' = Unlocked("run", r)
    /\ UNCHANGED <<topology, resolved, disk, stored, unit, agent, executor, running, known,
                   callbacks, history>>

\* The run lock is released, and the error handler, if there is one, asks
\* for the workflow lock.
HookFails(r) ==
    /\ At(r, "hook") /\ executor
    /\ IF life[r].handler
       THEN /\ Then(r, <<Step("error", r, None), Step("failed", r, None)>>)
            /\ locks' = [Unlocked("run", r) EXCEPT ![<<"workflow", r>>] = Append(@, r)]
            /\ UNCHANGED life
       ELSE /\ Then(r, <<>>)
            /\ locks' = Unlocked("run", r)
            /\ life' = [life EXCEPT ![r].loops = @ - 1]
    /\ UNCHANGED <<topology, resolved, persistent, agent, executor, running, known, callbacks,
                   history>>

\* on_hook_error: from any state but "up" the transition is invalid, and the
\* exception ends the loop.
on_hook_error(r) ==
    /\ At(r, "error")
    /\ IF disk[r].state = "up"
       THEN fire_transition(r, r, "error") /\ UNCHANGED <<locks, life>>
       ELSE /\ todo' = [todo EXCEPT ![r] = <<>>]
            /\ locks' = Unlocked("workflow", r)
            /\ life' = [life EXCEPT ![r].loops = @ - 1]
            /\ UNCHANGED disk
    /\ UNCHANGED <<topology, resolved, stored, pending, unit, agent, executor, running, known,
                   callbacks, history>>

\* The handler releases the workflow lock; before the next holder can do
\* more than record a transition the loop stops the scheduler and ends.
Failed(r) ==
    /\ At(r, "failed") /\ Then(r, <<>>)
    /\ locks' = Unlocked("workflow", r)
    /\ life' = [life EXCEPT ![r] = [@ EXCEPT !.executing = FALSE, !.loops = @ - 1]]
    /\ UNCHANGED <<topology, resolved, persistent, agent, executor, running, known, callbacks,
                   history>>
-----------------------------------------------------------------------------
(* The unit's relations *)

\* The service's relations are not those last told: tell them.
RelationsChange ==
    /\ "relations" \in watches /\ todo["relations"] = <<>> /\ seen # There
    /\ todo' = [todo EXCEPT !["relations"] = <<Step("process", None, There)>>]
    /\ locks' = Queued("unit", None, "relations")
    /\ UNCHANGED <<topology, resolved, persistent, agent, executor, running, known, life,
                   callbacks, history>>

\* A watch set anew finds the relations as they were.
RelationsSame ==
    /\ "relations" \in first /\ todo["relations"] = <<>> /\ seen = There
    /\ first' = first \ {"relations"}
    /\ UNCHANGED <<topology, resolved, persistent, agent, executor, running, known, life, locks,
                   todo, watches, seen, resolved_event, history>>

\* What a watch callback does last.
Returning == <<Step("return", None, None)>>

\* The orders in which relations are dropped and added.
Plans(added, removed) ==
    {stops \o departs \o adds :
        stops   \in Each(removed, LAMBDA r : stop_lifecycle(r, TRUE)),
        departs \in Each(removed, depart_relation),
        adds    \in Each(added, LAMBDA r : add_relation(r) \o <<Step("store", None, None)>>)}

process_service_changes(p) ==
    /\ At(p, "process")
    /\ IF running
       THEN /\ \E plan \in Plans(Arg(p) \ known, known \ Arg(p)) :
                   Then(p, plan \o Returning)
            /\ seen' = Arg(p)
            /\ UNCHANGED watches
       ELSE Then(p, Returning) /\ watches' = watches \ {p} /\ UNCHANGED seen
    /\ UNCHANGED <<topology, resolved, persistent, agent, executor, running, known, life, locks,
                   resolved_event, first, history>>

return(p) ==
    /\ At(p, "return") /\ Then(p, <<>>)
    /\ locks' = Unlocked("unit", None)
    /\ first' = first \ {p}
    /\ UNCHANGED <<topology, resolved, persistent, agent, executor, running, known, life,
                   watches, seen, resolved_event, history>>

\* A workflow enters _relations, or leaves it.
know(p) ==
    /\ At(p, "know") /\ Then(p, <<>>)
    /\ known' = known \cup {R(p)}
    /\ life' = [life EXCEPT ![R(p)] = NewLifecycle]
    /\ UNCHANGED <<topology, resolved, persistent, agent, executor, running, locks, callbacks,
                   history>>

pop(p) ==
    /\ At(p, "pop") /\ Then(p, <<>>)
    /\ known' = known \ {R(p)}
    /\ UNCHANGED <<topology, resolved, persistent, agent, executor, running, life, locks,
                   callbacks, history>>

store_relations(p) ==
    /\ At(p, "store") /\ Then(p, <<>>)
    /\ stored' = known
    /\ UNCHANGED <<topology, resolved, disk, pending, unit, agent, executor, running, known, life,
                   locks, callbacks, history>>

ResolvedChanges ==
    /\ "resolved" \in watches /\ todo["resolved"] = <<>> /\ resolved_event
    /\ resolved_event' = FALSE
    /\ todo' = [todo EXCEPT !["resolved"] = <<Step("get", None, None)>>]
    /\ locks' = Queued("unit", None, "resolved")
    /\ UNCHANGED <<topology, resolved, persistent, agent, executor, running, known, life,
                   watches, seen, first, history>>

\* The relation-resolved node is read, and removed.
get_relation_resolved == resolved
clear_relation_resolved == resolved' = {} /\ resolved_event' = TRUE

on_relation_resolved_changes(p) ==
    /\ At(p, "get")
    /\ Then(p, (IF running /\ get_relation_resolved # {}
                THEN <<Step("clear", None, get_relation_resolved)>> ELSE <<>>)
               \o Returning)
    /\ watches' = IF running THEN watches ELSE watches \ {p}
    /\ UNCHANGED <<topology, resolved, persistent, agent, executor, running, known, life, locks,
                   seen, resolved_event, first, history>>

\* The node is removed, whatever it holds by now, and what was read carried out.
process_relation_resolved_changes(p) ==
    /\ At(p, "clear") /\ clear_relation_resolved
    /\ \E steps \in Each(Arg(p) \cap known, LAMBDA r : Transit(r, "up")) : Then(p, steps)
    /\ UNCHANGED <<topology, persistent, agent, executor, running, known, life, locks, watches,
                   seen, first, broken, crashes, failures>>
-----------------------------------------------------------------------------
(* The unit's own lifecycle *)

\* Mutant of load_relations: a relation that is gone is forgotten.
load_relations_there(p) ==
    /\ At(p, "load")
    /\ IF known # None THEN Then(p, <<>>) /\ UNCHANGED known
       ELSE /\ known' = {}
            /\ \E steps \in Each(stored \cap There, add_relation) : Then(p, steps)
    /\ UNCHANGED <<topology, resolved, persistent, agent, executor, running, life, locks,
                   callbacks, history>>

\* A relation that is gone gets a workflow that is not synchronized.
load_relations(p) ==
    /\ At(p, "load")
    /\ IF known # None THEN Then(p, <<>>) /\ UNCHANGED known
       ELSE /\ known' = stored \ There
            /\ \E steps \in Each(stored \cap There, add_relation) : Then(p, steps)
    /\ UNCHANGED <<topology, resolved, persistent, agent, executor, running, life, locks,
                   callbacks, history>>

\* Every relation that is down goes up, when the unit starts.
raise_relations(p) ==
    /\ At(p, "raise")
    /\ \E steps \in Each({r \in known : disk[r].state = "down"}, LAMBDA r : Transit(r, "up")) :
           Then(p, steps)
    /\ UNCHANGED <<topology, resolved, persistent, agent, executor, running, known, life, locks,
                   callbacks, history>>

\* Every relation that is up goes down, when it stops.
lower_relations(p) ==
    /\ At(p, "lower")
    /\ \E steps \in Each(known, LAMBDA r : Transit(r, "down")) : Then(p, steps)
    /\ UNCHANGED <<topology, resolved, persistent, agent, executor, running, known, life, locks,
                   callbacks, history>>

\* Mutant of watch: the watch for resolved relations waits for a change.
watch_changes(p) ==
    /\ At(p, "watch") /\ Then(p, <<>>)
    /\ running' = TRUE
    /\ watches' = {"relations", "resolved"}
    /\ first' = {"relations"} \ watches
    /\ UNCHANGED <<topology, resolved, persistent, agent, executor, known, life, locks, seen,
                   resolved_event, history>>

\* The watches that are not set are set, and will call back at once.
watch(p) ==
    /\ At(p, "watch") /\ Then(p, <<>>)
    /\ running' = TRUE
    /\ watches' = {"relations", "resolved"}
    /\ first' = {"relations", "resolved"} \ watches
    /\ resolved_event' = (resolved_event \/ "resolved" \notin watches)
    /\ UNCHANGED <<topology, resolved, persistent, agent, executor, known, life, locks, seen,
                   history>>

wait(p) ==
    /\ At(p, "wait") /\ first = {} /\ Then(p, <<>>)
    /\ UNCHANGED <<topology, resolved, persistent, agent, executor, running, known, life, locks,
                   callbacks, history>>

halt(p) ==
    /\ At(p, "halt") /\ Then(p, <<>>)
    /\ running' = FALSE
    /\ UNCHANGED <<topology, resolved, persistent, agent, executor, known, life, locks, callbacks,
                   history>>

\* upgrade_charm: the executor is stopped, and started again if all goes well.
pause(p) ==
    /\ At(p, "pause") /\ Then(p, <<>>)
    /\ executor' = FALSE
    /\ UNCHANGED <<topology, resolved, persistent, agent, running, known, life, locks, callbacks,
                   history>>

Upgraded(p) ==
    /\ At(p, "upgrade")
    /\ executor' = TRUE
    /\ Then(p, <<Release("unit", None)>>)
    /\ UNCHANGED <<topology, resolved, persistent, agent, running, known, life, locks, callbacks,
                   history>>

UpgradeFails(p) ==
    /\ At(p, "upgrade") /\ failures < MaxFailures
    /\ failures' = failures + 1
    /\ todo' = [todo EXCEPT ![p] = <<Release("unit", None), Step("unit", None, "upgrade_error")>>]
    /\ UNCHANGED <<topology, resolved, persistent, agent, executor, running, known, life, locks,
                   callbacks, broken, crashes>>

\* The unit's transition is complete.
set_unit_state(p) ==
    /\ At(p, "unit") /\ Then(p, <<>>)
    /\ unit' = [state |-> Arg(p), inflight |-> None]
    /\ UNCHANGED <<topology, resolved, disk, stored, pending, agent, executor, running, known,
                   life, locks, callbacks, history>>

\* What the unit's transitions do, as far as it concerns relations.
UnitTransition(t) ==
    CASE t = "error_configure" -> stop_unit \o <<Step("unit", None, "configure_error")>>
      [] t = "retry_configure" -> start_unit(TRUE) \o <<Step("unit", None, "started")>>
      [] OTHER -> upgrade_charm \o <<Step("unit", None, "started")>>

Fire(t) ==
    /\ agent /\ todo["unit"] = <<>>
    /\ unit' = [unit EXCEPT !.inflight = t]
    /\ todo' = [todo EXCEPT !["unit"] = UnitTransition(t)]
    /\ UNCHANGED <<topology, resolved, disk, stored, pending, agent, executor, running, known,
                   life, locks, callbacks, history>>

ConfigureFails == unit.state = "started" /\ Fire("error_configure")
Upgrade == unit.state = "started" /\ Fire("upgrade_charm")

\* The user resolves the unit's error.
ResolveUnit ==
    \/ unit.state = "configure_error" /\ Fire("retry_configure")
    \/ unit.state = "upgrade_error" /\ Fire("retry_upgrade_charm")

\* UnitWorkflowState.synchronize, in a new process.
Boot ==
    /\ ~agent /\ agent' = TRUE
    /\ executor' = (unit.state # "upgrade_error" /\ unit.inflight # "upgrade_charm")
    /\ todo' = [todo EXCEPT !["unit"] =
           (IF unit.state # "configure_error" THEN start_unit(FALSE) ELSE <<>>) \o
           (IF unit.inflight # None THEN UnitTransition(unit.inflight) ELSE <<>>)]
    /\ UNCHANGED <<topology, resolved, persistent, running, known, life, locks, callbacks, history>>

Crash ==
    /\ agent /\ crashes < MaxCrashes
    /\ agent' = FALSE /\ executor' = FALSE /\ running' = FALSE /\ known' = None
    /\ life' = NoLife /\ locks' = NoLocks /\ todo' = NoSteps
    /\ watches' = {} /\ seen' = None /\ resolved_event' = FALSE /\ first' = {}
    /\ crashes' = crashes + 1 /\ broken' = {}
    /\ failures' = IF unit.inflight \in {"upgrade_charm", "retry_upgrade_charm"}
                   THEN failures + 1 ELSE failures
    /\ UNCHANGED <<topology, resolved, persistent>>
-----------------------------------------------------------------------------
(* Commands *)

AddRelation(r) ==
    /\ topology[r] = "never" /\ topology' = [topology EXCEPT ![r] = "there"]
    /\ UNCHANGED <<resolved, persistent, agent, executor, running, known, life, locks, todo,
                   callbacks, history>>

RemoveRelation(r) ==
    /\ topology[r] = "there" /\ topology' = [topology EXCEPT ![r] = "gone"]
    /\ UNCHANGED <<resolved, persistent, agent, executor, running, known, life, locks, todo,
                   callbacks, history>>

\* A second request for a relation is refused while the first is there.
set_relation_resolved(r) ==
    /\ r \notin resolved
    /\ resolved' = resolved \cup {r} /\ resolved_event' = TRUE

is_relation_running(r) == disk[r].state = "up"

\* The command for one relation, by its name.
ResolveRelation(r) ==
    /\ topology[r] = "there" /\ ~is_relation_running(r) /\ set_relation_resolved(r)
    /\ UNCHANGED <<topology, persistent, agent, executor, running, known, life, locks, todo,
                   watches, seen, first, broken, crashes, failures>>

PartyStep(p) ==
    \/ acquire(p) \/ release(p) \/ wait_run_lock(p) \/ start(p) \/ stop(p) \/ transition_state(p) \/ set_state(p)
    \/ Synchronize(p) \/ Resume(p) \/ depart(p) \/ BrokenHook(p)
    \/ process_service_changes(p) \/ return(p) \/ know(p) \/ pop(p) \/ store_relations(p)
    \/ on_relation_resolved_changes(p) \/ process_relation_resolved_changes(p)
    \/ load_relations(p) \/ raise_relations(p) \/ lower_relations(p) \/ watch(p) \/ wait(p)
    \/ halt(p) \/ pause(p) \/ Upgraded(p) \/ UpgradeFails(p) \/ set_unit_state(p)

LoopStep(r) ==
    \/ TakeChange(r) \/ HookSucceeds(r) \/ HookFails(r) \/ on_hook_error(r) \/ Failed(r)
    \/ wait_run_lock(r) \/ stop(r) \/ set_state(r)

Callback == RelationsChange \/ RelationsSame \/ ResolvedChanges

Next ==
    \/ \E p \in {"relations", "resolved", "unit"} : PartyStep(p)
    \/ \E r \in Relation : LoopStep(r)
    \/ Callback
    \/ \E r \in Relation : Change(r) \/ AddRelation(r) \/ RemoveRelation(r) \/ ResolveRelation(r)
    \/ ConfigureFails \/ Upgrade \/ ResolveUnit \/ Boot \/ Crash

Spec == Init /\ [][Next]_vars

\* Coroutines, hooks and watches go on, the machine agent starts the unit
\* agent again, and the user resolves the errors of the unit.
FairSpec ==
    /\ Spec
    /\ \A p \in {"relations", "resolved", "unit"} : WF_vars(PartyStep(p))
    /\ \A r \in Relation : WF_vars(LoopStep(r))
    /\ WF_vars(RelationsChange) /\ WF_vars(RelationsSame) /\ WF_vars(ResolvedChanges)
    /\ WF_vars(ResolveUnit) /\ WF_vars(Boot)
-----------------------------------------------------------------------------
(* Properties *)

TypeOK ==
    /\ topology \in [Relation -> {"never", "there", "gone"}]
    /\ resolved \subseteq Relation /\ stored \subseteq Relation /\ pending \subseteq Relation
    /\ known # None => known \subseteq Relation
    /\ \A r \in Relation : life[r].loops \in 0..2

\* Nobody is at work.
Quiet ==
    /\ agent /\ known # None
    /\ \A p \in Party : todo[p] = <<>>

\* Whatever the order in which hooks fail, the unit stops and starts, errors
\* are resolved and the process dies (RelationWorkflowState.synchronize,
\* do_error, do_reset, UnitLifecycle.start and stop): once nobody is at work,
\* a relation of the service that is "up" is watched and its hooks run, by
\* one loop, one in "error" is only watched, one that is "down" is left
\* alone, and none is "down" while the unit runs or "up" while it does not.
LifecycleFollowsWorkflow ==
    Quiet => \A r \in known \cap There :
        /\ disk[r].inflight = None
        /\ disk[r].state \in (IF running THEN {"up", "error"} ELSE {"down", "error"})
        /\ life[r].executing = (disk[r].state = "up")
        /\ life[r].loops = (IF disk[r].state = "up" THEN 1 ELSE 0)
        /\ life[r].watching = (disk[r].state # "down")

\* do_depart, "Ensure that no further relation hook executions can occur":
\* once a process has begun a relation's broken hook, it neither runs another
\* hook of the relation nor has one waiting to be run.
NoHooksAfterBroken ==
    \A r \in Relation :
        \/ r \in broken
        \/ \E p \in Party : locks[<<"run", r>>] # <<>> /\ Head(locks[<<"run", r>>]) = p
                            /\ todo[p] # <<>> /\ Head(todo[p]).op = "broken"
        => \A i \in DOMAIN todo[r] : todo[r][i].op # "hook"

\* A relation that was stored and is gone is departed and forgotten in the
\* end, in spite of crashes, hooks that fail and the unit's own errors
\* (_store_relations: "so that we can still depart broken relations even if
\* they break while we're not running"), unless a charm upgrade failed or
\* was cut short, after which the executor that is to run the hook is stopped.
DeparturesComplete ==
    \A r \in Relation :
        topology[r] = "gone" /\ r \in stored
            ~> (disk[r].state = "departed" /\ r \notin stored) \/ failures > 0

\* A relation whose error the user resolves leaves the error state, though
\* the request is removed before it is carried out, the unit may be stopped
\* when it comes and its watch abandoned (_on_relation_resolved_changes),
\* unless the process died or a charm upgrade failed.
ResolutionsHonoured ==
    \A r \in Relation :
        r \in resolved ~> disk[r].state # "error" \/ crashes > 0 \/ failures > 0
=============================================================================
