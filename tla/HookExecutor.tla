----------------------------- MODULE HookExecutor -----------------------------
(***************************************************************************)
(* The hook executor (juju/hooks/executor.py), the lifecycle operation     *)
(* that pauses it (juju/unit/lifecycle.py) and the debugging of hooks      *)
(* (juju/agents/unit.py, juju/state/service.py).                           *)
(*                                                                         *)
(* Each start() is a loop that takes executions from a queue under a lock. *)
(* The reactor runs one callback at a time to completion, and firing a     *)
(* deferred runs its waiters at once, inside the caller: `turn' is that    *)
(* stack of callbacks, and nothing else happens until it is empty.         *)
(***************************************************************************)
EXTENDS Naturals, Sequences

CONSTANTS
    MaxHooks,    \* bound: executions that are queued
    Absent,      \* those whose hook the charm does not have
    MaxStarts,   \* bound: calls of start
    Prompt,      \* start may be called in the turn in which stop returns
    MaxDebugs,   \* bound: debugging sessions
    None

ASSUME HookExecutorAssumption ==
    /\ MaxHooks \in Nat /\ Absent \subseteq 1..MaxHooks /\ MaxStarts \in Nat
    /\ Prompt \in BOOLEAN /\ MaxDebugs \in Nat

VARIABLES
    running,     \* _running
    executions,  \* the queued executions and STOP markers
    getters,     \* the loops that wait for the queue, first come first served
    run_lock,    \* who holds _run_lock, then who waits for it
    turn,        \* the callbacks of the reactor's current turn, innermost first
    at,          \* where each party is
    has,         \* the execution each party has taken
    context,     \* the execution whose invoker and context are current
    script,      \* the debug scripts that run in place of a hook
    answer,      \* what the deferred of each execution was fired with
    debug_names, \* _debug_hook_names: the hooks to debug, or None
    debug_node,  \* the unit's debug node, and whether a change is to be noticed
    hung_up,     \* the processes that were sent HUP
    debugs,      \* debugging sessions so far
    asked        \* the executions queued so far

queue   == <<executions, getters>>
debug   == <<debug_names, debug_node, debugs>>
process == <<context, script, answer, hung_up>>
vars    == <<running, queue, run_lock, turn, at, has, process, debug, asked>>

Hooks     == 1..MaxHooks        \* the executions, in the order they are queued
STOP      == 0                  \* the marker in the queue
Upgrade   == MaxHooks + 1       \* the priority hook
Execution == Hooks \cup {Upgrade}
Loops     == 1..MaxStarts       \* the calls of start, in order
Lifecycle == 0                  \* the caller of stop, run_priority_hook and start
Party     == Loops \cup {Lifecycle}

Init ==
    /\ running = FALSE /\ executions = <<>> /\ getters = <<>> /\ run_lock = <<>>
    /\ turn = <<>> /\ at = [p \in Party |-> "off"] /\ has = [p \in Party |-> None]
    /\ context = None /\ script = {} /\ answer = [e \in Execution |-> None]
    /\ debug_names = None /\ debug_node = [names |-> None, changed |-> FALSE]
    /\ hung_up = {} /\ debugs = 0 /\ asked = 0

Idle == turn = <<>>
InTurn(p, place) == ~Idle /\ Head(turn) = p /\ at[p] = place
-----------------------------------------------------------------------------
(* The queue and the lock: Twisted's DeferredQueue and DeferredLock *)

\* A loop that waits is called at once, in this turn.
put(item, rest) ==
    IF getters # <<>>
    THEN /\ getters' = Tail(getters) /\ UNCHANGED executions
         /\ has' = [has EXCEPT ![Head(getters)] = item]
         /\ at' = [at EXCEPT ![Head(getters)] = "got"]
         /\ turn' = <<Head(getters)>> \o rest
    ELSE /\ executions' = Append(executions, item)
         /\ turn' = rest /\ UNCHANGED <<getters, at, has>>

\* Mutant of acquire: the lock is taken without waiting for it.
acquire_at_once(p, next, rest) ==
    /\ run_lock' = <<p>> \o run_lock
    /\ at' = [at EXCEPT ![p] = next] /\ turn' = <<p>> \o rest

\* p asks for the lock; once it holds it, it goes on to next in that turn.
acquire(p, next, rest) ==
    /\ run_lock' = Append(run_lock, p)
    /\ at' = [at EXCEPT ![p] = IF run_lock = <<>> THEN next ELSE "acquire"]
    /\ turn' = IF run_lock = <<>> THEN <<p>> \o rest ELSE rest

\* What a party does once the lock is passed on to it.
granted(p) == IF p = Lifecycle THEN IF has[p] = None THEN "stopping" ELSE "prepared"
              ELSE "locked"

\* p gives the lock up and goes on to next after whoever is granted it.
release(p, next) ==
    /\ run_lock' = Tail(run_lock)
    /\ IF Len(run_lock) > 1
       THEN /\ at' = [at EXCEPT ![p] = next, ![run_lock[2]] = granted(run_lock[2])]
            /\ turn' = <<run_lock[2]>> \o turn
       ELSE at' = [at EXCEPT ![p] = next] /\ UNCHANGED turn
-----------------------------------------------------------------------------
(* Running one hook *)

\* get_hook_path: the debug script, which always exists, replaces the hook.
debugged(e) == debug_names # None /\ e \in debug_names

\* Mutant of run_one: the priority hook is run without its context.
run_one_plainly(p) ==
    LET e == has[p] IN
    IF e \in Absent /\ ~debugged(e)
    THEN /\ answer' = [answer EXCEPT ![e] = "skipped"]
         /\ at' = [at EXCEPT ![p] = "ran"]
         /\ UNCHANGED <<context, script, turn, hung_up>>
    ELSE /\ context' = (IF p = Lifecycle THEN None ELSE e)
         /\ at' = [at EXCEPT ![p] = "running"]
         /\ script' = IF debugged(e) THEN script \cup {e} ELSE script \ {e}
         /\ turn' = Tail(turn) /\ UNCHANGED <<answer, hung_up>>

\* _run_one up to its first wait: no hook, or a process is spawned.  The
\* process may not even be executable, which HookExits covers.
run_one(p) ==
    LET e == has[p] IN
    IF e \in Absent /\ ~debugged(e)
    THEN /\ answer' = [answer EXCEPT ![e] = "skipped"]
         /\ at' = [at EXCEPT ![p] = "ran"]
         /\ UNCHANGED <<context, script, turn, hung_up>>
    ELSE /\ context' = e /\ at' = [at EXCEPT ![p] = "running"]
         /\ script' = IF debugged(e) THEN script \cup {e} ELSE script \ {e}
         /\ turn' = Tail(turn) /\ UNCHANGED <<answer, hung_up>>

\* The process exits: the caller's deferred fires, and then the lock is given up.
HookExits(p, result) ==
    /\ Idle /\ at[p] = "running"
    /\ context' = None /\ answer' = [answer EXCEPT ![has[p]] = result]
    /\ hung_up' = hung_up \ {has[p]} /\ script' = script \ {has[p]}
    /\ at' = [at EXCEPT ![p] = "ran"] /\ turn' = <<p>>
    /\ UNCHANGED <<running, queue, run_lock, has, debug, asked>>
-----------------------------------------------------------------------------
(* The loop of start *)

\* while self._running
loop_on(l) == running

LoopGet(l) ==
    /\ InTurn(l, "loop")
    /\ IF ~loop_on(l)
       THEN /\ at' = [at EXCEPT ![l] = "ended"] /\ turn' = Tail(turn)
            /\ has' = [has EXCEPT ![l] = None] /\ UNCHANGED queue
       ELSE IF executions = <<>>
       THEN /\ getters' = Append(getters, l) /\ at' = [at EXCEPT ![l] = "get"]
            /\ turn' = Tail(turn) /\ has' = [has EXCEPT ![l] = None]
            /\ UNCHANGED executions
       ELSE /\ has' = [has EXCEPT ![l] = Head(executions)]
            /\ executions' = Tail(executions)
            /\ at' = [at EXCEPT ![l] = "got"] /\ UNCHANGED <<getters, turn>>
    /\ UNCHANGED <<running, run_lock, process, debug, asked>>

LoopGot(l) ==
    /\ InTurn(l, "got")
    /\ IF has[l] = STOP
       THEN at' = [at EXCEPT ![l] = "loop"] /\ UNCHANGED <<run_lock, turn>>
       ELSE acquire(l, "locked", Tail(turn))
    /\ UNCHANGED <<running, queue, has, process, debug, asked>>

\* Not running any more: the execution is dropped and its deferred never fires.
LoopLocked(l) ==
    /\ InTurn(l, "locked")
    /\ IF running
       THEN /\ run_one(l) /\ UNCHANGED run_lock
       ELSE release(l, "loop") /\ UNCHANGED process
    /\ UNCHANGED <<running, queue, has, debug, asked>>

LoopRan(l) ==
    /\ InTurn(l, "ran") /\ release(l, "loop")
    /\ UNCHANGED <<running, queue, has, process, debug, asked>>
-----------------------------------------------------------------------------
(* The lifecycle: start, stop, and the hook of a charm upgrade in between *)

\* A party that may act on its own, or in the turn in which stop returned.
Free == IF Idle THEN TRUE ELSE Prompt /\ InTurn(Lifecycle, at[Lifecycle])
rest_of_turn == IF Idle THEN turn ELSE Tail(turn)

Start(l) ==
    /\ Free /\ at[Lifecycle] \in {"off", "stopped", "resume"} /\ ~running
    /\ at[l] = "off" /\ \A k \in 1..(l - 1) : at[k] # "off"
    /\ running' = TRUE /\ turn' = <<l>> \o rest_of_turn
    /\ at' = [at EXCEPT ![l] = "loop", ![Lifecycle] = "started"]
    /\ UNCHANGED <<queue, run_lock, has, process, debug, asked>>

\* The bound on loops: an executor that is stopped can be started again.
MayStartAgain == \E l \in Loops : at[l] = "off"

\* stop: waits for the hook that runs.
Stop ==
    /\ Idle /\ at[Lifecycle] = "started" /\ running /\ MayStartAgain
    /\ acquire(Lifecycle, "stopping", turn)
    /\ UNCHANGED <<running, queue, has, process, debug, asked>>

\* The lock is held: wake a loop that waits for the queue.
Stopping ==
    /\ InTurn(Lifecycle, "stopping")
    /\ running' = FALSE
    /\ \E g \in {getters} :
          /\ executions' = IF g = <<>> THEN Append(executions, STOP) ELSE executions
          /\ getters' = IF g = <<>> THEN g ELSE Tail(g)
          /\ has' = IF g = <<>> THEN has ELSE [has EXCEPT ![Head(g)] = STOP]
          /\ at' = IF g = <<>> THEN [at EXCEPT ![Lifecycle] = "unlock"]
                   ELSE [at EXCEPT ![Lifecycle] = "unlock", ![Head(g)] = "got"]
          /\ turn' = IF g = <<>> THEN turn ELSE <<Head(g)>> \o turn
    /\ UNCHANGED <<run_lock, process, debug, asked>>

Unlock ==
    /\ InTurn(Lifecycle, "unlock") /\ release(Lifecycle, "stopped")
    /\ UNCHANGED <<running, queue, has, process, debug, asked>>

\* The caller of stop waits for something else before it goes on.
Stopped ==
    /\ InTurn(Lifecycle, at[Lifecycle]) /\ at[Lifecycle] \in {"stopped", "resume"}
    /\ turn' = Tail(turn)
    /\ UNCHANGED <<running, queue, run_lock, at, has, process, debug, asked>>

RunPriorityHook ==
    /\ Free /\ at[Lifecycle] = "stopped" /\ ~running
    /\ has' = [has EXCEPT ![Lifecycle] = Upgrade]
    /\ acquire(Lifecycle, "prepared", rest_of_turn)
    /\ UNCHANGED <<running, queue, process, debug, asked>>

PriorityHook ==
    /\ InTurn(Lifecycle, "prepared") /\ run_one(Lifecycle)
    /\ UNCHANGED <<running, queue, run_lock, has, debug, asked>>

\* The priority hook's caller goes on to start, or after an error waits for
\* the user to have it tried again.
PriorityRan ==
    /\ InTurn(Lifecycle, "ran")
    /\ release(Lifecycle, IF answer[Upgrade] = "failed" THEN "stopped" ELSE "resume")
    /\ has' = [has EXCEPT ![Lifecycle] = None]
    /\ UNCHANGED <<running, queue, process, debug, asked>>
-----------------------------------------------------------------------------
(* Those who queue hooks, and those who debug them *)

\* __call__, from a new event or from the callback of a hook that just ended.
Execute ==
    /\ IF Idle THEN TRUE ELSE at[Head(turn)] = "ran"
    /\ asked < MaxHooks
    /\ asked' = asked + 1 /\ put(asked + 1, turn)
    /\ UNCHANGED <<running, run_lock, process, debug>>

\* debug-hooks creates an ephemeral node, which ends with the user's session.
EnableDebug(names) ==
    /\ Idle /\ debugs < MaxDebugs /\ debug_node.names = None
    /\ debug_node' = [names |-> names, changed |-> TRUE] /\ debugs' = debugs + 1
    /\ UNCHANGED <<running, queue, run_lock, turn, at, has, process, debug_names, asked>>

DebugEnds ==
    /\ Idle /\ debug_node.names # None
    /\ debug_node' = [names |-> None, changed |-> TRUE]
    /\ UNCHANGED <<running, queue, run_lock, turn, at, has, process, debug_names,
                   debugs, asked>>

\* Mutant of hang_up: the end of debugging leaves the script waiting.
hang_up_never(names) == {}

\* Whatever hook runs is sent HUP once there is nothing to debug.
hang_up(names) == IF names = None /\ context # None THEN {context} ELSE {}

\* cb_watch_hook_debug reads the node as it is by then, and calls set_debug.
SetDebug ==
    /\ Idle /\ debug_node.changed
    /\ debug_names' = debug_node.names
    /\ debug_node' = [debug_node EXCEPT !.changed = FALSE]
    /\ hung_up' = hung_up \cup hang_up(debug_node.names)
    /\ UNCHANGED <<running, queue, run_lock, turn, at, has, context, script, answer,
                   debugs, asked>>
-----------------------------------------------------------------------------
\* A hook ends by itself.  A debug script waits for its user, or for HUP.
Exits(p) ==
    /\ has[p] \notin script \/ has[p] \in hung_up
    /\ \E result \in {"done", "failed"} : HookExits(p, result)
LeavesDebugShell(p) == has[p] \in script /\ HookExits(p, "done")

Loop(l) == LoopGet(l) \/ LoopGot(l) \/ LoopLocked(l) \/ LoopRan(l)
Upgrading ==
    Stop \/ Stopping \/ Unlock \/ Stopped \/ RunPriorityHook \/ PriorityHook \/ PriorityRan

Next ==
    \/ \E l \in Loops : Loop(l) \/ Start(l)
    \/ Upgrading
    \/ \E p \in Party : Exits(p) \/ LeavesDebugShell(p)
    \/ Execute
    \/ \E names \in {{e} : e \in Execution} \cup {Execution} : EnableDebug(names)
    \/ DebugEnds \/ SetDebug

Spec == Init /\ [][Next]_vars

\* Callbacks run, processes exit, an upgrade is finished or retried until it
\* succeeds, and no user's session lasts for ever.
Fairness ==
    /\ \A l \in Loops : WF_vars(Loop(l))
    /\ SF_vars(\E l \in Loops : Start(l))
    /\ WF_vars(Stopping) /\ WF_vars(Unlock) /\ WF_vars(Stopped)
    /\ WF_vars(PriorityHook) /\ WF_vars(PriorityRan)
    /\ \A p \in Party : WF_vars(Exits(p))
    /\ WF_vars(DebugEnds) /\ WF_vars(SetDebug)
FairSpec == Spec /\ Fairness
-----------------------------------------------------------------------------
\* The context that the hook tools are given (get_hook_context, executor.py:203)
\* is that of the one hook that runs, queued or priority.
OwnContext == \A p \in Party : at[p] = "running" => context = has[p]

\* Once stop has returned no queued hook runs until the next start
\* (executor.py:167), so that a charm is replaced under no hook.
PausedMeansPaused == ~running => \A l \in Loops : at[l] # "running"

\* The deferred of every queued hook fires (executor.py:283), also for hooks
\* queued while the executor was stopped.
EveryHookAnswered ==
    \A e \in Hooks : e <= asked ~> answer[e] # None
===============================================================================
