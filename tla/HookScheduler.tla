--------------------------- MODULE HookScheduler ---------------------------
(***************************************************************************)
(* The hook scheduler of one relation of one unit (juju/hooks/scheduler.py) *)
(* between its two neighbours: the watcher of the related units, which     *)
(* feeds it membership and settings changes, and the hook executor, which  *)
(* runs one hook at a time.  The scheduler queues changes, merges them,    *)
(* runs the hook of the head of the queue, and saves itself to disk so     *)
(* that a restarted agent goes on where it was.                            *)
(*                                                                         *)
(* A handler runs without interruption (the agent has one thread), but the *)
(* process may be killed between any two of its saves.  The lock of the    *)
(* relation lifecycle lets stop() in only when no hook runs, or at the     *)
(* instant one ends.                                                       *)
(***************************************************************************)
EXTENDS Integers, SequencesExt, RelationNodes

CONSTANTS
    Unit,           \* the relation's units; their names sort as numbers do
    RemoteUnit,     \* those that come and go
    Layouts,        \* the relations considered
    MaxVersion,     \* bound: settings writes of a related unit
    MaxPending,     \* bound: remote units rest while the queue is longer
    MaxMishaps      \* bound: how often a hook fails or the agent is killed

ASSUME SchedulerAssumption ==
    /\ Unit \subseteq Nat /\ RemoteUnit \subseteq Unit
    /\ \A relation \in Layouts :
        /\ relation \in Layout(Unit)
        /\ relation.self \in relation.own \cap relation.resident
        /\ relation.resident \cap RemoteUnit = {}
        /\ Counterparts(relation, Unit) \subseteq RemoteUnit
    /\ MaxVersion \in Nat /\ MaxPending \in Nat
    /\ MaxMishaps \in Nat

VARIABLES
    running,            \* _running
    executing,          \* the change whose hook runs, None between hooks
    context_members,    \* _context_members
    member_versions,    \* _member_versions
    pending,            \* _run_queue.pending
    disk,               \* the content of the state file, None if empty
    watching,           \* the container watch: off, on or lost; or the
                        \* container is absent, waited for, or was created
    known,              \* the units the watcher has reported
    resolving,          \* the units it found, whose names it looks up, or None
    relation,           \* the relation's layout
    container,          \* whether the watched container exists
    present,            \* the presence nodes of the relation's units
    version,            \* the versions of their settings nodes
    done,               \* history: the last hook completed for each unit
    unseen,             \* history: units that joined or wrote settings
                        \* since a changed hook for them last began (a unit
                        \* back before it was missed has not joined)
    mishaps             \* history: how often a hook failed or the agent was killed

scheduler == <<running, executing, context_members, member_versions, pending, disk>>
watcher   == <<watching, known, resolving>>
remote    == <<relation, container, present, version>>
history   == <<done, unseen, mishaps>>
vars      == <<scheduler, watcher, remote, history>>

Kind   == {"joined", "modified", "departed"}
Change == [unit : RemoteUnit, kind : Kind, members : SUBSET RemoteUnit]
Version == 0..MaxVersion
-----------------------------------------------------------------------------
(* HookQueue *)

\* Mutant of reduce: a unit that joined and left unnoticed departs.
reduce_departs == [joined   |-> [joined   |-> "error", modified |-> "keep", departed |-> "departed"],
                   modified |-> [joined   |-> "error", modified |-> "keep", departed |-> "departed"],
                   departed |-> [joined   |-> "modified", modified |-> "keep", departed |-> "error"]]

\* Mutant of reduce: a departure is merged into a queued modification.
reduce_stays == [joined   |-> [joined   |-> "error", modified |-> "keep", departed |-> "cancel"],
                 modified |-> [joined   |-> "error", modified |-> "keep", departed |-> "keep"],
                 departed |-> [joined   |-> "modified", modified |-> "keep", departed |-> "error"]]

\* What becomes of a queued change when another one of the same unit comes:
\* it is kept and the new one dropped, both are dropped, it is replaced by a
\* change of the kind given, or the code fails on the pair.
reduce == [joined   |-> [joined   |-> "error", modified |-> "keep", departed |-> "cancel"],
           modified |-> [joined   |-> "error", modified |-> "keep", departed |-> "departed"],
           departed |-> [joined   |-> "modified", modified |-> "keep", departed |-> "error"]]

\* The index of the last change of unit u in queue, as list.index finds it:
\* the first change that equals it.  0 if there is none.
previous(u, queue) ==
    LET last == SelectLastInSeq(queue, LAMBDA p : p.unit = u)
    IN  IF last = 0 THEN 0 ELSE SelectInSeq(queue, LAMBDA p : p = queue[last])

wipe_member(u, queue, offset) ==
    [i \in DOMAIN queue |-> IF i > offset THEN [queue[i] EXCEPT !.members = @ \ {u}]
                                          ELSE queue[i]]

\* The queue with change merged into its change idx, counted from offset; no
\* outcome if the code raises.  The removal counts from the head.
merge_change(queue, change, offset, idx) ==
    IF idx = 0 THEN {Append(queue, change)}
    ELSE UNION {
        IF result = "error" THEN {}
        ELSE IF result = "keep" THEN {queue}
        ELSE IF result = "cancel"
             THEN {RemoveAt(wipe_member(change.unit, queue, offset), idx)}
        ELSE {Append(RemoveAt(queue, idx), [change EXCEPT !.kind = result])} :
            result \in {reduce[queue[offset + idx].kind][change.kind]}}

queue_change(queue, change, offset) == UNION {
    merge_change(queue, change, offset, idx) :
        idx \in {previous(change.unit, SubSeq(queue, offset + 1, Len(queue)))}}
-----------------------------------------------------------------------------
(* HookScheduler: a handler works on a record of the state it changes,     *)
(* with the saves it makes on the way and whether it has raised.  The set  *)
(* of its outcomes has one element.                                        *)

Snapshot(s) == [context_members |-> s.members, member_versions |-> s.versions,
                change_queue |-> s.pending]

save_state(s) == [s EXCEPT !.saves = Append(@, Snapshot(s))]

raise(s) == [s EXCEPT !.raised = TRUE]

Here(members, versions) ==
    [running |-> running, executing |-> executing, members |-> members,
     versions |-> versions, pending |-> pending, saves |-> <<>>, raised |-> FALSE]

\* The queue saved if it changed.
queued(s, queue) == IF queue = s.pending THEN s ELSE save_state([s EXCEPT !.pending = queue])

\* A loop that waits takes the head of the queue.
wake(s) == IF s.running /\ s.executing = None
           THEN [s EXCEPT !.executing = Head(s.pending)] ELSE s

\* put: merge, save if the queue changed, wake the loop if it is waiting.
put(s, u, kind, offset) == UNION {
    IF queues = {} THEN {raise(s)} ELSE {wake(queued(s, queue)) : queue \in queues} :
        queues \in {queue_change(s.pending,
                        [unit |-> u, kind |-> kind, members |-> s.members], offset)}}

\* Changes the watcher reports do not merge with the change that is running.
notify(s, u, kind) == put(s, u, kind, IF s.executing = None THEN 0 ELSE 1)

member_added(s, u) ==
    IF s.raised THEN {s} ELSE notify([s EXCEPT !.members = @ \cup {u}], u, "joined")

\* Mutant of member_removed: the unit stays a member.
member_kept(s, u) ==
    IF s.raised THEN {s} ELSE notify(s, u, "departed")

member_removed(s, u) ==
    IF s.raised THEN {s}
    ELSE IF u \notin s.members THEN {raise(s)}
    ELSE notify([s EXCEPT !.members = @ \ {u}], u, "departed")

sorted(S) == SetToSortSeq(S, <)

\* Mutant of finally_save: relies on the saves of put.
never_save(s) == s

finally_save(s) == IF s.raised THEN s ELSE save_state(s)

cb_change_members(old_units, new_units) ==
    LET members  == IF context_members = None THEN old_units ELSE context_members
        recorded == DOMAIN member_versions
        versions == [u \in new_units |-> IF u \in recorded THEN member_versions[u] ELSE 0]
        adding(S, u)   == UNION {member_added(s, u) : s \in S}
        removing(S, u) == UNION {member_removed(s, u) : s \in S}
        joined   == FoldLeft(adding, {Here(members, versions)}, sorted(new_units \ recorded))
        departed == FoldLeft(removing, joined, sorted(recorded \ new_units))
    IN  {finally_save(s) : s \in departed}

recorded_version(u) == IF u \in DOMAIN member_versions THEN member_versions[u] ELSE 0

cb_change_settings(u, v) ==
    LET versions == [w \in DOMAIN member_versions \cup {u} |->
                        IF w = u THEN v ELSE member_versions[w]]
    IN  {finally_save(s) : s \in notify(Here(context_members, versions), u, "modified")}

finished_change(s) ==
    IF s.pending = <<>> THEN s ELSE save_state([s EXCEPT !.pending = Tail(@)])

\* The loop takes the head of the queue, or waits for one.
next_change(s) ==
    [s EXCEPT !.executing = IF s.running /\ s.pending # <<>> THEN Head(s.pending) ELSE None]

\* The rest of an iteration of the loop, after the hook of the change it runs.
hook_returned(success, stopped) ==
    LET before == [Here(context_members, member_versions) EXCEPT !.running = ~stopped]
        after  == IF executing.kind = "joined"
                  THEN put(before, executing.unit, "modified", 1)
                  ELSE {before}
        ended  == {IF success THEN finished_change(s) ELSE [s EXCEPT !.running = FALSE] :
                        s \in after}
    IN  {next_change(s) : s \in ended}
-----------------------------------------------------------------------------
(* Steps *)

Init ==
    /\ running = FALSE /\ executing = None
    /\ context_members = None /\ member_versions = <<>> /\ pending = <<>>
    /\ disk = None
    /\ watching = "off" /\ known = {} /\ resolving = None
    /\ relation \in Layouts /\ container = exists_from_start(relation)
    /\ present = relation.resident /\ version = [u \in RemoteUnit |-> 0]
    /\ done = [u \in RemoteUnit |-> "departed"] /\ unseen = {} /\ mishaps = 0

\* The scheduler goes on from what a handler left.
Become(s) ==
    /\ running' = s.running /\ executing' = s.executing
    /\ context_members' = s.members /\ member_versions' = s.versions
    /\ pending' = s.pending
    /\ disk' = IF s.saves = <<>> THEN disk ELSE Last(s.saves)

\* The hook that starts reads the settings of its unit as they are now.
Begin(s, started) ==
    unseen' = IF started /\ s.executing # None /\ s.executing.kind = "modified"
              THEN unseen \ {s.executing.unit} ELSE unseen

Mishap == mishaps < MaxMishaps /\ mishaps' = mishaps + 1

\* The process is killed with state_file on disk; a new one loads it.
Restart(state_file) ==
    /\ Mishap
    /\ disk' = state_file
    /\ running' = FALSE /\ executing' = None
    /\ context_members' = IF disk' = None THEN None ELSE disk'.context_members
    /\ member_versions' = IF disk' = None THEN <<>> ELSE disk'.member_versions
    /\ pending' = IF disk' = None THEN <<>> ELSE disk'.change_queue
    /\ watching' = "off" /\ known' = {} /\ resolving' = None

Crash ==
    /\ running \/ watching # "off"
    /\ Restart(disk)
    /\ UNCHANGED <<remote, done, unseen>>

\* The container watch is set, or fails as there is no container.
WatchContainer ==
    /\ watching = "off"
    /\ watching' = IF container THEN "on" ELSE "absent"
    /\ UNCHANGED <<scheduler, known, resolving, remote, history>>

\* Mutant of cb_container_exists: a container made meanwhile goes unnoticed.
cb_container_ignored(exists) == "waiting"

\* The watch for its existence is set; it may exist by now.
cb_container_exists(exists) == IF exists THEN "on" ELSE "waiting"

WatchExistence ==
    /\ watching = "absent"
    /\ watching' = cb_container_exists(container)
    /\ UNCHANGED <<scheduler, known, resolving, remote, history>>

ContainerCreated ==
    /\ watching = "created"
    /\ watching' = "on"
    /\ UNCHANGED <<scheduler, known, resolving, remote, history>>

StartWatcher == WatchContainer \/ WatchExistence \/ ContainerCreated

\* The children of the watched container.
Children == related_children(relation, present)

\* run(), up to the first hook it starts.
Run ==
    /\ ~running
    /\ \E s \in {next_change([Here(context_members, member_versions)
                                EXCEPT !.running = TRUE])} :
        Become(s) /\ Begin(s, TRUE)
    /\ UNCHANGED <<watcher, remote, done, mishaps>>

\* stop() while the loop waits.
Stop ==
    /\ running /\ executing = None
    /\ running' = FALSE
    /\ UNCHANGED <<executing, context_members, member_versions, pending, disk,
                   watcher, remote, history>>

HookReturned(success, stopped) ==
    /\ executing # None
    /\ \E s \in hook_returned(success, stopped) :
        \/ /\ Become(s) /\ Begin(s, TRUE)
           /\ UNCHANGED watcher
           /\ IF success THEN UNCHANGED mishaps ELSE Mishap
        \/ /\ \E file \in Range(s.saves) \cup {disk} : Restart(file)
           /\ UNCHANGED unseen
    /\ done' = IF success THEN [done EXCEPT ![executing.unit] = executing.kind] ELSE done
    /\ UNCHANGED remote

\* A watch callback of the scheduler ends, or raises, or the process is
\* killed on the way.
Callback(results, watcher_after, watcher_broken) == \E s \in results :
    /\ \/ /\ Become(s) /\ Begin(s, executing = None)
          /\ LET w == IF s.raised THEN watcher_broken ELSE watcher_after
             IN  watching' = w[1] /\ known' = w[2] /\ resolving' = w[3]
          /\ UNCHANGED mishaps
       \/ /\ \E file \in Range(s.saves) : Restart(file)
          /\ UNCHANGED unseen
    /\ UNCHANGED <<remote, done>>

\* The container watch fired: the units found are _units now.  To look up the
\* names of new ones the watcher reads the relation's node.
FindMembers ==
    /\ watching = "on" /\ resolving = None /\ Children \ known # {}
    /\ resolving' = Children
    /\ UNCHANGED <<scheduler, watching, known, remote, history>>

\* The container watch is set again only after a callback that succeeds; the
\* settings watches of units already known outlive a callback that raises.
MembersChanged ==
    \E children \in IF resolving # None THEN {resolving}
                    ELSE IF watching = "on" /\ Children \subseteq known THEN {Children} \ {known}
                    ELSE {} :
        Callback(cb_change_members(known, children),
                 <<"on", children, None>>, <<"lost", known \cap children, None>>)

SettingsChanged(u) ==
    /\ u \in known /\ (resolving # None => u \in resolving)
    /\ version[u] > recorded_version(u)
    /\ Callback(cb_change_settings(u, version[u]), watcher, watcher)

\* The first to join makes the container; a watch for its existence fires.
create_scope_container(u) ==
    /\ joined_container(relation, u) = get_related_unit_container(relation)
    /\ ~container /\ container' = TRUE
    /\ watching' = IF watching = "waiting" THEN "created" ELSE watching
    /\ UNCHANGED <<scheduler, known, resolving, relation, present, version, history>>

RemoteJoin(u) ==
    /\ joined_container(relation, u) = get_related_unit_container(relation) => container
    /\ u \notin present /\ Len(pending) <= MaxPending
    /\ present' = present \cup {u}
    /\ unseen' = unseen \cup ({u} \ DOMAIN member_versions)
    /\ UNCHANGED <<scheduler, watcher, relation, container, version, done, mishaps>>

RemoteDepart(u) ==
    /\ u \in present /\ Len(pending) <= MaxPending
    /\ present' = present \ {u}
    /\ UNCHANGED <<scheduler, watcher, relation, container, version, history>>

RemoteSet(u) ==
    /\ version[u] < MaxVersion
    /\ version' = [version EXCEPT ![u] = @ + 1]
    /\ unseen' = unseen \cup {u}
    /\ UNCHANGED <<scheduler, watcher, relation, container, present, done, mishaps>>

HookEnds == \E success, stopped \in BOOLEAN : HookReturned(success, stopped)

Next ==
    \/ Crash \/ StartWatcher \/ Run \/ Stop \/ HookEnds \/ FindMembers \/ MembersChanged
    \/ \E u \in RemoteUnit :
        \/ SettingsChanged(u) \/ create_scope_container(u) \/ RemoteJoin(u)
        \/ RemoteDepart(u) \/ RemoteSet(u)

\* Watches fire, hooks end, and a stopped relation is started again.
Fairness ==
    /\ WF_vars(StartWatcher) /\ WF_vars(Run) /\ WF_vars(HookEnds)
    /\ WF_vars(MembersChanged)
    /\ WF_vars(FindMembers) /\ \A u \in RemoteUnit : WF_vars(SettingsChanged(u))

Spec == Init /\ [][Next]_vars
FairSpec == Spec /\ Fairness
-----------------------------------------------------------------------------
\* The types of the scheduler's state; versions recorded are versions written.
TypeOK ==
    /\ running \in BOOLEAN
    /\ executing \in Change \cup {None}
    /\ context_members \in (SUBSET RemoteUnit) \cup {None}
    /\ DOMAIN member_versions \subseteq RemoteUnit
    /\ \A u \in DOMAIN member_versions : member_versions[u] \in Version
    /\ pending \in Seq(Change)
    /\ watching \in {"off", "absent", "waiting", "created", "on", "lost"}
    /\ known \subseteq RemoteUnit /\ (resolving = None \/ resolving \subseteq RemoteUnit)
    /\ present \subseteq Unit
    /\ relation \in Layouts /\ container \in BOOLEAN
    /\ version \in [RemoteUnit -> Version]
    /\ done \in [RemoteUnit -> Kind]
    /\ unseen \subseteq RemoteUnit
    /\ mishaps \in 0..MaxMishaps

\* After every handler the state file holds what is in memory, so a restart
\* between handlers loses nothing: also after a change that was merged away,
\* which put itself does not save.  Only a callback that raises leaves the
\* file behind, and with it the container watch.
SavedIsCurrent == context_members # None /\ watching # "lost" => disk =
    [context_members |-> context_members, member_versions |-> member_versions,
     change_queue |-> pending]

\* The charm sees a unit's hooks in the order of its life: joined, then any
\* number of changed, then departed, then joined again.
HooksInOrder == executing # None /\ mishaps = 0 =>
    (executing.kind = "joined" <=> done[executing.unit] = "departed")

\* A unit is listed in the members of the joined and changed hooks for it and
\* not in those of the departed hook, although the queue was edited since.
HooksKnowTheirUnit == executing # None /\ mishaps = 0 =>
    (executing.unit \in executing.members <=> executing.kind # "departed")

\* Nothing is left to do: the watcher has reported everything, the loop waits.
Settled ==
    /\ running /\ executing = None /\ pending = <<>>
    /\ watching = IF container THEN "on" ELSE "waiting"
    /\ known = Children /\ resolving = None
    /\ \A u \in Children : version[u] <= recorded_version(u)

\* Once everything settles the charm has been told the truth: the units it
\* saw join and not depart are those the relation is about that are present.
SettledMembershipShown == Settled /\ mishaps = 0 =>
    {u \in RemoteUnit : done[u] # "departed"} = present \cap Counterparts(relation, Unit)

\* Every settings write of a unit that stays is followed by a changed hook, in
\* this process of the agent or the next, unless the watcher was lost to a
\* callback that raised.
SettingsEventuallyShown == \A u \in RemoteUnit :
    u \in unseen ~> \/ u \notin unseen \/ u \notin present \/ watching = "lost"
                    \/ u \notin Counterparts(relation, Unit)
=============================================================================
