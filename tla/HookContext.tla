------------------------------ MODULE HookContext ------------------------------
(***************************************************************************)
(* The state a hook sees and changes: the hook tools' commands             *)
(* (juju/hooks/commands.py, juju/hooks/protocol.py), the contexts that     *)
(* cache and buffer for them (juju/state/hook.py over YAMLState of         *)
(* juju/state/utils.py), and the invoker that flushes them when the hook   *)
(* exits (juju/hooks/invoker.py).                                          *)
(*                                                                         *)
(* The unit's hooks run one after another, as HookExecutor shows.  A hook  *)
(* may run several commands at once and leave commands behind it when it   *)
(* exits; a command is served in the context of whatever hook runs then.   *)
(***************************************************************************)
EXTENDS Naturals, FiniteSets

CONSTANTS
    Relations,   \* the relations of the unit's service
    Keys,        \* the keys of a relation's settings
    MaxValue,    \* bound: the values a hook gives a key
    Address,     \* the key the agent itself maintains
    Clients,     \* bound: commands at once
    MaxHooks,    \* bound: hooks
    MaxJoins,    \* bound: writes of the address
    MaxChanges,  \* bound: changes of what hooks read
    Unset, None

\* What hooks read.
Item == {"config", "relation"}

ASSUME HookContextAssumption ==
    /\ Address \in Keys /\ MaxValue \in Nat /\ Unset \notin Nat
    /\ MaxHooks \in Nat /\ MaxJoins \in Nat /\ MaxChanges \in Nat

Values  == 1..MaxValue
NoEdit  == [k \in Keys |-> None]
Phase   == {"running", "success", "broken", "done", "failure"}

\* What relation-set is given.  Hooks leave the agent's own key alone.
Data == {d \in [Keys -> Values \cup {Unset, None}] : d[Address] = None /\ d # NoEdit}

\* The settings of a unit in a relation; what a context has read of them, and
\* made of them; a write() of those; an update of the address; and a command
\* that waits, to change settings or to read something.
Stored  == Values \cup 0..MaxJoins \cup {Unset}
Content == [Keys -> Stored]
Cached  == [pristine : Content, cache : Content]
Write   == [relation : Relations, pristine : Content, cache : Content, shared : BOOLEAN,
            sent : Content \cup {None}, content : Content \cup {None}, fresh : BOOLEAN]
Update  == [relation : Relations, address : 1..MaxJoins, content : Content, fresh : BOOLEAN]
Await   == [relation : Relations \cup {None}, data : Data \cup {None},
            item : Item \cup {None, "relation-ids", "late"}, reads : {"topology", "node"}]

ASSUME NoneAssumption ==
    /\ None \notin Relations \cup Nat \cup {Unset} \cup Phase \cup Item
    /\ None \notin {"relation-ids", "late"} /\ \A R \in SUBSET Relations : None # R
    /\ None \notin Content \cup Data \cup Cached \cup Write \cup Update \cup Await

VARIABLES
    settings,    \* the unit's settings in each relation, None before it joined
    world,       \* a version of what hooks read: the config, the settings of others
    related,     \* the service's relations, in the topology
    hook,        \* the hook: its number, and how far it is
    queued,      \* the topology that a unit hook's invoker has read, while the
                 \* hook waits for its turn; None if none waits
    relation_contexts, \* the relations that the hook's commands may name with -r
    topology,    \* the relations in the topology that the contexts share, None
                 \* before it is read
    node_cache,  \* the settings each context has read: pristine and current
    needs_flushing,
    view,        \* what the context has read of the world
    unflushed,   \* the contexts still to be flushed
    writing,     \* the write() under way, and what it last tried to write
    joining,     \* the address update under way in each relation
    commands,    \* the commands that wait for ZooKeeper
    joins,       \* address updates so far
    tidy,        \* history: no command overlapped another or outlived its hook;
                 \* as long as that is so,
    acknowledged,\* the changes whose command was answered without error, and
    seen         \* what the hook's commands were told

context == <<relation_contexts, topology, node_cache, needs_flushing, view, unflushed, writing>>
history == <<tidy, acknowledged, seen>>
vars == <<settings, world, related, hook, queued, context, joining, commands, joins, history>>

NothingRead == [r \in Relations |-> None]
NothingAcknowledged == [r \in Relations |-> NoEdit]
NothingSeen == [i \in Item \cup {"relation-ids"} |-> {}]

\* The history after a step: whether it is still tidy, and if so what it is.
Record(orderly, changes, told) ==
    /\ tidy' = orderly
    /\ acknowledged' = IF orderly THEN changes ELSE NothingAcknowledged
    /\ seen' = IF orderly THEN told ELSE NothingSeen

\* What the agent left behind when it ran before.
JoinedBefore == [k \in Keys |-> IF k = Address THEN 0 ELSE Unset]

Init ==
    /\ settings \in [Relations -> {None, JoinedBefore}] /\ world = 0
    /\ related = Relations /\ hook = [number |-> 0, phase |-> "failure"]
    /\ queued = None /\ relation_contexts = {} /\ topology = None
    /\ node_cache = NothingRead
    /\ needs_flushing = [r \in Relations |-> FALSE]
    /\ view = [i \in Item |-> None] /\ unflushed = {} /\ writing = None
    /\ joining = [r \in Relations |-> None] /\ commands = [c \in Clients |-> None]
    /\ joins = 0 /\ tidy = TRUE
    /\ acknowledged = NothingAcknowledged /\ seen = NothingSeen

\* A command that waits for ZooKeeper when its hook is over.
Late == [relation |-> None, data |-> None, item |-> "late", reads |-> "node"]

\* The executor's context is set from the hook's start to the end of its flush.
InContext == hook.phase \in {"running", "success"}
Waiting   == \E c \in Clients : commands[c] # None
-----------------------------------------------------------------------------
(* YAMLState: a cache of a node that writes only its own changes *)

\* Mutant of apply_changes: the whole cache is written.
apply_cache(pristine, cache, current) == cache

\* The node's content with the keys that were changed since they were read.
apply_changes(pristine, cache, current) ==
    [k \in Keys |-> IF cache[k] # pristine[k] THEN cache[k]
                    ELSE IF current = None THEN Unset ELSE current[k]]

Read(r)       == [pristine |-> settings[r], cache |-> settings[r]]
Set(s, data)  == [s EXCEPT !.cache = [k \in Keys |-> IF data[k] # None THEN data[k] ELSE @[k]]]
-----------------------------------------------------------------------------
(* The life of a hook *)

\* Hooks are counted with the one that is queued.
More == hook.number + Cardinality({queued} \ {None}) < MaxHooks

\* A unit hook's invoker reads the topology, and makes a context for each
\* relation, before the hook is queued.
InvokerStart ==
    /\ queued = None /\ More /\ queued' = related
    /\ UNCHANGED <<settings, world, related, hook, context, joining, commands, joins, history>>

StartHook(relations, snapshot) ==
    /\ ~InContext /\ hook' = [number |-> hook.number + 1, phase |-> "running"]
    /\ relation_contexts' = relations /\ topology' = snapshot
    /\ Record(~Waiting, NothingAcknowledged, NothingSeen)
    /\ UNCHANGED <<settings, world, related, node_cache, needs_flushing, view, unflushed,
                   writing, joining, commands, joins>>

UnitHook == queued # None /\ StartHook(queued, queued) /\ queued' = None

\* A relation hook, of a relation that the unit joined, has its own context alone,
\* which has not read the topology.
RelationHook(r) ==
    More /\ settings[r] # None /\ StartHook({r}, None) /\ UNCHANGED queued

\* In the hook of a broken relation nothing can be set or got any more.
BrokenHook == More /\ StartHook({}, None) /\ UNCHANGED queued

\* The hook is over, well or not, and its contexts are gone.  What its commands
\* still wait for will change nothing.
End(phase) ==
    /\ hook' = [hook EXCEPT !.phase = phase]
    /\ commands' = [c \in Clients |-> IF commands[c] = None THEN None ELSE Late]
    /\ relation_contexts' = {} /\ topology' = None
    /\ node_cache' = NothingRead /\ needs_flushing' = [r \in Relations |-> FALSE]
    /\ view' = [i \in Item |-> None] /\ unflushed' = {} /\ writing' = None

\* The process exits, and only if with 0 the contexts are flushed.  Its commands
\* may still be running in the background.
HookExits(code) ==
    /\ hook.phase = "running"
    /\ IF code = "success"
       THEN /\ hook' = [hook EXCEPT !.phase = code] /\ unflushed' = relation_contexts
            /\ UNCHANGED <<relation_contexts, topology, node_cache, needs_flushing, view,
                           writing, commands>>
       ELSE End(code)
    /\ Record(tidy /\ ~Waiting, acknowledged, seen)
    /\ UNCHANGED <<settings, world, related, queued, joining, joins>>

\* The next context is flushed: its changes are taken over, to be written.  A
\* context that failed to read its settings reads them now, by the topology.
FlushNext(r) ==
    /\ writing = None /\ r \in unflushed
    /\ IF ~needs_flushing[r]
       THEN /\ unflushed' = unflushed \ {r}
            /\ UNCHANGED <<hook, relation_contexts, topology, node_cache, needs_flushing, view,
                           writing, commands>>
       ELSE IF node_cache[r] = None /\ settings[r] = None THEN End("broken")
       ELSE \E s \in {IF node_cache[r] = None THEN Read(r) ELSE node_cache[r]} :
            /\ writing' = [relation |-> r, pristine |-> s.pristine, cache |-> s.cache,
                            shared |-> TRUE, sent |-> None, content |-> None,
                            fresh |-> TRUE]
            /\ node_cache' = [node_cache EXCEPT ![r] = [s EXCEPT !.pristine = s.cache]]
            /\ topology' = IF topology = None THEN related ELSE topology
            /\ UNCHANGED <<hook, relation_contexts, needs_flushing, view, unflushed, commands>>
    /\ UNCHANGED <<settings, world, related, queued, joining, joins, history>>

\* retry_change reads the node and makes the changes.
WriteReads ==
    /\ writing # None /\ hook.phase = "success" /\ writing.content = None
    /\ writing' = [writing EXCEPT !.sent = writing.cache, !.content =
          apply_changes(writing.pristine, writing.cache, settings[writing.relation])]
    /\ UNCHANGED <<settings, world, related, hook, queued, relation_contexts, topology,
                   node_cache, needs_flushing, view, unflushed, joining, commands, joins,
                   history>>

\* A write goes on with the settings object it began with.
WriterSees(r, s, shared) ==
    writing' = IF writing = None \/ hook.phase # "success" THEN writing
               ELSE IF writing.relation = r /\ writing.shared
               THEN IF shared THEN [writing EXCEPT !.cache = s.cache]
                    ELSE [writing EXCEPT !.shared = FALSE]
               ELSE writing

\* A version that was written meanwhile makes the other writers start over.
superseded(w, r) ==
    IF w # None /\ w.relation = r THEN [w EXCEPT !.fresh = (w.content = None)] ELSE w

again(w) == [w EXCEPT !.sent = None, !.content = None, !.fresh = TRUE]

WriteRetries ==
    /\ writing # None /\ hook.phase = "success" /\ ~writing.fresh
    /\ writing' = again(writing)
    /\ UNCHANGED <<settings, world, related, hook, queued, relation_contexts, topology,
                   node_cache, needs_flushing, view, unflushed, joining, commands, joins,
                   history>>

WriteSets ==
    /\ writing # None /\ hook.phase = "success" /\ writing.content # None /\ writing.fresh
    /\ \E r \in {writing.relation} :
          /\ settings' = [settings EXCEPT ![r] = writing.content]
          /\ joining' = [joining EXCEPT ![r] = superseded(@, r)]
          /\ unflushed' = unflushed \ {r}
    /\ writing' = None
    /\ UNCHANGED <<world, related, hook, queued, relation_contexts, topology, node_cache,
                   needs_flushing, view, commands, joins, history>>

\* ZooKeeper fails: the hook is reported as failed, part of it may be written.
FlushFails ==
    /\ hook.phase = "success" /\ End("broken")
    /\ UNCHANGED <<settings, world, related, queued, joining, joins, history>>

HookSucceeds ==
    /\ hook.phase = "success" /\ unflushed = {} /\ End("done")
    /\ UNCHANGED <<settings, world, related, queued, joining, joins, history>>
-----------------------------------------------------------------------------
(* The commands *)

\* The answer to a command that changes settings, and to one that reads.
Acknowledge(r, data) == [acknowledged EXCEPT ![r] =
    [k \in Keys |-> IF data[k] # None THEN data[k] ELSE @[k]]]
Told(i, value) == [seen EXCEPT ![i] = @ \cup {value}]

cached(r) == node_cache[r] # None

\* Mutant of modifies: a deletion alone does not count.
modifies_by_values(data) == \E k \in Keys : data[k] \in Values

\* Setting or deleting marks a context as modified, even when the key is not there.
modifies(data) == TRUE

\* A command that outlives its hook, or overlaps another, is not tidy.
StillTidy == tidy /\ hook.phase = "running" /\ ~Waiting

\* The context of a command about a relation: the relation named with -r, or
\* else the hook's own.  Others, and hooks without one, are refused.
require_relation_context(r) == r \in relation_contexts

\* A tool sends one command, to whatever context there is, and awaits the answer.
Call(c) == InContext /\ commands[c] = None

\* What a command reads first: nodes are looked up by names in the topology.
lookup == IF topology = None THEN "topology" ELSE "node"

Wait(c, r, data, i, first) == commands' = [commands EXCEPT ![c] =
    [relation |-> r, data |-> data, item |-> i, reads |-> first]]
Answered(c) == commands' = [commands EXCEPT ![c] = None]

\* A change is made in the cache, or waits for the settings.
ChangeSettings(c, r, data, orderly, first) ==
    /\ Record(orderly, IF cached(r) THEN Acknowledge(r, data) ELSE acknowledged, seen)
    /\ IF cached(r)
       THEN /\ node_cache' = [node_cache EXCEPT ![r] = Set(@, data)]
            /\ WriterSees(r, Set(node_cache[r], data), TRUE) /\ Answered(c)
       ELSE Wait(c, r, data, None, first) /\ UNCHANGED <<node_cache, writing>>

\* relation-set: a blank value deletes a key.
relation_set(c, r, data) ==
    /\ Call(c) /\ require_relation_context(r)
    /\ needs_flushing' = [needs_flushing EXCEPT ![r] = @ \/ modifies(data)]
    /\ ChangeSettings(c, r, data, StillTidy, lookup)
    /\ UNCHANGED <<settings, world, related, hook, queued, relation_contexts, topology, view,
                   unflushed, joining, joins>>

\* The settings arrive, or there are none.
SettingsRead(c) ==
    /\ commands[c] # None /\ commands[c].item = None /\ commands[c].reads = "node"
    /\ \E r \in {commands[c].relation}, data \in {commands[c].data} :
          IF settings[r] = None
          THEN UNCHANGED <<node_cache, writing, history>>
          ELSE /\ node_cache' = [node_cache EXCEPT ![r] = Set(Read(r), data)]
               /\ WriterSees(r, node_cache'[r], FALSE)
               /\ Record(tidy, Acknowledge(r, data), seen)
    /\ Answered(c)
    /\ UNCHANGED <<settings, world, related, hook, queued, relation_contexts, topology,
                   needs_flushing, view, unflushed, joining, joins>>

\* Mutant of known: what was read is not kept.
known_never(i) == FALSE

\* A configuration without any option counts as not read yet.
known(i) == view[i] # None /\ ~(i = "config" /\ view[i] = 0)

\* What the context has read it tells; else it reads, and the command waits.
Ask(c, i, first) ==
    /\ Record(StillTidy, acknowledged, IF known(i) THEN Told(i, view[i]) ELSE seen)
    /\ IF known(i) THEN UNCHANGED commands ELSE Wait(c, None, None, i, first)
    /\ UNCHANGED <<settings, world, related, hook, queued, context, joining, joins>>

config_get(c) == Call(c) /\ Ask(c, "config", "node")

\* The settings of each unit of a relation are read once and kept alike, and its
\* members with -r; "relation" stands for one of them.
relation_get(c) ==
    /\ Call(c) /\ \E r \in Relations : require_relation_context(r)
    /\ Ask(c, "relation", lookup)

\* relation-ids: from the topology that the contexts share.
get_relation_idents == topology

relation_ids(c) ==
    /\ Call(c)
    /\ Record(StillTidy, acknowledged,
              IF topology # None THEN Told("relation-ids", get_relation_idents) ELSE seen)
    /\ IF topology # None THEN UNCHANGED commands
       ELSE Wait(c, None, None, "relation-ids", "topology")
    /\ UNCHANGED <<settings, world, related, hook, queued, context, joining, joins>>

\* The topology arrives for a command, which goes on with it.
TopologyRead(c) ==
    /\ commands[c] # None /\ commands[c].reads = "topology" /\ topology' = related
    /\ \E a \in {commands[c]} :
          \/ a.item = None /\ ChangeSettings(c, a.relation, a.data, tidy, "node")
          \/ /\ a.item = "relation" /\ Wait(c, None, None, a.item, "node")
             /\ UNCHANGED <<node_cache, writing, history>>
          \/ /\ a.item = "relation-ids" /\ Answered(c)
             /\ Record(tidy, acknowledged, Told(a.item, related))
             /\ UNCHANGED <<node_cache, writing>>
    /\ UNCHANGED <<settings, world, related, hook, queued, relation_contexts, needs_flushing,
                   view, unflushed, joining, joins>>

ItemRead(c) ==
    /\ commands[c] # None /\ commands[c].item \in Item /\ commands[c].reads = "node"
    /\ \E i \in {commands[c].item} :
          view' = [view EXCEPT ![i] = world] /\ Record(tidy, acknowledged, Told(i, world))
    /\ Answered(c)
    /\ UNCHANGED <<settings, world, related, hook, queued, relation_contexts, topology,
                   node_cache, needs_flushing, unflushed, writing, joining, joins>>

\* What a command read arrives in the context of a hook that is over.
ReadInVain(c) ==
    /\ commands[c] = Late /\ Answered(c)
    /\ UNCHANGED <<settings, world, related, hook, queued, context, joining, joins, history>>
-----------------------------------------------------------------------------
(* Meanwhile *)

\* Its update of the content read.
update_address(a, current) ==
    [k \in Keys |-> IF k = Address THEN a ELSE IF current = None THEN Unset ELSE current[k]]

\* add_unit_state is to write the unit's address, on joining or when restarted,
\* over what it has read.  The address may be another one each time.
Join(r) ==
    /\ joins < MaxJoins /\ joining[r] = None /\ r \in related
    /\ joining' = [joining EXCEPT ![r] = [relation |-> r, address |-> joins + 1,
          content |-> update_address(joins + 1, settings[r]), fresh |-> TRUE]]
    /\ joins' = joins + 1
    /\ UNCHANGED <<settings, world, related, hook, queued, context, commands, history>>

\* The node was written meanwhile: it is read again.
JoinRetries(r) ==
    /\ joining[r] # None /\ ~joining[r].fresh
    /\ joining' = [joining EXCEPT ![r].content = update_address(joining[r].address, settings[r]),
                                  ![r].fresh = TRUE]
    /\ UNCHANGED <<settings, world, related, hook, queued, context, commands, joins, history>>

JoinSets(r) ==
    /\ joining[r] # None /\ joining[r].fresh
    /\ settings' = [settings EXCEPT ![r] = joining[r].content]
    /\ joining' = [joining EXCEPT ![r] = None] /\ writing' = superseded(writing, r)
    /\ UNCHANGED <<world, related, hook, queued, relation_contexts, topology, node_cache,
                   needs_flushing, view, unflushed, commands, joins, history>>

\* What changes between two hooks is all the same to them, but for the topology
\* that a queued one has read.
\* A relation is removed; the unit leaves its settings behind.
RelationRemoved(r) ==
    /\ InContext \/ queued # None
    /\ related' = related \ {r} /\ related' # related
    /\ UNCHANGED <<settings, world, hook, queued, context, joining, commands, joins, history>>

\* Others change what hooks read.
WorldChanges ==
    /\ InContext /\ world < MaxChanges /\ world' = world + 1
    /\ UNCHANGED <<settings, related, hook, queued, context, joining, commands, joins, history>>
-----------------------------------------------------------------------------
Command(c) ==
    \/ \E r \in Relations, data \in Data : relation_set(c, r, data)
    \/ config_get(c) \/ relation_get(c) \/ relation_ids(c)
    \/ TopologyRead(c) \/ SettingsRead(c) \/ ItemRead(c) \/ ReadInVain(c)

Next ==
    \/ InvokerStart \/ UnitHook \/ BrokenHook
    \/ \E r \in Relations : RelationHook(r)
    \/ \E code \in {"success", "failure"} : HookExits(code)
    \/ \E r \in Relations : FlushNext(r)
    \/ WriteReads \/ WriteRetries \/ WriteSets \/ FlushFails \/ HookSucceeds
    \/ \E c \in Clients : Command(c)
    \/ \E r \in Relations : Join(r) \/ JoinRetries(r) \/ JoinSets(r)
    \/ \E r \in Relations : RelationRemoved(r)
    \/ WorldChanges

Spec == Init /\ [][Next]_vars
-----------------------------------------------------------------------------
\* The changes a context still holds, or that write() has taken from it.
Changes(s) == [k \in Keys |-> IF s.cache[k] # s.pristine[k] THEN s.cache[k] ELSE None]
Unwritten(r) ==
    IF ~InContext \/ node_cache[r] = None THEN NoEdit
    ELSE IF writing # None /\ writing.relation = r
    THEN IF writing.content = None THEN Changes(writing)
         ELSE Changes([writing EXCEPT !.cache = writing.sent])
    ELSE Changes(node_cache[r])

Pending == [r \in Relations |-> Unwritten(r)]
Outcome == IF hook.phase = "running" THEN None
           ELSE IF hook.phase = "broken" THEN "failure" ELSE hook.phase

Store == INSTANCE SettingsStore WITH
    Values <- Values \cup 0..MaxJoins, edits <- Pending, outcome <- Outcome

\* The buffered, retried and merged writes of hook contexts (hook.py:331,
\* utils.py:212) have the effect of applying each relation's changes at once,
\* after the hook succeeded, to the settings as they are then.
ImplementsSettingsStore == Store!SettingsSpec

\* After a hook that succeeded, whose commands ran one after another within it,
\* every change that a command was told had been made is in the settings
\* (protocol.py:211, hook.py:308), unless a later hook changes it.
AcknowledgedChangesWritten ==
    hook.phase = "done" /\ tidy =>
        \A r \in Relations, k \in Keys \ {Address} :
            acknowledged[r][k] # None => settings[r][k] = acknowledged[r][k]

\* The commands of one hook, run one after another, are told the same about
\* what others may change meanwhile (protocol.py:196, hook.py:225).
ConsistentView == tidy => \A i \in DOMAIN seen :
    Cardinality(IF i = "config" THEN seen[i] \ {0} ELSE seen[i]) <= 1
===============================================================================
