--------------------------- MODULE HookContextProofs ---------------------------
(***************************************************************************)
(* Proofs about hook contexts.  The inductive invariant says what of a     *)
(* relation's settings is where: in the node, in the context that caches   *)
(* them, in a write() under way; and, as long as commands come one after   *)
(* another within their hook, where a change is that was acknowledged and  *)
(* what the context keeps of what the commands were told.                  *)
(***************************************************************************)
EXTENDS HookContext, FiniteSetTheorems, TLAPS

TypeInv ==
    /\ settings \in [Relations -> Content \cup {None}]
    /\ world \in Nat /\ related \subseteq Relations
    /\ hook \in [number : Nat, phase : Phase]
    /\ queued \in (SUBSET Relations) \cup {None} /\ relation_contexts \subseteq Relations
    /\ topology \in (SUBSET Relations) \cup {None} /\ unflushed \subseteq Relations
    /\ node_cache \in [Relations -> Cached \cup {None}]
    /\ needs_flushing \in [Relations -> BOOLEAN]
    /\ view \in [Item -> Nat \cup {None}]
    /\ writing \in Write \cup {None}
    /\ joining \in [Relations -> Update \cup {None}] /\ joins \in Nat
    /\ commands \in [Clients -> Await \cup {None}]
    /\ tidy \in BOOLEAN
    /\ acknowledged \in [Relations -> [Keys -> Values \cup {Unset, None}]]
    /\ DOMAIN seen = Item \cup {"relation-ids"}

\* Contexts and what they wait for last as long as their hook.
ContextInv ==
    /\ ~InContext =>
        /\ node_cache = NothingRead /\ writing = None /\ unflushed = {}
        /\ \A c \in Clients : commands[c] \in {None, Late}
    /\ hook.phase = "running" => writing = None /\ unflushed = {}
    /\ \A c \in Clients : commands[c] # None =>
        \/ commands[c] = Late
        \/ /\ commands[c].item = None
           /\ commands[c].relation \in Relations /\ commands[c].data \in Data
        \/ commands[c].item \in Item
        \/ commands[c].item = "relation-ids" /\ commands[c].reads = "topology"

\* What has been prepared to be written, and is not superseded, is what the
\* changes make of the settings as they are.
WriteInv ==
    /\ \A r \in Relations : node_cache[r] # None => settings[r] # None
    /\ writing # None =>
        /\ writing.relation \in unflushed /\ node_cache[writing.relation] # None
        /\ writing.content # None => writing.sent # None
        /\ writing.content # None /\ writing.fresh =>
             writing.content =
                 apply_changes(writing.pristine, writing.sent, settings[writing.relation])
    /\ \A r \in Relations : joining[r] # None =>
        /\ joining[r].relation = r
        /\ joining[r].fresh =>
             joining[r].content = update_address(joining[r].address, settings[r])

Writes(r) == writing # None /\ writing.relation = r

\* Only the hook changes the unit's settings, the address aside.
PristineInv == \A r \in Relations, k \in Keys \ {Address} :
    /\ Writes(r) => settings[r][k] = writing.pristine[k]
    /\ ~Writes(r) /\ node_cache[r] # None /\ (hook.phase = "running" \/ r \in unflushed)
         => settings[r][k] = node_cache[r].pristine[k]

\* Commands that come one after another wait one at a time, for what is not
\* known yet.
TidyInv == tidy =>
    /\ hook.phase # "running" => ~Waiting
    /\ \A c, d \in Clients : commands[c] # None /\ commands[d] # None => c = d
    /\ \A c \in Clients : commands[c] # None =>
        /\ commands[c] # Late
        /\ commands[c].item = None =>
             /\ commands[c].relation \in relation_contexts
             /\ node_cache[commands[c].relation] = None
             /\ needs_flushing[commands[c].relation]
        /\ commands[c].item \in Item => ~known(commands[c].item)
        /\ commands[c].reads = "topology" => topology = None

Holds(r, k) == /\ needs_flushing[r] /\ node_cache[r] # None
               /\ node_cache[r].cache[k] = acknowledged[r][k]
Has(r, k)   == settings[r] # None /\ settings[r][k] = acknowledged[r][k]

\* Where an acknowledged change is.
AckInv == tidy => \A r \in Relations, k \in Keys \ {Address} : acknowledged[r][k] # None =>
    /\ hook.phase = "running" => r \in relation_contexts /\ Holds(r, k)
    /\ hook.phase = "success" /\ Writes(r) =>
         /\ writing.cache[k] = acknowledged[r][k]
         /\ writing.content # None => writing.sent[k] = acknowledged[r][k]
    /\ hook.phase = "success" /\ ~Writes(r) /\ r \in unflushed => Holds(r, k)
    /\ hook.phase = "success" /\ r \notin unflushed => Has(r, k)
    /\ hook.phase = "done" => Has(r, k)

Real(i) == IF i = "config" THEN seen[i] \ {0} ELSE seen[i]

\* What the commands were told is what the context keeps.
SeenInv == tidy =>
    /\ hook.phase = "running" =>
        /\ Real("relation-ids") \subseteq {topology} \ {None}
        /\ \A i \in Item : Real(i) \subseteq {view[i]} \ {None}
    /\ \A i \in DOMAIN seen : \E x : Real(i) \subseteq {x}

Inv ==
    /\ TypeInv /\ ContextInv /\ WriteInv /\ PristineInv
    /\ TidyInv /\ AckInv /\ SeenInv
-----------------------------------------------------------------------------
(* The operators *)

\* YAMLState.__setitem__ and __delitem__ change the cache alone.
LEMMA SetFacts ==
    ASSUME NEW s \in Cached, NEW data \in Data
    PROVE  /\ Set(s, data) \in Cached /\ Set(s, data).pristine = s.pristine
           /\ \A k \in Keys :
                Set(s, data).cache[k] = IF data[k] # None THEN data[k] ELSE s.cache[k]
<1> DEFINE new == [k \in Keys |-> IF data[k] # None THEN data[k] ELSE s.cache[k]]
<1>1. /\ s.pristine \in Content /\ s.cache \in Content
      /\ s = [pristine |-> s.pristine, cache |-> s.cache]
    BY DEF Cached
<1>2. data \in [Keys -> Values \cup {Unset, None}]
    BY DEF Data
<1>3. new \in Content
    BY <1>1, <1>2 DEF Content, Stored
<1>4. Set(s, data) = [s EXCEPT !.cache = new]
    BY DEF Set
<1> HIDE DEF new
<1>5. /\ Set(s, data) \in Cached /\ Set(s, data).pristine = s.pristine
      /\ Set(s, data).cache = new
    BY <1>1, <1>3, <1>4 DEF Cached
<1> QED BY <1>5 DEF new

\* YAMLState.read: the cache is what was read.
LEMMA ReadFacts ==
    ASSUME NEW r \in Relations, settings[r] \in Content
    PROVE  Read(r) \in Cached /\ Read(r).pristine = settings[r] /\ Read(r).cache = settings[r]
BY DEF Read, Cached

\* YAMLState.write changes the keys that were changed in the cache.
LEMMA ApplyFacts ==
    ASSUME NEW pristine \in Content, NEW cache \in Content, NEW current \in Content \cup {None}
    PROVE  /\ apply_changes(pristine, cache, current) \in Content
           /\ \A k \in Keys : apply_changes(pristine, cache, current)[k] =
                IF cache[k] # pristine[k] THEN cache[k]
                ELSE IF current = None THEN Unset ELSE current[k]
BY DEF apply_changes, Content, Stored

\* add_unit_state changes the address alone.
LEMMA AddressFacts ==
    ASSUME NEW a \in 1..MaxJoins, NEW current \in Content \cup {None}
    PROVE  /\ update_address(a, current) \in Content
           /\ \A k \in Keys : update_address(a, current)[k] =
                IF k = Address THEN a ELSE IF current = None THEN Unset ELSE current[k]
<1>1. a \in Stored /\ Unset \in Stored
    BY HookContextAssumption DEF Stored
<1>2. current # None => current \in [Keys -> Stored]
    BY DEF Content
<1> HIDE DEF Stored
<1> QED BY <1>1, <1>2 DEF update_address, Content

\* The history after a step.
LEMMA Recorded ==
    ASSUME NEW orderly \in BOOLEAN,
           NEW changes \in [Relations -> [Keys -> Values \cup {Unset, None}]],
           NEW told, DOMAIN told = Item \cup {"relation-ids"}, Record(orderly, changes, told)
    PROVE  /\ tidy' = orderly /\ tidy' \in BOOLEAN
           /\ acknowledged' \in [Relations -> [Keys -> Values \cup {Unset, None}]]
           /\ DOMAIN seen' = Item \cup {"relation-ids"}
           /\ tidy' => acknowledged' = changes /\ seen' = told
<1>1. /\ tidy' = orderly
      /\ acknowledged' = IF orderly THEN changes ELSE NothingAcknowledged
      /\ seen' = IF orderly THEN told ELSE NothingSeen
    BY DEF Record
<1>2. NothingAcknowledged \in [Relations -> [Keys -> Values \cup {Unset, None}]]
    BY DEF NothingAcknowledged, NoEdit
<1>3. DOMAIN NothingSeen = Item \cup {"relation-ids"}
    BY DEF NothingSeen
<1> QED BY <1>1, <1>2, <1>3
-----------------------------------------------------------------------------
(* What a step leaves alone *)

\* What is cached and written stays as it is.
LEMMA SameSettings ==
    ASSUME Inv, UNCHANGED <<settings, hook, node_cache, unflushed, writing, joining>>
    PROVE  WriteInv' /\ PristineInv'
<1>1. WriteInv'
    BY DEF Inv, WriteInv
<1>2. PristineInv'
    BY DEF Inv, PristineInv, Writes
<1> QED BY <1>1, <1>2

\* And so does what was acknowledged.
LEMMA SameAcknowledged ==
    ASSUME Inv, tidy' => tidy /\ acknowledged' = acknowledged,
           UNCHANGED <<settings, hook, relation_contexts, node_cache, needs_flushing>>,
           UNCHANGED <<unflushed, writing>>
    PROVE  AckInv'
BY DEF Inv, AckInv, Holds, Has, Writes

\* And what the commands were told.
LEMMA SameSeen ==
    ASSUME Inv, tidy' => tidy /\ seen' = seen, UNCHANGED <<hook, topology, view>>
    PROVE  SeenInv'
BY DEF Inv, SeenInv, Real

\* What commands do not see.
LEMMA Unseen ==
    ASSUME Inv, TypeInv', WriteInv', UNCHANGED <<settings, hook, context, commands, history>>
    PROVE  Inv'
<1> USE DEF context, history
<1>1. ContextInv'
    BY DEF Inv, ContextInv, InContext
<1>2. PristineInv'
    BY DEF Inv, PristineInv, Writes
<1>3. TidyInv'
    BY DEF Inv, TidyInv, Waiting, known
<1>4. AckInv' /\ SeenInv'
    BY SameAcknowledged, SameSeen
<1> QED BY <1>1, <1>2, <1>3, <1>4 DEF Inv
-----------------------------------------------------------------------------
(* Meanwhile *)

\* Relations are removed, and others change what hooks read.
LEMMA OthersKeepInv ==
    ASSUME Inv, (\E r \in Relations : RelationRemoved(r)) \/ WorldChanges
    PROVE  Inv'
<1>1. CASE \E r \in Relations : RelationRemoved(r)
    <2>1. /\ UNCHANGED <<settings, world, hook, queued, context, joining, commands, joins, history>>
          /\ related' \subseteq Relations
        BY <1>1 DEF RelationRemoved, Inv, TypeInv
    <2>2. WriteInv'
        BY <2>1, SameSettings DEF context
    <2>3. TypeInv'
        BY <2>1 DEF Inv, TypeInv, context, history
    <2> QED BY <2>1, <2>2, <2>3, Unseen
<1>2. CASE WorldChanges
    <2>1. /\ UNCHANGED <<settings, related, hook, queued, context, joining, commands, joins, history>>
          /\ world' \in Nat
        BY <1>2 DEF WorldChanges, Inv, TypeInv
    <2>2. WriteInv'
        BY <2>1, SameSettings DEF context
    <2>3. TypeInv'
        BY <2>1 DEF Inv, TypeInv, context, history
    <2> QED BY <2>1, <2>2, <2>3, Unseen
<1> QED BY <1>1, <1>2

\* An update of the address, until it is written.
LEMMA JoinsKeepInv ==
    ASSUME Inv, NEW r \in Relations, Join(r) \/ JoinRetries(r)
    PROVE  Inv'
<1>1. /\ UNCHANGED <<settings, world, related, hook, queued, context, commands, history>>
      /\ joins' \in Nat
    BY DEF Join, JoinRetries, Inv, TypeInv
<1>2. settings[r] \in Content \cup {None}
    BY DEF Inv, TypeInv
<1>3. \E u \in Update : /\ joining' = [joining EXCEPT ![r] = u] /\ u.relation = r
                        /\ u.content = update_address(u.address, settings[r])
    <2>1. CASE Join(r)
        <3> DEFINE n == update_address(joins + 1, settings[r])
                   u == [relation |-> r, address |-> joins + 1, content |-> n, fresh |-> TRUE]
        <3>1. joins + 1 \in 1..MaxJoins
            BY <2>1, HookContextAssumption DEF Join, Inv, TypeInv
        <3>2. n \in Content
            BY <1>2, <3>1, AddressFacts
        <3>3. joining' = [joining EXCEPT ![r] = u]
            BY <2>1 DEF Join
        <3>4. n = update_address(joins + 1, settings[r])
            OBVIOUS
        <3> HIDE DEF n
        <3>5. u \in Update /\ u.relation = r /\ u.address = joins + 1 /\ u.content = n
            BY <3>1, <3>2 DEF Update
        <3> QED BY <3>3, <3>4, <3>5
    <2>2. CASE JoinRetries(r)
        <3> DEFINE j == joining[r]
                   n == update_address(j.address, settings[r])
                   u == [j EXCEPT !.content = n, !.fresh = TRUE]
        <3>1. j \in Update /\ j.relation = r /\ j.address \in 1..MaxJoins
            BY <2>2 DEF JoinRetries, Inv, TypeInv, WriteInv, Update
        <3>2. n \in Content
            BY <1>2, <3>1, AddressFacts
        <3>3. joining' = [joining EXCEPT ![r] = u]
            BY <2>2, <3>1 DEF JoinRetries, Inv, TypeInv
        <3> HIDE DEF n, j
        <3>4. u \in Update /\ u.relation = r /\ u.address = j.address /\ u.content = n
            BY <3>1, <3>2 DEF Update
        <3> QED BY <3>3, <3>4 DEF n
    <2> QED BY <2>1, <2>2
<1>4. PICK u \in Update : /\ joining' = [joining EXCEPT ![r] = u] /\ u.relation = r
                         /\ u.content = update_address(u.address, settings[r])
    BY <1>3
<1>5. /\ joining' \in [Relations -> Update \cup {None}]
      /\ \A q \in Relations : joining'[q] = IF q = r THEN u ELSE joining[q]
    BY <1>4 DEF Inv, TypeInv
<1>6. TypeInv'
    BY <1>1, <1>5 DEF Inv, TypeInv, context, history
<1>7. WriteInv'
    BY <1>1, <1>4, <1>5 DEF Inv, WriteInv, context
<1> QED BY <1>1, <1>6, <1>7, Unseen

\* A version written meanwhile supersedes a write that has been prepared.
LEMMA SupersededWrite ==
    ASSUME NEW w \in Write, NEW r
    PROVE  LET v == superseded(w, r)
           IN  /\ v \in Write /\ v.relation = w.relation /\ v.pristine = w.pristine
               /\ v.cache = w.cache /\ v.sent = w.sent /\ v.content = w.content
               /\ w.relation = r /\ v.content # None => ~v.fresh
               /\ w.relation # r => v = w
<1>1. CASE w.relation = r
    <2>1. w # None
        BY NoneAssumption
    <2>2. superseded(w, r) = [w EXCEPT !.fresh = (w.content = None)]
        BY <1>1, <2>1 DEF superseded
    <2>3. (w.content = None) \in BOOLEAN
        OBVIOUS
    <2> QED BY <1>1, <2>2, <2>3 DEF Write
<1>2. CASE w.relation # r
    BY <1>2 DEF superseded
<1> QED BY <1>1, <1>2

\* The same of an update of the address.
LEMMA SupersededUpdate ==
    ASSUME NEW u \in Update, NEW r
    PROVE  LET v == superseded(u, r)
           IN  /\ v \in Update /\ v.relation = u.relation
               /\ u.relation = r => ~v.fresh
<1>1. CASE u.relation = r
    <2>1. u # None
        BY NoneAssumption
    <2>2. superseded(u, r) = [u EXCEPT !.fresh = (u.content = None)]
        BY <1>1, <2>1 DEF superseded
    <2>3. u.content # None
        BY NoneAssumption DEF Update
    <2> QED BY <1>1, <2>2, <2>3 DEF Update
<1>2. CASE u.relation # r
    BY <1>2 DEF superseded
<1> QED BY <1>1, <1>2

\* The address is written: nothing else in the settings is touched.
LEMMA JoinSetsKeepsInv ==
    ASSUME Inv, NEW r \in Relations, JoinSets(r)
    PROVE  Inv'
<1>1. /\ settings' = [settings EXCEPT ![r] = joining[r].content]
      /\ joining' = [joining EXCEPT ![r] = None] /\ writing' = superseded(writing, r)
      /\ UNCHANGED <<world, related, hook, queued, relation_contexts, topology, node_cache>>
      /\ UNCHANGED <<needs_flushing, view, unflushed, commands, joins>>
      /\ UNCHANGED <<tidy, acknowledged, seen>>
      /\ joining[r] # None /\ joining[r].fresh
    BY DEF JoinSets, history
<1>2. /\ joining[r] \in Update /\ settings[r] \in Content \cup {None}
      /\ joining[r].content = update_address(joining[r].address, settings[r])
    BY <1>1 DEF Inv, TypeInv, WriteInv
<1> DEFINE n == joining[r].content
<1>3. joining[r].address \in 1..MaxJoins
    BY <1>2 DEF Update
<1>4. n \in Content /\ \A k \in Keys \ {Address} : settings[r] # None => n[k] = settings[r][k]
    BY <1>2, <1>3, AddressFacts
<1> HIDE DEF n
<1>5. /\ settings' \in [Relations -> Content \cup {None}]
      /\ \A q \in Relations : settings'[q] = IF q = r THEN n ELSE settings[q]
    BY <1>1, <1>4 DEF Inv, TypeInv, n
<1>6. n # None
    BY <1>4, NoneAssumption
<1>7. \A q \in Relations : settings[q] # None =>
          /\ settings'[q] # None
          /\ \A k \in Keys \ {Address} : settings'[q][k] = settings[q][k]
    BY <1>4, <1>5, <1>6
<1>8. /\ joining' \in [Relations -> Update \cup {None}]
      /\ \A q \in Relations : joining'[q] = IF q = r THEN None ELSE joining[q]
    BY <1>1 DEF Inv, TypeInv
<1>9. \/ writing = None /\ writing' = None
      \/ /\ writing \in Write /\ writing' \in Write /\ writing # None /\ writing' # None
         /\ writing'.relation = writing.relation /\ writing'.pristine = writing.pristine
         /\ writing'.cache = writing.cache /\ writing'.sent = writing.sent
         /\ writing'.content = writing.content
         /\ writing.relation = r /\ writing'.content # None => ~writing'.fresh
         /\ writing.relation # r => writing' = writing
    <2>1. CASE writing = None
        BY <1>1, <2>1 DEF superseded
    <2>2. CASE writing \in Write
        BY <1>1, <2>2, SupersededWrite, NoneAssumption
    <2> QED BY <2>1, <2>2 DEF Inv, TypeInv
<1>10. TypeInv'
    BY <1>1, <1>5, <1>8, <1>9 DEF Inv, TypeInv
<1>11. ContextInv'
    BY <1>1, <1>9 DEF Inv, ContextInv, InContext
<1>12. WriteInv'
    <2>1. \A q \in Relations : node_cache'[q] # None => settings'[q] # None
        BY <1>1, <1>7 DEF Inv, WriteInv
    <2>2. ASSUME writing' # None
          PROVE  /\ writing'.relation \in unflushed' /\ node_cache'[writing'.relation] # None
                 /\ writing'.content # None => writing'.sent # None
                 /\ writing'.content # None /\ writing'.fresh =>
                      writing'.content = apply_changes(writing'.pristine, writing'.sent,
                                                       settings'[writing'.relation])
        <3>1. writing # None /\ writing.relation \in Relations
            BY <1>9, <2>2 DEF Write
        <3>2. writing.relation # r => settings'[writing.relation] = settings[writing.relation]
            BY <1>5, <3>1
        <3> QED BY <1>1, <1>9, <3>1, <3>2 DEF Inv, WriteInv
    <2>3. ASSUME NEW q \in Relations, joining'[q] # None
          PROVE  /\ joining'[q].relation = q
                 /\ joining'[q].fresh =>
                      joining'[q].content = update_address(joining'[q].address, settings'[q])
        BY <1>5, <1>8, <2>3 DEF Inv, WriteInv
    <2> QED BY <2>1, <2>2, <2>3 DEF WriteInv
<1>13. \A q \in Relations : Writes(q)' <=> Writes(q)
    BY <1>9 DEF Writes
<1>14. PristineInv'
    <2>1. \A q \in Relations : Writes(q) => settings[q] # None
        BY DEF Inv, WriteInv, Writes
    <2>2. \A q \in Relations : node_cache[q] # None => settings[q] # None
        BY DEF Inv, WriteInv
    <2> QED BY <1>1, <1>7, <1>9, <1>13, <2>1, <2>2 DEF Inv, PristineInv, Writes
<1>15. TidyInv'
    BY <1>1 DEF Inv, TidyInv, Waiting, known
<1>16. AckInv'
    BY <1>1, <1>7, <1>9, <1>13 DEF Inv, AckInv, Holds, Has, Writes
<1>17. SeenInv'
    BY <1>1, SameSeen
<1> QED BY <1>10, <1>11, <1>12, <1>14, <1>15, <1>16, <1>17 DEF Inv
-----------------------------------------------------------------------------
(* The commands *)

\* A command that waits, and that is over.
LEMMA WaitFacts ==
    ASSUME Inv, NEW c \in Clients, NEW r \in Relations \cup {None},
           NEW data \in Data \cup {None}, NEW i \in Item \cup {None, "relation-ids"},
           NEW first \in {"topology", "node"}, Wait(c, r, data, i, first)
    PROVE  /\ commands' \in [Clients -> Await \cup {None}]
           /\ \A d \in Clients \ {c} : commands'[d] = commands[d]
           /\ commands'[c] # None /\ commands'[c] # Late
           /\ commands'[c].relation = r /\ commands'[c].data = data
           /\ commands'[c].item = i /\ commands'[c].reads = first
<1> DEFINE a == [relation |-> r, data |-> data, item |-> i, reads |-> first]
<1>1. a \in Await /\ a.relation = r /\ a.data = data /\ a.item = i /\ a.reads = first
    BY DEF Await
<1>2. a # None /\ a # Late
    <2>1. Late.item = "late"
        BY DEF Late
    <2>2. i # "late"
        BY NoneAssumption DEF Item
    <2> QED BY <1>1, <2>1, <2>2, NoneAssumption
<1>3. commands' = [commands EXCEPT ![c] = a]
    BY DEF Wait
<1> HIDE DEF a
<1>4. /\ commands' \in [Clients -> Await \cup {None}]
      /\ commands'[c] = a /\ \A d \in Clients \ {c} : commands'[d] = commands[d]
    BY <1>1, <1>3 DEF Inv, TypeInv
<1> QED BY <1>1, <1>2, <1>4

\* A tidy command that waits for the topology is the only one, and its hook's
\* context has not read it.
LEMMA TopologyFirst ==
    ASSUME Inv, tidy, NEW c \in Clients, commands[c] # None, commands[c].reads = "topology"
    PROVE  /\ topology = None /\ hook.phase = "running" /\ Real("relation-ids") = {}
           /\ \A d \in Clients : commands[d] # None => d = c
<1>1. /\ topology = None /\ hook.phase = "running"
      /\ \A d \in Clients : commands[d] # None => d = c
    BY DEF Inv, TidyInv, Waiting
<1>2. Real("relation-ids") \subseteq {topology} \ {None}
    BY <1>1 DEF Inv, SeenInv
<1> QED BY <1>1, <1>2

\* A command that asks, of what is known and of what is to be read.
LEMMA AskKeepsInv ==
    ASSUME Inv, NEW c \in Clients, NEW i \in Item, NEW first \in {"topology", "node"},
           first = "topology" => topology = None, Call(c), Ask(c, i, first)
    PROVE  Inv'
<1> DEFINE told == IF known(i) THEN Told(i, view[i]) ELSE seen
<1>1. /\ Record(StillTidy, acknowledged, told)
      /\ IF known(i) THEN UNCHANGED commands ELSE Wait(c, None, None, i, first)
      /\ UNCHANGED <<settings, world, related, hook, queued, joining, joins>>
      /\ UNCHANGED <<relation_contexts, topology, node_cache, needs_flushing, view>>
      /\ UNCHANGED <<unflushed, writing>>
    BY DEF Ask, context
<1>2. /\ DOMAIN told = Item \cup {"relation-ids"}
      /\ known(i) => told[i] = seen[i] \cup {view[i]} /\
                     \A j \in DOMAIN seen \ {i} : told[j] = seen[j]
      /\ ~known(i) => told = seen
    BY DEF Told, Inv, TypeInv
<1> HIDE DEF told
<1>3. StillTidy \in BOOLEAN
    BY DEF StillTidy, Inv, TypeInv
<1>4. /\ tidy' = StillTidy /\ tidy' \in BOOLEAN
      /\ acknowledged' \in [Relations -> [Keys -> Values \cup {Unset, None}]]
      /\ DOMAIN seen' = Item \cup {"relation-ids"}
      /\ tidy' => acknowledged' = acknowledged /\ seen' = told
    BY <1>1, <1>2, <1>3, Recorded DEF Inv, TypeInv
<1>5. tidy' => tidy /\ hook.phase = "running" /\ ~Waiting
    BY <1>4 DEF StillTidy
<1>6. /\ commands' \in [Clients -> Await \cup {None}]
      /\ \A d \in Clients : \/ commands'[d] = commands[d]
                            \/ /\ d = c /\ ~known(i) /\ commands'[d] # Late
                               /\ commands'[d].item = i /\ commands'[d].reads = first
    <2>1. CASE known(i)
        BY <1>1, <2>1 DEF Inv, TypeInv
    <2>2. CASE ~known(i)
        BY <1>1, <2>2, WaitFacts
    <2> QED BY <2>1, <2>2
<1>7. TypeInv'
    BY <1>1, <1>4, <1>6 DEF Inv, TypeInv
<1>8. ContextInv'
    BY <1>1, <1>6 DEF Inv, ContextInv, InContext, Call
<1>9. WriteInv' /\ PristineInv'
    BY <1>1, SameSettings
<1>10. TidyInv'
    <2> SUFFICES ASSUME tidy' PROVE TidyInv'
        BY DEF TidyInv
    <2>1. \A d \in Clients : commands'[d] # None =>
            /\ d = c /\ ~known(i) /\ commands'[d] # Late
            /\ commands'[d].item = i /\ commands'[d].reads = first
        BY <1>5, <1>6 DEF Waiting
    <2>2. known(i)' = known(i) /\ hook'.phase = "running" /\ topology' = topology
        BY <1>1, <1>5 DEF known
    <2>3. i # None
        BY NoneAssumption
    <2> QED BY <2>1, <2>2, <2>3 DEF TidyInv
<1>11. AckInv'
    BY <1>1, <1>4, <1>5, SameAcknowledged
<1>12. SeenInv'
    <2> SUFFICES ASSUME tidy' PROVE SeenInv'
        BY DEF SeenInv
    <2>1. /\ seen' = told /\ tidy /\ hook.phase = "running"
          /\ DOMAIN seen = Item \cup {"relation-ids"}
        BY <1>4, <1>5 DEF Inv, TypeInv
    <2>2. /\ Real("relation-ids") \subseteq {topology} \ {None}
          /\ \A j \in Item : Real(j) \subseteq {view[j]} \ {None}
        BY <2>1 DEF Inv, SeenInv
    <2>3. "relation-ids" \notin Item
        BY DEF Item
    <2>4. Real("relation-ids")' \subseteq {topology'} \ {None}
        BY <1>1, <1>2, <2>1, <2>2, <2>3 DEF Real
    <2>5. \A j \in Item : Real(j)' \subseteq {view'[j]} \ {None}
        <3>1. known(i) => view[i] # None
            BY DEF known
        <3> QED BY <1>1, <1>2, <2>1, <2>2, <3>1 DEF Real
    <2>6. \A j \in DOMAIN seen' : \E x : Real(j)' \subseteq {x}
        BY <1>4, <2>4, <2>5
    <2> QED BY <2>4, <2>5, <2>6 DEF SeenInv
<1> QED BY <1>7, <1>8, <1>9, <1>10, <1>11, <1>12 DEF Inv

\* The relations of the topology are told, by a hook's one command: what has been
\* told of them before was told by this topology.
LEMMA ToldKeepsSeen ==
    ASSUME Inv, tidy, hook.phase = "running", UNCHANGED <<hook, view>>, topology' # None,
           seen' = Told("relation-ids", topology'), topology \in {None, topology'}
    PROVE  SeenInv'
<1>1. DOMAIN seen = Item \cup {"relation-ids"} /\ "relation-ids" \notin Item
    BY DEF Inv, TypeInv, Item
<1>2. /\ DOMAIN seen' = Item \cup {"relation-ids"}
      /\ seen'["relation-ids"] = seen["relation-ids"] \cup {topology'}
      /\ \A j \in Item : seen'[j] = seen[j]
    BY <1>1 DEF Told
<1>3. /\ Real("relation-ids") \subseteq {topology} \ {None}
      /\ \A j \in Item : Real(j) \subseteq {view[j]} \ {None}
    BY DEF Inv, SeenInv
<1>4. Real("relation-ids")' \subseteq {topology'} \ {None}
    BY <1>2, <1>3 DEF Real
<1>5. \A j \in Item : Real(j)' \subseteq {view'[j]} \ {None}
    BY <1>2, <1>3 DEF Real
<1>6. \A j \in DOMAIN seen' : \E x : Real(j)' \subseteq {x}
    BY <1>2, <1>4, <1>5
<1> QED BY <1>4, <1>5, <1>6 DEF SeenInv

\* relation-ids, when the context has read the topology.
LEMMA RelationIdsKeepsInv ==
    ASSUME Inv, NEW c \in Clients, relation_ids(c), topology # None
    PROVE  Inv'
<1> DEFINE told == Told("relation-ids", topology)
<1>1. /\ Record(StillTidy, acknowledged, told)
      /\ UNCHANGED <<settings, world, related, hook, queued, joining, joins, commands>>
      /\ UNCHANGED <<relation_contexts, topology, node_cache, needs_flushing, view>>
      /\ UNCHANGED <<unflushed, writing>>
    BY DEF relation_ids, context, get_relation_idents
<1>2. DOMAIN told = Item \cup {"relation-ids"}
    BY DEF Told, Inv, TypeInv
<1>3. StillTidy \in BOOLEAN
    BY DEF StillTidy, Inv, TypeInv
<1> HIDE DEF told
<1>4. /\ tidy' = StillTidy /\ tidy' \in BOOLEAN
      /\ acknowledged' \in [Relations -> [Keys -> Values \cup {Unset, None}]]
      /\ DOMAIN seen' = Item \cup {"relation-ids"}
      /\ tidy' => acknowledged' = acknowledged /\ seen' = told
    BY <1>1, <1>2, <1>3, Recorded DEF Inv, TypeInv
<1>5. tidy' => tidy /\ hook.phase = "running" /\ ~Waiting
    BY <1>4 DEF StillTidy
<1>6. TypeInv'
    BY <1>1, <1>4 DEF Inv, TypeInv
<1>7. ContextInv'
    BY <1>1 DEF Inv, ContextInv, InContext
<1>8. WriteInv' /\ PristineInv'
    BY <1>1, SameSettings
<1>9. TidyInv'
    BY <1>1, <1>5 DEF Inv, TidyInv, Waiting, known
<1>10. AckInv'
    BY <1>1, <1>4, <1>5, SameAcknowledged
<1>11. SeenInv'
    <2>1. tidy' => SeenInv'
        BY <1>1, <1>4, <1>5, ToldKeepsSeen DEF told
    <2> QED BY <2>1 DEF SeenInv
<1> QED BY <1>6, <1>7, <1>8, <1>9, <1>10, <1>11 DEF Inv

\* And when it has not: the command waits.
LEMMA RelationIdsWaits ==
    ASSUME Inv, NEW c \in Clients, relation_ids(c), topology = None
    PROVE  Inv'
<1>1. /\ Call(c) /\ Record(StillTidy, acknowledged, seen)
      /\ Wait(c, None, None, "relation-ids", "topology")
      /\ UNCHANGED <<settings, world, related, hook, queued, joining, joins>>
      /\ UNCHANGED <<relation_contexts, topology, node_cache, needs_flushing, view>>
      /\ UNCHANGED <<unflushed, writing>>
    BY DEF relation_ids, context
<1>2. StillTidy \in BOOLEAN /\ DOMAIN seen = Item \cup {"relation-ids"}
    BY DEF StillTidy, Inv, TypeInv
<1>3. /\ tidy' = StillTidy /\ tidy' \in BOOLEAN
      /\ acknowledged' \in [Relations -> [Keys -> Values \cup {Unset, None}]]
      /\ DOMAIN seen' = Item \cup {"relation-ids"}
      /\ tidy' => acknowledged' = acknowledged /\ seen' = seen
    BY <1>1, <1>2, Recorded DEF Inv, TypeInv
<1>4. tidy' => tidy /\ hook.phase = "running" /\ ~Waiting
    BY <1>3 DEF StillTidy
<1>5. /\ commands' \in [Clients -> Await \cup {None}]
      /\ \A d \in Clients \ {c} : commands'[d] = commands[d]
      /\ commands'[c] # None /\ commands'[c] # Late
      /\ commands'[c].item = "relation-ids" /\ commands'[c].reads = "topology"
    BY <1>1, WaitFacts
<1>6. TypeInv'
    BY <1>1, <1>3, <1>5 DEF Inv, TypeInv
<1>7. ContextInv'
    BY <1>1, <1>5 DEF Inv, ContextInv, InContext, Call
<1>8. WriteInv' /\ PristineInv'
    BY <1>1, SameSettings
<1>9. TidyInv'
    <2>1. tidy' => \A d \in Clients : commands'[d] # None => d = c
        BY <1>4, <1>5 DEF Waiting
    <2>2. "relation-ids" # None /\ "relation-ids" \notin Item
        BY NoneAssumption DEF Item
    <2> QED BY <1>1, <1>4, <1>5, <2>1, <2>2 DEF TidyInv
<1>10. AckInv'
    BY <1>1, <1>3, <1>4, SameAcknowledged
<1>11. SeenInv'
    BY <1>1, <1>3, <1>4, SameSeen
<1> QED BY <1>6, <1>7, <1>8, <1>9, <1>10, <1>11 DEF Inv

\* A read that comes too late, or finds nothing, changes nothing.
LEMMA DroppedKeepsInv ==
    ASSUME Inv, NEW c \in Clients, commands' = [commands EXCEPT ![c] = None],
           UNCHANGED <<settings, world, related, hook, queued, context, joining, joins, history>>
    PROVE  Inv'
<1>1. /\ commands' = [commands EXCEPT ![c] = None]
      /\ UNCHANGED <<settings, world, related, hook, queued, joining, joins, tidy, acknowledged, seen>>
      /\ UNCHANGED <<relation_contexts, topology, node_cache, needs_flushing, view, unflushed, writing>>
    BY DEF context, history
<1>2. /\ commands' \in [Clients -> Await \cup {None}]
      /\ \A d \in Clients : commands'[d] # None => d # c /\ commands'[d] = commands[d]
    BY <1>1 DEF Inv, TypeInv
<1>3. TypeInv'
    BY <1>1, <1>2 DEF Inv, TypeInv
<1>4. ContextInv'
    BY <1>1, <1>2 DEF Inv, ContextInv, InContext
<1>5. WriteInv' /\ PristineInv'
    BY <1>1, SameSettings
<1>6. TidyInv'
    BY <1>1, <1>2 DEF Inv, TidyInv, Waiting, known
<1>7. AckInv'
    BY <1>1, SameAcknowledged
<1>8. SeenInv'
    BY <1>1, SameSeen
<1> QED BY <1>3, <1>4, <1>5, <1>6, <1>7, <1>8 DEF Inv

\* What a command asked for arrives, is told and is kept.
LEMMA ItemReadKeepsInv ==
    ASSUME Inv, NEW c \in Clients, ItemRead(c)
    PROVE  Inv'
<1>0. PICK i \in Item : i = commands[c].item
    BY DEF ItemRead
<1> DEFINE told == Told(i, world)
<1>1. /\ commands[c] # None
      /\ view' = [view EXCEPT ![i] = world] /\ Record(tidy, acknowledged, told)
      /\ commands' = [commands EXCEPT ![c] = None]
      /\ UNCHANGED <<settings, world, related, hook, queued, joining, joins>>
      /\ UNCHANGED <<relation_contexts, topology, node_cache, needs_flushing, unflushed, writing>>
    BY <1>0 DEF ItemRead, Answered
<1>2. world \in Nat /\ world # None
    BY <1>1, NoneAssumption DEF Inv, TypeInv
<1>3. /\ DOMAIN told = Item \cup {"relation-ids"} /\ told[i] = seen[i] \cup {world}
      /\ \A j \in DOMAIN seen \ {i} : told[j] = seen[j]
    BY <1>1 DEF Told, Inv, TypeInv
<1>4. tidy \in BOOLEAN
    BY DEF Inv, TypeInv
<1> HIDE DEF told
<1>5. /\ tidy' = tidy /\ tidy' \in BOOLEAN
      /\ acknowledged' \in [Relations -> [Keys -> Values \cup {Unset, None}]]
      /\ DOMAIN seen' = Item \cup {"relation-ids"}
      /\ tidy' => acknowledged' = acknowledged /\ seen' = told
    BY <1>1, <1>3, <1>4, Recorded DEF Inv, TypeInv
<1>6. /\ view' \in [Item -> Nat \cup {None}] /\ view'[i] = world
      /\ \A j \in Item \ {i} : view'[j] = view[j]
    BY <1>1, <1>2 DEF Inv, TypeInv
<1>7. /\ commands' \in [Clients -> Await \cup {None}]
      /\ \A d \in Clients : commands'[d] # None => d # c /\ commands'[d] = commands[d]
    BY <1>1 DEF Inv, TypeInv
<1>8. TypeInv'
    BY <1>1, <1>5, <1>6, <1>7 DEF Inv, TypeInv
<1>9. ContextInv'
    BY <1>1, <1>7 DEF Inv, ContextInv, InContext
<1>10. WriteInv' /\ PristineInv'
    BY <1>1, SameSettings
<1>11. tidy => hook.phase = "running" /\ \A d \in Clients : commands'[d] = None
    BY <1>1, <1>7 DEF Inv, TidyInv, Waiting
<1>12. TidyInv'
    BY <1>1, <1>5, <1>11 DEF TidyInv, Waiting
<1>13. AckInv'
    BY <1>1, <1>5, SameAcknowledged
<1>14. SeenInv'
    <2> SUFFICES ASSUME tidy' PROVE SeenInv'
        BY DEF SeenInv
    <2>1. /\ seen' = told /\ tidy /\ hook.phase = "running"
          /\ DOMAIN seen = Item \cup {"relation-ids"}
        BY <1>5, <1>11 DEF Inv, TypeInv
    <2>2. /\ Real("relation-ids") \subseteq {topology} \ {None}
          /\ \A j \in Item : Real(j) \subseteq {view[j]} \ {None}
        BY <2>1 DEF Inv, SeenInv
    <2>3. "relation-ids" \notin Item
        BY DEF Item
    <2>4. ~known(i)
        BY <1>0, <1>1, <2>1 DEF Inv, TidyInv
    <2>5. Real(i) = {}
        <3>1. view[i] = None \/ (i = "config" /\ view[i] = 0)
            BY <2>4 DEF known
        <3>2. Real(i) \subseteq {view[i]} \ {None}
            BY <1>1, <2>2
        <3>3. CASE view[i] = None
            BY <3>2, <3>3
        <3>4. CASE i = "config" /\ view[i] = 0
            <4>1. 0 \notin Real(i)
                BY <3>4 DEF Real
            <4> QED BY <3>2, <3>4, <4>1
        <3> QED BY <3>1, <3>3, <3>4
    <2>6. Real("relation-ids")' \subseteq {topology'} \ {None}
        BY <1>1, <1>3, <2>1, <2>2, <2>3 DEF Real
    <2>7. \A j \in Item : Real(j)' \subseteq {view'[j]} \ {None}
        <3>1. Real(i)' \subseteq {view'[i]} \ {None}
            BY <1>1, <1>2, <1>3, <1>6, <2>1, <2>5 DEF Real
        <3>2. ASSUME NEW j \in Item, j # i PROVE Real(j)' \subseteq {view'[j]} \ {None}
            BY <1>3, <1>6, <2>1, <2>2, <3>2 DEF Real
        <3> QED BY <3>1, <3>2
    <2>8. \A j \in DOMAIN seen' : \E x : Real(j)' \subseteq {x}
        BY <1>5, <2>6, <2>7
    <2> QED BY <2>6, <2>7, <2>8 DEF SeenInv
<1> QED BY <1>8, <1>9, <1>10, <1>12, <1>13, <1>14 DEF Inv

\* A write goes on as it began, or with the cache it shares.
LEMMA WriterFacts ==
    ASSUME Inv, NEW r \in Relations, NEW s \in Cached, NEW shared \in BOOLEAN,
           WriterSees(r, s, shared)
    PROVE  \/ writing = None /\ writing' = None
           \/ /\ writing \in Write /\ writing' \in Write /\ writing # None /\ writing' # None
              /\ writing'.relation = writing.relation /\ writing'.pristine = writing.pristine
              /\ writing'.sent = writing.sent /\ writing'.content = writing.content
              /\ writing'.fresh = writing.fresh
              /\ writing.relation # r \/ ~shared => writing'.cache = writing.cache
<1>1. CASE writing' = writing
    BY <1>1 DEF Inv, TypeInv
<1>2. CASE /\ writing # None /\ writing' = [writing EXCEPT !.cache = s.cache]
           /\ shared /\ writing.relation = r
    <2>1. writing \in Write /\ s.cache \in Content
        BY <1>2 DEF Inv, TypeInv, Cached
    <2>2. /\ writing' \in Write /\ writing'.relation = writing.relation
          /\ writing'.pristine = writing.pristine
          /\ writing'.sent = writing.sent /\ writing'.content = writing.content
          /\ writing'.fresh = writing.fresh
        BY <1>2, <2>1 DEF Write
    <2> QED BY <1>2, <2>1, <2>2, NoneAssumption
<1>3. CASE writing # None /\ writing' = [writing EXCEPT !.shared = FALSE]
    <2>1. writing \in Write
        BY <1>3 DEF Inv, TypeInv
    <2>2. /\ writing' \in Write /\ writing'.relation = writing.relation
          /\ writing'.pristine = writing.pristine /\ writing'.cache = writing.cache
          /\ writing'.sent = writing.sent /\ writing'.content = writing.content
          /\ writing'.fresh = writing.fresh
        BY <1>3, <2>1 DEF Write
    <2> QED BY <1>3, <2>1, <2>2, NoneAssumption
<1> QED BY <1>1, <1>2, <1>3 DEF WriterSees

\* A cache changes, and nothing in the settings: what is prepared stays so, and
\* so does what was read, unless it is read again.
LEMMA CacheKeepsWrites ==
    ASSUME Inv, NEW r \in Relations, NEW s \in Cached, NEW shared \in BOOLEAN,
           WriterSees(r, s, shared), node_cache' = [node_cache EXCEPT ![r] = s],
           settings[r] # None,
           \/ s.pristine = settings[r]
           \/ node_cache[r] # None /\ s.pristine = node_cache[r].pristine,
           UNCHANGED <<settings, hook, unflushed, joining>>
    PROVE  WriteInv' /\ PristineInv'
<1>1. \/ writing = None /\ writing' = None
      \/ /\ writing \in Write /\ writing' \in Write /\ writing # None /\ writing' # None
         /\ writing'.relation = writing.relation /\ writing'.pristine = writing.pristine
         /\ writing'.sent = writing.sent /\ writing'.content = writing.content
         /\ writing'.fresh = writing.fresh
         /\ writing.relation # r \/ ~shared => writing'.cache = writing.cache
    BY WriterFacts
<1>2. /\ \A q \in Relations : node_cache'[q] = IF q = r THEN s ELSE node_cache[q]
      /\ s # None
    BY NoneAssumption DEF Inv, TypeInv
<1>3. WriteInv'
    BY <1>1, <1>2 DEF Inv, WriteInv, Write
<1>4. PristineInv'
    BY <1>1, <1>2 DEF Inv, PristineInv, Writes
<1> QED BY <1>3, <1>4

\* Data is set or deleted in a context whose settings have been read, now or
\* before.
Edit(r, data, old, shared, orderly) ==
    /\ InContext /\ settings[r] # None
    /\ \/ old.pristine = settings[r]
       \/ node_cache[r] # None /\ old = node_cache[r]
    /\ node_cache' = [node_cache EXCEPT ![r] = Set(old, data)]
    /\ WriterSees(r, Set(old, data), shared)
    /\ Record(orderly, Acknowledge(r, data), seen)
    /\ orderly =>
         /\ tidy /\ hook.phase = "running" /\ r \in relation_contexts
         /\ needs_flushing'[r] /\ \A c \in Clients : commands'[c] = None
         /\ \A k \in Keys \ {Address} :
              acknowledged[r][k] # None => old.cache[k] = acknowledged[r][k]
    /\ needs_flushing' \in [Relations -> BOOLEAN]
    /\ \A q \in Relations : needs_flushing[q] => needs_flushing'[q]
    /\ commands' \in [Clients -> Await \cup {None}]
    /\ \A c \in Clients : commands'[c] \in {None, commands[c]}
    /\ topology' \in (SUBSET Relations) \cup {None} /\ (orderly => topology' = topology)
    /\ UNCHANGED <<settings, world, related, hook, queued, joining, joins>>
    /\ UNCHANGED <<relation_contexts, view, unflushed>>

\* Such a change keeps the invariant.
LEMMA EditKeepsInv ==
    ASSUME Inv, NEW r \in Relations, NEW data \in Data, NEW old \in Cached,
           NEW shared \in BOOLEAN, NEW orderly \in BOOLEAN,
           Edit(r, data, old, shared, orderly)
    PROVE  Inv'
<1> DEFINE s == Set(old, data)
<1>1. /\ s \in Cached /\ s.pristine = old.pristine /\ s # None
      /\ \A k \in Keys : s.cache[k] = IF data[k] # None THEN data[k] ELSE old.cache[k]
    BY SetFacts, NoneAssumption
<1>2. /\ node_cache' = [node_cache EXCEPT ![r] = s] /\ WriterSees(r, s, shared)
      /\ InContext /\ settings[r] # None
      /\ old.pristine = settings[r] \/ (node_cache[r] # None /\ old = node_cache[r])
      /\ Record(orderly, Acknowledge(r, data), seen)
    BY DEF Edit
<1>3. /\ UNCHANGED <<settings, world, related, hook, queued, joining, joins>>
      /\ UNCHANGED <<relation_contexts, view, unflushed>>
      /\ topology' \in (SUBSET Relations) \cup {None} /\ (orderly => topology' = topology)
    BY DEF Edit
<1>4. orderly =>
         /\ tidy /\ hook.phase = "running" /\ r \in relation_contexts
         /\ needs_flushing'[r] /\ \A c \in Clients : commands'[c] = None
         /\ \A k \in Keys \ {Address} :
              acknowledged[r][k] # None => old.cache[k] = acknowledged[r][k]
    BY DEF Edit
<1>5. /\ needs_flushing' \in [Relations -> BOOLEAN]
      /\ \A q \in Relations : needs_flushing[q] => needs_flushing'[q]
      /\ commands' \in [Clients -> Await \cup {None}]
      /\ \A c \in Clients : commands'[c] \in {None, commands[c]}
    BY DEF Edit
<1> HIDE DEF s
<1>6. /\ node_cache' \in [Relations -> Cached \cup {None}]
      /\ \A q \in Relations : node_cache'[q] = IF q = r THEN s ELSE node_cache[q]
    BY <1>1, <1>2 DEF Inv, TypeInv
<1>7. writing' \in Write \cup {None} /\ (writing' # None => writing # None)
    BY <1>1, <1>2, WriterFacts
<1>8. /\ Acknowledge(r, data) \in [Relations -> [Keys -> Values \cup {Unset, None}]]
      /\ \A q \in Relations, k \in Keys : Acknowledge(r, data)[q][k] =
            IF q = r /\ data[k] # None THEN data[k] ELSE acknowledged[q][k]
    <2>1. /\ data \in [Keys -> Values \cup {Unset, None}]
          /\ acknowledged \in [Relations -> [Keys -> Values \cup {Unset, None}]]
        BY DEF Data, Inv, TypeInv
    <2> DEFINE merged == [k \in Keys |-> IF data[k] # None THEN data[k] ELSE acknowledged[r][k]]
    <2>2. merged \in [Keys -> Values \cup {Unset, None}]
        BY <2>1
    <2>3. Acknowledge(r, data) = [acknowledged EXCEPT ![r] = merged]
        BY DEF Acknowledge
    <2>4. \A k \in Keys : merged[k] = IF data[k] # None THEN data[k] ELSE acknowledged[r][k]
        OBVIOUS
    <2> HIDE DEF merged
    <2> QED BY <2>1, <2>2, <2>3, <2>4
<1>9. DOMAIN seen = Item \cup {"relation-ids"}
    BY DEF Inv, TypeInv
<1>10. /\ tidy' = orderly /\ tidy' \in BOOLEAN
       /\ acknowledged' \in [Relations -> [Keys -> Values \cup {Unset, None}]]
       /\ DOMAIN seen' = Item \cup {"relation-ids"}
       /\ tidy' => acknowledged' = Acknowledge(r, data) /\ seen' = seen
    BY <1>2, <1>8, <1>9, Recorded
<1>11. TypeInv'
    BY <1>3, <1>5, <1>6, <1>7, <1>10 DEF Inv, TypeInv
<1>12. ContextInv'
    <2>1. \A c \in Clients : commands'[c] # None => commands'[c] = commands[c]
        BY <1>5
    <2> QED BY <1>2, <1>3, <1>7, <2>1 DEF Inv, ContextInv, InContext
<1>13. WriteInv' /\ PristineInv'
    BY <1>1, <1>2, <1>3, CacheKeepsWrites
<1>14. TidyInv'
    BY <1>3, <1>4, <1>10 DEF TidyInv, Waiting
<1>15. AckInv'
    <2> SUFFICES ASSUME tidy', NEW q \in Relations, NEW k \in Keys \ {Address},
                        acknowledged'[q][k] # None
                 PROVE  q \in relation_contexts' /\ Holds(q, k)'
        BY <1>3, <1>4, <1>10 DEF AckInv
    <2>1. acknowledged'[q][k] = IF q = r /\ data[k] # None THEN data[k] ELSE acknowledged[q][k]
        BY <1>8, <1>10
    <2>2. relation_contexts' = relation_contexts
        BY <1>3
    <2>3. CASE q = r
        BY <1>1, <1>4, <1>6, <1>10, <2>1, <2>2, <2>3 DEF Holds
    <2>4. CASE q # r
        BY <1>4, <1>5, <1>6, <1>10, <2>1, <2>2, <2>4 DEF Holds, Inv, AckInv
    <2> QED BY <2>3, <2>4
<1>16. SeenInv'
    <2>1. tidy' => SeenInv'
        BY <1>3, <1>4, <1>10, SameSeen
    <2> QED BY <2>1 DEF SeenInv
<1> QED BY <1>11, <1>12, <1>13, <1>14, <1>15, <1>16 DEF Inv

\* relation-set, on settings that have been read.
LEMMA RelationSetKeepsInv ==
    ASSUME Inv, NEW c \in Clients, NEW r \in Relations, NEW data \in Data,
           relation_set(c, r, data), cached(r)
    PROVE  Inv'
<1>1. /\ InContext /\ r \in relation_contexts
      /\ needs_flushing' = [needs_flushing EXCEPT ![r] = TRUE]
      /\ Record(StillTidy, Acknowledge(r, data), seen)
      /\ node_cache' = [node_cache EXCEPT ![r] = Set(node_cache[r], data)]
      /\ WriterSees(r, Set(node_cache[r], data), TRUE)
      /\ UNCHANGED <<settings, world, related, hook, queued, joining, joins>>
      /\ commands' = [commands EXCEPT ![c] = None]
      /\ UNCHANGED <<relation_contexts, topology, view, unflushed>>
    <2>1. needs_flushing[r] \in BOOLEAN
        BY DEF Inv, TypeInv
    <2>2. r \in DOMAIN node_cache
        BY DEF Inv, TypeInv
    <2> QED BY <2>1, <2>2
            DEF relation_set, Call, require_relation_context, modifies, ChangeSettings, Answered
<1>2. node_cache[r] \in Cached /\ node_cache[r] # None /\ settings[r] # None
    BY DEF cached, Inv, TypeInv, WriteInv
<1>3. /\ needs_flushing' \in [Relations -> BOOLEAN] /\ needs_flushing'[r]
      /\ \A q \in Relations : needs_flushing[q] => needs_flushing'[q]
    BY <1>1 DEF Inv, TypeInv
<1>4. /\ commands' \in [Clients -> Await \cup {None}]
      /\ \A d \in Clients : commands'[d] \in {None, commands[d]}
    BY <1>1 DEF Inv, TypeInv
<1>5. StillTidy \in BOOLEAN
    BY DEF StillTidy, Inv, TypeInv
<1>6. ASSUME StillTidy
      PROVE  /\ tidy /\ hook.phase = "running"
             /\ \A d \in Clients : commands'[d] = None
             /\ \A k \in Keys \ {Address} :
                  acknowledged[r][k] # None => node_cache[r].cache[k] = acknowledged[r][k]
    BY <1>1, <1>6 DEF StillTidy, Waiting, Inv, AckInv, Holds
<1>7. topology' \in (SUBSET Relations) \cup {None}
    BY <1>1 DEF Inv, TypeInv
<1>8. Edit(r, data, node_cache[r], TRUE, StillTidy)
    BY <1>1, <1>2, <1>3, <1>4, <1>6, <1>7 DEF Edit
<1> QED BY <1>2, <1>5, <1>8, EditKeepsInv

\* relation-set, on settings that are yet to be read: the command waits.
LEMMA RelationSetWaits ==
    ASSUME Inv, NEW c \in Clients, NEW r \in Relations, NEW data \in Data,
           relation_set(c, r, data), ~cached(r)
    PROVE  Inv'
<1>1. /\ InContext /\ r \in relation_contexts
      /\ needs_flushing' = [needs_flushing EXCEPT ![r] = TRUE]
      /\ Record(StillTidy, acknowledged, seen)
      /\ Wait(c, r, data, None, lookup)
      /\ UNCHANGED <<settings, world, related, hook, queued, joining, joins>>
      /\ UNCHANGED <<relation_contexts, topology, node_cache, view, unflushed, writing>>
    <2>1. needs_flushing[r] \in BOOLEAN
        BY DEF Inv, TypeInv
    <2> QED BY <2>1 DEF relation_set, Call, require_relation_context, modifies,
                            ChangeSettings
<1>2. /\ needs_flushing' \in [Relations -> BOOLEAN] /\ needs_flushing'[r]
      /\ \A q \in Relations : needs_flushing[q] => needs_flushing'[q]
    BY <1>1 DEF Inv, TypeInv
<1>3. lookup \in {"topology", "node"} /\ (lookup = "topology" => topology = None)
    BY DEF lookup
<1>4. /\ commands' \in [Clients -> Await \cup {None}]
      /\ \A d \in Clients \ {c} : commands'[d] = commands[d]
      /\ commands'[c] # None /\ commands'[c] # Late
      /\ commands'[c].relation = r /\ commands'[c].data = data
      /\ commands'[c].item = None /\ commands'[c].reads = lookup
    BY <1>1, <1>3, WaitFacts
<1>5. StillTidy \in BOOLEAN
    BY DEF StillTidy, Inv, TypeInv
<1>6. /\ tidy' = StillTidy /\ tidy' \in BOOLEAN
      /\ acknowledged' \in [Relations -> [Keys -> Values \cup {Unset, None}]]
      /\ DOMAIN seen' = Item \cup {"relation-ids"}
      /\ tidy' => acknowledged' = acknowledged /\ seen' = seen
    BY <1>1, <1>5, Recorded DEF Inv, TypeInv
<1>7. tidy' => tidy /\ hook.phase = "running" /\ \A d \in Clients : commands[d] = None
    BY <1>6 DEF StillTidy, Waiting
<1>8. TypeInv'
    BY <1>1, <1>2, <1>4, <1>6 DEF Inv, TypeInv
<1>9. ContextInv'
    BY <1>1, <1>4 DEF Inv, ContextInv, InContext
<1>10. WriteInv' /\ PristineInv'
    BY <1>1, SameSettings
<1>11. TidyInv'
    <2>1. tidy' => \A d \in Clients : commands'[d] # None => d = c
        BY <1>4, <1>7
    <2>2. node_cache'[r] = None /\ r \in relation_contexts'
        BY <1>1 DEF cached
    <2>3. None \notin Item
        BY NoneAssumption
    <2> QED BY <1>1, <1>2, <1>3, <1>4, <1>7, <2>1, <2>2, <2>3 DEF TidyInv
<1>12. AckInv'
    <2>1. relation_contexts' = relation_contexts
        BY <1>1
    <2> QED BY <1>1, <1>2, <1>6, <1>7, <2>1 DEF Inv, AckInv, Holds
<1>13. SeenInv'
    BY <1>1, <1>6, <1>7, SameSeen
<1> QED BY <1>8, <1>9, <1>10, <1>11, <1>12, <1>13 DEF Inv

\* The settings arrive for the command that waits to change them.
LEMMA SettingsReadKeepsInv ==
    ASSUME Inv, NEW c \in Clients, SettingsRead(c)
    PROVE  Inv'
<1>1. PICK r, data : r = commands[c].relation /\ data = commands[c].data
    OBVIOUS
<1>2. /\ commands[c] # None /\ commands[c].item = None
      /\ commands' = [commands EXCEPT ![c] = None]
      /\ UNCHANGED <<settings, world, related, hook, queued, joining, joins>>
      /\ UNCHANGED <<relation_contexts, topology, needs_flushing, view, unflushed>>
      /\ IF settings[r] = None THEN UNCHANGED <<node_cache, writing, history>>
         ELSE /\ node_cache' = [node_cache EXCEPT ![r] = Set(Read(r), data)]
              /\ WriterSees(r, node_cache'[r], FALSE)
              /\ Record(tidy, Acknowledge(r, data), seen)
    BY <1>1 DEF SettingsRead, Answered
<1>3. CASE settings[r] = None
    <2>1. UNCHANGED <<node_cache, writing, history>>
        BY <1>2, <1>3
    <2>2. /\ commands' = [commands EXCEPT ![c] = None]
          /\ UNCHANGED <<settings, world, related, hook, queued, context, joining, joins, history>>
        BY <1>2, <2>1 DEF context
    <2> QED BY <2>2, DroppedKeepsInv
<1>4. CASE settings[r] # None
    <2>1. Late # None /\ Late.item = "late" /\ "late" # None /\ None \notin Item
        <3>1. Late \in Await /\ Late.item = "late"
            BY DEF Await, Late, Item
        <3> QED BY <3>1, NoneAssumption
    <2> "relation-ids" # None
        BY NoneAssumption
    <2>2. r \in Relations /\ data \in Data /\ InContext
        BY <1>1, <1>2, <2>1 DEF Inv, ContextInv
    <2>3. settings[r] \in Content
        BY <1>4, <2>2 DEF Inv, TypeInv
    <2>4. Read(r) \in Cached /\ Read(r).pristine = settings[r]
        BY <2>2, <2>3, ReadFacts
    <2>5. node_cache'[r] = Set(Read(r), data)
        BY <1>2, <1>4, <2>2 DEF Inv, TypeInv
    <2>6. /\ needs_flushing' \in [Relations -> BOOLEAN]
          /\ \A q \in Relations : needs_flushing[q] => needs_flushing'[q]
          /\ tidy \in BOOLEAN
        BY <1>2 DEF Inv, TypeInv
    <2>7. /\ commands' \in [Clients -> Await \cup {None}]
          /\ \A d \in Clients : commands'[d] = IF d = c THEN None ELSE commands[d]
        BY <1>2 DEF Inv, TypeInv
    <2>8. ASSUME tidy
          PROVE  /\ tidy /\ hook.phase = "running" /\ r \in relation_contexts
                 /\ needs_flushing'[r] /\ \A d \in Clients : commands'[d] = None
                 /\ \A k \in Keys \ {Address} :
                      acknowledged[r][k] # None => Read(r).cache[k] = acknowledged[r][k]
        <3>1. hook.phase = "running"
            BY <1>2, <2>8 DEF Inv, TidyInv, Waiting
        <3>2. /\ r \in relation_contexts /\ needs_flushing[r] /\ node_cache[r] = None
              /\ \A d \in Clients : commands'[d] = None
            BY <1>1, <1>2, <2>7, <2>8 DEF Inv, TidyInv
        <3>3. \A k \in Keys \ {Address} : acknowledged[r][k] = None
            BY <2>2, <2>8, <3>1, <3>2 DEF Inv, AckInv, Holds
        <3> QED BY <1>2, <2>8, <3>1, <3>2, <3>3
    <2>9. /\ node_cache' = [node_cache EXCEPT ![r] = Set(Read(r), data)]
          /\ WriterSees(r, Set(Read(r), data), FALSE)
          /\ Record(tidy, Acknowledge(r, data), seen)
        BY <1>2, <1>4, <2>5
    <2>10. \A d \in Clients : commands'[d] \in {None, commands[d]}
        BY <2>7
    <2>11. topology' \in (SUBSET Relations) \cup {None}
        BY <1>2 DEF Inv, TypeInv
    <2>12. Edit(r, data, Read(r), FALSE, tidy)
        BY <1>2, <1>4, <2>2, <2>4, <2>6, <2>7, <2>8, <2>9, <2>10,
           <2>11 DEF Edit
    <2> QED BY <2>2, <2>4, <2>6, <2>12, EditKeepsInv
<1> QED BY <1>3, <1>4

\* What the topology, or the settings, are read for.
LEMMA Waits ==
    ASSUME Inv, NEW c \in Clients, commands[c] # None, commands[c].reads = "topology"
    PROVE  /\ InContext
           /\ \/ /\ commands[c].item = None
                 /\ commands[c].relation \in Relations /\ commands[c].data \in Data
              \/ commands[c].item \in Item
              \/ commands[c].item = "relation-ids"
<1>1. Late.reads = "node"
    BY DEF Late
<1> QED BY <1>1 DEF Inv, ContextInv

\* The topology arrives for a command that goes on to read a node.
LEMMA LookedUpKeepsInv ==
    ASSUME Inv, NEW c \in Clients, commands[c] # None, commands[c].reads = "topology",
           topology' = related, NEW r \in Relations \cup {None},
           NEW data \in Data \cup {None}, NEW i \in Item \cup {None},
           Wait(c, r, data, i, "node"), i = commands[c].item,
           i = None => r = commands[c].relation /\ data = commands[c].data,
           tidy' = tidy, tidy => acknowledged' = acknowledged /\ seen' = seen,
           acknowledged' \in [Relations -> [Keys -> Values \cup {Unset, None}]],
           DOMAIN seen' = Item \cup {"relation-ids"},
           UNCHANGED <<settings, world, related, hook, queued, joining, joins>>,
           UNCHANGED <<relation_contexts, node_cache, needs_flushing, view, unflushed, writing>>
    PROVE  Inv'
<1>1. /\ commands' \in [Clients -> Await \cup {None}]
      /\ \A d \in Clients \ {c} : commands'[d] = commands[d]
      /\ commands'[c] # None /\ commands'[c] # Late
      /\ commands'[c].relation = r /\ commands'[c].data = data
      /\ commands'[c].item = i /\ commands'[c].reads = "node"
    BY WaitFacts
<1>2. InContext /\ (i = None => r \in Relations /\ data \in Data)
    <2>1. None \notin Item
        BY NoneAssumption
    <2> QED BY <2>1, Waits, NoneAssumption
<1>3. TypeInv'
    BY <1>1 DEF Inv, TypeInv
<1>4. ContextInv'
    BY <1>1, <1>2 DEF Inv, ContextInv, InContext
<1>5. WriteInv' /\ PristineInv'
    BY SameSettings
<1>6. TidyInv'
    <2> SUFFICES ASSUME tidy PROVE TidyInv'
        BY DEF TidyInv
    <2>1. hook.phase = "running" /\ \A d \in Clients : commands'[d] # None => d = c
        BY <1>1, TopologyFirst
    <2>2. /\ i = None => /\ r \in relation_contexts /\ node_cache[r] = None
                        /\ needs_flushing[r]
          /\ i \in Item => ~known(i)
        BY DEF Inv, TidyInv
    <2>3. i \in Item => ~known(i)'
        BY <2>2 DEF known
    <2> QED BY <1>1, <2>1, <2>2, <2>3 DEF TidyInv
<1>7. AckInv'
    BY SameAcknowledged
<1>8. SeenInv'
    <2> SUFFICES ASSUME tidy PROVE SeenInv'
        BY DEF SeenInv
    <2>1. Real("relation-ids") = {} /\ hook.phase = "running" /\ seen' = seen
        BY TopologyFirst
    <2> QED BY <2>1 DEF Inv, SeenInv, Real
<1> QED BY <1>3, <1>4, <1>5, <1>6, <1>7, <1>8 DEF Inv

\* The topology arrives for relation-ids, which tells it.
LEMMA TopologyToldKeepsInv ==
    ASSUME Inv, NEW c \in Clients, TopologyRead(c), commands[c].item = "relation-ids"
    PROVE  Inv'
<1> DEFINE told == Told("relation-ids", related)
<1>1. /\ commands[c] # None /\ commands[c].reads = "topology" /\ topology' = related
      /\ commands' = [commands EXCEPT ![c] = None] /\ Record(tidy, acknowledged, told)
      /\ UNCHANGED <<settings, world, related, hook, queued, joining, joins>>
      /\ UNCHANGED <<relation_contexts, node_cache, needs_flushing, view, unflushed, writing>>
    <2>1. None # "relation-ids" /\ "relation-ids" # "relation"
        BY NoneAssumption
    <2> QED BY <2>1 DEF TopologyRead, Answered
<1>2. DOMAIN told = Item \cup {"relation-ids"} /\ tidy \in BOOLEAN
    BY DEF Told, Inv, TypeInv
<1> HIDE DEF told
<1>3. /\ tidy' = tidy /\ tidy' \in BOOLEAN
      /\ acknowledged' \in [Relations -> [Keys -> Values \cup {Unset, None}]]
      /\ DOMAIN seen' = Item \cup {"relation-ids"}
      /\ tidy' => acknowledged' = acknowledged /\ seen' = told
    BY <1>1, <1>2, Recorded DEF Inv, TypeInv
<1>4. /\ commands' \in [Clients -> Await \cup {None}]
      /\ \A d \in Clients : commands'[d] # None => d # c /\ commands'[d] = commands[d]
    BY <1>1 DEF Inv, TypeInv
<1>5. TypeInv'
    BY <1>1, <1>3, <1>4 DEF Inv, TypeInv
<1>6. ContextInv'
    BY <1>1, <1>4 DEF Inv, ContextInv, InContext
<1>7. WriteInv' /\ PristineInv'
    BY <1>1, SameSettings
<1>8. tidy => /\ hook.phase = "running" /\ topology = None
              /\ \A d \in Clients : commands'[d] = None
    BY <1>1, <1>4, TopologyFirst
<1>9. TidyInv'
    BY <1>1, <1>3, <1>8 DEF TidyInv, Waiting
<1>10. AckInv'
    BY <1>1, <1>3, SameAcknowledged
<1>11. SeenInv'
    <2>1. related # None
        BY NoneAssumption DEF Inv, TypeInv
    <2>2. tidy' => SeenInv'
        BY <1>1, <1>3, <1>8, <2>1, ToldKeepsSeen DEF told
    <2> QED BY <2>2 DEF SeenInv
<1> QED BY <1>5, <1>6, <1>7, <1>9, <1>10, <1>11 DEF Inv

\* The topology arrives, and the command goes on with it.
LEMMA TopologyReadKeepsInv ==
    ASSUME Inv, NEW c \in Clients, TopologyRead(c)
    PROVE  Inv'
<1>1. PICK r, data : r = commands[c].relation /\ data = commands[c].data
    OBVIOUS
<1>2. /\ commands[c] # None /\ commands[c].reads = "topology" /\ topology' = related
      /\ UNCHANGED <<settings, world, related, hook, queued, joining, joins>>
      /\ UNCHANGED <<relation_contexts, needs_flushing, view, unflushed>>
      /\ \/ commands[c].item = None /\ ChangeSettings(c, r, data, tidy, "node")
         \/ /\ commands[c].item = "relation" /\ Wait(c, None, None, "relation", "node")
            /\ UNCHANGED <<node_cache, writing, tidy, acknowledged, seen>>
         \/ commands[c].item = "relation-ids"
    BY <1>1 DEF TopologyRead, history
<1>3. /\ tidy \in BOOLEAN /\ DOMAIN seen = Item \cup {"relation-ids"}
      /\ acknowledged \in [Relations -> [Keys -> Values \cup {Unset, None}]]
      /\ topology' \in (SUBSET Relations) \cup {None}
    BY <1>2 DEF Inv, TypeInv
<1>4. CASE commands[c].item = "relation-ids"
    BY <1>4, TopologyToldKeepsInv
<1>5. CASE /\ commands[c].item = "relation" /\ Wait(c, None, None, "relation", "node")
           /\ UNCHANGED <<node_cache, writing, tidy, acknowledged, seen>>
    <2>1. "relation" \in Item /\ "relation" # None
        BY NoneAssumption DEF Item
    <2> QED BY <1>2, <1>3, <1>5, <2>1, LookedUpKeepsInv
<1>6. CASE commands[c].item = None /\ ChangeSettings(c, r, data, tidy, "node")
    <2>1. InContext /\ r \in Relations /\ data \in Data
        <3>1. None \notin Item /\ None # "relation-ids"
            BY NoneAssumption
        <3> QED BY <1>1, <1>2, <1>6, <3>1, Waits
    <2>2. CASE ~cached(r)
        <3>1. /\ Record(tidy, acknowledged, seen) /\ Wait(c, r, data, None, "node")
              /\ UNCHANGED <<node_cache, writing>>
            BY <1>6, <2>2 DEF ChangeSettings
        <3>2. /\ tidy' = tidy /\ (tidy => acknowledged' = acknowledged /\ seen' = seen)
              /\ acknowledged' \in [Relations -> [Keys -> Values \cup {Unset, None}]]
              /\ DOMAIN seen' = Item \cup {"relation-ids"}
            BY <1>3, <3>1, Recorded
        <3> QED BY <1>1, <1>2, <1>6, <2>1, <3>1, <3>2, LookedUpKeepsInv
    <2>3. CASE cached(r)
        <3>1. ~tidy
            BY <1>1, <1>2, <1>6, <2>3 DEF cached, Inv, TidyInv
        <3>2. /\ node_cache' = [node_cache EXCEPT ![r] = Set(node_cache[r], data)]
              /\ WriterSees(r, Set(node_cache[r], data), TRUE)
              /\ Record(tidy, Acknowledge(r, data), seen)
              /\ commands' = [commands EXCEPT ![c] = None]
            <4>1. r \in DOMAIN node_cache
                BY <2>1 DEF Inv, TypeInv
            <4> QED BY <1>6, <2>3, <4>1 DEF ChangeSettings, Answered
        <3>3. node_cache[r] \in Cached /\ node_cache[r] # None /\ settings[r] # None
            BY <2>1, <2>3 DEF cached, Inv, TypeInv, WriteInv
        <3>4. /\ commands' \in [Clients -> Await \cup {None}]
              /\ \A d \in Clients : commands'[d] \in {None, commands[d]}
            BY <3>2 DEF Inv, TypeInv
        <3>5. /\ needs_flushing' \in [Relations -> BOOLEAN]
              /\ \A q \in Relations : needs_flushing[q] => needs_flushing'[q]
            BY <1>2 DEF Inv, TypeInv
        <3>6. Edit(r, data, node_cache[r], TRUE, tidy)
            BY <1>2, <1>3, <2>1, <3>1, <3>2, <3>3, <3>4, <3>5 DEF Edit
        <3> QED BY <1>3, <2>1, <3>3, <3>6, EditKeepsInv
    <2> QED BY <2>2, <2>3
<1> QED BY <1>2, <1>4, <1>5, <1>6
-----------------------------------------------------------------------------
(* The life of a hook *)

\* An empty history is a true one.
LEMMA NothingToldYet ==
    ASSUME TypeInv', tidy' => acknowledged' = NothingAcknowledged /\ seen' = NothingSeen
    PROVE  AckInv' /\ SeenInv'
<1>1. AckInv'
    BY DEF AckInv, NothingAcknowledged, NoEdit
<1>2. SeenInv'
    <2> SUFFICES ASSUME tidy' PROVE SeenInv'
        BY DEF SeenInv
    <2>1. \A i \in Item \cup {"relation-ids"} : Real(i)' = {}
        BY DEF Real, NothingSeen
    <2>2. DOMAIN seen' = Item \cup {"relation-ids"}
        BY DEF TypeInv
    <2> QED BY <2>1, <2>2 DEF SeenInv
<1> QED BY <1>1, <1>2

\* A unit hook's invoker reads the topology.
LEMMA InvokerKeepsInv ==
    ASSUME Inv, InvokerStart
    PROVE  Inv'
<1>1. /\ UNCHANGED <<settings, world, related, hook, context, joining, commands, joins, history>>
      /\ queued' = related
    BY DEF InvokerStart
<1>2. TypeInv'
    BY <1>1 DEF Inv, TypeInv, context, history
<1>3. WriteInv'
    BY <1>1, SameSettings DEF context
<1> QED BY <1>1, <1>2, <1>3, Unseen

\* A hook starts with contexts that have read no settings.
LEMMA StartKeepsInv ==
    ASSUME Inv, NEW relations \in SUBSET Relations,
           NEW snapshot \in (SUBSET Relations) \cup {None}, StartHook(relations, snapshot),
           queued' \in {queued, None}
    PROVE  Inv'
<1>1. /\ ~InContext
      /\ hook' = [number |-> hook.number + 1, phase |-> "running"]
      /\ relation_contexts' = relations /\ topology' = snapshot
      /\ Record(~Waiting, NothingAcknowledged, NothingSeen)
      /\ UNCHANGED <<settings, world, related, node_cache, needs_flushing, view, unflushed>>
      /\ UNCHANGED <<writing, joining, commands, joins>>
    BY DEF StartHook
<1>2. /\ node_cache = NothingRead /\ writing = None /\ unflushed = {}
      /\ \A c \in Clients : commands[c] \in {None, Late}
    BY <1>1 DEF Inv, ContextInv
<1>3. hook' \in [number : Nat, phase : Phase]
    BY <1>1 DEF Inv, TypeInv, Phase
<1>4. NothingAcknowledged \in [Relations -> [Keys -> Values \cup {Unset, None}]]
    BY DEF NothingAcknowledged, NoEdit
<1>5. DOMAIN NothingSeen = Item \cup {"relation-ids"}
    BY DEF NothingSeen
<1>6. (~Waiting) \in BOOLEAN
    OBVIOUS
<1>7. /\ tidy' = ~Waiting /\ tidy' \in BOOLEAN
      /\ acknowledged' \in [Relations -> [Keys -> Values \cup {Unset, None}]]
      /\ DOMAIN seen' = Item \cup {"relation-ids"}
      /\ tidy' => acknowledged' = NothingAcknowledged /\ seen' = NothingSeen
    BY <1>1, <1>4, <1>5, <1>6, Recorded
<1>8. TypeInv'
    <2>1. /\ queued' \in (SUBSET Relations) \cup {None} /\ relation_contexts' \subseteq Relations
          /\ topology' \in (SUBSET Relations) \cup {None}
        BY <1>1 DEF Inv, TypeInv
    <2>2. TypeInv
        BY DEF Inv
    <2> QED BY <1>1, <1>3, <1>7, <2>1, <2>2 DEF TypeInv
<1>9. ContextInv'
    BY <1>1, <1>2 DEF Inv, ContextInv, InContext
<1>10. WriteInv'
    BY <1>1 DEF Inv, WriteInv
<1>11. PristineInv'
    BY <1>1, <1>2 DEF PristineInv, Writes, NothingRead
<1>12. TidyInv'
    BY <1>1, <1>7 DEF TidyInv, Waiting
<1>13. AckInv' /\ SeenInv'
    BY <1>7, <1>8, NothingToldYet
<1> QED BY <1>8, <1>9, <1>10, <1>11, <1>12, <1>13 DEF Inv

\* The kinds of hooks.
LEMMA StartsKeepInv ==
    ASSUME Inv, UnitHook \/ BrokenHook \/ \E r \in Relations : RelationHook(r)
    PROVE  Inv'
<1>1. CASE UnitHook
    <2>1. queued \in SUBSET Relations /\ StartHook(queued, queued) /\ queued' = None
        BY <1>1 DEF UnitHook, Inv, TypeInv
    <2>2. queued \in (SUBSET Relations) \cup {None} /\ queued' \in {queued, None}
        BY <2>1
    <2> QED BY <2>1, <2>2, StartKeepsInv
<1>2. CASE BrokenHook
    <2>1. StartHook({}, None) /\ queued' \in {queued, None}
        BY <1>2 DEF BrokenHook
    <2>2. {} \in SUBSET Relations /\ None \in (SUBSET Relations) \cup {None}
        OBVIOUS
    <2> QED BY <2>1, <2>2, StartKeepsInv
<1>3. ASSUME NEW r \in Relations, RelationHook(r) PROVE Inv'
    <2>1. StartHook({r}, None) /\ queued' \in {queued, None}
        BY <1>3 DEF RelationHook
    <2>2. {r} \in SUBSET Relations /\ None \in (SUBSET Relations) \cup {None}
        OBVIOUS
    <2> QED BY <2>1, <2>2, StartKeepsInv
<1> QED BY <1>1, <1>2, <1>3

\* A hook is over: its contexts are gone, and if it succeeded they have been
\* written.
LEMMA EndKeepsInv ==
    ASSUME Inv, NEW phase \in {"broken", "done", "failure"}, End(phase),
           phase = "done" => hook.phase = "success" /\ unflushed = {},
           tidy' \in BOOLEAN,
           acknowledged' \in [Relations -> [Keys -> Values \cup {Unset, None}]],
           DOMAIN seen' = Item \cup {"relation-ids"},
           tidy' => tidy /\ ~Waiting /\ acknowledged' = acknowledged /\ seen' = seen,
           UNCHANGED <<settings, world, related, queued, joining, joins>>
    PROVE  Inv'
<1>1. /\ hook' = [hook EXCEPT !.phase = phase]
      /\ commands' = [c \in Clients |-> IF commands[c] = None THEN None ELSE Late]
      /\ relation_contexts' = {} /\ topology' = None /\ node_cache' = NothingRead
      /\ needs_flushing' = [r \in Relations |-> FALSE]
      /\ view' = [i \in Item |-> None] /\ unflushed' = {} /\ writing' = None
    BY DEF End
<1>2. /\ hook' \in [number : Nat, phase : Phase]
      /\ hook'.phase = phase
    BY <1>1 DEF Inv, TypeInv, Phase
<1>3. Late \in Await
    BY DEF Await, Late
<1>4. /\ commands' \in [Clients -> Await \cup {None}]
      /\ \A c \in Clients : commands'[c] = IF commands[c] = None THEN None ELSE Late
    BY <1>1, <1>3
<1>5. TypeInv'
    <2>1. /\ relation_contexts' \subseteq Relations /\ unflushed' \subseteq Relations
          /\ topology' \in (SUBSET Relations) \cup {None} /\ writing' \in Write \cup {None}
          /\ view' \in [Item -> Nat \cup {None}]
          /\ needs_flushing' \in [Relations -> BOOLEAN]
        BY <1>1
    <2>2. node_cache' \in [Relations -> Cached \cup {None}]
        BY <1>1 DEF NothingRead
    <2>3. TypeInv
        BY DEF Inv
    <2> QED BY <1>2, <1>4, <2>1, <2>2, <2>3 DEF TypeInv
<1>6. ContextInv'
    BY <1>1, <1>2, <1>4 DEF ContextInv, InContext
<1>7. WriteInv'
    BY <1>1 DEF Inv, WriteInv, NothingRead
<1>8. PristineInv'
    BY <1>1, <1>2 DEF PristineInv, Writes, NothingRead
<1>9. tidy' => \A c \in Clients : commands'[c] = None
    BY <1>4 DEF Waiting
<1>10. TidyInv'
    BY <1>9 DEF TidyInv, Waiting
<1>11. AckInv'
    BY <1>2 DEF Inv, AckInv, Has
<1>12. SeenInv'
    <2>1. tidy' => /\ hook'.phase # "running"
                   /\ \A i \in DOMAIN seen' : \E x : Real(i)' \subseteq {x}
        BY <1>2 DEF Inv, SeenInv, Real
    <2> QED BY <2>1 DEF SeenInv
<1> QED BY <1>5, <1>6, <1>7, <1>8, <1>10, <1>11, <1>12 DEF Inv

\* The process exits, well or not.
LEMMA ExitKeepsInv ==
    ASSUME Inv, NEW code \in {"success", "failure"}, HookExits(code)
    PROVE  Inv'
<1>1. /\ hook.phase = "running" /\ Record(tidy /\ ~Waiting, acknowledged, seen)
      /\ UNCHANGED <<settings, world, related, queued, joining, joins>>
    BY DEF HookExits
<1>2. (tidy /\ ~Waiting) \in BOOLEAN
    OBVIOUS
<1>3. /\ tidy' = (tidy /\ ~Waiting) /\ tidy' \in BOOLEAN
      /\ acknowledged' \in [Relations -> [Keys -> Values \cup {Unset, None}]]
      /\ DOMAIN seen' = Item \cup {"relation-ids"}
      /\ tidy' => acknowledged' = acknowledged /\ seen' = seen
    BY <1>1, <1>2, Recorded DEF Inv, TypeInv
<1>4. CASE code = "failure"
    <2>1. End("failure")
        BY <1>4 DEF HookExits
    <2> QED BY <1>1, <1>3, <2>1, EndKeepsInv
<1>5. CASE code = "success"
    <2>1. /\ hook' = [hook EXCEPT !.phase = "success"] /\ unflushed' = relation_contexts
          /\ UNCHANGED <<relation_contexts, topology, node_cache, needs_flushing, view>>
          /\ UNCHANGED <<writing, commands>>
        BY <1>5 DEF HookExits
    <2>2. /\ hook' \in [number : Nat, phase : Phase]
          /\ hook'.phase = "success"
        BY <2>1 DEF Inv, TypeInv, Phase
    <2>3. relation_contexts' = relation_contexts /\ relation_contexts \subseteq Relations
        BY <2>1, <2>2 DEF Inv, TypeInv
    <2>4. writing = None /\ unflushed = {}
        BY <1>1 DEF Inv, ContextInv
    <2>5. TypeInv'
        BY <1>1, <1>3, <2>1, <2>2, <2>3 DEF Inv, TypeInv
    <2>6. ContextInv'
        BY <2>1, <2>2 DEF Inv, ContextInv, InContext
    <2>7. WriteInv'
        BY <1>1, <2>1, <2>4 DEF Inv, WriteInv
    <2>8. PristineInv'
        BY <1>1, <2>1, <2>2, <2>4 DEF Inv, PristineInv, Writes
    <2>9. TidyInv'
        BY <1>3, <2>1 DEF TidyInv, Waiting
    <2>10. AckInv'
        <3> SUFFICES ASSUME tidy', NEW r \in Relations, NEW k \in Keys \ {Address},
                            acknowledged'[r][k] # None
                     PROVE  r \in unflushed' /\ ~Writes(r)' /\ Holds(r, k)'
            BY <2>2 DEF AckInv
        <3>1. r \in relation_contexts /\ Holds(r, k)
            BY <1>1, <1>3 DEF Inv, AckInv
        <3>2. Holds(r, k)'
            BY <1>3, <2>1, <3>1 DEF Holds
        <3> QED BY <2>1, <2>4, <3>1, <3>2 DEF Writes
    <2>11. SeenInv'
        <3>1. tidy' => hook'.phase # "running" /\
                       \A i \in DOMAIN seen' : \E x : Real(i)' \subseteq {x}
            BY <1>3, <2>2 DEF Inv, SeenInv, Real
        <3> QED BY <3>1 DEF SeenInv
    <2> QED BY <2>5, <2>6, <2>7, <2>8, <2>9, <2>10, <2>11 DEF Inv
<1> QED BY <1>4, <1>5

\* What a take-over leaves in the context: what was written counts as read.
LEMMA TakenFacts ==
    ASSUME NEW s \in Cached
    PROVE  [s EXCEPT !.pristine = s.cache] \in Cached
BY DEF Cached

\* The next context has nothing to write, or its changes are taken over.
LEMMA FlushKeepsInv ==
    ASSUME Inv, NEW r \in Relations, FlushNext(r)
    PROVE  Inv'
<1>1. /\ writing = None /\ r \in unflushed
      /\ UNCHANGED <<settings, world, related, queued, joining, joins>>
      /\ UNCHANGED <<tidy, acknowledged, seen>>
    BY DEF FlushNext, history
<1>2. hook.phase = "success"
    BY <1>1 DEF Inv, ContextInv, InContext
<1>3. \A q \in Relations : ~Writes(q)
    BY <1>1 DEF Writes
<1>4. CASE ~needs_flushing[r]
    <2>1. /\ unflushed' = unflushed \ {r}
          /\ UNCHANGED <<hook, relation_contexts, topology, node_cache, needs_flushing>>
          /\ UNCHANGED <<view, writing, commands>>
        BY <1>4 DEF FlushNext
    <2>2. TypeInv'
        BY <1>1, <2>1 DEF Inv, TypeInv
    <2>3. ContextInv'
        BY <1>2, <2>1 DEF Inv, ContextInv, InContext
    <2>4. WriteInv'
        BY <1>1, <2>1 DEF Inv, WriteInv
    <2>5. PristineInv'
        BY <1>1, <2>1 DEF Inv, PristineInv, Writes
    <2>6. TidyInv'
        BY <1>1, <2>1 DEF Inv, TidyInv, Waiting, known
    <2>7. AckInv'
        <3> SUFFICES ASSUME tidy, NEW q \in Relations, NEW k \in Keys \ {Address},
                            acknowledged[q][k] # None
                     PROVE  /\ q \in unflushed' => Holds(q, k)'
                            /\ q \notin unflushed' => Has(q, k)'
            BY <1>1, <1>2, <2>1 DEF AckInv, Writes
        <3>1. /\ q \in unflushed => Holds(q, k)
              /\ q \notin unflushed => Has(q, k)
            BY <1>2, <1>3 DEF Inv, AckInv
        <3> QED BY <1>1, <1>4, <2>1, <3>1 DEF Holds, Has
    <2>8. SeenInv'
        BY <1>1, <2>1, SameSeen
    <2> QED BY <2>2, <2>3, <2>4, <2>5, <2>6, <2>7, <2>8 DEF Inv
<1>5. CASE needs_flushing[r] /\ node_cache[r] = None /\ settings[r] = None
    <2>1. End("broken")
        BY <1>5 DEF FlushNext
    <2>2. tidy => ~Waiting
        BY <1>2 DEF Inv, TidyInv
    <2>3. /\ tidy' \in BOOLEAN /\ DOMAIN seen' = Item \cup {"relation-ids"}
          /\ acknowledged' \in [Relations -> [Keys -> Values \cup {Unset, None}]]
        BY <1>1 DEF Inv, TypeInv
    <2> QED BY <1>1, <2>1, <2>2, <2>3, EndKeepsInv
<1>6. CASE needs_flushing[r] /\ ~(node_cache[r] = None /\ settings[r] = None)
    <2>1. PICK s : s = IF node_cache[r] = None THEN Read(r) ELSE node_cache[r]
        OBVIOUS
    <2> DEFINE w == [relation |-> r, pristine |-> s.pristine, cache |-> s.cache,
                     shared |-> TRUE, sent |-> None, content |-> None, fresh |-> TRUE]
               taken == [s EXCEPT !.pristine = s.cache]
    <2>2. /\ writing' = w /\ node_cache' = [node_cache EXCEPT ![r] = taken]
          /\ UNCHANGED <<hook, relation_contexts, needs_flushing, view, unflushed, commands>>
          /\ topology' \in {related, topology}
        BY <1>6, <2>1 DEF FlushNext
    <2>3. s \in Cached /\ settings[r] # None
        BY <1>6, <2>1, ReadFacts DEF Inv, TypeInv, WriteInv
    <2>4. s.pristine \in Content /\ s.cache \in Content
        BY <2>3 DEF Cached
    <2>5. w \in Write
        BY <2>4 DEF Write
    <2>6. taken \in Cached
        BY <2>3, TakenFacts
    <2>7. /\ w.relation = r /\ w.pristine = s.pristine /\ w.cache = s.cache
          /\ w.sent = None /\ w.content = None
        OBVIOUS
    <2>8. w # None /\ taken # None
        BY <2>5, <2>6, NoneAssumption
    <2> HIDE DEF w, taken
    <2>9. /\ node_cache' \in [Relations -> Cached \cup {None}]
          /\ \A q \in Relations : node_cache'[q] = IF q = r THEN taken ELSE node_cache[q]
        BY <2>2, <2>6 DEF Inv, TypeInv
    <2>10. \A q \in Relations : Writes(q)' <=> q = r
        BY <2>2, <2>7, <2>8 DEF Writes
    <2>11. TypeInv'
        BY <1>1, <2>2, <2>5, <2>9 DEF Inv, TypeInv
    <2>12. ContextInv'
        BY <1>2, <2>2 DEF Inv, ContextInv, InContext
    <2>13. WriteInv'
        BY <1>1, <2>2, <2>3, <2>7, <2>8, <2>9 DEF Inv, WriteInv
    <2>14. PristineInv'
        <3>1. \A k \in Keys \ {Address} : settings[r][k] = s.pristine[k]
            <4>1. settings[r] \in Content
                BY <2>3 DEF Inv, TypeInv
            <4>2. CASE node_cache[r] = None
                BY <2>1, <4>1, <4>2, ReadFacts
            <4>3. CASE node_cache[r] # None
                BY <1>1, <1>3, <2>1, <4>3 DEF Inv, PristineInv
            <4> QED BY <4>2, <4>3
        <3>2. \A q \in Relations, k \in Keys \ {Address} :
                q # r /\ node_cache[q] # None /\ q \in unflushed =>
                    settings[q][k] = node_cache[q].pristine[k]
            BY <1>3 DEF Inv, PristineInv
        <3> QED BY <1>1, <1>2, <2>2, <2>7, <2>9, <2>10, <3>1, <3>2 DEF PristineInv
    <2>15. TidyInv'
        <3>1. tidy => \A c \in Clients : commands[c] = None
            BY <1>2 DEF Inv, TidyInv, Waiting
        <3> QED BY <1>1, <2>2, <3>1 DEF TidyInv, Waiting
    <2>16. AckInv'
        <3> SUFFICES ASSUME tidy, NEW q \in Relations, NEW k \in Keys \ {Address},
                            acknowledged[q][k] # None
                     PROVE  /\ q = r => writing'.cache[k] = acknowledged[q][k]
                            /\ q # r /\ q \in unflushed => Holds(q, k)'
                            /\ q \notin unflushed => Has(q, k)'
            BY <1>1, <1>2, <2>2, <2>7, <2>10 DEF AckInv
        <3>1. /\ q \in unflushed => Holds(q, k)
              /\ q \notin unflushed => Has(q, k)
            BY <1>2, <1>3 DEF Inv, AckInv
        <3> QED BY <1>1, <2>1, <2>2, <2>7, <2>9, <3>1 DEF Holds, Has
    <2>17. SeenInv'
        <3>1. tidy' => hook'.phase # "running" /\
                       \A i \in DOMAIN seen' : \E x : Real(i)' \subseteq {x}
            BY <1>1, <1>2, <2>2 DEF Inv, SeenInv, Real
        <3> QED BY <3>1 DEF SeenInv
    <2> QED BY <2>11, <2>12, <2>13, <2>14, <2>15, <2>16, <2>17 DEF Inv
<1> QED BY <1>4, <1>5, <1>6

\* What write() prepares, of the settings as they are.
LEMMA WriteReadsKeepsInv ==
    ASSUME Inv, WriteReads
    PROVE  Inv'
<1> DEFINE r == writing.relation
           n == apply_changes(writing.pristine, writing.cache, settings[r])
           w == [writing EXCEPT !.sent = writing.cache, !.content = n]
<1>1. /\ writing # None /\ hook.phase = "success" /\ writing' = w
      /\ UNCHANGED <<settings, world, related, hook, queued, joining, commands, joins>>
      /\ UNCHANGED <<relation_contexts, topology, node_cache, needs_flushing, view, unflushed>>
      /\ UNCHANGED <<tidy, acknowledged, seen>>
    BY DEF WriteReads, history
<1>2. writing \in Write
    BY <1>1 DEF Inv, TypeInv
<1>3. r \in Relations /\ writing.pristine \in Content /\ writing.cache \in Content
    BY <1>2 DEF Write
<1>4. settings[r] \in Content \cup {None}
    BY <1>3 DEF Inv, TypeInv
<1>5. n \in Content
    BY <1>3, <1>4, ApplyFacts
<1>6. n = apply_changes(writing.pristine, writing.cache, settings[r])
    OBVIOUS
<1> HIDE DEF n
<1>7. /\ w \in Write /\ w.relation = r /\ w.pristine = writing.pristine
      /\ w.cache = writing.cache /\ w.sent = writing.cache /\ w.content = n
    BY <1>2, <1>3, <1>5 DEF Write
<1>8. w # None /\ w.sent # None
    BY <1>3, <1>7, NoneAssumption
<1> HIDE DEF w, r
<1>9. \A q \in Relations : Writes(q)' <=> Writes(q)
    BY <1>1, <1>7, <1>8 DEF Writes, r
<1>10. TypeInv'
    BY <1>1, <1>7 DEF Inv, TypeInv
<1>11. ContextInv'
    BY <1>1 DEF Inv, ContextInv, InContext
<1>12. WriteInv'
    BY <1>1, <1>6, <1>7, <1>8 DEF Inv, WriteInv, r
<1>13. PristineInv'
    BY <1>1, <1>7, <1>9 DEF Inv, PristineInv
<1>14. TidyInv'
    BY <1>1 DEF Inv, TidyInv, Waiting, known
<1>15. AckInv'
    BY <1>1, <1>7, <1>9 DEF Inv, AckInv, Holds, Has
<1>16. SeenInv'
    BY <1>1, SameSeen
<1> QED BY <1>10, <1>11, <1>12, <1>13, <1>14, <1>15, <1>16 DEF Inv

\* A write that was superseded starts over.
LEMMA WriteRetriesKeepsInv ==
    ASSUME Inv, WriteRetries
    PROVE  Inv'
<1> DEFINE w == [writing EXCEPT !.sent = None, !.content = None, !.fresh = TRUE]
<1>1. /\ writing # None /\ hook.phase = "success" /\ writing' = w
      /\ UNCHANGED <<settings, world, related, hook, queued, joining, commands, joins>>
      /\ UNCHANGED <<relation_contexts, topology, node_cache, needs_flushing, view, unflushed>>
      /\ UNCHANGED <<tidy, acknowledged, seen>>
    BY DEF WriteRetries, again, history
<1>2. writing \in Write
    BY <1>1 DEF Inv, TypeInv
<1>3. /\ w \in Write /\ w.relation = writing.relation /\ w.pristine = writing.pristine
      /\ w.cache = writing.cache /\ w.content = None
    BY <1>2 DEF Write
<1>4. w # None
    BY <1>3, NoneAssumption
<1> HIDE DEF w
<1>5. \A q \in Relations : Writes(q)' <=> Writes(q)
    BY <1>1, <1>3, <1>4 DEF Writes
<1>6. TypeInv'
    BY <1>1, <1>3 DEF Inv, TypeInv
<1>7. ContextInv'
    BY <1>1 DEF Inv, ContextInv, InContext
<1>8. WriteInv'
    BY <1>1, <1>3, <1>4 DEF Inv, WriteInv
<1>9. PristineInv'
    BY <1>1, <1>3, <1>5 DEF Inv, PristineInv
<1>10. TidyInv'
    BY <1>1 DEF Inv, TidyInv, Waiting, known
<1>11. AckInv'
    BY <1>1, <1>3, <1>5 DEF Inv, AckInv, Holds, Has
<1>12. SeenInv'
    BY <1>1, SameSeen
<1> QED BY <1>6, <1>7, <1>8, <1>9, <1>10, <1>11, <1>12 DEF Inv

\* The settings are written: what was acknowledged is in them now.
LEMMA WriteSetsKeepsInv ==
    ASSUME Inv, WriteSets
    PROVE  Inv'
<1>1. PICK r \in Relations : r = writing.relation
    BY DEF WriteSets, Inv, TypeInv, Write
<1>2. /\ writing # None /\ hook.phase = "success"
      /\ writing.content # None /\ writing.fresh
      /\ settings' = [settings EXCEPT ![r] = writing.content]
      /\ joining' = [joining EXCEPT ![r] = superseded(joining[r], r)]
      /\ unflushed' = unflushed \ {r} /\ writing' = None
      /\ UNCHANGED <<world, related, hook, queued, relation_contexts, topology, node_cache, needs_flushing, view>>
      /\ UNCHANGED <<commands, joins, tidy, acknowledged, seen>>
    <2>1. r \in DOMAIN joining
        BY DEF Inv, TypeInv
    <2> QED BY <1>1, <2>1 DEF WriteSets, history
<1>3. /\ writing.pristine \in Content /\ writing.sent \in Content /\ writing.content \in Content
      /\ writing.content =
           apply_changes(writing.pristine, writing.sent, settings[r])
    <2>1. writing \in Write
        BY <1>2 DEF Inv, TypeInv
    <2>2. /\ writing.content # None /\ writing.sent # None
          /\ writing.content =
               apply_changes(writing.pristine, writing.sent, settings[r])
        BY <1>1, <1>2 DEF Inv, WriteInv
    <2> QED BY <2>1, <2>2 DEF Write
<1>4. writing.content # None
    BY <1>2
<1>5. settings[r] # None /\ settings[r] \in Content
    BY <1>1, <1>2 DEF Inv, WriteInv, TypeInv
<1>6. \A k \in Keys : writing.content[k] =
        IF writing.sent[k] # writing.pristine[k] THEN writing.sent[k] ELSE settings[r][k]
    BY <1>3, <1>5, ApplyFacts
<1>7. /\ settings' \in [Relations -> Content \cup {None}]
      /\ \A q \in Relations : settings'[q] = IF q = r THEN writing.content ELSE settings[q]
    BY <1>2, <1>3 DEF Inv, TypeInv
<1>8. joining[r] # None =>
        /\ superseded(joining[r], r) \in Update /\ superseded(joining[r], r).relation = r
        /\ ~superseded(joining[r], r).fresh
    <2>1. joining[r] # None => joining[r] \in Update /\ joining[r].relation = r
        BY DEF Inv, TypeInv, WriteInv
    <2> QED BY <2>1, SupersededUpdate
<1>9. joining[r] = None => superseded(joining[r], r) = None
    BY DEF superseded
<1>10. /\ joining' \in [Relations -> Update \cup {None}]
       /\ \A q \in Relations : joining'[q] =
            IF q = r THEN superseded(joining[r], r) ELSE joining[q]
    BY <1>2, <1>8, <1>9 DEF Inv, TypeInv
<1>11. TypeInv'
    BY <1>2, <1>7, <1>10 DEF Inv, TypeInv
<1>12. ContextInv'
    BY <1>2 DEF Inv, ContextInv, InContext
<1>13. WriteInv'
    <2>1. \A q \in Relations : node_cache'[q] # None => settings'[q] # None
        BY <1>2, <1>4, <1>7 DEF Inv, WriteInv
    <2>2. ASSUME NEW q \in Relations, joining'[q] # None
          PROVE  /\ joining'[q].relation = q
                 /\ joining'[q].fresh =>
                      joining'[q].content = update_address(joining'[q].address, settings'[q])
        <3>1. CASE q = r
            BY <1>8, <1>9, <1>10, <2>2, <3>1
        <3>2. CASE q # r
            BY <1>7, <1>10, <2>2, <3>2 DEF Inv, WriteInv
        <3> QED BY <3>1, <3>2
    <2> QED BY <1>2, <2>1, <2>2 DEF WriteInv
<1>14. /\ \A q \in Relations : Writes(q) <=> q = r
       /\ \A q \in Relations : ~Writes(q)'
    BY <1>1, <1>2 DEF Writes
<1>15. PristineInv'
    BY <1>2, <1>7, <1>14 DEF Inv, PristineInv
<1>16. TidyInv'
    BY <1>2 DEF Inv, TidyInv, Waiting, known
<1>17. AckInv'
    <2> SUFFICES ASSUME tidy, NEW q \in Relations, NEW k \in Keys \ {Address},
                        acknowledged[q][k] # None
                 PROVE  /\ q \in unflushed' => Holds(q, k)'
                        /\ q \notin unflushed' => Has(q, k)'
        BY <1>2, <1>14 DEF AckInv
    <2>1. CASE q = r
        <3>1. writing.sent[k] = acknowledged[q][k]
            BY <1>2, <1>14, <2>1 DEF Inv, AckInv
        <3>2. settings[r][k] = writing.pristine[k]
            BY <1>14 DEF Inv, PristineInv
        <3>3. settings'[r][k] = acknowledged[q][k] /\ settings'[r] # None
            BY <1>4, <1>6, <1>7, <3>1, <3>2
        <3> QED BY <1>2, <2>1, <3>3 DEF Has
    <2>2. CASE q # r
        <3>1. /\ q \in unflushed => Holds(q, k)
              /\ q \notin unflushed => Has(q, k)
            BY <1>2, <1>14, <2>2 DEF Inv, AckInv
        <3> QED BY <1>2, <1>7, <2>2, <3>1 DEF Holds, Has
    <2> QED BY <2>1, <2>2
<1>18. SeenInv'
    BY <1>2, SameSeen
<1> QED BY <1>11, <1>12, <1>13, <1>15, <1>16, <1>17, <1>18 DEF Inv

\* The flush is over, well or not.
LEMMA FlushEndsKeepsInv ==
    ASSUME Inv, FlushFails \/ HookSucceeds
    PROVE  Inv'
<1>1. /\ hook.phase = "success"
      /\ UNCHANGED <<settings, world, related, queued, joining, joins>>
      /\ UNCHANGED <<tidy, acknowledged, seen>>
    BY DEF FlushFails, HookSucceeds, history
<1>2. tidy => ~Waiting
    BY <1>1 DEF Inv, TidyInv
<1>3. /\ tidy' \in BOOLEAN /\ DOMAIN seen' = Item \cup {"relation-ids"}
      /\ acknowledged' \in [Relations -> [Keys -> Values \cup {Unset, None}]]
    BY <1>1 DEF Inv, TypeInv
<1>4. CASE FlushFails
    <2>1. End("broken")
        BY <1>4 DEF FlushFails
    <2> QED BY <1>1, <1>2, <1>3, <2>1, EndKeepsInv
<1>5. CASE HookSucceeds
    <2>1. End("done") /\ unflushed = {}
        BY <1>5 DEF HookSucceeds
    <2> QED BY <1>1, <1>2, <1>3, <2>1, EndKeepsInv
<1> QED BY <1>4, <1>5
-----------------------------------------------------------------------------
(* The invariant *)

\* The agent starts without a hook, with the settings that were left behind.
LEMMA InitInv == Init => Inv
<1> SUFFICES ASSUME Init PROVE Inv
    OBVIOUS
<1>1. /\ settings \in [Relations -> {None, JoinedBefore}] /\ world = 0
      /\ related = Relations /\ hook = [number |-> 0, phase |-> "failure"]
      /\ queued = None /\ relation_contexts = {} /\ topology = None
      /\ node_cache = NothingRead
      /\ needs_flushing = [r \in Relations |-> FALSE]
      /\ view = [i \in Item |-> None] /\ unflushed = {} /\ writing = None
      /\ joining = [r \in Relations |-> None] /\ commands = [c \in Clients |-> None]
      /\ joins = 0 /\ tidy = TRUE
      /\ acknowledged = NothingAcknowledged /\ seen = NothingSeen
    BY DEF Init
<1>2. JoinedBefore \in Content
    <2>1. 0 \in Stored /\ Unset \in Stored
        BY HookContextAssumption DEF Stored
    <2> HIDE DEF Stored
    <2> QED BY <2>1 DEF JoinedBefore, Content
<1>3. TypeInv
    <2>1. settings \in [Relations -> Content \cup {None}]
        BY <1>1, <1>2
    <2>2. hook \in [number : Nat, phase : Phase]
        BY <1>1 DEF Phase
    <2>3. /\ node_cache \in [Relations -> Cached \cup {None}]
          /\ DOMAIN seen = Item \cup {"relation-ids"}
          /\ acknowledged \in [Relations -> [Keys -> Values \cup {Unset, None}]]
        BY <1>1 DEF NothingRead, NothingSeen, NothingAcknowledged, NoEdit
    <2> QED BY <1>1, <2>1, <2>2, <2>3 DEF TypeInv
<1>4. ContextInv
    <2>1. \A c \in Clients : commands[c] = None
        BY <1>1
    <2>2. hook.phase = "failure"
        BY <1>1
    <2> QED BY <1>1, <2>1, <2>2 DEF ContextInv, InContext
<1>5. WriteInv /\ PristineInv
    BY <1>1 DEF WriteInv, PristineInv, Writes, NothingRead
<1>6. TidyInv
    BY <1>1 DEF TidyInv, Waiting
<1>7. AckInv
    BY <1>1 DEF AckInv, NothingAcknowledged, NoEdit
<1>8. SeenInv
    <2>1. \A i \in Item \cup {"relation-ids"} : Real(i) = {}
        BY <1>1 DEF Real, NothingSeen
    <2> QED BY <1>1, <2>1 DEF SeenInv, NothingSeen
<1> QED BY <1>3, <1>4, <1>5, <1>6, <1>7, <1>8 DEF Inv

\* Every command keeps it.
LEMMA CommandKeepsInv ==
    ASSUME Inv, NEW c \in Clients, Command(c)
    PROVE  Inv'
<1>1. ASSUME NEW r \in Relations, NEW data \in Data, relation_set(c, r, data) PROVE Inv'
    BY <1>1, RelationSetKeepsInv, RelationSetWaits
<1>2. CASE config_get(c)
    <2>1. Call(c) /\ Ask(c, "config", "node") /\ "config" \in Item
        BY <1>2 DEF config_get, Item
    <2> QED BY <2>1, AskKeepsInv
<1>3. CASE relation_get(c)
    <2>1. /\ Call(c) /\ Ask(c, "relation", lookup) /\ "relation" \in Item
          /\ lookup \in {"topology", "node"} /\ (lookup = "topology" => topology = None)
        BY <1>3 DEF relation_get, Item, lookup
    <2> QED BY <2>1, AskKeepsInv
<1>4. CASE relation_ids(c)
    BY <1>4, RelationIdsKeepsInv, RelationIdsWaits
<1>5. CASE TopologyRead(c)
    BY <1>5, TopologyReadKeepsInv
<1>6. CASE SettingsRead(c)
    BY <1>6, SettingsReadKeepsInv
<1>7. CASE ItemRead(c)
    BY <1>7, ItemReadKeepsInv
<1>8. CASE ReadInVain(c)
    BY <1>8, DroppedKeepsInv DEF ReadInVain, Answered
<1> QED BY <1>1, <1>2, <1>3, <1>4, <1>5, <1>6, <1>7, <1>8 DEF Command

\* Every step keeps it.
LEMMA NextKeepsInv == Inv /\ [Next]_vars => Inv'
<1> SUFFICES ASSUME Inv, [Next]_vars PROVE Inv'
    OBVIOUS
<1>1. CASE InvokerStart \/ UnitHook \/ BrokenHook \/ \E r \in Relations : RelationHook(r)
    BY <1>1, InvokerKeepsInv, StartsKeepInv
<1>2. ASSUME NEW code \in {"success", "failure"}, HookExits(code) PROVE Inv'
    BY <1>2, ExitKeepsInv
<1>3. ASSUME NEW r \in Relations, FlushNext(r) PROVE Inv'
    BY <1>3, FlushKeepsInv
<1>4. CASE WriteReads
    BY <1>4, WriteReadsKeepsInv
<1>5. CASE WriteRetries
    BY <1>5, WriteRetriesKeepsInv
<1>6. CASE WriteSets
    BY <1>6, WriteSetsKeepsInv
<1>7. CASE FlushFails \/ HookSucceeds
    BY <1>7, FlushEndsKeepsInv
<1>8. ASSUME NEW c \in Clients, Command(c) PROVE Inv'
    BY <1>8, CommandKeepsInv
<1>9. ASSUME NEW r \in Relations, Join(r) \/ JoinRetries(r) PROVE Inv'
    BY <1>9, JoinsKeepInv
<1>10. ASSUME NEW r \in Relations, JoinSets(r) PROVE Inv'
    BY <1>10, JoinSetsKeepsInv
<1>11. CASE (\E r \in Relations : RelationRemoved(r)) \/ WorldChanges
    BY <1>11, OthersKeepInv
<1>12. CASE UNCHANGED vars
    <2>1. /\ UNCHANGED <<settings, world, related, hook, queued, joining, commands, joins>>
          /\ UNCHANGED <<context, history>>
        BY <1>12 DEF vars
    <2>2. TypeInv'
        BY <2>1 DEF Inv, TypeInv, context, history
    <2>3. WriteInv'
        BY <2>1, SameSettings DEF context
    <2> QED BY <2>1, <2>2, <2>3, Unseen
<1> QED BY <1>1, <1>2, <1>3, <1>4, <1>5, <1>6, <1>7, <1>8, <1>9, <1>10, <1>11, <1>12 DEF Next

\* The invariant holds in every state.
THEOREM Invariance == Spec => []Inv
BY InitInv, NextKeepsInv, PTL DEF Spec

\* After a hook that succeeded, whose commands ran one after another within it,
\* every change that a command was told had been made is in the settings
\* (protocol.py:211, hook.py:308).
THEOREM Acknowledged == Spec => []AcknowledgedChangesWritten
<1>1. Inv => AcknowledgedChangesWritten
    BY DEF Inv, AckInv, Has, AcknowledgedChangesWritten
<1> QED BY <1>1, Invariance, PTL

\* The commands of one hook, run one after another, are told the same
\* (protocol.py:196, hook.py:225).
THEOREM Consistent == Spec => []ConsistentView
<1>1. Inv => ConsistentView
    <2> SUFFICES ASSUME Inv, tidy, NEW i \in DOMAIN seen
                 PROVE  Cardinality(Real(i)) <= 1
        BY DEF ConsistentView, Real
    <2>1. PICK x : Real(i) \subseteq {x}
        BY DEF Inv, SeenInv
    <2>2. IsFiniteSet({x}) /\ Cardinality({x}) = 1
        BY FS_Singleton
    <2>3. Cardinality(Real(i)) <= Cardinality({x})
        BY <2>1, <2>2, FS_Subset
    <2> QED BY <2>2, <2>3
<1> QED BY <1>1, Invariance, PTL
-----------------------------------------------------------------------------
(* The contexts implement the settings store *)

\* What a hook may have changed of a relation's settings.
Edited == [Keys -> (Values \cup 0..MaxJoins) \cup {Unset, None}]

\* The keys of a cache that differ from what was read.
LEMMA ChangesFacts ==
    ASSUME NEW s, s.pristine \in Content, s.cache \in Content
    PROVE  /\ Changes(s) \in Edited
           /\ \A k \in Keys : Changes(s)[k] =
                IF s.cache[k] # s.pristine[k] THEN s.cache[k] ELSE None
BY DEF Changes, Content, Stored, Edited

\* What is pending in a relation, by cases.
LEMMA UnwrittenFacts ==
    ASSUME NEW r \in Relations
    PROVE  /\ ~InContext \/ node_cache[r] = None => Unwritten(r) = NoEdit
           /\ InContext /\ node_cache[r] # None /\ ~Writes(r) =>
                Unwritten(r) = Changes(node_cache[r])
           /\ InContext /\ node_cache[r] # None /\ Writes(r) =>
                Unwritten(r) = IF writing.content = None THEN Changes(writing)
                               ELSE Changes([writing EXCEPT !.cache = writing.sent])
BY DEF Unwritten, Writes

\* The write() under way, with what it last tried to write.
LEMMA SentFacts ==
    ASSUME NEW w \in Write, w.sent # None
    PROVE  /\ [w EXCEPT !.cache = w.sent].pristine = w.pristine
           /\ [w EXCEPT !.cache = w.sent].cache = w.sent
           /\ w.pristine \in Content /\ w.sent \in Content
BY DEF Write

\* What is pending is a change of the settings.
LEMMA PendingType == Inv => Pending \in [Relations -> Edited]
<1> SUFFICES ASSUME Inv, NEW r \in Relations PROVE Unwritten(r) \in Edited
    BY DEF Pending
<1>1. CASE ~InContext \/ node_cache[r] = None
    BY <1>1, UnwrittenFacts DEF NoEdit, Edited
<1>2. CASE InContext /\ node_cache[r] # None /\ ~Writes(r)
    <2>1. node_cache[r].pristine \in Content /\ node_cache[r].cache \in Content
        BY <1>2 DEF Inv, TypeInv, Cached
    <2> QED BY <1>2, <2>1, UnwrittenFacts, ChangesFacts
<1>3. CASE InContext /\ node_cache[r] # None /\ Writes(r)
    <2>1. writing \in Write /\ (writing.content # None => writing.sent # None)
        BY <1>3 DEF Inv, TypeInv, WriteInv, Writes
    <2>2. CASE writing.content = None
        <3>1. writing.pristine \in Content /\ writing.cache \in Content
            BY <2>1 DEF Write
        <3> QED BY <1>3, <2>2, <3>1, UnwrittenFacts, ChangesFacts
    <2>3. CASE writing.content # None
        BY <1>3, <2>1, <2>3, SentFacts, UnwrittenFacts, ChangesFacts
    <2> QED BY <2>2, <2>3
<1> QED BY <1>1, <1>2, <1>3

\* And so it is in the next state.
LEMMA NextPendingType == Inv' => Pending' \in [Relations -> Edited]
<1>1. (Inv => Pending \in [Relations -> Edited])'
    BY PendingType, PTL
<1> QED BY <1>1

\* Nothing is pending without a context.
LEMMA NothingPending == ~InContext \/ node_cache = NothingRead => Pending = Store!NoEdits
BY UnwrittenFacts DEF Pending, Store!NoEdits, Store!NoEdit, NoEdit, NothingRead

\* And so it is in the next state.
LEMMA NextNothingPending ==
    (~InContext \/ node_cache = NothingRead)' => Pending' = Store!NoEdits
<1>1. (~InContext \/ node_cache = NothingRead => Pending = Store!NoEdits)'
    BY NothingPending, PTL
<1> QED BY <1>1

\* What is pending depends on the contexts alone.
LEMMA SamePending ==
    ASSUME UNCHANGED <<hook, node_cache, writing>>
    PROVE  UNCHANGED <<Pending, Outcome>>
BY DEF Pending, Unwritten, InContext, Outcome

\* What is pending in a relation that a step leaves alone.
LEMMA OthersPending ==
    ASSUME UNCHANGED hook, NEW q \in Relations, node_cache'[q] = node_cache[q],
           Writes(q)' <=> Writes(q), Writes(q) => writing' = writing
    PROVE  Unwritten(q)' = Unwritten(q)
BY DEF Unwritten, Writes, InContext

\* Steps that neither change the settings nor what is pending.
LEMMA SameIsStutter ==
    ASSUME UNCHANGED <<settings, Pending, Outcome>>
    PROVE  [Store!Next]_(Store!svars)
BY DEF Store!svars

\* A hook's end drops what is pending.
LEMMA EndImplements ==
    ASSUME NEW phase \in {"broken", "done", "failure"}, End(phase), UNCHANGED settings,
           hook.phase \in {"running", "success"}, phase = "done" => hook.phase = "success",
           Inv
    PROVE  Store!Next
<1>1. hook' = [hook EXCEPT !.phase = phase] /\ node_cache' = NothingRead
    BY DEF End
<1>2. hook'.phase = phase
    BY <1>1 DEF Inv, TypeInv
<1>3. Pending' = Store!NoEdits
    BY <1>1, NextNothingPending
<1>4. Outcome \in {None, "success"} /\ (phase = "done" => Outcome = "success")
    BY DEF Outcome
<1>5. Outcome' = IF phase = "done" THEN "done" ELSE "failure"
    BY <1>2 DEF Outcome
<1>6. CASE phase = "done"
    BY <1>3, <1>4, <1>5, <1>6 DEF Store!Ends, Store!Next
<1>7. CASE phase # "done"
    BY <1>3, <1>4, <1>5, <1>7 DEF Store!Fails, Store!Next
<1> QED BY <1>6, <1>7

\* A step in one relation's context, or in its write().
LEMMA OnlyPending ==
    ASSUME Inv, Inv', UNCHANGED hook, NEW r \in Relations,
           \A q \in Relations \ {r} :
               /\ node_cache'[q] = node_cache[q]
               /\ Writes(q)' <=> Writes(q)
               /\ Writes(q) => writing' = writing
    PROVE  /\ Pending' = [Pending EXCEPT ![r] = Unwritten(r)']
           /\ Unwritten(r)' \in Store!Edit /\ UNCHANGED Outcome
<1>1. \A q \in Relations \ {r} : Unwritten(q)' = Unwritten(q)
    BY OthersPending
<1>2. Unwritten(r)' \in Edited
    BY NextPendingType DEF Pending
<1> QED BY <1>1, <1>2 DEF Pending, Edited, Store!Edit, Outcome

\* Such a step, if it does not change the settings, is an edit.
LEMMA EditImplements ==
    ASSUME Inv, Inv', UNCHANGED <<settings, hook>>, NEW r \in Relations,
           \A q \in Relations \ {r} :
               /\ node_cache'[q] = node_cache[q]
               /\ Writes(q)' <=> Writes(q)
               /\ Writes(q) => writing' = writing
    PROVE  Store!Next
<1>1. /\ Pending' = [Pending EXCEPT ![r] = Unwritten(r)']
      /\ Unwritten(r)' \in Store!Edit /\ UNCHANGED Outcome
    BY OnlyPending
<1>2. Store!Edits(r)
    BY <1>1 DEF Store!Edits
<1> QED BY <1>2 DEF Store!Next

\* A command reaches a write() of its own relation alone.
LEMMA WriterSeesOne ==
    ASSUME Inv, NEW r \in Relations, NEW s, NEW shared \in BOOLEAN, WriterSees(r, s, shared)
    PROVE  \A q \in Relations \ {r} : /\ Writes(q)' <=> Writes(q)
                                      /\ Writes(q) => writing' = writing
<1> SUFFICES ASSUME NEW q \in Relations \ {r}
             PROVE  (Writes(q)' <=> Writes(q)) /\ (Writes(q) => writing' = writing)
    OBVIOUS
<1>1. CASE writing' = writing
    BY <1>1 DEF Writes
<1>2. CASE writing' # writing
    <2>1. /\ writing # None /\ writing.relation = r
          /\ \/ writing' = [writing EXCEPT !.cache = s.cache]
             \/ writing' = [writing EXCEPT !.shared = FALSE]
        BY <1>2 DEF WriterSees
    <2>2. writing \in Write
        BY <2>1 DEF Inv, TypeInv
    <2>3. writing'.relation = r
        BY <2>1, <2>2 DEF Write
    <2> QED BY <2>1, <2>3 DEF Writes
<1> QED BY <1>1, <1>2

\* A hook starts, and exits.
LEMMA HookImplements ==
    ASSUME Inv, \/ \E relations, snapshot : StartHook(relations, snapshot)
                \/ \E code \in {"success", "failure"} : HookExits(code)
    PROVE  Store!Next
<1>1. ASSUME NEW relations, NEW snapshot, StartHook(relations, snapshot) PROVE Store!Next
    <2>1. ~InContext /\ hook'.phase = "running" /\ UNCHANGED <<settings, node_cache>>
        BY <1>1 DEF StartHook
    <2>2. node_cache = NothingRead
        BY <2>1 DEF Inv, ContextInv
    <2>3. Pending' = Store!NoEdits
        BY <2>1, <2>2, NextNothingPending
    <2>4. Outcome' = None
        BY <2>1 DEF Outcome
    <2>5. Outcome # None
        BY <2>1, NoneAssumption DEF Inv, TypeInv, Outcome, InContext, Phase
    <2>6. Store!Begins
        BY <2>1, <2>3, <2>4, <2>5 DEF Store!Begins
    <2> QED BY <2>6 DEF Store!Next
<1>2. CASE HookExits("failure")
    BY <1>2, EndImplements DEF HookExits
<1>3. CASE HookExits("success")
    <2>1. /\ hook.phase = "running" /\ hook' = [hook EXCEPT !.phase = "success"]
          /\ UNCHANGED <<settings, node_cache, writing>>
        BY <1>3 DEF HookExits
    <2>2. hook'.phase = "success"
        BY <2>1 DEF Inv, TypeInv
    <2>3. Outcome = None /\ Outcome' = "success"
        BY <2>1, <2>2 DEF Outcome
    <2>4. UNCHANGED Pending
        BY <2>1, <2>2 DEF Pending, Unwritten, InContext
    <2>5. Store!Succeeds
        BY <2>1, <2>3, <2>4 DEF Store!Succeeds
    <2> QED BY <2>5 DEF Store!Next
<1> QED BY <1>1, <1>2, <1>3

\* A context's changes are taken over: they are pending as before.
LEMMA FlushImplements ==
    ASSUME Inv, Inv', NEW r \in Relations, FlushNext(r)
    PROVE  [Store!Next]_(Store!svars)
<1>1. /\ writing = None /\ r \in unflushed /\ UNCHANGED settings
      /\ hook.phase = "success"
    BY DEF FlushNext, Inv, ContextInv, InContext
<1>2. CASE ~needs_flushing[r]
    <2>1. UNCHANGED <<hook, node_cache, writing>>
        BY <1>2 DEF FlushNext
    <2> QED BY <1>1, <2>1, SamePending, SameIsStutter
<1>3. CASE needs_flushing[r] /\ node_cache[r] = None /\ settings[r] = None
    <2>1. End("broken")
        BY <1>3 DEF FlushNext
    <2> QED BY <1>1, <2>1, EndImplements
<1>4. CASE needs_flushing[r] /\ ~(node_cache[r] = None /\ settings[r] = None)
    <2>1. PICK s : s = IF node_cache[r] = None THEN Read(r) ELSE node_cache[r]
        OBVIOUS
    <2> DEFINE w == [relation |-> r, pristine |-> s.pristine, cache |-> s.cache,
                     shared |-> TRUE, sent |-> None, content |-> None, fresh |-> TRUE]
    <2>2. /\ writing' = w /\ UNCHANGED hook
          /\ node_cache' = [node_cache EXCEPT ![r] = [s EXCEPT !.pristine = s.cache]]
        BY <1>4, <2>1 DEF FlushNext
    <2>3. /\ s.pristine \in Content /\ s.cache \in Content
          /\ node_cache[r] = None => s.pristine = s.cache
        <3>1. s \in Cached
            BY <1>4, <2>1, ReadFacts DEF Inv, TypeInv
        <3>2. node_cache[r] = None => s.pristine = s.cache
            BY <2>1 DEF Read
        <3> QED BY <3>1, <3>2 DEF Cached
    <2>4. w # None /\ node_cache'[r] # None
        <3>1. w \in Write
            BY <2>3 DEF Write
        <3>2. w # None
            BY <3>1, NoneAssumption
        <3> QED BY <2>2, <3>2 DEF Inv, WriteInv
    <2>5. w.relation = r /\ w.pristine = s.pristine /\ w.cache = s.cache /\ w.content = None
        OBVIOUS
    <2> HIDE DEF w
    <2>6. ASSUME NEW q \in Relations \ {r} PROVE Unwritten(q)' = Unwritten(q)
        <3>1. node_cache'[q] = node_cache[q]
            BY <2>2
        <3>2. ~Writes(q) /\ ~Writes(q)'
            BY <1>1, <2>2, <2>5 DEF Writes
        <3> QED BY <2>2, <3>1, <3>2, OthersPending
    <2>7. Unwritten(r)' = Changes(s)
        <3>1. Unwritten(r)' = Changes(w)
            BY <1>1, <2>2, <2>4, <2>5 DEF Unwritten, InContext
        <3> QED BY <2>5, <3>1 DEF Changes
    <2>8. Unwritten(r) = Changes(s)
        <3>1. CASE node_cache[r] = None
            BY <2>3, <3>1 DEF Unwritten, Changes, NoEdit
        <3>2. CASE node_cache[r] # None
            BY <1>1, <2>1, <3>2 DEF Unwritten, InContext
        <3> QED BY <3>1, <3>2
    <2>9. UNCHANGED <<Pending, Outcome>>
        BY <2>2, <2>6, <2>7, <2>8 DEF Pending, Outcome
    <2> QED BY <1>1, <2>9, SameIsStutter
<1> QED BY <1>2, <1>3, <1>4

\* What write() tries to write is what was pending.
LEMMA WriteReadsImplements ==
    ASSUME Inv, Inv', WriteReads
    PROVE  [Store!Next]_(Store!svars)
<1> DEFINE n == apply_changes(writing.pristine, writing.cache, settings[writing.relation])
           w == [writing EXCEPT !.sent = writing.cache, !.content = n]
<1>1. /\ writing # None /\ hook.phase = "success" /\ writing.content = None /\ writing' = w
      /\ UNCHANGED <<settings, hook, node_cache>>
    BY DEF WriteReads
<1>2. writing \in Write /\ writing.relation \in Relations
    BY <1>1 DEF Inv, TypeInv, Write
<1> HIDE DEF n
<1>3. /\ w.relation = writing.relation /\ w.pristine = writing.pristine
      /\ w.cache = writing.cache /\ w.sent = writing.cache /\ w.content = n
      /\ [w EXCEPT !.cache = w.sent].cache = writing.cache
      /\ [w EXCEPT !.cache = w.sent].pristine = writing.pristine
    BY <1>2 DEF Write
<1> HIDE DEF w
<1>4. w # None /\ n # None
    <2>1. writing' # None
        <3>1. n \in Content
            BY <1>2, ApplyFacts DEF Inv, TypeInv, Write, n
        <3>2. w \in Write
            BY <1>2, <3>1 DEF Write, w
        <3> QED BY <1>1, <3>2, NoneAssumption
    <2>2. n \in Content
        BY <1>2, ApplyFacts DEF Inv, TypeInv, Write, n
    <2> QED BY <1>1, <2>1, <2>2, NoneAssumption
<1>5. Changes(w) = Changes(writing)
    BY <1>3 DEF Changes
<1>6. Changes([w EXCEPT !.cache = w.sent]) = Changes(writing)
    BY <1>3 DEF Changes
<1>7. ASSUME NEW q \in Relations PROVE Unwritten(q)' = Unwritten(q)
    <2>1. Writes(q)' <=> Writes(q)
        BY <1>1, <1>3, <1>4 DEF Writes
    <2>2. CASE Writes(q)
        BY <1>1, <1>3, <1>4, <1>6, <2>1, <2>2 DEF Unwritten, Writes, InContext
    <2>3. CASE ~Writes(q)
        BY <1>1, <2>1, <2>3, OthersPending
    <2> QED BY <2>2, <2>3
<1>8. UNCHANGED <<Pending, Outcome>>
    BY <1>1, <1>7 DEF Pending, Outcome
<1> QED BY <1>1, <1>8, SameIsStutter

\* A write that starts over takes what has been changed since.
LEMMA WriteRetriesImplements ==
    ASSUME Inv, Inv', WriteRetries
    PROVE  Store!Next
<1>1. PICK r \in Relations : r = writing.relation
    BY DEF WriteRetries, Inv, TypeInv, Write
<1>2. /\ writing # None /\ writing' = [writing EXCEPT !.sent = None, !.content = None, !.fresh = TRUE]
      /\ UNCHANGED <<settings, hook, node_cache>>
    BY DEF WriteRetries, again
<1>3. writing'.relation = r
    BY <1>1, <1>2 DEF Inv, TypeInv, Write
<1>4. \A q \in Relations \ {r} : ~Writes(q) /\ ~Writes(q)'
    BY <1>1, <1>3 DEF Writes
<1> QED BY <1>2, <1>4, EditImplements

\* The settings are written: what was pending is applied to them as they are.
LEMMA WriteSetsImplements ==
    ASSUME Inv, Inv', WriteSets
    PROVE  Store!Next
<1>1. PICK r \in Relations : r = writing.relation
    BY DEF WriteSets, Inv, TypeInv, Write
<1>2. /\ writing # None /\ hook.phase = "success"
      /\ writing.content # None /\ writing.fresh
      /\ settings' = [settings EXCEPT ![r] = writing.content] /\ writing' = None
      /\ UNCHANGED <<hook, node_cache>>
    BY <1>1 DEF WriteSets
<1>3. /\ writing \in Write /\ writing.sent # None /\ node_cache[r] # None
      /\ writing.content = apply_changes(writing.pristine, writing.sent, settings[r])
      /\ settings[r] # None /\ settings[r] \in Content
    BY <1>1, <1>2 DEF Inv, TypeInv, WriteInv
<1>4. writing.pristine \in Content /\ writing.sent \in Content
    BY <1>3, SentFacts
<1>5. Unwritten(r) = Changes([writing EXCEPT !.cache = writing.sent])
    BY <1>1, <1>2, <1>3 DEF Unwritten, InContext
<1>6. \A k \in Keys : Unwritten(r)[k] =
        IF writing.sent[k] # writing.pristine[k] THEN writing.sent[k] ELSE None
    <2>1. PICK w : w = [writing EXCEPT !.cache = writing.sent]
        OBVIOUS
    <2>2. w.pristine = writing.pristine /\ w.cache = writing.sent
        BY <1>3, <2>1, SentFacts
    <2>3. \A k \in Keys : Changes(w)[k] = IF w.cache[k] # w.pristine[k] THEN w.cache[k] ELSE None
        BY <1>4, <2>2, ChangesFacts
    <2> QED BY <1>5, <2>1, <2>2, <2>3
<1>7. \A k \in Keys : writing.sent[k] # None
    BY <1>4, NoneAssumption, HookContextAssumption DEF Content, Stored, Values
<1>8. Store!Applied(Unwritten(r), settings[r]) = writing.content
    <2>1. \A k \in Keys :
            (IF Unwritten(r)[k] # None THEN Unwritten(r)[k]
             ELSE IF settings[r] = None THEN Unset ELSE settings[r][k])
            = (IF writing.sent[k] # writing.pristine[k] THEN writing.sent[k]
               ELSE IF settings[r] = None THEN Unset ELSE settings[r][k])
        BY <1>6, <1>7
    <2>2. writing.content =
            [k \in Keys |-> IF writing.sent[k] # writing.pristine[k] THEN writing.sent[k]
                            ELSE IF settings[r] = None THEN Unset ELSE settings[r][k]]
        BY <1>3 DEF apply_changes
    <2>3. Store!Applied(Unwritten(r), settings[r]) =
            [k \in Keys |-> IF Unwritten(r)[k] # None THEN Unwritten(r)[k]
                            ELSE IF settings[r] = None THEN Unset ELSE settings[r][k]]
        BY DEF Store!Applied
    <2> QED BY <2>1, <2>2, <2>3
<1>9. \A q \in Relations \ {r} : ~Writes(q) /\ ~Writes(q)'
    BY <1>1, <1>2 DEF Writes
<1>10. /\ Pending' = [Pending EXCEPT ![r] = Unwritten(r)']
       /\ Unwritten(r)' \in Store!Edit /\ UNCHANGED Outcome
    BY <1>2, <1>9, OnlyPending
<1>11. Outcome = "success" /\ Pending[r] = Unwritten(r)
    BY <1>2 DEF Outcome, Pending
<1>12. settings' = [settings EXCEPT ![r] = Store!Applied(Pending[r], settings[r])]
    BY <1>2, <1>8, <1>11
<1>13. Store!Commits(r)
    BY <1>3, <1>10, <1>11, <1>12 DEF Store!Commits
<1> QED BY <1>13 DEF Store!Next

\* A command changes what is pending in one relation, or nothing.
LEMMA CommandImplements ==
    ASSUME Inv, Inv', NEW c \in Clients, Command(c)
    PROVE  [Store!Next]_(Store!svars)
<1>1. ASSUME NEW r \in Relations, NEW data, NEW orderly, NEW first,
             ChangeSettings(c, r, data, orderly, first), UNCHANGED <<settings, hook>>
      PROVE  [Store!Next]_(Store!svars)
    <2>1. CASE cached(r)
        <3>1. /\ node_cache' = [node_cache EXCEPT ![r] = Set(node_cache[r], data)]
              /\ WriterSees(r, Set(node_cache[r], data), TRUE)
            BY <1>1, <2>1 DEF ChangeSettings, Inv, TypeInv
        <3>2. \A q \in Relations \ {r} : /\ Writes(q)' <=> Writes(q)
                                         /\ Writes(q) => writing' = writing
            BY <3>1, WriterSeesOne
        <3>3. \A q \in Relations \ {r} : node_cache'[q] = node_cache[q]
            BY <3>1
        <3> QED BY <1>1, <3>2, <3>3, EditImplements
    <2>2. CASE ~cached(r)
        <3>1. UNCHANGED <<node_cache, writing>>
            BY <1>1, <2>2 DEF ChangeSettings
        <3> QED BY <1>1, <3>1, SamePending, SameIsStutter
    <2> QED BY <2>1, <2>2
<1>2. CASE SettingsRead(c)
    <2>1. PICK r, data : r = commands[c].relation /\ data = commands[c].data
        OBVIOUS
    <2>2. /\ commands[c] # None /\ commands[c].item = None /\ UNCHANGED <<settings, hook>>
          /\ IF settings[r] = None THEN UNCHANGED <<node_cache, writing>>
             ELSE /\ node_cache' = [node_cache EXCEPT ![r] = Set(Read(r), data)]
                  /\ WriterSees(r, node_cache'[r], FALSE)
        BY <1>2, <2>1 DEF SettingsRead
    <2>3. CASE settings[r] = None
        BY <2>2, <2>3, SamePending, SameIsStutter
    <2>4. CASE settings[r] # None
        <3>1. r \in Relations
            <4>1. Late.item = "late" /\ "late" # None /\ None \notin Item
                BY NoneAssumption DEF Late
            <4>2. "relation-ids" # None
                BY NoneAssumption
            <4> QED BY <2>1, <2>2, <4>1, <4>2 DEF Inv, ContextInv
        <3>2. \A q \in Relations \ {r} : /\ Writes(q)' <=> Writes(q)
                                         /\ Writes(q) => writing' = writing
            BY <2>2, <2>4, <3>1, WriterSeesOne
        <3>3. \A q \in Relations \ {r} : node_cache'[q] = node_cache[q]
            <4>1. node_cache' = [node_cache EXCEPT ![r] = Set(Read(r), data)]
                BY <2>2, <2>4
            <4> QED BY <4>1
        <3> QED BY <2>2, <3>1, <3>2, <3>3, EditImplements
    <2> QED BY <2>3, <2>4
<1>3. CASE \E r \in Relations, data \in Data : relation_set(c, r, data)
    BY <1>1, <1>3 DEF relation_set
<1>4. CASE TopologyRead(c)
    <2>1. PICK r, data : r = commands[c].relation /\ data = commands[c].data
        OBVIOUS
    <2>2. /\ commands[c] # None /\ commands[c].reads = "topology" /\ UNCHANGED <<settings, hook>>
          /\ \/ commands[c].item = None /\ ChangeSettings(c, r, data, tidy, "node")
             \/ UNCHANGED <<node_cache, writing>>
        BY <1>4, <2>1 DEF TopologyRead
    <2>3. CASE commands[c].item = None /\ ChangeSettings(c, r, data, tidy, "node")
        <3>1. None \notin Item /\ None # "relation-ids"
            BY NoneAssumption
        <3>2. r \in Relations
            BY <2>1, <2>2, <2>3, <3>1, Waits
        <3> QED BY <1>1, <2>2, <2>3, <3>2
    <2>4. CASE UNCHANGED <<node_cache, writing>>
        BY <2>2, <2>4, SamePending, SameIsStutter
    <2> QED BY <2>2, <2>3, <2>4
<1>5. CASE config_get(c) \/ relation_get(c) \/ relation_ids(c) \/ ItemRead(c) \/ ReadInVain(c)
    <2>1. UNCHANGED <<settings, hook, node_cache, writing>>
        BY <1>5 DEF config_get, relation_get, relation_ids, Ask, ItemRead, ReadInVain, context
    <2> QED BY <2>1, SamePending, SameIsStutter
<1> QED BY <1>2, <1>3, <1>4, <1>5 DEF Command

\* The address is written: the unit joins.
LEMMA JoinSetsImplements ==
    ASSUME Inv, NEW r \in Relations, JoinSets(r)
    PROVE  Store!Next
<1>1. /\ joining[r] # None /\ joining[r].fresh
      /\ settings' = [settings EXCEPT ![r] = joining[r].content]
      /\ writing' = superseded(writing, r) /\ UNCHANGED <<hook, node_cache>>
    BY DEF JoinSets
<1>2. /\ joining[r].content = update_address(joining[r].address, settings[r])
      /\ joining[r].address \in 1..MaxJoins
    BY <1>1 DEF Inv, TypeInv, WriteInv, Update
<1>3. PICK a \in 1..MaxJoins : joining[r].content = update_address(a, settings[r])
    BY <1>2
<1>4. a # None /\ Address \in Keys
    BY NoneAssumption, HookContextAssumption
<1> DEFINE e == [Store!NoEdit EXCEPT ![Address] = a]
<1>5. \A k \in Keys : e[k] = IF k = Address THEN a ELSE None
    BY <1>4 DEF Store!NoEdit
<1> HIDE DEF e
<1>6. Store!Applied(e, settings[r]) = joining[r].content
    <2>1. \A k \in Keys :
            (IF e[k] # None THEN e[k] ELSE IF settings[r] = None THEN Unset ELSE settings[r][k])
            = (IF k = Address THEN a ELSE IF settings[r] = None THEN Unset ELSE settings[r][k])
        BY <1>4, <1>5
    <2> QED BY <1>3, <2>1 DEF Store!Applied, update_address
<1>7. UNCHANGED <<Pending, Outcome>>
    <2>1. ASSUME NEW q \in Relations PROVE Unwritten(q)' = Unwritten(q)
        <3>1. CASE writing = None
            BY <1>1, <3>1 DEF superseded, Unwritten, InContext
        <3>2. CASE writing # None
            <4>1. writing \in Write
                BY <3>2 DEF Inv, TypeInv
            <4>2. /\ writing' \in Write /\ writing'.relation = writing.relation
                  /\ writing'.pristine = writing.pristine /\ writing'.cache = writing.cache
                  /\ writing'.sent = writing.sent /\ writing'.content = writing.content
                BY <1>1, <4>1, SupersededWrite
            <4>3. writing' # None
                BY <4>2, NoneAssumption
            <4>4. Changes(writing') = Changes(writing)
                BY <4>2 DEF Changes
            <4>5. writing.content # None =>
                    Changes([writing' EXCEPT !.cache = writing'.sent]) =
                    Changes([writing EXCEPT !.cache = writing.sent])
                <5>1. /\ [writing' EXCEPT !.cache = writing'.sent].cache = writing.sent
                      /\ [writing' EXCEPT !.cache = writing'.sent].pristine = writing.pristine
                      /\ [writing EXCEPT !.cache = writing.sent].cache = writing.sent
                      /\ [writing EXCEPT !.cache = writing.sent].pristine = writing.pristine
                    BY <4>1, <4>2 DEF Write
                <5> QED BY <5>1 DEF Changes
            <4> QED BY <1>1, <3>2, <4>2, <4>3, <4>4, <4>5 DEF Unwritten, InContext
        <3> QED BY <3>1, <3>2
    <2> QED BY <1>1, <2>1 DEF Pending, Outcome
<1>8. a \in Values \cup 0..MaxJoins
    OBVIOUS
<1>9. settings' = [settings EXCEPT ![r] = Store!Applied(e, settings[r])]
    BY <1>1, <1>6
<1>10. Store!Joins(r)
    BY <1>7, <1>8, <1>9 DEF Store!Joins, e
<1> QED BY <1>10 DEF Store!Next

\* The settings store starts as the agent does.
LEMMA InitImplements == Init => Store!Init
<1> SUFFICES ASSUME Init PROVE Store!Init
    OBVIOUS
<1>1. /\ settings \in [Relations -> {None, JoinedBefore}] /\ node_cache = NothingRead
      /\ hook = [number |-> 0, phase |-> "failure"]
    BY DEF Init
<1>2. Pending = Store!NoEdits
    BY <1>1, NothingPending
<1>3. Outcome = "failure"
    BY <1>1 DEF Outcome
<1>4. 0 \in Values \cup 0..MaxJoins
    BY HookContextAssumption
<1>5. JoinedBefore = [Store!Blank EXCEPT ![Address] = 0]
    BY HookContextAssumption DEF JoinedBefore, Store!Blank
<1>6. settings \in [Relations -> {None} \cup
            {[Store!Blank EXCEPT ![Address] = a] : a \in Values \cup 0..MaxJoins}]
    BY <1>1, <1>4, <1>5
<1> QED BY <1>2, <1>3, <1>6 DEF Store!Init, Store!NoEdits

\* Every step of the contexts is one of the settings store, or none.
LEMMA StepImplements ==
    ASSUME Inv, Inv', [Next]_vars
    PROVE  [Store!Next]_(Store!svars)
<1>1. CASE \/ UnitHook \/ BrokenHook \/ \E r \in Relations : RelationHook(r)
           \/ \E code \in {"success", "failure"} : HookExits(code)
    <2>1. \/ \E relations, snapshot : StartHook(relations, snapshot)
          \/ \E code \in {"success", "failure"} : HookExits(code)
        BY <1>1 DEF UnitHook, BrokenHook, RelationHook
    <2> QED BY <2>1, HookImplements
<1>2. ASSUME NEW r \in Relations, FlushNext(r) PROVE [Store!Next]_(Store!svars)
    BY <1>2, FlushImplements
<1>3. CASE WriteReads
    BY <1>3, WriteReadsImplements
<1>4. CASE WriteRetries
    BY <1>4, WriteRetriesImplements
<1>5. CASE WriteSets
    BY <1>5, WriteSetsImplements
<1>6. CASE FlushFails \/ HookSucceeds
    <2>1. CASE FlushFails
        BY <2>1, EndImplements DEF FlushFails
    <2>2. CASE HookSucceeds
        BY <2>2, EndImplements DEF HookSucceeds
    <2> QED BY <1>6, <2>1, <2>2
<1>7. ASSUME NEW c \in Clients, Command(c) PROVE [Store!Next]_(Store!svars)
    BY <1>7, CommandImplements
<1>8. ASSUME NEW r \in Relations, JoinSets(r) PROVE [Store!Next]_(Store!svars)
    BY <1>8, JoinSetsImplements
<1>9. CASE \/ \E r \in Relations : Join(r) \/ JoinRetries(r) \/ RelationRemoved(r)
           \/ InvokerStart \/ WorldChanges \/ UNCHANGED vars
    <2>1. UNCHANGED <<settings, hook, node_cache, writing>>
        BY <1>9 DEF InvokerStart, Join, JoinRetries, RelationRemoved, WorldChanges, context, vars
    <2> QED BY <2>1, SamePending, SameIsStutter
<1> QED BY <1>1, <1>2, <1>3, <1>4, <1>5, <1>6, <1>7, <1>8, <1>9 DEF Next

\* The buffered, retried and merged writes of hook contexts (hook.py:331,
\* utils.py:212) have the effect of applying each relation's changes at once,
\* after the hook succeeded, to the settings as they are then.
THEOREM Refinement == Spec => ImplementsSettingsStore
<1>1. Inv /\ Inv' /\ [Next]_vars => [Store!Next]_(Store!svars)
    BY StepImplements
<1> QED BY <1>1, InitImplements, Invariance, PTL
        DEF Spec, ImplementsSettingsStore, Store!SettingsSpec
===============================================================================
