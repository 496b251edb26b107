-------------------------- MODULE HookExecutorProofs --------------------------
(***************************************************************************)
(* Proofs about the hook executor.  Both invariants rest on the lock: who  *)
(* runs a hook, pauses the executor or has just been granted the lock is   *)
(* at the head of run_lock, so that there is never more than one of them.  *)
(***************************************************************************)
EXTENDS HookExecutor, TLAPS

LoopPlace == {"off", "loop", "get", "got", "acquire", "locked", "running", "ran", "ended"}
LifecyclePlace ==
    {"off", "started", "acquire", "stopping", "unlock", "stopped", "prepared",
     "running", "ran", "resume"}

\* The places in which a party holds the lock.
Holding == {"locked", "running", "ran", "stopping", "unlock", "prepared"}

PlacesOK ==
    /\ at \in [Party -> LoopPlace \cup LifecyclePlace]
    /\ \A l \in Loops : at[l] \in LoopPlace
    /\ at[Lifecycle] \in LifecyclePlace
    /\ DOMAIN has = Party /\ turn \in Seq(Party)

\* The loops that wait for the queue, each once.
GettersWait ==
    /\ getters \in Seq(Loops)
    /\ \A i \in 1..Len(getters) : at[getters[i]] = "get"
    /\ \A i, j \in 1..Len(getters) : getters[i] = getters[j] => i = j

\* The lock's holder and then those that wait for it, each once.
LockOrder ==
    /\ run_lock \in Seq(Party)
    /\ \A i, j \in 1..Len(run_lock) : run_lock[i] = run_lock[j] => i = j
    /\ \A p \in Party : at[p] \in Holding <=> run_lock # <<>> /\ run_lock[1] = p
    /\ \A p \in Party : at[p] = "acquire" <=> \E i \in 2..Len(run_lock) : run_lock[i] = p

LockInv == PlacesOK /\ GettersWait /\ LockOrder

Inv == LockInv /\ OwnContext /\ PausedMeansPaused
-----------------------------------------------------------------------------
(* The lock *)

\* Asking for the lock (executor.py's _run_lock.acquire) puts a party that has
\* nothing to do with it last in its order.
LEMMA AcquireKeepsOrder ==
    ASSUME PlacesOK, LockOrder, NEW p \in Party, NEW next, NEW rest,
           at[p] \notin Holding, at[p] # "acquire", next \in Holding,
           acquire(p, next, rest)
    PROVE  LockOrder'
<1>1. /\ run_lock \in Seq(Party) /\ run_lock' = Append(run_lock, p)
      /\ Len(run_lock) \in Nat /\ Len(run_lock') = Len(run_lock) + 1
      /\ run_lock' \in Seq(Party) /\ run_lock'[Len(run_lock) + 1] = p
      /\ \A i \in 1..Len(run_lock) : run_lock'[i] = run_lock[i]
    BY DEF acquire, LockOrder
<1>2. \A i \in 1..Len(run_lock) : run_lock[i] # p
    <2> SUFFICES ASSUME NEW i \in 1..Len(run_lock), run_lock[i] = p PROVE FALSE
        OBVIOUS
    <2>1. CASE i = 1
        BY <1>1, <2>1 DEF LockOrder
    <2>2. CASE i # 1
        <3>1. i \in 2..Len(run_lock)
            BY <1>1, <2>2
        <3> QED BY <3>1 DEF LockOrder
    <2> QED BY <2>1, <2>2
<1>3. \A i, j \in 1..Len(run_lock') : run_lock'[i] = run_lock'[j] => i = j
    <2> TAKE i \in 1..Len(run_lock'), j \in 1..Len(run_lock')
    <2>1. /\ i \in 1..Len(run_lock) \/ i = Len(run_lock) + 1
          /\ j \in 1..Len(run_lock) \/ j = Len(run_lock) + 1
        BY <1>1
    <2> QED BY <1>1, <1>2, <2>1 DEF LockOrder
<1>4. /\ at'[p] = IF run_lock = <<>> THEN next ELSE "acquire"
      /\ \A q \in Party : q # p => at'[q] = at[q]
    BY DEF acquire, PlacesOK
<1>5. run_lock = <<>> <=> Len(run_lock) = 0
    BY <1>1
<1>6. ASSUME NEW q \in Party
      PROVE  at'[q] \in Holding <=> run_lock' # <<>> /\ run_lock'[1] = q
    <2>1. CASE run_lock = <<>>
        <3>1. ~ at[q] \in Holding /\ run_lock'[1] = p /\ run_lock' # <<>>
            BY <1>1, <1>5, <2>1 DEF LockOrder
        <3> QED BY <3>1, <2>1, <1>4
    <2>2. CASE run_lock # <<>>
        <3>1. run_lock'[1] = run_lock[1] /\ run_lock' # <<>> /\ run_lock[1] # p
            BY <1>1, <1>2, <1>5, <2>2
        <3>2. "acquire" \notin Holding
            BY DEF Holding
        <3> QED BY <3>1, <3>2, <2>2, <1>4 DEF LockOrder
    <2> QED BY <2>1, <2>2
<1>7. ASSUME NEW q \in Party
      PROVE  at'[q] = "acquire" <=> \E i \in 2..Len(run_lock') : run_lock'[i] = q
    <2>1. CASE q # p
        <3>1. (\E i \in 2..Len(run_lock') : run_lock'[i] = q)
              <=> (\E i \in 2..Len(run_lock) : run_lock[i] = q)
            <4>1. ASSUME NEW i \in 2..Len(run_lock'), run_lock'[i] = q
                  PROVE  i \in 2..Len(run_lock) /\ run_lock[i] = q
                BY <1>1, <2>1, <4>1
            <4>2. ASSUME NEW i \in 2..Len(run_lock), run_lock[i] = q
                  PROVE  i \in 2..Len(run_lock') /\ run_lock'[i] = q
                BY <1>1, <4>2
            <4> QED BY <4>1, <4>2
        <3> QED BY <3>1, <2>1, <1>4 DEF LockOrder
    <2>2. CASE q = p /\ run_lock = <<>>
        <3>1. next # "acquire" /\ Len(run_lock') = 1
            BY <1>1, <1>5, <2>2 DEF Holding
        <3> QED BY <3>1, <2>2, <1>4
    <2>3. CASE q = p /\ run_lock # <<>>
        <3>1. Len(run_lock) + 1 \in 2..Len(run_lock')
            BY <1>1, <1>5, <2>3
        <3> QED BY <3>1, <2>3, <1>1, <1>4
    <2> QED BY <2>1, <2>2, <2>3
<1> QED BY <1>1, <1>3, <1>6, <1>7 DEF LockOrder

\* Giving the lock up passes it on to the first that waits for it.
LEMMA ReleaseKeepsOrder ==
    ASSUME PlacesOK, LockOrder, NEW p \in Party, NEW next,
           at[p] \in Holding, next \notin Holding, next # "acquire", release(p, next)
    PROVE  /\ LockOrder'
           /\ \A q \in Party : at'[q] = at[q] \/ (q = p /\ at'[q] = next)
                                 \/ (at[q] = "acquire" /\ at'[q] = granted(q))
<1>1. /\ run_lock \in Seq(Party) /\ run_lock' = Tail(run_lock)
      /\ run_lock # <<>> /\ run_lock[1] = p
      /\ Len(run_lock) \in Nat /\ Len(run_lock) >= 1
      /\ Len(run_lock') = Len(run_lock) - 1
      /\ run_lock' \in Seq(Party)
      /\ \A i \in 1..Len(run_lock') : run_lock'[i] = run_lock[i + 1]
    BY DEF release, LockOrder
<1>2. \A i, j \in 1..Len(run_lock') : run_lock'[i] = run_lock'[j] => i = j
    <2> TAKE i \in 1..Len(run_lock'), j \in 1..Len(run_lock')
    <2>1. i + 1 \in 1..Len(run_lock) /\ j + 1 \in 1..Len(run_lock)
        BY <1>1
    <2> QED BY <1>1, <2>1 DEF LockOrder
<1>3. \A q \in Party : granted(q) \in Holding
    BY DEF granted, Holding
<1>4. ASSUME NEW q \in Party, q # p PROVE at[q] \notin Holding
    BY <1>1, <1>4 DEF LockOrder
<1>5. CASE Len(run_lock) > 1
    <2> DEFINE s == run_lock[2]
    <2>1. s \in Party /\ s # p /\ at[s] = "acquire" /\ run_lock'[1] = s /\ run_lock' # <<>>
        <3>1. 2 \in 2..Len(run_lock) /\ 2 \in 1..Len(run_lock) /\ 1 \in 1..Len(run_lock)
            BY <1>1, <1>5
        <3>2. s \in Party /\ s # p /\ at[s] = "acquire"
            BY <1>1, <3>1 DEF LockOrder
        <3>3. 1 \in 1..Len(run_lock') /\ run_lock' # <<>>
            BY <1>1, <1>5
        <3> QED BY <1>1, <3>2, <3>3
    <2>2. at' = [at EXCEPT ![p] = next, ![s] = granted(s)]
        BY <1>5 DEF release
    <2>3. /\ at'[p] = next /\ at'[s] = granted(s)
          /\ \A q \in Party : q # p /\ q # s => at'[q] = at[q]
        BY <2>1, <2>2 DEF PlacesOK
    <2> HIDE DEF s
    <2>4. ASSUME NEW q \in Party
          PROVE  at'[q] \in Holding <=> run_lock' # <<>> /\ run_lock'[1] = q
        BY <1>3, <1>4, <2>1, <2>3
    <2>5. ASSUME NEW q \in Party
          PROVE  at'[q] = "acquire" <=> \E i \in 2..Len(run_lock') : run_lock'[i] = q
        <3>1. CASE q = p
            <4>1. \A i \in 2..Len(run_lock') : run_lock'[i] # p
                <5> TAKE i \in 2..Len(run_lock')
                <5>1. i + 1 \in 2..Len(run_lock) /\ i \in 1..Len(run_lock')
                      /\ 1 \in 1..Len(run_lock) /\ i + 1 \in 1..Len(run_lock) /\ i + 1 # 1
                    BY <1>1
                <5> QED BY <1>1, <5>1 DEF LockOrder
            <4> QED BY <3>1, <4>1, <2>3
        <3>2. CASE q = s
            <4>1. granted(q) # "acquire"
                BY DEF granted
            <4>2. \A i \in 2..Len(run_lock') : run_lock'[i] # s
                <5> TAKE i \in 2..Len(run_lock')
                <5>1. i \in 1..Len(run_lock') /\ 1 \in 1..Len(run_lock') /\ i # 1
                    BY <1>1
                <5> QED BY <1>2, <2>1, <5>1
            <4> QED BY <3>2, <4>1, <4>2, <2>3
        <3>3. CASE q # p /\ q # s
            <4>1. ASSUME NEW i \in 2..Len(run_lock'), run_lock'[i] = q
                  PROVE  i + 1 \in 2..Len(run_lock) /\ run_lock[i + 1] = q
                BY <1>1, <4>1
            <4>2. ASSUME NEW i \in 2..Len(run_lock), run_lock[i] = q
                  PROVE  i - 1 \in 2..Len(run_lock') /\ run_lock'[i - 1] = q
                <5>1. i # 2
                    BY <4>2, <3>3 DEF s
                <5>2. i - 1 \in 2..Len(run_lock') /\ i - 1 \in 1..Len(run_lock')
                      /\ (i - 1) + 1 = i
                    BY <1>1, <5>1
                <5> QED BY <1>1, <5>2, <4>2
            <4> QED BY <4>1, <4>2, <3>3, <2>3 DEF LockOrder
        <3> QED BY <3>1, <3>2, <3>3
    <2> QED BY <1>1, <1>2, <2>1, <2>3, <2>4, <2>5 DEF LockOrder
<1>6. CASE ~ Len(run_lock) > 1
    <2>1. at' = [at EXCEPT ![p] = next] /\ Len(run_lock') = 0 /\ run_lock' = <<>>
          /\ Len(run_lock) = 1
        BY <1>1, <1>6 DEF release
    <2>2. at'[p] = next /\ \A q \in Party : q # p => at'[q] = at[q]
        BY <2>1 DEF PlacesOK
    <2>3. ASSUME NEW q \in Party
          PROVE  at'[q] \notin Holding /\ at'[q] # "acquire"
        <3>1. at[q] # "acquire"
            BY <2>1 DEF LockOrder
        <3> QED BY <3>1, <2>2, <1>4
    <2>4. ~ \E i \in 2..Len(run_lock') : TRUE
        BY <2>1
    <2> QED BY <1>1, <1>2, <2>1, <2>2, <2>3, <2>4 DEF LockOrder
<1> QED BY <1>5, <1>6

\* Nobody asks for the lock or gives it up.
LEMMA LockUntouched ==
    ASSUME LockOrder, UNCHANGED run_lock,
           \A q \in Party : /\ at'[q] \in Holding <=> at[q] \in Holding
                            /\ at'[q] = "acquire" <=> at[q] = "acquire"
    PROVE  LockOrder'
BY DEF LockOrder

\* No two parties hold the lock.
LEMMA OneHolder ==
    ASSUME LockOrder, NEW p \in Party, NEW q \in Party,
           at[p] \in Holding, at[q] \in Holding
    PROVE  p = q
BY DEF LockOrder
-----------------------------------------------------------------------------
(* The queue *)

\* No loop that waits for the queue is called.
LEMMA GettersUntouched ==
    ASSUME GettersWait, UNCHANGED getters,
           \A q \in Party : at[q] = "get" => at'[q] = "get"
    PROVE  GettersWait'
<1>1. \A i \in 1..Len(getters) : getters[i] \in Party
    BY DEF GettersWait, Party
<1> QED BY <1>1 DEF GettersWait

\* The first loop that waits for the queue is called with an item.
LEMMA GetterCalled ==
    ASSUME PlacesOK, GettersWait, getters # <<>>, getters' = Tail(getters),
           \A q \in Party : q # Head(getters) /\ at[q] = "get" => at'[q] = "get"
    PROVE  GettersWait' /\ Head(getters) \in Loops /\ at[Head(getters)] = "get"
<1>1. /\ getters \in Seq(Loops) /\ getters' \in Seq(Loops) /\ Len(getters) \in Nat
      /\ Len(getters) >= 1 /\ Len(getters') = Len(getters) - 1
      /\ Head(getters) = getters[1] /\ 1 \in 1..Len(getters)
      /\ \A i \in 1..Len(getters') : getters'[i] = getters[i + 1]
    BY DEF GettersWait
<1>2. \A i \in 1..Len(getters') : i + 1 \in 1..Len(getters) /\ i + 1 # 1
    BY <1>1
<1>3. \A i \in 1..Len(getters') : at'[getters'[i]] = "get"
    <2> TAKE i \in 1..Len(getters')
    <2>1. getters[i + 1] # getters[1] /\ getters[i + 1] \in Loops
        BY <1>1, <1>2 DEF GettersWait
    <2> QED BY <1>1, <1>2, <2>1 DEF GettersWait, Party
<1>4. \A i, j \in 1..Len(getters') : getters'[i] = getters'[j] => i = j
    <2> TAKE i \in 1..Len(getters'), j \in 1..Len(getters')
    <2>1. getters'[i] = getters'[j] => i + 1 = j + 1
        BY <1>1, <1>2 DEF GettersWait
    <2> QED BY <2>1
<1> QED BY <1>1, <1>3, <1>4 DEF GettersWait
-----------------------------------------------------------------------------
(* Every step keeps the invariant *)

\* The reactor's turn is a stack of parties; its head is one of them.
LEMMA TurnHead ==
    ASSUME PlacesOK, ~Idle
    PROVE  /\ Head(turn) \in Party /\ Tail(turn) \in Seq(Party)
           /\ \A q \in Party : <<q>> \o turn \in Seq(Party)
           /\ \A q \in Party : <<q>> \o Tail(turn) \in Seq(Party)
BY DEF PlacesOK, Idle

\* What a hook that is run does to the parties (_run_one, executor.py).
LEMMA RunOneEffect ==
    ASSUME PlacesOK, NEW p \in Party, run_one(p), InTurn(p, at[p])
    PROVE  /\ at'[p] \in {"ran", "running"}
           /\ \A q \in Party : q # p => at'[q] = at[q]
           /\ at' = [at EXCEPT ![p] = at'[p]]
           /\ turn' \in Seq(Party)
           /\ at'[p] = "running" => context' = has[p]
BY TurnHead DEF run_one, PlacesOK, InTurn

\* Loops are parties, and the lifecycle is another one.
LEMMA Parties ==
    /\ Loops \subseteq Party /\ Lifecycle \in Party
    /\ \A l \in Loops : l # Lifecycle
    /\ "acquire" \notin Holding /\ "get" \notin Holding
BY DEF Loops, Party, Lifecycle, Holding

\* The hook that runs has its own context unless another one starts or ends.
LEMMA ContextUntouched ==
    ASSUME OwnContext, UNCHANGED context,
           \A q \in Party : at'[q] = "running" => at[q] = "running" /\ has'[q] = has[q]
    PROVE  OwnContext'
BY DEF OwnContext

\* While no loop comes to run a hook, the executor may be stopped or not.
LEMMA PauseUntouched ==
    ASSUME PausedMeansPaused, running => running',
           \A l \in Loops : at'[l] = "running" => at[l] = "running"
    PROVE  PausedMeansPaused'
BY DEF PausedMeansPaused

\* start's loop reads _running and then the queue.
LEMMA LoopGetKeepsInv ==
    ASSUME Inv, NEW l \in Loops, LoopGet(l)
    PROVE  Inv'
<1> USE Parties DEF Inv, LockInv
<1>1. /\ ~Idle /\ Head(turn) = l /\ at[l] = "loop" /\ UNCHANGED <<running, run_lock, context>>
      /\ \E x \in {"ended", "get", "got"} : at' = [at EXCEPT ![l] = x]
      /\ \E x : has' = [has EXCEPT ![l] = x]
      /\ turn' = Tail(turn) \/ turn' = turn
    BY DEF LoopGet, InTurn, queue, process
<1>2. /\ at'[l] \in {"ended", "get", "got"}
      /\ \A q \in Party : q # l => at'[q] = at[q] /\ has'[q] = has[q]
    BY <1>1 DEF PlacesOK
<1>3. PlacesOK'
    BY <1>1, TurnHead DEF PlacesOK, LoopPlace, LifecyclePlace
<1>4. LockOrder'
    BY <1>1, <1>2, LockUntouched DEF Holding
<1>5. GettersWait'
    <2>1. CASE UNCHANGED getters
        BY <1>1, <1>2, <2>1, GettersUntouched
    <2>2. CASE getters' = Append(getters, l) /\ at'[l] = "get"
        <3>1. /\ getters \in Seq(Loops) /\ getters' \in Seq(Loops) /\ Len(getters) \in Nat
              /\ Len(getters') = Len(getters) + 1 /\ getters'[Len(getters) + 1] = l
              /\ \A i \in 1..Len(getters) : getters'[i] = getters[i] /\ getters[i] \in Party
            BY <2>2 DEF GettersWait
        <3>2. \A i \in 1..Len(getters) : getters[i] # l /\ at'[getters[i]] = "get"
            BY <1>1, <1>2, <3>1 DEF GettersWait
        <3>3. \A i \in 1..Len(getters') : i \in 1..Len(getters) \/ i = Len(getters) + 1
            BY <3>1
        <3>4. \A i \in 1..Len(getters') : at'[getters'[i]] = "get"
            BY <3>1, <3>2, <3>3, <2>2
        <3>5. \A i, j \in 1..Len(getters') : getters'[i] = getters'[j] => i = j
            BY <3>1, <3>2, <3>3 DEF GettersWait
        <3> QED BY <3>1, <3>4, <3>5 DEF GettersWait
    <2> QED BY <1>1, <2>1, <2>2 DEF LoopGet, queue, PlacesOK
<1>6. OwnContext'
    BY <1>1, <1>2, ContextUntouched
<1>7. PausedMeansPaused'
    BY <1>1, <1>2, PauseUntouched
<1> QED BY <1>3, <1>4, <1>5, <1>6, <1>7

\* A loop that was given an item asks for the lock, or looks again.
LEMMA LoopGotKeepsInv ==
    ASSUME Inv, NEW l \in Loops, LoopGot(l)
    PROVE  Inv'
<1> USE Parties DEF Inv, LockInv
<1>1. /\ ~Idle /\ Head(turn) = l /\ at[l] = "got"
      /\ UNCHANGED <<running, getters, context, has>>
      /\ \E x \in {"loop", "acquire", "locked"} : at' = [at EXCEPT ![l] = x]
      /\ turn' \in {Tail(turn), turn, <<l>> \o Tail(turn)}
    BY DEF LoopGot, InTurn, queue, process, acquire
<1>2. /\ at'[l] \in {"loop", "acquire", "locked"}
      /\ \A q \in Party : q # l => at'[q] = at[q]
    BY <1>1 DEF PlacesOK
<1>3. PlacesOK'
    BY <1>1, TurnHead DEF PlacesOK, LoopPlace, LifecyclePlace
<1>4. LockOrder'
    <2>1. CASE has[l] = STOP
        <3>1. UNCHANGED run_lock /\ at'[l] = "loop"
            BY <2>1 DEF LoopGot, PlacesOK
        <3> QED BY <1>1, <1>2, <3>1, LockUntouched DEF Holding
    <2>2. CASE has[l] # STOP
        <3>1. acquire(l, "locked", Tail(turn))
            BY <2>2 DEF LoopGot
        <3> QED BY <1>1, <3>1, AcquireKeepsOrder DEF Holding
    <2> QED BY <2>1, <2>2
<1>5. GettersWait'
    BY <1>1, <1>2, GettersUntouched
<1>6. OwnContext'
    BY <1>1, <1>2, ContextUntouched
<1>7. PausedMeansPaused'
    BY <1>1, <1>2, PauseUntouched
<1> QED BY <1>3, <1>4, <1>5, <1>6, <1>7

\* A party that gives the lock up lets no hook run, and disturbs no other.
LEMMA ReleaseKeepsInv ==
    ASSUME Inv, NEW p \in Party, NEW next, release(p, next),
           at[p] \in Holding, next \notin Holding, next # "acquire",
           next \in (IF p = Lifecycle THEN LifecyclePlace ELSE LoopPlace),
           UNCHANGED <<running, getters, context>>,
           DOMAIN has' = Party, \A q \in Party : q # p => has'[q] = has[q]
    PROVE  Inv'
<1> USE Parties DEF Inv, LockInv
<1>1. /\ LockOrder'
      /\ \A q \in Party : at'[q] = at[q] \/ (q = p /\ at'[q] = next)
                            \/ (at[q] = "acquire" /\ at'[q] = granted(q))
    BY ReleaseKeepsOrder
<1>2. at'[p] = next
    <2>1. at'[p] \notin Holding
        <3>1. 2 \in 1..Len(run_lock) /\ 1 \in 1..Len(run_lock) => run_lock[2] # p
            BY DEF LockOrder
        <3>2. run_lock \in Seq(Party) /\ Len(run_lock) \in Nat
            BY DEF LockOrder
        <3>3. Len(run_lock) > 1 => 2 \in 1..Len(run_lock) /\ 1 \in 1..Len(run_lock)
            BY <3>2
        <3>4. Len(run_lock) > 1 => run_lock[2] \in Party
            BY <3>2, <3>3
        <3> QED BY <3>1, <3>3, <3>4 DEF release, PlacesOK
    <2> QED BY <2>1, <1>1
<1>3. /\ granted(Lifecycle) \in {"stopping", "prepared"}
      /\ \A l \in Loops : granted(l) = "locked"
    BY DEF granted
<1>4. /\ at'[Lifecycle] \in LifecyclePlace /\ \A l \in Loops : at'[l] \in LoopPlace
      /\ \A q \in Party : at'[q] = "running" => at[q] = "running" /\ q # p
      /\ \A q \in Party : at[q] = "get" => at'[q] = "get"
    BY <1>1, <1>2, <1>3 DEF PlacesOK, LoopPlace, LifecyclePlace, Holding, Party
<1>5. DOMAIN at' = Party /\ at' = [q \in Party |-> at'[q]]
    BY DEF release, PlacesOK
<1>6. at' \in [Party -> LoopPlace \cup LifecyclePlace]
    BY <1>4, <1>5 DEF Party
<1>7. turn' \in Seq(Party)
    <2>1. Len(run_lock) > 1 => run_lock[2] \in Party
        BY DEF LockOrder
    <2>2. \A q \in Party : <<q>> \o turn \in Seq(Party)
        BY DEF PlacesOK
    <2>3. CASE Len(run_lock) > 1
        BY <2>1, <2>2, <2>3 DEF release
    <2>4. CASE ~ Len(run_lock) > 1
        BY <2>4 DEF release, PlacesOK
    <2> QED BY <2>3, <2>4
<1>8. PlacesOK'
    BY <1>4, <1>6, <1>7 DEF PlacesOK
<1>9. GettersWait'
    BY <1>4, GettersUntouched
<1>10. OwnContext'
    BY <1>4, ContextUntouched
<1>11. PausedMeansPaused'
    BY <1>4, PauseUntouched
<1> QED BY <1>1, <1>8, <1>9, <1>10, <1>11

\* Running a hook: the party holds the lock, so that no other runs one, and a
\* loop does so only while the executor runs.
LEMMA RunOneKeepsInv ==
    ASSUME Inv, NEW p \in Party, run_one(p), InTurn(p, at[p]),
           at[p] \in {"locked", "prepared"}, p # Lifecycle => running,
           UNCHANGED <<running, getters, run_lock, has>>
    PROVE  Inv'
<1> USE Parties DEF Inv, LockInv
<1>1. /\ at'[p] \in {"ran", "running"}
      /\ \A q \in Party : q # p => at'[q] = at[q]
      /\ at' = [at EXCEPT ![p] = at'[p]]
      /\ turn' \in Seq(Party)
      /\ at'[p] = "running" => context' = has[p]
    BY RunOneEffect
<1>2. PlacesOK'
    BY <1>1 DEF PlacesOK, LoopPlace, LifecyclePlace
<1>3. LockOrder'
    BY <1>1, LockUntouched DEF Holding
<1>4. GettersWait'
    BY <1>1, GettersUntouched
<1>5. OwnContext'
    <2>1. \A q \in Party : q # p => at'[q] # "running"
        BY <1>1, OneHolder DEF Holding
    <2> QED BY <1>1, <2>1 DEF OwnContext
<1>6. PausedMeansPaused'
    BY <1>1 DEF PausedMeansPaused
<1> QED BY <1>2, <1>3, <1>4, <1>5, <1>6

\* The loop holds the lock: the hook is run, or dropped if _running was reset.
LEMMA LoopLockedKeepsInv ==
    ASSUME Inv, NEW l \in Loops, LoopLocked(l)
    PROVE  Inv'
<1> USE Parties
<1>1. InTurn(l, at[l]) /\ at[l] = "locked" /\ UNCHANGED <<running, getters, has>>
    BY DEF LoopLocked, InTurn, queue
<1>2. CASE running
    BY <1>1, <1>2, RunOneKeepsInv DEF LoopLocked
<1>3. CASE ~running
    <2>1. release(l, "loop") /\ UNCHANGED context
        BY <1>3 DEF LoopLocked, process
    <2> QED BY <1>1, <2>1, ReleaseKeepsInv DEF Holding, LoopPlace, Inv, LockInv, PlacesOK
<1> QED BY <1>2, <1>3

\* The hook has ended, and its loop gives the lock up.
LEMMA LoopRanKeepsInv ==
    ASSUME Inv, NEW l \in Loops, LoopRan(l)
    PROVE  Inv'
<1> USE Parties
<1>1. /\ at[l] = "ran" /\ UNCHANGED <<running, getters, has, context>>
      /\ release(l, "loop")
    BY DEF LoopRan, InTurn, queue, process
<1> QED BY <1>1, ReleaseKeepsInv DEF Holding, LoopPlace, Inv, LockInv, PlacesOK

\* start sets _running and calls a new loop.
LEMMA StartKeepsInv ==
    ASSUME Inv, NEW l \in Loops, Start(l)
    PROVE  Inv'
<1> USE Parties DEF Inv, LockInv
<1>1. /\ at[Lifecycle] \in {"off", "stopped", "resume"} /\ at[l] = "off" /\ running'
      /\ at' = [at EXCEPT ![l] = "loop", ![Lifecycle] = "started"]
      /\ turn' = <<l>> \o rest_of_turn
      /\ UNCHANGED <<getters, run_lock, has, context>>
    BY DEF Start, queue, process
<1>2. /\ at'[l] = "loop" /\ at'[Lifecycle] = "started"
      /\ \A q \in Party : q # l /\ q # Lifecycle => at'[q] = at[q]
    BY <1>1 DEF PlacesOK
<1>3. rest_of_turn \in Seq(Party)
    BY TurnHead DEF rest_of_turn, PlacesOK
<1>4. turn' \in Seq(Party)
    BY <1>1, <1>3
<1>5. PlacesOK'
    BY <1>1, <1>2, <1>4 DEF PlacesOK, LoopPlace, LifecyclePlace
<1>6. LockOrder'
    BY <1>1, <1>2, LockUntouched DEF Holding
<1>7. GettersWait'
    BY <1>1, <1>2, GettersUntouched
<1>8. OwnContext'
    BY <1>1, <1>2, ContextUntouched
<1>9. PausedMeansPaused'
    BY <1>1 DEF PausedMeansPaused
<1> QED BY <1>5, <1>6, <1>7, <1>8, <1>9

\* stop and run_priority_hook ask for the lock.
LEMMA LifecycleAcquireKeepsInv ==
    ASSUME Inv, NEW next \in {"stopping", "prepared"}, NEW rest \in Seq(Party),
           at[Lifecycle] \in {"started", "stopped"}, acquire(Lifecycle, next, rest),
           UNCHANGED <<running, getters, context>>, DOMAIN has' = Party,
           \A q \in Party : q # Lifecycle => has'[q] = has[q]
    PROVE  Inv'
<1> USE Parties DEF Inv, LockInv
<1>1. LockOrder'
    BY AcquireKeepsOrder DEF Holding
<1>2. /\ \E x \in {"acquire", next} : at' = [at EXCEPT ![Lifecycle] = x]
      /\ turn' = rest \/ turn' = <<Lifecycle>> \o rest
    BY DEF acquire
<1>3. /\ at'[Lifecycle] \in {"acquire", "stopping", "prepared"}
      /\ \A q \in Party : q # Lifecycle => at'[q] = at[q]
    BY <1>2 DEF PlacesOK
<1>4. turn' \in Seq(Party)
    <2>1. <<Lifecycle>> \o rest \in Seq(Party)
        BY Parties
    <2> QED BY <1>2, <2>1
<1>5. PlacesOK'
    BY <1>2, <1>4 DEF PlacesOK, LoopPlace, LifecyclePlace
<1>6. GettersWait'
    BY <1>3, GettersUntouched
<1>7. OwnContext'
    BY <1>3, ContextUntouched
<1>8. PausedMeansPaused'
    BY <1>3, PauseUntouched
<1> QED BY <1>1, <1>5, <1>6, <1>7, <1>8

\* stop holds the lock: it resets _running, and no loop runs a hook meanwhile.
LEMMA StoppingKeepsInv ==
    ASSUME Inv, Stopping
    PROVE  Inv'
<1> USE Parties DEF Inv, LockInv
<1>1. /\ at[Lifecycle] = "stopping" /\ ~running' /\ UNCHANGED <<run_lock, context>>
      /\ ~Idle
    BY DEF Stopping, InTurn, process
<1>2. \A l \in Loops : at[l] # "running"
    BY <1>1, OneHolder DEF Holding
<1>3. CASE getters = <<>>
    <2>1. /\ UNCHANGED <<getters, has, turn>>
          /\ at' = [at EXCEPT ![Lifecycle] = "unlock"]
        BY <1>3 DEF Stopping
    <2>2. /\ at'[Lifecycle] = "unlock"
          /\ \A q \in Party : q # Lifecycle => at'[q] = at[q]
        BY <2>1 DEF PlacesOK
    <2>3. PlacesOK'
        BY <2>1 DEF PlacesOK, LoopPlace, LifecyclePlace
    <2>4. LockOrder'
        BY <1>1, <2>2, LockUntouched DEF Holding
    <2>5. GettersWait'
        BY <1>1, <2>1, <2>2, GettersUntouched
    <2>6. OwnContext'
        BY <1>1, <2>1, <2>2, ContextUntouched
    <2>7. PausedMeansPaused'
        BY <1>2, <2>2 DEF PausedMeansPaused
    <2> QED BY <2>3, <2>4, <2>5, <2>6, <2>7
<1>4. CASE getters # <<>>
    <2> DEFINE g == Head(getters)
    <2>1. /\ getters' = Tail(getters) /\ has' = [has EXCEPT ![g] = STOP]
          /\ at' = [at EXCEPT ![Lifecycle] = "unlock", ![g] = "got"]
          /\ turn' = <<g>> \o turn
        BY <1>4 DEF Stopping
    <2>2. g \in Loops
        BY <1>4 DEF GettersWait
    <2>3. /\ at'[Lifecycle] = "unlock" /\ at'[g] = "got"
          /\ \A q \in Party : q # Lifecycle /\ q # g => at'[q] = at[q] /\ has'[q] = has[q]
        BY <2>1, <2>2 DEF PlacesOK
    <2>4. GettersWait' /\ at[g] = "get"
        BY <1>1, <1>4, <2>1, <2>3, GetterCalled
    <2>5. turn' \in Seq(Party)
        BY <1>1, <2>1, <2>2, TurnHead
    <2>6. PlacesOK'
        BY <2>1, <2>2, <2>3, <2>5 DEF PlacesOK, LoopPlace, LifecyclePlace
    <2> HIDE DEF g
    <2>7. LockOrder'
        BY <1>1, <2>2, <2>3, <2>4, LockUntouched DEF Holding
    <2>8. OwnContext'
        BY <1>1, <2>2, <2>3, <2>4, ContextUntouched
    <2>9. PausedMeansPaused'
        BY <1>2, <2>2, <2>3 DEF PausedMeansPaused
    <2> QED BY <2>4, <2>6, <2>7, <2>8, <2>9
<1> QED BY <1>3, <1>4

\* The executor is paused by now: stop gives the lock up.
LEMMA UnlockKeepsInv ==
    ASSUME Inv, Unlock
    PROVE  Inv'
<1>1. /\ at[Lifecycle] = "unlock" /\ UNCHANGED <<running, getters, has, context>>
      /\ release(Lifecycle, "stopped")
    BY DEF Unlock, InTurn, queue, process
<1> QED BY <1>1, Parties, ReleaseKeepsInv
        DEF Holding, LifecyclePlace, Inv, LockInv, PlacesOK

\* The priority hook, run with the lock held (executor.py's run_priority_hook).
LEMMA PriorityHookKeepsInv ==
    ASSUME Inv, PriorityHook
    PROVE  Inv'
<1>1. /\ InTurn(Lifecycle, at[Lifecycle]) /\ at[Lifecycle] = "prepared"
      /\ UNCHANGED <<running, getters, run_lock, has>> /\ run_one(Lifecycle)
    BY DEF PriorityHook, InTurn, queue
<1> QED BY <1>1, Parties, RunOneKeepsInv

\* The priority hook has ended, and its caller gives the lock up.
LEMMA PriorityRanKeepsInv ==
    ASSUME Inv, PriorityRan
    PROVE  Inv'
<1> DEFINE next == IF answer[Upgrade] = "failed" THEN "stopped" ELSE "resume"
<1>1. /\ at[Lifecycle] = "ran" /\ UNCHANGED <<running, getters, context>>
      /\ release(Lifecycle, next) /\ has' = [has EXCEPT ![Lifecycle] = None]
    BY DEF PriorityRan, InTurn, queue, process
<1>2. DOMAIN has' = Party /\ \A q \in Party : q # Lifecycle => has'[q] = has[q]
    BY <1>1, Parties DEF Inv, LockInv, PlacesOK
<1>3. next \notin Holding /\ next # "acquire" /\ next \in LifecyclePlace
    BY DEF Holding, LifecyclePlace
<1> HIDE DEF next
<1> QED BY <1>1, <1>2, <1>3, Parties, ReleaseKeepsInv DEF Holding

\* stop, from a running executor.
LEMMA StopKeepsInv ==
    ASSUME Inv, Stop
    PROVE  Inv'
<1>1. /\ at[Lifecycle] = "started" /\ UNCHANGED <<running, getters, has, context>>
      /\ acquire(Lifecycle, "stopping", turn) /\ turn \in Seq(Party) /\ DOMAIN has = Party
    BY DEF Stop, queue, process, Inv, LockInv, PlacesOK
<1> QED BY <1>1, LifecycleAcquireKeepsInv

\* run_priority_hook, from a stopped executor.
LEMMA RunPriorityHookKeepsInv ==
    ASSUME Inv, RunPriorityHook
    PROVE  Inv'
<1>1. /\ at[Lifecycle] = "stopped" /\ UNCHANGED <<running, getters, context>>
      /\ acquire(Lifecycle, "prepared", rest_of_turn)
      /\ has' = [has EXCEPT ![Lifecycle] = Upgrade]
    BY DEF RunPriorityHook, queue, process
<1>2. /\ rest_of_turn \in Seq(Party) /\ DOMAIN has' = Party
      /\ \A q \in Party : q # Lifecycle => has'[q] = has[q]
    BY <1>1, Parties, TurnHead DEF rest_of_turn, Inv, LockInv, PlacesOK
<1> QED BY <1>1, <1>2, LifecycleAcquireKeepsInv

\* A process exits: only the party that held the lock ran one.
LEMMA HookExitsKeepsInv ==
    ASSUME Inv, NEW p \in Party, NEW result, HookExits(p, result)
    PROVE  Inv'
<1> USE Parties DEF Inv, LockInv
<1>1. /\ at[p] = "running" /\ at' = [at EXCEPT ![p] = "ran"] /\ turn' = <<p>>
      /\ UNCHANGED <<running, getters, run_lock, has>>
    BY DEF HookExits, queue
<1>2. at'[p] = "ran" /\ \A q \in Party : q # p => at'[q] = at[q]
    BY <1>1 DEF PlacesOK
<1>3. PlacesOK'
    BY <1>1 DEF PlacesOK, LoopPlace, LifecyclePlace
<1>4. LockOrder'
    BY <1>1, <1>2, LockUntouched DEF Holding
<1>5. GettersWait'
    BY <1>1, <1>2, GettersUntouched
<1>6. OwnContext'
    <2>1. \A q \in Party : at'[q] # "running"
        BY <1>1, <1>2, OneHolder DEF Holding
    <2> QED BY <2>1 DEF OwnContext
<1>7. PausedMeansPaused'
    BY <1>1, <1>2, PauseUntouched
<1> QED BY <1>3, <1>4, <1>5, <1>6, <1>7

\* A hook is queued, and the first loop that waits for one is called.
LEMMA ExecuteKeepsInv ==
    ASSUME Inv, Execute
    PROVE  Inv'
<1> USE Parties DEF Inv, LockInv
<1>1. put(asked + 1, turn) /\ UNCHANGED <<running, run_lock, context>>
    BY DEF Execute, process
<1>2. CASE getters = <<>>
    <2>1. UNCHANGED <<getters, at, has, turn>>
        BY <1>1, <1>2 DEF put
    <2>2. PlacesOK' /\ LockOrder' /\ GettersWait'
        BY <1>1, <2>1 DEF PlacesOK, LockOrder, GettersWait
    <2>3. OwnContext' /\ PausedMeansPaused'
        BY <1>1, <2>1 DEF OwnContext, PausedMeansPaused
    <2> QED BY <2>2, <2>3
<1>3. CASE getters # <<>>
    <2> DEFINE g == Head(getters)
    <2>1. /\ getters' = Tail(getters) /\ has' = [has EXCEPT ![g] = asked + 1]
          /\ at' = [at EXCEPT ![g] = "got"] /\ turn' = <<g>> \o turn
        BY <1>1, <1>3 DEF put
    <2>2. g \in Loops
        BY <1>3 DEF GettersWait
    <2>3. /\ at'[g] = "got"
          /\ \A q \in Party : q # g => at'[q] = at[q] /\ has'[q] = has[q]
        BY <2>1, <2>2 DEF PlacesOK
    <2>4. GettersWait' /\ at[g] = "get"
        BY <1>3, <2>1, <2>3, GetterCalled
    <2>5. turn' \in Seq(Party)
        BY <2>1, <2>2 DEF PlacesOK
    <2>6. PlacesOK'
        BY <2>1, <2>2, <2>3, <2>5 DEF PlacesOK, LoopPlace, LifecyclePlace
    <2> HIDE DEF g
    <2>7. LockOrder'
        BY <1>1, <2>2, <2>3, <2>4, LockUntouched DEF Holding
    <2>8. OwnContext'
        BY <1>1, <2>2, <2>3, <2>4, ContextUntouched
    <2>9. PausedMeansPaused'
        BY <1>1, <2>2, <2>3, PauseUntouched
    <2> QED BY <2>4, <2>6, <2>7, <2>8, <2>9
<1> QED BY <1>2, <1>3

\* Steps that leave the parties where they are.
LEMMA InvUntouched ==
    ASSUME Inv, UNCHANGED <<running, getters, run_lock, at, has, context>>,
           turn' \in Seq(Party)
    PROVE  Inv'
<1>1. PlacesOK' /\ LockOrder' /\ GettersWait'
    BY DEF PlacesOK, LockOrder, GettersWait, Inv, LockInv
<1>2. OwnContext' /\ PausedMeansPaused'
    BY DEF OwnContext, PausedMeansPaused, Inv
<1> QED BY <1>1, <1>2 DEF Inv, LockInv

\* The caller of stop waits, and debugging begins, is noticed or ends.
LEMMA OtherStepsKeepInv ==
    ASSUME Inv,
           \/ Stopped \/ (\E names : EnableDebug(names)) \/ DebugEnds \/ SetDebug
           \/ UNCHANGED vars
    PROVE  Inv'
<1>1. CASE Stopped
    <2>1. UNCHANGED <<running, getters, run_lock, at, has, context>> /\ turn' \in Seq(Party)
        BY <1>1, TurnHead DEF Stopped, InTurn, queue, process, Inv, LockInv
    <2> QED BY <2>1, InvUntouched
<1>2. CASE (\E names : EnableDebug(names)) \/ DebugEnds \/ SetDebug \/ UNCHANGED vars
    <2>1. UNCHANGED <<running, getters, run_lock, turn, at, has, context>>
        BY <1>2 DEF EnableDebug, DebugEnds, SetDebug, vars, queue, process
    <2> QED BY <2>1, InvUntouched DEF Inv, LockInv, PlacesOK
<1> QED BY <1>1, <1>2
-----------------------------------------------------------------------------
(* The theorems *)

\* Nothing has been started, and nobody holds the lock.
LEMMA InitInv == Init => Inv
BY Parties DEF Init, Inv, LockInv, PlacesOK, GettersWait, LockOrder, OwnContext,
               PausedMeansPaused, LoopPlace, LifecyclePlace, Holding, Party

\* Every step of the executor and its surroundings keeps the lock's order.
LEMMA NextKeepsInv == Inv /\ [Next]_vars => Inv'
<1> SUFFICES ASSUME Inv, [Next]_vars PROVE Inv'
    OBVIOUS
<1>1. ASSUME NEW l \in Loops, Loop(l) \/ Start(l) PROVE Inv'
    BY <1>1, LoopGetKeepsInv, LoopGotKeepsInv, LoopLockedKeepsInv, LoopRanKeepsInv,
       StartKeepsInv DEF Loop
<1>2. CASE Upgrading
    BY <1>2, StopKeepsInv, StoppingKeepsInv, UnlockKeepsInv, RunPriorityHookKeepsInv,
       PriorityHookKeepsInv, PriorityRanKeepsInv, OtherStepsKeepInv DEF Upgrading
<1>3. ASSUME NEW p \in Party, Exits(p) \/ LeavesDebugShell(p) PROVE Inv'
    BY <1>3, HookExitsKeepsInv DEF Exits, LeavesDebugShell
<1>4. CASE Execute
    BY <1>4, ExecuteKeepsInv
<1>5. CASE \/ \E names \in {{e} : e \in Execution} \cup {Execution} : EnableDebug(names)
           \/ DebugEnds \/ SetDebug \/ UNCHANGED vars
    BY <1>5, OtherStepsKeepInv
<1> QED BY <1>1, <1>2, <1>3, <1>4, <1>5 DEF Next

\* The lock passes from one party to the next in the order they asked for it,
\* and each loop waits at most once for the lock and for the queue.
THEOREM Locking == Spec => []LockInv
<1>1. Inv => LockInv
    BY DEF Inv
<1> QED BY <1>1, InitInv, NextKeepsInv, PTL DEF Spec

\* The invoker and context that hook tools are given are those of the hook that
\* runs, queued or priority (get_hook_context, executor.py:203), for any number
\* of hooks, of loops and of debugging sessions.
THEOREM ContextIsOwn == Spec => []OwnContext
<1>1. Inv => OwnContext
    BY DEF Inv
<1> QED BY <1>1, InitInv, NextKeepsInv, PTL DEF Spec

\* Once stop has reset _running no queued hook runs until the next start
\* (executor.py:167), however many loops are still in their last round.
THEOREM Paused == Spec => []PausedMeansPaused
<1>1. Inv => PausedMeansPaused
    BY DEF Inv
<1> QED BY <1>1, InitInv, NextKeepsInv, PTL DEF Spec
===============================================================================
