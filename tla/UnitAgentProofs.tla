--------------------------- MODULE UnitAgentProofs ----------------------------
(***************************************************************************)
(* Proofs about the unit agent.  The inductive invariant says what the     *)
(* holder of the workflow lock has left to do, and for each of those steps *)
(* what the lifecycle, the executor and the state file are by then.        *)
(***************************************************************************)
EXTENDS UnitAgent, SequenceTheorems, TLAPS

Retry == {"retry", "retry_hook"}

TypeInv ==
    /\ disk \in [state : State, inflight : TransitionId \cup {None}]
    /\ executor \in BOOLEAN /\ lifecycle \in BOOLEAN
    /\ owed \in BOOLEAN /\ torn \in BOOLEAN
    /\ resolved \in Retry \cup {None} /\ resolving \in Retry \cup {None}
    /\ service_charm \in Charm

\* Who waits for the workflow lock, each party once, with what it took.
LockInv ==
    /\ lock \in Seq(Party) /\ DOMAIN job = Party
    /\ \A i, j \in 1..Len(lock) : lock[i] = lock[j] => i = j
    /\ \A i \in 1..Len(lock) : lock[i] \in Watch => job[lock[i]] # None
    /\ \A i \in 1..Len(lock) : lock[i] = "resolved" => job["resolved"] \in Retry
    /\ up \in {"off", "starting", "on", "failed"}
    /\ up = "starting" => lock = <<"start">>
    /\ up \in {"off", "failed"} => lock = <<>>
    /\ up = "on" => \A i \in 1..Len(lock) : lock[i] \in Watch

\* The transitions by the steps of their actions.
Plain    == {"automatic", "error_install", "retry_install", "error_start",
             "upgrade_charm_error", "retry_upgrade_charm_error"}
Installs == {"install", "retry_install_hook"}
Starts   == {"start", "retry_start_hook"}
OnlyRuns == {"retry_start", "retry_configure"}
Upgrades == {"upgrade_charm", "retry_upgrade_charm", "retry_upgrade_charm_hook"}
Halts    == {"error_configure", "error_retry_configure"}
Runs     == Starts \cup OnlyRuns \cup {"retry_configure_hook"}

\* What may be left of each action, and of an upgrade once the charms are known.
PlainRest     == {<<"store">>, <<>>}
InstallRest   == {<<"store", "install">>, <<"install">>, <<>>}
StartRest     == {<<"store", "config-changed", "start", "run">>,
                  <<"config-changed", "start", "run">>, <<"start", "run">>, <<"run">>, <<>>}
RunRest       == {<<"store", "run">>, <<"run">>, <<>>}
ConfigureRest == {<<"store", "verify", "config-changed">>, <<"verify", "config-changed">>,
                  <<"config-changed">>, <<>>}
RetryRest     == {<<"store", "run", "verify", "config-changed">>,
                  <<"run", "verify", "config-changed">>} \cup
                 {<<"verify", "config-changed">>, <<"config-changed">>, <<>>}
HaltRest      == {<<"store", "halt">>, <<"halt">>, <<>>}
PrepareRest   == {<<"store", "prepare">>, <<"prepare">>}
HookRest      == {<<"pause", "extract", "record", "upgrade-charm", "resume">>,
                  <<"extract", "record", "upgrade-charm", "resume">>,
                  <<"record", "upgrade-charm", "resume">>,
                  <<"upgrade-charm", "resume">>, <<"resume">>, <<>>}
ForceRest     == {<<"pause", "extract", "record", "resume">>,
                  <<"extract", "record", "resume">>, <<"record", "resume">>,
                  <<"resume">>, <<>>}
AgainRest     == {<<"pause", "upgrade-charm", "resume">>,
                  <<"upgrade-charm", "resume">>, <<"resume">>, <<>>}
EmptyRest     == {<<"pause", "resume">>, <<"resume">>, <<>>}

\* The steps that may be left to do of what is fired.
Rest(id, todo) ==
    \/ id \in Plain /\ todo \in PlainRest
    \/ id \in Installs /\ todo \in InstallRest
    \/ id \in Starts /\ todo \in StartRest
    \/ id \in OnlyRuns /\ todo \in RunRest
    \/ id = "configure" /\ todo \in ConfigureRest
    \/ id = "retry_configure_hook" /\ todo \in RetryRest
    \/ id \in Halts /\ todo \in HaltRest
    \/ id \in Upgrades /\ todo \in PrepareRest
    \/ id \in Upgrades /\ todo \in HookRest
    \/ id \in Upgrades /\ id # "retry_upgrade_charm" /\ todo \in AgainRest
    \/ id = "retry_upgrade_charm" /\ todo \in EmptyRest
    \/ id = "force" /\ todo = <<"prepare">>
    \/ id = "force" /\ todo \in ForceRest
    \/ id = "force" /\ todo \in EmptyRest

Has(todo, step) == \E i \in 1..Len(todo) : todo[i] = step

Left(step) == Has(firing.todo, step)

FiringInv == firing # None =>
    /\ firing \in Firing /\ lock # <<>>
    /\ Rest(firing.id, firing.todo)
    /\ IF firing.id \in TransitionId
       THEN disk.inflight = firing.id ELSE disk.inflight = None
    /\ firing.id = "force" => up = "on" /\ disk.state # "started"

\* A transition that is recorded leads from the state that is recorded.
DiskInv ==
    /\ disk.inflight # None => UnitWorkflow[disk.inflight].source = disk.state
    /\ up = "on" /\ firing = None => disk.inflight = None

\* From the pause on the executor is stopped until it is resumed.
PauseInv == firing # None /\ ~Left("prepare") /\ ~Left("pause") =>
    \A s \in {"extract", "record", "upgrade-charm", "resume"} : Left(s) => ~executor

\* Whether the lifecycle runs, by what is left to do.
LifecycleInv ==
    /\ up \in {"starting", "on"} /\ firing = None => lifecycle = run_lifecycle
    /\ firing # None /\ firing.id \in Halts =>
        /\ Left("halt") =>
            lifecycle \/ (up = "starting" /\ firing.id = "error_retry_configure")
        /\ ~Left("halt") => ~lifecycle
    /\ firing # None /\ firing.id \in Runs => (lifecycle <=> ~Left("run"))
    /\ firing # None /\ firing.id \notin Halts \cup Runs => lifecycle = run_lifecycle

\* An upgrade hook that is owed is sure to run, or to be waived by a user.
OwedInv == owed /\ ~torn =>
    /\ \/ disk.state = "charm_upgrade_error"
       \/ /\ disk.state = "started"
          /\ disk.inflight \in {"upgrade_charm", "upgrade_charm_error"}
    /\ firing # None /\ firing.id \in {"upgrade_charm", "retry_upgrade_charm_hook"}
         => Left("prepare") \/ Left("upgrade-charm")

Inv ==
    /\ TypeInv /\ LockInv /\ FiringInv /\ DiskInv
    /\ PauseInv /\ LifecycleInv /\ OwedInv

\* The executor runs, or a failed forced upgrade left it stopped.
RunsOrStranded == executor \/ stranded

Erring == {"upgrade_charm_error", "retry_upgrade_charm_error"}
\* Where the executor runs: everywhere but from the pause of an upgrade to its
\* end, or to the state of one that failed.

ExecutorInv ==
    /\ up \in {"starting", "on"} /\ firing = None /\ ~mid_upgrade => RunsOrStranded
    /\ firing # None =>
        \/ RunsOrStranded
        \/ firing.id \in Upgrades /\ (Left("prepare") \/ Left("resume"))
        \/ firing.id \in Erring
        \/ firing.id \in {"force", "automatic"} /\ disk.state = "charm_upgrade_error"
        \/ firing.id = "force" /\ Left("resume")
-----------------------------------------------------------------------------
(* The steps *)

\* The lists that are left once the first step is done.
LEMMA Tails ==
    /\ \A a : Tail(<<a>>) = <<>> /\ Head(<<a>>) = a
    /\ \A a, b : Tail(<<a, b>>) = <<b>> /\ Head(<<a, b>>) = a
    /\ \A a, b, c : Tail(<<a, b, c>>) = <<b, c>> /\ Head(<<a, b, c>>) = a
    /\ \A a, b, c, d : Tail(<<a, b, c, d>>) = <<b, c, d>> /\ Head(<<a, b, c, d>>) = a
    /\ \A a, b, c, d, e : /\ Tail(<<a, b, c, d, e>>) = <<b, c, d, e>>
                          /\ Head(<<a, b, c, d, e>>) = a
<1>1. \A a : Tail(<<a>>) = <<>> /\ Head(<<a>>) = a
    OBVIOUS
<1>2. \A a, b : Tail(<<a, b>>) = <<b>> /\ Head(<<a, b>>) = a
    OBVIOUS
<1>3. \A a, b, c : Tail(<<a, b, c>>) = <<b, c>> /\ Head(<<a, b, c>>) = a
    OBVIOUS
<1>4. \A a, b, c, d : Tail(<<a, b, c, d>>) = <<b, c, d>> /\ Head(<<a, b, c, d>>) = a
    OBVIOUS
<1>5. \A a, b, c, d, e : /\ Tail(<<a, b, c, d, e>>) = <<b, c, d, e>>
                         /\ Head(<<a, b, c, d, e>>) = a
    OBVIOUS
<1> QED BY <1>1, <1>2, <1>3, <1>4, <1>5

\* Which steps a list has, by its length.
LEMMA Members ==
    /\ \A x : ~Has(<<>>, x)
    /\ \A x, a : Has(<<a>>, x) <=> x = a
    /\ \A x, a, b : Has(<<a, b>>, x) <=> x \in {a, b}
    /\ \A x, a, b, c : Has(<<a, b, c>>, x) <=> x \in {a, b, c}
    /\ \A x, a, b, c, d : Has(<<a, b, c, d>>, x) <=> x \in {a, b, c, d}
    /\ \A x, a, b, c, d, e : Has(<<a, b, c, d, e>>, x) <=> x \in {a, b, c, d, e}
<1> USE DEF Has
<1>1. \A x : ~Has(<<>>, x)
    OBVIOUS
<1>2. \A x, a : Has(<<a>>, x) <=> x = a
    OBVIOUS
<1>3. \A x, a, b : Has(<<a, b>>, x) <=> x \in {a, b}
    OBVIOUS
<1>4. \A x, a, b, c : Has(<<a, b, c>>, x) <=> x \in {a, b, c}
    OBVIOUS
<1>5. \A x, a, b, c, d : Has(<<a, b, c, d>>, x) <=> x \in {a, b, c, d}
    OBVIOUS
<1>6. \A x, a, b, c, d, e : Has(<<a, b, c, d, e>>, x) <=> x \in {a, b, c, d, e}
    OBVIOUS
<1> QED BY <1>1, <1>2, <1>3, <1>4, <1>5, <1>6

\* The state is stored before the steps of the action.
LEMMA Stored ==
    /\ <<"store">> \o <<>> = <<"store">>
    /\ \A a : <<"store">> \o <<a>> = <<"store", a>>
    /\ \A a, b : <<"store">> \o <<a, b>> = <<"store", a, b>>
    /\ \A a, b, c : <<"store">> \o <<a, b, c>> = <<"store", a, b, c>>
<1>1. <<"store">> \o <<>> = <<"store">>
    OBVIOUS
<1>2. ASSUME NEW a PROVE <<"store">> \o <<a>> = <<"store", a>>
    <2> DEFINE s == <<"store">> \o <<a>>
               t == <<"store", a>>
    <2>1. /\ s \in Seq({"store", a}) /\ t \in Seq({"store", a}) /\ Len(s) = 2 /\ Len(t) = 2
          /\ s[1] = "store" /\ s[2] = a /\ t[1] = "store" /\ t[2] = a
        OBVIOUS
    <2> HIDE DEF s, t
    <2>2. \A i \in 1..2 : i \in {1, 2}
        OBVIOUS
    <2>3. s = t
        BY <2>1, <2>2, SeqEqual
    <2> QED BY <2>3 DEF s, t
<1>3. ASSUME NEW a, NEW b PROVE <<"store">> \o <<a, b>> = <<"store", a, b>>
    <2> DEFINE s == <<"store">> \o <<a, b>>
               t == <<"store", a, b>>
               S == {"store", a, b}
    <2>1. /\ s \in Seq(S) /\ t \in Seq(S) /\ Len(s) = 3 /\ Len(t) = 3
          /\ s[1] = "store" /\ s[2] = a /\ s[3] = b
          /\ t[1] = "store" /\ t[2] = a /\ t[3] = b
        OBVIOUS
    <2> HIDE DEF s, t, S
    <2>2. \A i \in 1..3 : i \in {1, 2, 3}
        OBVIOUS
    <2>3. s = t
        BY <2>1, <2>2, SeqEqual
    <2> QED BY <2>3 DEF s, t
<1>4. ASSUME NEW a, NEW b, NEW c PROVE <<"store">> \o <<a, b, c>> = <<"store", a, b, c>>
    <2> DEFINE s == <<"store">> \o <<a, b, c>>
               t == <<"store", a, b, c>>
               S == {"store", a, b, c}
    <2>1. /\ s \in Seq(S) /\ t \in Seq(S) /\ Len(s) = 4 /\ Len(t) = 4
          /\ s[1] = "store" /\ s[2] = a /\ s[3] = b /\ s[4] = c
          /\ t[1] = "store" /\ t[2] = a /\ t[3] = b /\ t[4] = c
        OBVIOUS
    <2> HIDE DEF s, t, S
    <2>2. \A i \in 1..4 : i \in {1, 2, 3, 4}
        OBVIOUS
    <2>3. s = t
        BY <2>1, <2>2, SeqEqual
    <2> QED BY <2>3 DEF s, t
<1> QED BY <1>1, <1>2, <1>3, <1>4

\* The actions of the transitions (the do_* methods of juju/unit/workflow.py).
LEMMA Actions ==
    /\ \A t \in Plain \ {"automatic"} : UnitWorkflow[t].action = <<>>
    /\ \A t \in Installs : UnitWorkflow[t].action = <<"install">>
    /\ \A t \in Starts : UnitWorkflow[t].action = <<"config-changed", "start", "run">>
    /\ \A t \in OnlyRuns : UnitWorkflow[t].action = <<"run">>
    /\ UnitWorkflow["configure"].action = <<"verify", "config-changed">>
    /\ UnitWorkflow["retry_configure_hook"].action = <<"run", "verify", "config-changed">>
    /\ \A t \in Halts : UnitWorkflow[t].action = <<"halt">>
    /\ \A t \in Upgrades : UnitWorkflow[t].action = <<"prepare">>
    /\ TransitionId = (Plain \ {"automatic"}) \cup Installs \cup Starts \cup OnlyRuns
                      \cup Halts \cup Upgrades \cup {"configure", "retry_configure_hook"}
<1>1. \A t \in Plain \ {"automatic"} : UnitWorkflow[t].action = <<>>
    BY DEF UnitWorkflow, Transition, Plain
<1>2. \A t \in Installs : UnitWorkflow[t].action = <<"install">>
    BY DEF UnitWorkflow, Transition, Installs
<1>3. \A t \in Starts : UnitWorkflow[t].action = <<"config-changed", "start", "run">>
    BY DEF UnitWorkflow, Transition, Starts
<1>4. \A t \in OnlyRuns : UnitWorkflow[t].action = <<"run">>
    BY DEF UnitWorkflow, Transition, OnlyRuns
<1>5. UnitWorkflow["configure"].action = <<"verify", "config-changed">>
    BY DEF UnitWorkflow, Transition
<1>6. UnitWorkflow["retry_configure_hook"].action = <<"run", "verify", "config-changed">>
    BY DEF UnitWorkflow, Transition
<1>7. \A t \in Halts : UnitWorkflow[t].action = <<"halt">>
    BY DEF UnitWorkflow, Transition, Halts
<1>8. \A t \in Upgrades : UnitWorkflow[t].action = <<"prepare">>
    BY DEF UnitWorkflow, Transition, Upgrades
<1>9. TransitionId = (Plain \ {"automatic"}) \cup Installs \cup Starts \cup OnlyRuns
                     \cup Halts \cup Upgrades \cup {"configure", "retry_configure_hook"}
    BY DEF TransitionId, UnitWorkflow, Plain, Installs, Starts, OnlyRuns, Halts, Upgrades
<1> QED BY <1>1, <1>2, <1>3, <1>4, <1>5, <1>6, <1>7, <1>8, <1>9

\* The steps that a transition begins with.
Begins(t, todo) ==
    \/ t \in Plain \ {"automatic"} /\ todo = <<"store">>
    \/ t \in Installs /\ todo = <<"store", "install">>
    \/ t \in Starts /\ todo = <<"store", "config-changed", "start", "run">>
    \/ t \in OnlyRuns /\ todo = <<"store", "run">>
    \/ t = "configure" /\ todo = <<"store", "verify", "config-changed">>
    \/ t = "retry_configure_hook" /\ todo = <<"store", "run", "verify", "config-changed">>
    \/ t \in Halts /\ todo = <<"store", "halt">>
    \/ t \in Upgrades /\ todo = <<"store", "prepare">>

\* A transition begins with storing the state.
LEMMA BeginsWithStore ==
    \A t \in TransitionId : Begins(t, <<"store">> \o UnitWorkflow[t].action)
<1> SUFFICES ASSUME NEW t \in TransitionId
             PROVE  Begins(t, <<"store">> \o UnitWorkflow[t].action)
    OBVIOUS
<1>1. ASSUME t \in Plain \ {"automatic"}
      PROVE  <<"store">> \o UnitWorkflow[t].action = <<"store">>
    BY <1>1, Actions, Stored
<1>2. ASSUME t \in Installs
      PROVE  <<"store">> \o UnitWorkflow[t].action = <<"store", "install">>
    BY <1>2, Actions, Stored
<1>3. ASSUME t \in Starts
      PROVE  <<"store">> \o UnitWorkflow[t].action = <<"store", "config-changed", "start", "run">>
    <2>1. UnitWorkflow[t].action = <<"config-changed", "start", "run">>
        BY <1>3, Actions
    <2>2. <<"store">> \o <<"config-changed", "start", "run">>
              = <<"store", "config-changed", "start", "run">>
        BY Stored
    <2> QED BY <2>1, <2>2
<1>4. ASSUME t \in OnlyRuns
      PROVE  <<"store">> \o UnitWorkflow[t].action = <<"store", "run">>
    BY <1>4, Actions, Stored
<1>5. ASSUME t = "configure"
      PROVE  <<"store">> \o UnitWorkflow[t].action = <<"store", "verify", "config-changed">>
    BY <1>5, Actions, Stored
<1>6. ASSUME t = "retry_configure_hook"
      PROVE  <<"store">> \o UnitWorkflow[t].action = <<"store", "run", "verify", "config-changed">>
    BY <1>6, Actions, Stored
<1>7. ASSUME t \in Halts
      PROVE  <<"store">> \o UnitWorkflow[t].action = <<"store", "halt">>
    BY <1>7, Actions, Stored
<1>8. ASSUME t \in Upgrades
      PROVE  <<"store">> \o UnitWorkflow[t].action = <<"store", "prepare">>
    BY <1>8, Actions, Stored
<1>9. \/ t \in Plain \ {"automatic"} \/ t \in Installs \/ t \in Starts \/ t \in OnlyRuns
      \/ t = "configure" \/ t = "retry_configure_hook" \/ t \in Halts \/ t \in Upgrades
    BY Actions
<1> QED BY <1>1, <1>2, <1>3, <1>4, <1>5, <1>6, <1>7, <1>8, <1>9 DEF Begins

\* What these lists of steps hold.
LEMMA FirstSteps ==
    ASSUME NEW t, NEW todo, Begins(t, todo)
    PROVE  /\ todo \in Seq(Step) /\ todo # <<>> /\ Rest(t, todo)
           /\ Has(todo, "prepare") <=> t \in Upgrades
           /\ Has(todo, "run") <=> t \in Runs
           /\ Has(todo, "halt") <=> t \in Halts
           /\ \A s \in {"pause", "extract", "record", "upgrade-charm", "resume"} : ~Has(todo, s)
<1>1. CASE t \in Plain \ {"automatic"} /\ todo = <<"store">>
    <2>1. Rest(t, todo) /\ todo # <<>>
        BY <1>1 DEF Rest, PlainRest, InstallRest, StartRest, RunRest, ConfigureRest,
                    RetryRest, HaltRest, PrepareRest
    <2>2. todo \in Seq(Step)
        BY <1>1 DEF Step
    <2>3. \A x : Has(todo, x) <=> x \in {"store"}
        BY <1>1, Members
    <2>4. /\ "prepare" \in {"store"} <=> t \in Upgrades
          /\ "run" \in {"store"} <=> t \in Runs
          /\ "halt" \in {"store"} <=> t \in Halts
        BY <1>1 DEF Runs, Plain, Installs, Starts, OnlyRuns, Halts, Upgrades
    <2> QED BY <2>1, <2>2, <2>3, <2>4
<1>2. CASE t \in Installs /\ todo = <<"store", "install">>
    <2>1. Rest(t, todo) /\ todo # <<>>
        BY <1>2 DEF Rest, PlainRest, InstallRest, StartRest, RunRest, ConfigureRest,
                    RetryRest, HaltRest, PrepareRest
    <2>2. todo \in Seq(Step)
        BY <1>2 DEF Step
    <2>3. \A x : Has(todo, x) <=> x \in {"store", "install"}
        BY <1>2, Members
    <2>4. /\ "prepare" \in {"store", "install"} <=> t \in Upgrades
          /\ "run" \in {"store", "install"} <=> t \in Runs
          /\ "halt" \in {"store", "install"} <=> t \in Halts
        BY <1>2 DEF Runs, Plain, Installs, Starts, OnlyRuns, Halts, Upgrades
    <2> QED BY <2>1, <2>2, <2>3, <2>4
<1>3. CASE t \in Starts /\ todo = <<"store", "config-changed", "start", "run">>
    <2>1. Rest(t, todo) /\ todo # <<>>
        BY <1>3 DEF Rest, PlainRest, InstallRest, StartRest, RunRest, ConfigureRest,
                    RetryRest, HaltRest, PrepareRest
    <2>2. todo \in Seq(Step)
        BY <1>3 DEF Step
    <2>3. \A x : Has(todo, x) <=> x \in {"store", "config-changed", "start", "run"}
        BY <1>3, Members
    <2>4. /\ "prepare" \in {"store", "config-changed", "start", "run"} <=> t \in Upgrades
          /\ "run" \in {"store", "config-changed", "start", "run"} <=> t \in Runs
          /\ "halt" \in {"store", "config-changed", "start", "run"} <=> t \in Halts
        BY <1>3 DEF Runs, Plain, Installs, Starts, OnlyRuns, Halts, Upgrades
    <2> QED BY <2>1, <2>2, <2>3, <2>4
<1>4. CASE t \in OnlyRuns /\ todo = <<"store", "run">>
    <2>1. Rest(t, todo) /\ todo # <<>>
        BY <1>4 DEF Rest, PlainRest, InstallRest, StartRest, RunRest, ConfigureRest,
                    RetryRest, HaltRest, PrepareRest
    <2>2. todo \in Seq(Step)
        BY <1>4 DEF Step
    <2>3. \A x : Has(todo, x) <=> x \in {"store", "run"}
        BY <1>4, Members
    <2>4. /\ "prepare" \in {"store", "run"} <=> t \in Upgrades
          /\ "run" \in {"store", "run"} <=> t \in Runs
          /\ "halt" \in {"store", "run"} <=> t \in Halts
        BY <1>4 DEF Runs, Plain, Installs, Starts, OnlyRuns, Halts, Upgrades
    <2> QED BY <2>1, <2>2, <2>3, <2>4
<1>5. CASE t = "configure" /\ todo = <<"store", "verify", "config-changed">>
    <2>1. Rest(t, todo) /\ todo # <<>>
        BY <1>5 DEF Rest, PlainRest, InstallRest, StartRest, RunRest, ConfigureRest,
                    RetryRest, HaltRest, PrepareRest
    <2>2. todo \in Seq(Step)
        BY <1>5 DEF Step
    <2>3. \A x : Has(todo, x) <=> x \in {"store", "verify", "config-changed"}
        BY <1>5, Members
    <2>4. /\ "prepare" \in {"store", "verify", "config-changed"} <=> t \in Upgrades
          /\ "run" \in {"store", "verify", "config-changed"} <=> t \in Runs
          /\ "halt" \in {"store", "verify", "config-changed"} <=> t \in Halts
        BY <1>5 DEF Runs, Plain, Installs, Starts, OnlyRuns, Halts, Upgrades
    <2> QED BY <2>1, <2>2, <2>3, <2>4
<1>6. CASE t = "retry_configure_hook" /\ todo = <<"store", "run", "verify", "config-changed">>
    <2>1. Rest(t, todo) /\ todo # <<>>
        BY <1>6 DEF Rest, PlainRest, InstallRest, StartRest, RunRest, ConfigureRest,
                    RetryRest, HaltRest, PrepareRest
    <2>2. todo \in Seq(Step)
        BY <1>6 DEF Step
    <2>3. \A x : Has(todo, x) <=> x \in {"store", "run", "verify", "config-changed"}
        BY <1>6, Members
    <2>4. /\ "prepare" \in {"store", "run", "verify", "config-changed"} <=> t \in Upgrades
          /\ "run" \in {"store", "run", "verify", "config-changed"} <=> t \in Runs
          /\ "halt" \in {"store", "run", "verify", "config-changed"} <=> t \in Halts
        BY <1>6 DEF Runs, Plain, Installs, Starts, OnlyRuns, Halts, Upgrades
    <2> QED BY <2>1, <2>2, <2>3, <2>4
<1>7. CASE t \in Halts /\ todo = <<"store", "halt">>
    <2>1. Rest(t, todo) /\ todo # <<>>
        BY <1>7 DEF Rest, PlainRest, InstallRest, StartRest, RunRest, ConfigureRest,
                    RetryRest, HaltRest, PrepareRest
    <2>2. todo \in Seq(Step)
        BY <1>7 DEF Step
    <2>3. \A x : Has(todo, x) <=> x \in {"store", "halt"}
        BY <1>7, Members
    <2>4. /\ "prepare" \in {"store", "halt"} <=> t \in Upgrades
          /\ "run" \in {"store", "halt"} <=> t \in Runs
          /\ "halt" \in {"store", "halt"} <=> t \in Halts
        BY <1>7 DEF Runs, Plain, Installs, Starts, OnlyRuns, Halts, Upgrades
    <2> QED BY <2>1, <2>2, <2>3, <2>4
<1>8. CASE t \in Upgrades /\ todo = <<"store", "prepare">>
    <2>1. Rest(t, todo) /\ todo # <<>>
        BY <1>8 DEF Rest, PlainRest, InstallRest, StartRest, RunRest, ConfigureRest,
                    RetryRest, HaltRest, PrepareRest
    <2>2. todo \in Seq(Step)
        BY <1>8 DEF Step
    <2>3. \A x : Has(todo, x) <=> x \in {"store", "prepare"}
        BY <1>8, Members
    <2>4. /\ "prepare" \in {"store", "prepare"} <=> t \in Upgrades
          /\ "run" \in {"store", "prepare"} <=> t \in Runs
          /\ "halt" \in {"store", "prepare"} <=> t \in Halts
        BY <1>8 DEF Runs, Plain, Installs, Starts, OnlyRuns, Halts, Upgrades
    <2> QED BY <2>1, <2>2, <2>3, <2>4
<1> QED BY <1>1, <1>2, <1>3, <1>4, <1>5, <1>6, <1>7, <1>8 DEF Begins

\* What is left once a step is done: no list has a step twice.
LEMMA Removed ==
    ASSUME NEW S, NEW s \in Seq(S), s # <<>>,
           \A i, j \in 1..Len(s) : s[i] = s[j] => i = j
    PROVE  \A x : Has(Tail(s), x) <=> Has(s, x) /\ x # Head(s)
<1>1. /\ Len(s) \in Nat /\ Len(s) >= 1 /\ Len(Tail(s)) = Len(s) - 1 /\ Head(s) = s[1]
      /\ \A i \in 1..Len(Tail(s)) : Tail(s)[i] = s[i + 1]
    OBVIOUS
<1> TAKE x
<1>2. ASSUME Has(Tail(s), x) PROVE Has(s, x) /\ x # Head(s)
    <2>1. PICK i \in 1..Len(Tail(s)) : Tail(s)[i] = x
        BY <1>2 DEF Has
    <2>2. i + 1 \in 1..Len(s) /\ 1 \in 1..Len(s) /\ i + 1 # 1 /\ s[i + 1] = x
        BY <1>1, <2>1
    <2> QED BY <1>1, <2>2 DEF Has
<1>3. ASSUME Has(s, x), x # Head(s) PROVE Has(Tail(s), x)
    <2>1. PICK i \in 1..Len(s) : s[i] = x
        BY <1>3 DEF Has
    <2>2. i # 1
        BY <1>1, <1>3, <2>1
    <2>3. i - 1 \in 1..Len(Tail(s)) /\ (i - 1) + 1 = i
        BY <1>1, <2>1, <2>2
    <2> QED BY <1>1, <2>1, <2>3 DEF Has
<1> QED BY <1>2, <1>3

\* Each list that is not done is followed by another one of the same action.
LEMMA RestIsClosed ==
    /\ \A todo \in PlainRest : todo # <<>> => Tail(todo) \in PlainRest
    /\ \A todo \in InstallRest : todo # <<>> => Tail(todo) \in InstallRest
    /\ \A todo \in StartRest : todo # <<>> => Tail(todo) \in StartRest
    /\ \A todo \in RunRest : todo # <<>> => Tail(todo) \in RunRest
    /\ \A todo \in ConfigureRest : todo # <<>> => Tail(todo) \in ConfigureRest
    /\ \A todo \in RetryRest : todo # <<>> => Tail(todo) \in RetryRest
    /\ \A todo \in HaltRest : todo # <<>> => Tail(todo) \in HaltRest
    /\ \A todo \in HookRest : todo # <<>> => Tail(todo) \in HookRest
    /\ \A todo \in ForceRest : todo # <<>> => Tail(todo) \in ForceRest
    /\ \A todo \in AgainRest : todo # <<>> => Tail(todo) \in AgainRest
    /\ \A todo \in EmptyRest : todo # <<>> => Tail(todo) \in EmptyRest
<1>1. \A todo \in PlainRest : todo # <<>> => Tail(todo) \in PlainRest
    <2>1. /\ Tail(<<"store">>) = <<>>
        OBVIOUS
    <2> QED BY <2>1 DEF PlainRest
<1>2. \A todo \in InstallRest : todo # <<>> => Tail(todo) \in InstallRest
    <2>1. /\ Tail(<<"store", "install">>) = <<"install">>
          /\ Tail(<<"install">>) = <<>>
        OBVIOUS
    <2> QED BY <2>1 DEF InstallRest
<1>3. \A todo \in StartRest : todo # <<>> => Tail(todo) \in StartRest
    <2>1. /\ Tail(<<"store", "config-changed", "start", "run">>)
                 = <<"config-changed", "start", "run">>
          /\ Tail(<<"config-changed", "start", "run">>) = <<"start", "run">>
          /\ Tail(<<"start", "run">>) = <<"run">>
          /\ Tail(<<"run">>) = <<>>
        OBVIOUS
    <2> QED BY <2>1 DEF StartRest
<1>4. \A todo \in RunRest : todo # <<>> => Tail(todo) \in RunRest
    <2>1. /\ Tail(<<"store", "run">>) = <<"run">>
          /\ Tail(<<"run">>) = <<>>
        OBVIOUS
    <2> QED BY <2>1 DEF RunRest
<1>5. \A todo \in ConfigureRest : todo # <<>> => Tail(todo) \in ConfigureRest
    <2>1. /\ Tail(<<"store", "verify", "config-changed">>) = <<"verify", "config-changed">>
          /\ Tail(<<"verify", "config-changed">>) = <<"config-changed">>
          /\ Tail(<<"config-changed">>) = <<>>
        OBVIOUS
    <2> QED BY <2>1 DEF ConfigureRest
<1>6. \A todo \in RetryRest : todo # <<>> => Tail(todo) \in RetryRest
    <2>1. /\ Tail(<<"store", "run", "verify", "config-changed">>)
                 = <<"run", "verify", "config-changed">>
          /\ Tail(<<"run", "verify", "config-changed">>) = <<"verify", "config-changed">>
          /\ Tail(<<"verify", "config-changed">>) = <<"config-changed">>
          /\ Tail(<<"config-changed">>) = <<>>
        OBVIOUS
    <2> QED BY <2>1 DEF RetryRest
<1>7. \A todo \in HaltRest : todo # <<>> => Tail(todo) \in HaltRest
    <2>1. /\ Tail(<<"store", "halt">>) = <<"halt">>
          /\ Tail(<<"halt">>) = <<>>
        OBVIOUS
    <2> QED BY <2>1 DEF HaltRest
<1>8. \A todo \in HookRest : todo # <<>> => Tail(todo) \in HookRest
    <2>1. /\ Tail(<<"pause", "extract", "record", "upgrade-charm", "resume">>)
                 = <<"extract", "record", "upgrade-charm", "resume">>
          /\ Tail(<<"extract", "record", "upgrade-charm", "resume">>)
                 = <<"record", "upgrade-charm", "resume">>
          /\ Tail(<<"record", "upgrade-charm", "resume">>) = <<"upgrade-charm", "resume">>
          /\ Tail(<<"upgrade-charm", "resume">>) = <<"resume">>
          /\ Tail(<<"resume">>) = <<>>
        OBVIOUS
    <2> QED BY <2>1 DEF HookRest
<1>9. \A todo \in ForceRest : todo # <<>> => Tail(todo) \in ForceRest
    <2>1. /\ Tail(<<"pause", "extract", "record", "resume">>)
                 = <<"extract", "record", "resume">>
          /\ Tail(<<"extract", "record", "resume">>) = <<"record", "resume">>
          /\ Tail(<<"record", "resume">>) = <<"resume">>
          /\ Tail(<<"resume">>) = <<>>
        OBVIOUS
    <2> QED BY <2>1 DEF ForceRest
<1>10. \A todo \in AgainRest : todo # <<>> => Tail(todo) \in AgainRest
    <2>1. /\ Tail(<<"pause", "upgrade-charm", "resume">>) = <<"upgrade-charm", "resume">>
          /\ Tail(<<"upgrade-charm", "resume">>) = <<"resume">>
          /\ Tail(<<"resume">>) = <<>>
        OBVIOUS
    <2> QED BY <2>1 DEF AgainRest
<1>11. \A todo \in EmptyRest : todo # <<>> => Tail(todo) \in EmptyRest
    <2>1. /\ Tail(<<"pause", "resume">>) = <<"resume">>
          /\ Tail(<<"resume">>) = <<>>
        OBVIOUS
    <2> QED BY <2>1 DEF EmptyRest
<1> QED BY <1>1, <1>2, <1>3, <1>4, <1>5, <1>6, <1>7, <1>8, <1>9, <1>10, <1>11

\* No list has a step twice.
LEMMA RestIsDistinct ==
    ASSUME NEW id, NEW todo, Rest(id, todo)
    PROVE  \A i, j \in 1..Len(todo) : todo[i] = todo[j] => i = j
<1>1. ASSUME todo \in PlainRest PROVE \A i, j \in 1..Len(todo) : todo[i] = todo[j] => i = j
    BY <1>1 DEF PlainRest
<1>2. ASSUME todo \in InstallRest PROVE \A i, j \in 1..Len(todo) : todo[i] = todo[j] => i = j
    BY <1>2 DEF InstallRest
<1>3. ASSUME todo \in StartRest PROVE \A i, j \in 1..Len(todo) : todo[i] = todo[j] => i = j
    BY <1>3 DEF StartRest
<1>4. ASSUME todo \in RunRest PROVE \A i, j \in 1..Len(todo) : todo[i] = todo[j] => i = j
    BY <1>4 DEF RunRest
<1>5. ASSUME todo \in ConfigureRest PROVE \A i, j \in 1..Len(todo) : todo[i] = todo[j] => i = j
    BY <1>5 DEF ConfigureRest
<1>6. ASSUME todo \in RetryRest PROVE \A i, j \in 1..Len(todo) : todo[i] = todo[j] => i = j
    BY <1>6 DEF RetryRest
<1>7. ASSUME todo \in HaltRest PROVE \A i, j \in 1..Len(todo) : todo[i] = todo[j] => i = j
    BY <1>7 DEF HaltRest
<1>8. ASSUME todo \in HookRest PROVE \A i, j \in 1..Len(todo) : todo[i] = todo[j] => i = j
    BY <1>8 DEF HookRest
<1>9. ASSUME todo \in ForceRest PROVE \A i, j \in 1..Len(todo) : todo[i] = todo[j] => i = j
    BY <1>9 DEF ForceRest
<1>10. ASSUME todo \in AgainRest PROVE \A i, j \in 1..Len(todo) : todo[i] = todo[j] => i = j
    BY <1>10 DEF AgainRest
<1>11. ASSUME todo \in EmptyRest PROVE \A i, j \in 1..Len(todo) : todo[i] = todo[j] => i = j
    BY <1>11 DEF EmptyRest
<1>12. ASSUME todo \in PrepareRest PROVE \A i, j \in 1..Len(todo) : todo[i] = todo[j] => i = j
    BY <1>12 DEF PrepareRest
<1>13. ASSUME todo = <<"prepare">> PROVE \A i, j \in 1..Len(todo) : todo[i] = todo[j] => i = j
    BY <1>13
<1> QED BY <1>1, <1>2, <1>3, <1>4, <1>5, <1>6, <1>7, <1>8, <1>9, <1>10, <1>11, <1>12, <1>13
       DEF Rest

\* A step that is done is no longer left, and the others are.  Only "prepare"
\* is followed by a list that depends on the charms.
LEMMA StepDone ==
    ASSUME NEW id, NEW todo \in Seq(Step), Rest(id, todo), todo # <<>>
    PROVE  /\ Head(todo) # "prepare" => Rest(id, Tail(todo))
           /\ Tail(todo) \in Seq(Step)
           /\ \A x : Has(Tail(todo), x) <=> Has(todo, x) /\ x # Head(todo)
<1>1. \A x : Has(Tail(todo), x) <=> Has(todo, x) /\ x # Head(todo)
    BY RestIsDistinct, Removed
<1>2. ASSUME todo \in PrepareRest, Head(todo) # "prepare" PROVE Tail(todo) \in PrepareRest
    <2>1. Tail(<<"store", "prepare">>) = <<"prepare">> /\ Head(<<"prepare">>) = "prepare"
        OBVIOUS
    <2> QED BY <1>2, <2>1 DEF PrepareRest
<1>3. todo = <<"prepare">> => Head(todo) = "prepare"
    OBVIOUS
<1>4. Head(todo) # "prepare" => Rest(id, Tail(todo))
    BY <1>2, <1>3, RestIsClosed DEF Rest
<1> QED BY <1>1, <1>4

\* What a step says of the one it is a step of, and of the other steps left.
StepFits(id, todo) ==
    LET step == Head(todo)
    IN  /\ step = "install" => id \in Installs
        /\ step \in {"config-changed", "start"} =>
               \/ id \in Starts /\ Has(todo, "run")
               \/ id \in {"configure", "retry_configure_hook"} /\ ~Has(todo, "run")
        /\ step = "run" => id \in Runs
        /\ step = "halt" => id \in Halts
        /\ step = "verify" =>
               id \in {"configure", "retry_configure_hook"} /\ ~Has(todo, "run")
        /\ step \in {"prepare", "pause", "extract", "record", "upgrade-charm", "resume"}
               => id \in Upgrades \cup {"force"}
        /\ step = "prepare" => todo = <<"prepare">>
        /\ step = "pause" => ~Has(todo, "prepare") /\ Has(todo, "resume")
        /\ step \in {"extract", "record", "upgrade-charm"} =>
               ~Has(todo, "prepare") /\ ~Has(todo, "pause") /\ Has(todo, "resume")
        /\ step = "extract" /\ id # "force" => Has(todo, "upgrade-charm")
        /\ step = "upgrade-charm" => id # "force"
        /\ step = "resume" => todo = <<"resume">>

\* Each step fits where it is.
LEMMA StepsFit ==
    ASSUME NEW id, NEW todo, Rest(id, todo), todo # <<>>
    PROVE  StepFits(id, todo)
<1>1. CASE id \in Plain /\ todo \in PlainRest
    BY <1>1, Tails, Members DEF StepFits, PlainRest, Plain
<1>2. CASE id \in Installs /\ todo \in InstallRest
    BY <1>2, Tails, Members DEF StepFits, InstallRest
<1>3. CASE id \in Starts /\ todo \in StartRest
    <2>1. /\ Has(<<"config-changed", "start", "run">>, "run")
          /\ Has(<<"start", "run">>, "run")
          /\ Head(<<"store", "config-changed", "start", "run">>) = "store"
          /\ Head(<<"config-changed", "start", "run">>) = "config-changed"
          /\ Head(<<"start", "run">>) = "start" /\ Head(<<"run">>) = "run"
        BY Members
    <2> QED BY <1>3, <2>1 DEF StepFits, StartRest, Runs
<1>4. CASE id \in OnlyRuns /\ todo \in RunRest
    BY <1>4, Tails, Members DEF StepFits, RunRest, Runs, OnlyRuns
<1>5. CASE id = "configure" /\ todo \in ConfigureRest
    BY <1>5, Tails, Members DEF StepFits, ConfigureRest
<1>6. CASE id = "retry_configure_hook" /\ todo \in RetryRest
    BY <1>6, Tails, Members DEF StepFits, RetryRest, Runs
<1>7. CASE id \in Halts /\ todo \in HaltRest
    BY <1>7, Tails, Members DEF StepFits, HaltRest
<1>8. CASE id \in Upgrades /\ todo \in PrepareRest
    BY <1>8, Tails, Members DEF StepFits, PrepareRest
<1>9. CASE id \in Upgrades /\ todo \in HookRest
    BY <1>9, Tails, Members DEF StepFits, HookRest, Upgrades
<1>10. CASE id \in Upgrades /\ todo \in AgainRest
    BY <1>10, Tails, Members DEF StepFits, AgainRest, Upgrades
<1>11. CASE id = "retry_upgrade_charm" /\ todo \in EmptyRest
    BY <1>11, Tails, Members DEF StepFits, EmptyRest, Upgrades
<1>12. CASE id = "force" /\ todo \in ForceRest
    BY <1>12, Tails, Members DEF StepFits, ForceRest
<1>13. CASE id = "force" /\ todo \in EmptyRest
    BY <1>13, Tails, Members DEF StepFits, EmptyRest
<1>14. CASE id = "force" /\ todo = <<"prepare">>
    BY <1>14, Tails, Members DEF StepFits
<1> QED BY <1>1, <1>2, <1>3, <1>4, <1>5, <1>6, <1>7, <1>8, <1>9, <1>10, <1>11, <1>12, <1>13, <1>14
       DEF Rest

\* The lists of steps that upgrade_steps puts together.
LEMMA Joined ==
    /\ <<"pause">> \o <<"extract", "record">> \o <<"upgrade-charm">> \o <<"resume">>
         = <<"pause", "extract", "record", "upgrade-charm", "resume">>
    /\ <<"pause">> \o <<"extract", "record">> \o <<>> \o <<"resume">>
         = <<"pause", "extract", "record", "resume">>
    /\ <<"pause">> \o <<>> \o <<"upgrade-charm">> \o <<"resume">>
         = <<"pause", "upgrade-charm", "resume">>
    /\ <<"pause">> \o <<>> \o <<>> \o <<"resume">>
         = <<"pause", "resume">>
<1>1. <<"pause">> \o <<"extract", "record">> \o <<"upgrade-charm">> \o <<"resume">>
          = <<"pause", "extract", "record", "upgrade-charm", "resume">>
    <2> DEFINE s == <<"pause">> \o <<"extract", "record">> \o <<"upgrade-charm">> \o <<"resume">>
               t == <<"pause", "extract", "record", "upgrade-charm", "resume">>
    <2>1. /\ s \in Seq(Step) /\ t \in Seq(Step) /\ Len(s) = 5 /\ Len(t) = 5
          /\ s[1] = "pause" /\ s[2] = "extract" /\ s[3] = "record"
          /\ s[4] = "upgrade-charm" /\ s[5] = "resume"
          /\ t[1] = "pause" /\ t[2] = "extract" /\ t[3] = "record"
          /\ t[4] = "upgrade-charm" /\ t[5] = "resume"
        BY DEF Step
    <2>2. \A i \in 1..5 : i \in {1, 2, 3, 4, 5}
        OBVIOUS
    <2> HIDE DEF s, t
    <2>3. s = t
        BY <2>1, <2>2, SeqEqual
    <2> QED BY <2>3 DEF s, t
<1>2. <<"pause">> \o <<"extract", "record">> \o <<>> \o <<"resume">>
          = <<"pause", "extract", "record", "resume">>
    <2> DEFINE s == <<"pause">> \o <<"extract", "record">> \o <<>> \o <<"resume">>
               t == <<"pause", "extract", "record", "resume">>
    <2>1. /\ s \in Seq(Step) /\ t \in Seq(Step) /\ Len(s) = 4 /\ Len(t) = 4
          /\ s[1] = "pause" /\ s[2] = "extract" /\ s[3] = "record"
          /\ s[4] = "resume"
          /\ t[1] = "pause" /\ t[2] = "extract" /\ t[3] = "record"
          /\ t[4] = "resume"
        BY DEF Step
    <2>2. \A i \in 1..4 : i \in {1, 2, 3, 4}
        OBVIOUS
    <2> HIDE DEF s, t
    <2>3. s = t
        BY <2>1, <2>2, SeqEqual
    <2> QED BY <2>3 DEF s, t
<1>3. <<"pause">> \o <<>> \o <<"upgrade-charm">> \o <<"resume">>
          = <<"pause", "upgrade-charm", "resume">>
    <2> DEFINE s == <<"pause">> \o <<>> \o <<"upgrade-charm">> \o <<"resume">>
               t == <<"pause", "upgrade-charm", "resume">>
    <2>1. /\ s \in Seq(Step) /\ t \in Seq(Step) /\ Len(s) = 3 /\ Len(t) = 3
          /\ s[1] = "pause" /\ s[2] = "upgrade-charm" /\ s[3] = "resume"
          /\ t[1] = "pause" /\ t[2] = "upgrade-charm" /\ t[3] = "resume"
        BY DEF Step
    <2>2. \A i \in 1..3 : i \in {1, 2, 3}
        OBVIOUS
    <2> HIDE DEF s, t
    <2>3. s = t
        BY <2>1, <2>2, SeqEqual
    <2> QED BY <2>3 DEF s, t
<1>4. <<"pause">> \o <<>> \o <<>> \o <<"resume">>
          = <<"pause", "resume">>
    <2> DEFINE s == <<"pause">> \o <<>> \o <<>> \o <<"resume">>
               t == <<"pause", "resume">>
    <2>1. /\ s \in Seq(Step) /\ t \in Seq(Step) /\ Len(s) = 2 /\ Len(t) = 2
          /\ s[1] = "pause" /\ s[2] = "resume"
          /\ t[1] = "pause" /\ t[2] = "resume"
        BY DEF Step
    <2>2. \A i \in 1..2 : i \in {1, 2}
        OBVIOUS
    <2> HIDE DEF s, t
    <2>3. s = t
        BY <2>1, <2>2, SeqEqual
    <2> QED BY <2>3 DEF s, t
<1> QED BY <1>1, <1>2, <1>3, <1>4

\* What upgrade_charm does once the charms are known (juju/unit/lifecycle.py):
\* unless a user waived it, the hook is among its steps.
LEMMA UpgradeSteps ==
    ASSUME NEW ready \in BOOLEAN, firing.id \in Upgrades \cup {"force"},
           NEW todo, todo = upgrade_steps(ready)
    PROVE  /\ Rest(firing.id, todo) /\ todo \in Seq(Step)
           /\ Has(todo, "pause") /\ Has(todo, "resume")
           /\ firing.id \in {"upgrade_charm", "retry_upgrade_charm_hook"}
                => Has(todo, "upgrade-charm")
<1> DEFINE hook == (ready \/ fire_hooks) /\ firing.id # "force"
<1>1. /\ <<"pause", "extract", "record", "upgrade-charm", "resume">> \in Seq(Step)
      /\ <<"pause", "extract", "record", "resume">> \in Seq(Step)
      /\ <<"pause", "upgrade-charm", "resume">> \in Seq(Step)
      /\ <<"pause", "resume">> \in Seq(Step)
    BY DEF Step
<1>2. CASE ready /\ hook
    <2>1. todo = <<"pause", "extract", "record", "upgrade-charm", "resume">>
        BY <1>2, Joined DEF upgrade_steps
    <2> HIDE DEF hook
    <2>2. todo \in HookRest /\ firing.id \in Upgrades
        BY <1>2, <2>1 DEF HookRest, hook
    <2> QED BY <1>1, <2>1, <2>2, Members DEF Rest
<1>3. CASE ready /\ ~hook
    <2>1. todo = <<"pause", "extract", "record", "resume">>
        BY <1>3, Joined DEF upgrade_steps
    <2>2. firing.id = "force"
        BY <1>3
    <2>3. todo \in ForceRest
        BY <2>1 DEF ForceRest
    <2> QED BY <1>1, <2>1, <2>2, <2>3, Members DEF Rest
<1>4. CASE ~ready /\ hook
    <2>1. todo = <<"pause", "upgrade-charm", "resume">>
        BY <1>4, Joined DEF upgrade_steps
    <2>2. firing.id \in Upgrades /\ firing.id # "retry_upgrade_charm"
        BY <1>4 DEF fire_hooks
    <2>3. todo \in AgainRest
        BY <2>1 DEF AgainRest
    <2> QED BY <1>1, <2>1, <2>2, <2>3, Members DEF Rest
<1>5. CASE ~ready /\ ~hook
    <2>1. todo = <<"pause", "resume">>
        BY <1>5, Joined DEF upgrade_steps
    <2>2. firing.id \in {"force", "retry_upgrade_charm"}
        BY <1>5 DEF fire_hooks
    <2>3. todo \in EmptyRest
        BY <2>1 DEF EmptyRest
    <2> QED BY <1>1, <2>1, <2>2, <2>3, Members DEF Rest
<1> QED BY <1>2, <1>3, <1>4, <1>5

\* The states in which the lifecycle runs.
Running == {"charm_upgrade_error", "started"}

\* The transitions' states and their error transitions (juju/unit/workflow.py).
LEMMA WorkflowFacts ==
    /\ \A t \in TransitionId : UnitWorkflow[t].error # None =>
         /\ UnitWorkflow[t].error \in TransitionId
         /\ UnitWorkflow[UnitWorkflow[t].error].source = UnitWorkflow[t].source
    /\ \A t \in Runs : /\ UnitWorkflow[t].source \in State \ Running
                       /\ UnitWorkflow[t].destination = "started"
    /\ \A t \in Halts : UnitWorkflow[t].destination = "configure_error"
    /\ \A t \in TransitionId \ (Halts \cup Runs) :
         UnitWorkflow[t].source \in Running <=> UnitWorkflow[t].destination \in Running
    /\ \A t \in Upgrades : /\ UnitWorkflow[t].source \in Running
                           /\ UnitWorkflow[t].destination = "started"
    /\ \A t \in Erring : UnitWorkflow[t].destination = "charm_upgrade_error"
<1>1. \A t \in TransitionId : UnitWorkflow[t].error # None =>
         /\ UnitWorkflow[t].error \in TransitionId
         /\ UnitWorkflow[UnitWorkflow[t].error].source = UnitWorkflow[t].source
    BY DEF TransitionId, UnitWorkflow, Transition
<1>2. None \notin Running
    BY NoneAssumption DEF TransitionId, UnitWorkflow, Transition, Running
<1>3. \A t \in Runs : /\ t \in TransitionId /\ UnitWorkflow[t].source \notin Running
                      /\ UnitWorkflow[t].destination = "started"
    BY <1>2 DEF Runs, Starts, OnlyRuns, TransitionId, UnitWorkflow, Transition, Running
<1>4. \A t \in Halts : UnitWorkflow[t].destination = "configure_error"
    BY DEF Halts, UnitWorkflow, Transition
<1>5. \A t \in TransitionId \ (Halts \cup Runs) :
         UnitWorkflow[t].source \in Running <=> UnitWorkflow[t].destination \in Running
    BY <1>2 DEF Halts, Runs, Starts, OnlyRuns, TransitionId, UnitWorkflow, Transition, Running
<1>6. \A t \in Upgrades : /\ UnitWorkflow[t].source \in Running
                          /\ UnitWorkflow[t].destination = "started"
    BY DEF Upgrades, UnitWorkflow, Transition, Running
<1>7. \A t \in Erring : UnitWorkflow[t].destination = "charm_upgrade_error"
    BY DEF Erring, UnitWorkflow, Transition
<1> HIDE DEF Running
<1>8. \A t \in Runs : /\ UnitWorkflow[t].source \in State \ Running
                      /\ UnitWorkflow[t].destination = "started"
    BY <1>3 DEF State
<1> QED BY <1>1, <1>8, <1>4, <1>5, <1>6, <1>7

\* The holder's callback ends: the lock goes to the next, and an agent that
\* was starting is on if it returned.
LEMMA Released ==
    ASSUME LockInv, lock # <<>>, Return \/ Raise
    PROVE  /\ LockInv' /\ firing' = None /\ up' \in {"on", "failed"}
           /\ Return => up' = "on"
           /\ up = "on" => up' = "on"
<1>1. /\ lock \in Seq(Party) /\ lock' = Tail(lock) /\ firing' = None
      /\ job' = [job EXCEPT ![Holder] = None]
    BY DEF LockInv, Return, Raise
<1>2. /\ Len(lock) \in Nat /\ Len(lock) >= 1 /\ Len(lock') = Len(lock) - 1
      /\ lock' \in Seq(Party) /\ Holder = lock[1]
      /\ \A i \in 1..Len(lock') : lock'[i] = lock[i + 1] /\ i + 1 \in 1..Len(lock)
    BY <1>1 DEF Holder
<1>3. DOMAIN job' = Party
    BY <1>1 DEF LockInv
<1>4. \A i, j \in 1..Len(lock') : lock'[i] = lock'[j] => i = j
    BY <1>2 DEF LockInv
<1>5. \A i \in 1..Len(lock') : lock'[i] # Holder /\ lock'[i] \in Party
    BY <1>2 DEF LockInv
<1>6. \A p \in Party : p # Holder => job'[p] = job[p]
    BY <1>1 DEF LockInv
<1>7. \A i \in 1..Len(lock') : lock'[i] \in Watch => job'[lock'[i]] # None
    BY <1>2, <1>5, <1>6 DEF LockInv
<1>8. \A i \in 1..Len(lock') : lock'[i] = "resolved" => job'["resolved"] \in Retry
    BY <1>2, <1>5, <1>6 DEF LockInv
<1>9. up \in {"starting", "on"}
    BY DEF LockInv
<1>10. CASE up = "starting"
    <2>1. lock = <<"start">>
        BY <1>10 DEF LockInv
    <2>2. Holder = "start" /\ lock' = <<>>
        BY <1>1, <2>1 DEF Holder
    <2>3. up' \in {"on", "failed"} /\ (Return => up' = "on")
        BY <2>2, <1>1 DEF Return, Raise
    <2>4. \A i \in 1..Len(lock') : lock'[i] \in Watch
        BY <2>2
    <2> QED BY <1>1, <1>2, <1>3, <1>4, <1>7, <1>8, <1>10, <2>2, <2>3, <2>4 DEF LockInv
<1>11. CASE up = "on"
    <2>1. Holder \in Watch /\ Holder # "start"
        BY <1>2, <1>11 DEF LockInv, Watch
    <2>2. up' = "on"
        BY <1>11, <2>1 DEF Return, Raise
    <2>3. \A i \in 1..Len(lock') : lock'[i] \in Watch
        BY <1>2, <1>11 DEF LockInv
    <2> QED BY <1>1, <1>2, <1>3, <1>4, <1>7, <1>8, <2>2, <2>3 DEF LockInv
<1> QED BY <1>9, <1>10, <1>11

\* What fire_transition does from the right state.
LEMMA Fired ==
    ASSUME TypeInv, LockInv, NEW t \in TransitionId,
           UnitWorkflow[t].source = disk.state, fire_transition(t)
    PROVE  /\ disk' = [disk EXCEPT !.inflight = t]
           /\ disk'.inflight = t /\ disk'.state = disk.state
           /\ disk' \in [state : State, inflight : TransitionId \cup {None}]
           /\ UNCHANGED <<up, lock, job>> /\ LockInv'
           /\ firing' \in Firing /\ firing' # None /\ firing'.id = t
           /\ Begins(t, firing'.todo)
<1>1. /\ disk' = [disk EXCEPT !.inflight = t] /\ Carry(t, UnitWorkflow[t].action)
      /\ UNCHANGED <<up, first, lost, lock, job>>
    BY DEF fire_transition
<1>2. /\ disk'.inflight = t /\ disk'.state = disk.state
      /\ disk' \in [state : State, inflight : TransitionId \cup {None}]
    BY <1>1 DEF TypeInv
<1>3. LockInv'
    BY <1>1 DEF LockInv
<1>4. Begins(t, <<"store">> \o UnitWorkflow[t].action)
    BY BeginsWithStore
<1> DEFINE todo == <<"store">> \o UnitWorkflow[t].action
<1>5. firing' = [id |-> t, todo |-> todo, charm |-> None]
    BY <1>1 DEF Carry
<1>6. Begins(t, todo)
    BY <1>4
<1> HIDE DEF todo
<1>7. todo \in Seq(Step)
    BY <1>6, FirstSteps
<1>8. firing' \in Firing
    BY <1>5, <1>7 DEF Firing
<1>9. firing' # None
    BY <1>8, NoneAssumption
<1> QED BY <1>1, <1>2, <1>3, <1>5, <1>6, <1>8, <1>9

\* What is left once a step is done.
LEMMA Went ==
    ASSUME FiringInv, LockInv, DiskInv, NEW step, Doing(step), step # "prepare", Done
    PROVE  /\ firing' # None /\ firing'.id = firing.id
           /\ \A x : Left(x)' <=> Left(x) /\ x # step
           /\ FiringInv' /\ LockInv' /\ DiskInv'
           /\ UNCHANGED <<disk, up>>
<1>1. /\ firing \in Firing /\ firing # None /\ lock # <<>> /\ firing.todo # <<>>
      /\ Rest(firing.id, firing.todo) /\ Head(firing.todo) = step
    BY DEF FiringInv, Doing
<1>2. /\ firing' = [firing EXCEPT !.todo = Tail(@)]
      /\ UNCHANGED <<disk, up, first, lost, lock, job>>
    BY DEF Done
<1>3. firing.todo \in Seq(Step)
    BY <1>1 DEF Firing
<1>4. /\ Rest(firing.id, Tail(firing.todo)) /\ Tail(firing.todo) \in Seq(Step)
      /\ \A x : Has(Tail(firing.todo), x) <=> Has(firing.todo, x) /\ x # step
    BY <1>1, <1>3, StepDone
<1>5. firing'.todo = Tail(firing.todo) /\ firing'.id = firing.id /\ firing' \in Firing
    BY <1>1, <1>2, <1>4 DEF Firing
<1>6. firing' # None
    BY <1>5, NoneAssumption
<1>7. FiringInv'
    BY <1>1, <1>2, <1>4, <1>5, <1>6 DEF FiringInv
<1>8. LockInv'
    BY <1>2 DEF LockInv
<1>9. DiskInv'
    BY <1>2, <1>6 DEF DiskInv
<1>10. \A x : Left(x)' <=> Left(x) /\ x # step
    BY <1>4, <1>5 DEF Left
<1> QED BY <1>2, <1>5, <1>6, <1>7, <1>8, <1>9, <1>10
-----------------------------------------------------------------------------
(* The actions *)

\* What the agent's callbacks and ends of transitions leave alone.
Aside == <<executor, lifecycle, resolved, resolving, service_charm, owed, torn>>

\* A callback that ends keeps the invariant, if no transition stays recorded
\* in an agent that is on, and the lifecycle is as the state says.
LEMMA ReleaseKeepsInv ==
    ASSUME Inv, lock # <<>>, Return \/ Raise, UNCHANGED Aside,
           disk' = disk \/ disk' = [disk EXCEPT !.inflight = None],
           up' = "on" => disk'.inflight = None /\ lifecycle = run_lifecycle,
           owed /\ ~torn => disk' = disk
    PROVE  Inv'
<1>1. LockInv' /\ firing' = None /\ up' \in {"on", "failed"}
    BY Released DEF Inv
<1>2. /\ disk' \in [state : State, inflight : TransitionId \cup {None}]
      /\ disk'.state = disk.state /\ (disk'.inflight = None \/ disk' = disk)
    BY DEF Inv, TypeInv
<1>3. TypeInv'
    BY <1>2 DEF Inv, TypeInv, Aside
<1>4. FiringInv'
    BY <1>1 DEF FiringInv
<1>5. DiskInv'
    BY <1>2 DEF Inv, DiskInv
<1>6. PauseInv'
    BY <1>1 DEF PauseInv
<1>7. LifecycleInv'
    BY <1>1, <1>2 DEF LifecycleInv, run_lifecycle, Aside
<1>8. OwedInv'
    BY <1>1 DEF Inv, OwedInv, Aside
<1> QED BY <1>1, <1>3, <1>4, <1>5, <1>6, <1>7, <1>8 DEF Inv

\* A transition that is fired keeps the invariant, if the lifecycle is where
\* it leads from, and no other is recorded while an upgrade's hook is owed.
LEMMA FireKeepsInv ==
    ASSUME Inv, lock # <<>>, NEW t \in TransitionId,
           UnitWorkflow[t].source = disk.state, fire_transition(t), UNCHANGED Aside,
           t \in Halts => lifecycle \/ (up = "starting" /\ t = "error_retry_configure"),
           t \in Runs => ~lifecycle,
           t \notin Halts \cup Runs => lifecycle = run_lifecycle,
           owed /\ ~torn /\ disk.state = "started"
               => t \in {"upgrade_charm", "upgrade_charm_error"}
    PROVE  Inv'
<1>1. /\ disk'.inflight = t /\ disk'.state = disk.state
      /\ disk' \in [state : State, inflight : TransitionId \cup {None}]
      /\ UNCHANGED <<up, lock, job>> /\ LockInv'
      /\ firing' \in Firing /\ firing' # None /\ firing'.id = t
      /\ Begins(t, firing'.todo)
    BY Fired DEF Inv
<1>2. /\ Rest(t, firing'.todo)
      /\ Left("prepare")' <=> t \in Upgrades
      /\ Left("run")' <=> t \in Runs
      /\ Left("halt")' <=> t \in Halts
      /\ \A s \in {"pause", "extract", "record", "upgrade-charm", "resume"} : ~Left(s)'
    BY <1>1, FirstSteps DEF Left
<1>3. TypeInv'
    BY <1>1 DEF Inv, TypeInv, Aside
<1>4. t # "force"
    BY Actions DEF Plain, Installs, Starts, OnlyRuns, Halts, Upgrades
<1>5. FiringInv'
    BY <1>1, <1>2, <1>4 DEF FiringInv
<1>6. DiskInv'
    BY <1>1 DEF DiskInv
<1>7. PauseInv'
    BY <1>2 DEF PauseInv
<1>8. LifecycleInv'
    <2>1. Halts \cap Runs = {}
        BY DEF Halts, Runs, Starts, OnlyRuns
    <2>2. /\ t \in Halts => Left("halt")' /\ (\/ lifecycle'
                                                \/ /\ up' = "starting"
                                                   /\ t = "error_retry_configure")
          /\ t \in Runs => Left("run")' /\ ~lifecycle'
          /\ t \notin Halts \cup Runs => lifecycle' = run_lifecycle'
        BY <1>1, <1>2 DEF run_lifecycle, Aside
    <2> QED BY <1>1, <2>2 DEF LifecycleInv
<1>9. OwedInv'
    <2>1. t \in {"upgrade_charm", "retry_upgrade_charm_hook"} => Left("prepare")'
        BY <1>2 DEF Upgrades
    <2> QED BY <1>1, <2>1 DEF Inv, OwedInv, Aside
<1> QED BY <1>1, <1>3, <1>5, <1>6, <1>7, <1>8, <1>9 DEF Inv

\* The steps that touch nothing but themselves.
LEMMA StepKeepsInv ==
    ASSUME Inv, NEW step \in {"store", "install", "config-changed", "start", "verify"},
           Doing(step), Done, UNCHANGED Aside
    PROVE  Inv'
<1>1. /\ firing' # None /\ firing'.id = firing.id /\ firing # None
      /\ \A x : Left(x)' <=> Left(x) /\ x # step
      /\ FiringInv' /\ LockInv' /\ DiskInv' /\ UNCHANGED <<disk, up>>
    BY Went DEF Inv, Doing
<1>2. TypeInv'
    BY <1>1 DEF Inv, TypeInv, Aside
<1>3. \A x \in {"prepare", "pause", "extract", "record", "upgrade-charm", "resume",
                 "run", "halt"} :
          Left(x)' <=> Left(x)
    BY <1>1
<1>4. PauseInv'
    BY <1>1, <1>3 DEF Inv, PauseInv, Aside
<1>5. LifecycleInv'
    BY <1>1, <1>3 DEF Inv, LifecycleInv, run_lifecycle, Aside
<1>6. OwedInv'
    BY <1>1, <1>3 DEF Inv, OwedInv, Aside
<1> QED BY <1>1, <1>2, <1>4, <1>5, <1>6 DEF Inv

\* Storing the state in ZooKeeper.
LEMMA StoreKeepsInv == ASSUME Inv, StoreState PROVE Inv'
<1>1. UNCHANGED Aside
    BY DEF StoreState, running, requests, commands, history, Aside
<1> QED BY <1>1, StepKeepsInv DEF StoreState

\* A hook that ends.
LEMMA HookEndsKeepsInv == ASSUME Inv, HookEnds PROVE Inv'
<1>1. UNCHANGED Aside
    BY DEF HookEnds, running, requests, commands, history, Aside
<1> QED BY <1>1, StepKeepsInv DEF HookEnds

\* UnitLifecycle.start.
LEMMA RunKeepsInv == ASSUME Inv, RunLifecycle PROVE Inv'
<1>1. /\ firing' # None /\ firing'.id = firing.id /\ firing # None
      /\ \A x : Left(x)' <=> Left(x) /\ x # "run"
      /\ FiringInv' /\ LockInv' /\ DiskInv' /\ UNCHANGED <<disk, up>>
    BY Went DEF Inv, Doing, RunLifecycle
<1>2. /\ lifecycle' = TRUE
      /\ UNCHANGED <<executor, resolved, resolving, service_charm, owed, torn>>
    BY DEF RunLifecycle, requests, commands, history
<1>3. TypeInv'
    BY <1>1, <1>2 DEF Inv, TypeInv
<1>4. \A x \in {"prepare", "pause", "extract", "record", "upgrade-charm", "resume", "halt"} :
          Left(x)' <=> Left(x)
    BY <1>1
<1>5. PauseInv'
    BY <1>1, <1>2, <1>4 DEF Inv, PauseInv
<1>6. firing.id \in Runs
    BY StepsFit DEF RunLifecycle, Doing, Inv, FiringInv, StepFits
<1>7. LifecycleInv'
    <2>1. Halts \cap Runs = {}
        BY DEF Halts, Runs, Starts, OnlyRuns
    <2> QED BY <1>1, <1>2, <1>6, <2>1 DEF LifecycleInv
<1>8. OwedInv'
    BY <1>1, <1>2, <1>4 DEF Inv, OwedInv
<1> QED BY <1>1, <1>3, <1>5, <1>7, <1>8 DEF Inv

\* UnitLifecycle.stop: only an agent that is starting can find it stopped.
LEMMA HaltKeepsInv == ASSUME Inv, HaltLifecycle PROVE Inv'
<1>1. firing.id \in Halts /\ Left("halt") /\ firing # None /\ lock # <<>>
    <2>1. firing \in Firing /\ firing.todo # <<>> /\ Head(firing.todo) = "halt"
        BY DEF HaltLifecycle, Doing, Inv, FiringInv
    <2>2. firing.todo \in Seq(Step)
        BY <2>1 DEF Firing
    <2>3. 1 \in 1..Len(firing.todo) /\ firing.todo[1] = "halt"
        BY <2>1, <2>2
    <2> QED BY <2>3, StepsFit DEF HaltLifecycle, Doing, Inv, FiringInv, StepFits, Left, Has
<1>2. /\ lifecycle' = FALSE
      /\ UNCHANGED <<executor, resolved, resolving, service_charm, owed, torn>>
    BY DEF HaltLifecycle, requests, commands, history
<1>3. CASE lifecycle
    <2>1. /\ firing' # None /\ firing'.id = firing.id
          /\ \A x : Left(x)' <=> Left(x) /\ x # "halt"
          /\ FiringInv' /\ LockInv' /\ DiskInv' /\ UNCHANGED <<disk, up>>
        BY <1>3, Went DEF Inv, HaltLifecycle
    <2>2. TypeInv'
        BY <1>2, <2>1 DEF Inv, TypeInv
    <2>3. \A x \in {"prepare", "pause", "extract", "record", "upgrade-charm", "resume"} :
              Left(x)' <=> Left(x)
        BY <2>1
    <2>4. PauseInv'
        BY <1>1, <1>2, <2>1, <2>3 DEF Inv, PauseInv
    <2>5. LifecycleInv'
        <3>1. Halts \cap Runs = {}
            BY DEF Halts, Runs, Starts, OnlyRuns
        <3> QED BY <1>1, <1>2, <2>1, <3>1 DEF LifecycleInv
    <2>6. OwedInv'
        BY <1>1, <1>2, <2>1, <2>3 DEF Inv, OwedInv
    <2> QED BY <2>1, <2>2, <2>4, <2>5, <2>6 DEF Inv
<1>4. CASE ~lifecycle
    <2>1. up = "starting"
        BY <1>1, <1>4 DEF Inv, LifecycleInv
    <2>2. Raise /\ disk' = disk
        BY <1>4 DEF HaltLifecycle
    <2>3. Holder = "start"
        BY <2>1 DEF Inv, LockInv, Holder
    <2>4. up' = "failed"
        BY <2>2, <2>3 DEF Raise
    <2>5. UNCHANGED Aside
        BY <1>2, <1>4 DEF Aside, Inv, TypeInv
    <2> QED BY <1>1, <2>2, <2>4, <2>5, ReleaseKeepsInv
<1> QED BY <1>3, <1>4

\* UnitLifecycle.configure finds the lifecycle running: the unit is started,
\* or the transition has just started it.
LEMMA VerifyKeepsInv == ASSUME Inv, VerifyRunning PROVE Inv'
<1>1. /\ firing # None /\ firing.id \in {"configure", "retry_configure_hook"}
      /\ ~Left("run")
    BY StepsFit DEF VerifyRunning, Doing, Inv, FiringInv, StepFits, Left
<1>2. lifecycle
    <2>1. CASE firing.id = "retry_configure_hook"
        BY <1>1, <2>1 DEF Inv, LifecycleInv, Runs
    <2>2. CASE firing.id = "configure"
        <3>1. "configure" \in TransitionId /\ "configure" \notin Halts \cup Runs
            BY Actions DEF Halts, Runs, Starts, OnlyRuns
        <3>2. disk.inflight = "configure"
            BY <1>1, <2>2, <3>1 DEF Inv, FiringInv
        <3>3. "configure" # None
            BY <3>1, NoneAssumption
        <3>4. UnitWorkflow["configure"].source = "started"
            BY DEF UnitWorkflow, Transition
        <3>5. disk.state = "started"
            BY <3>2, <3>3, <3>4 DEF Inv, DiskInv
        <3> QED BY <1>1, <2>2, <3>1, <3>5 DEF Inv, LifecycleInv, run_lifecycle, TypeInv
    <2> QED BY <1>1, <2>1, <2>2
<1>3. UNCHANGED Aside /\ Done
    BY <1>2 DEF VerifyRunning, running, requests, commands, history, Aside
<1> QED BY <1>3, StepKeepsInv DEF VerifyRunning

\* What the steps of an upgrade are steps of.
LEMMA UpgradeStep ==
    ASSUME Inv, NEW step \in {"prepare", "pause", "extract", "record", "upgrade-charm", "resume"},
           Doing(step)
    PROVE  /\ firing.id \in Upgrades \cup {"force"} /\ firing.id \notin Halts \cup Runs
           /\ StepFits(firing.id, firing.todo) /\ Head(firing.todo) = step /\ Left(step)
           /\ firing # None /\ firing \in Firing
<1>1. /\ firing \in Firing /\ firing # None /\ firing.todo # <<>> /\ Head(firing.todo) = step
      /\ Rest(firing.id, firing.todo)
    BY DEF Doing, Inv, FiringInv
<1>2. StepFits(firing.id, firing.todo)
    BY <1>1, StepsFit
<1>3. firing.id \in Upgrades \cup {"force"}
    BY <1>1, <1>2 DEF StepFits
<1>4. firing.id \notin Halts \cup Runs
    BY <1>3 DEF Upgrades, Halts, Runs, Starts, OnlyRuns
<1>5. firing.todo \in Seq(Step)
    BY <1>1 DEF Firing
<1>6. 1 \in 1..Len(firing.todo) /\ firing.todo[1] = step
    BY <1>1, <1>5
<1>7. Left(step)
    BY <1>6 DEF Left, Has
<1> QED BY <1>1, <1>2, <1>3, <1>4, <1>7

\* The steps of an upgrade leave the lifecycle as it is.
LEMMA UpgradeKeepsLifecycle ==
    ASSUME Inv, NEW step \in {"pause", "extract", "record", "upgrade-charm", "resume"},
           Doing(step), Done, lifecycle' = lifecycle
    PROVE  LifecycleInv'
<1>1. /\ firing' # None /\ firing'.id = firing.id /\ firing # None
      /\ UNCHANGED <<disk, up>>
    BY Went DEF Inv, Doing
<1>2. firing.id \notin Halts \cup Runs
    BY UpgradeStep
<1> QED BY <1>1, <1>2 DEF Inv, LifecycleInv, run_lifecycle

\* The start of upgrade_charm.
LEMMA PrepareKeepsInv == ASSUME Inv, PrepareUpgrade PROVE Inv'
<1> DEFINE todo == upgrade_steps(service_charm # unit_charm)
<1>1. /\ firing.id \in Upgrades \cup {"force"} /\ firing.id \notin Halts \cup Runs
      /\ firing # None /\ firing \in Firing
    BY UpgradeStep DEF PrepareUpgrade
<1>2. /\ firing' = [firing EXCEPT !.todo = todo, !.charm = service_charm]
      /\ UNCHANGED <<disk, up, lock, job>> /\ UNCHANGED Aside
    BY DEF PrepareUpgrade, running, requests, commands, history, Aside
<1>3. /\ Rest(firing.id, todo) /\ todo \in Seq(Step)
      /\ Has(todo, "pause") /\ Has(todo, "resume")
      /\ firing.id \in {"upgrade_charm", "retry_upgrade_charm_hook"} => Has(todo, "upgrade-charm")
    BY <1>1, UpgradeSteps
<1> HIDE DEF todo
<1>4. firing'.todo = todo /\ firing'.id = firing.id /\ firing' \in Firing
    BY <1>1, <1>2, <1>3 DEF Firing, Inv, TypeInv
<1>5. firing' # None
    BY <1>4, NoneAssumption
<1>6. TypeInv'
    BY <1>2 DEF Inv, TypeInv, Aside
<1>7. LockInv'
    BY <1>2 DEF Inv, LockInv
<1>8. FiringInv'
    BY <1>1, <1>2, <1>3, <1>4, <1>5 DEF Inv, FiringInv
<1>9. DiskInv'
    BY <1>2, <1>5 DEF Inv, DiskInv
<1>10. PauseInv'
    BY <1>3, <1>4 DEF PauseInv, Left
<1>11. LifecycleInv'
    BY <1>1, <1>2, <1>4, <1>5 DEF Inv, LifecycleInv, run_lifecycle, Aside
<1>12. OwedInv'
    BY <1>2, <1>3, <1>4 DEF Inv, OwedInv, Left, Aside
<1> QED BY <1>6, <1>7, <1>8, <1>9, <1>10, <1>11, <1>12 DEF Inv

\* The executor is paused.
LEMMA PauseKeepsInv == ASSUME Inv, PauseExecutor PROVE Inv'
<1>1. /\ firing' # None /\ firing'.id = firing.id /\ firing # None
      /\ \A x : Left(x)' <=> Left(x) /\ x # "pause"
      /\ FiringInv' /\ LockInv' /\ DiskInv' /\ UNCHANGED <<disk, up>>
    BY Went DEF Inv, Doing, PauseExecutor
<1>2. /\ executor' = FALSE
      /\ UNCHANGED <<lifecycle, resolved, resolving, service_charm, owed, torn>>
    BY DEF PauseExecutor, requests, commands, history
<1>3. TypeInv'
    BY <1>1, <1>2 DEF Inv, TypeInv
<1>4. PauseInv'
    BY <1>2 DEF PauseInv
<1>5. LifecycleInv'
    BY <1>2, UpgradeKeepsLifecycle DEF PauseExecutor
<1>6. OwedInv'
    BY <1>1, <1>2 DEF Inv, OwedInv
<1> QED BY <1>1, <1>3, <1>4, <1>5, <1>6 DEF Inv

\* The new charm is extracted: its hook is owed, and is left to do.
LEMMA ExtractKeepsInv == ASSUME Inv, ExtractCharm PROVE Inv'
<1>1. /\ firing' # None /\ firing'.id = firing.id /\ firing # None
      /\ \A x : Left(x)' <=> Left(x) /\ x # "extract"
      /\ FiringInv' /\ LockInv' /\ DiskInv' /\ UNCHANGED <<disk, up>>
    BY Went DEF Inv, Doing, ExtractCharm
<1>2. /\ owed' = (owed \/ firing.id # "force")
      /\ UNCHANGED <<executor, lifecycle, resolved, resolving, service_charm, torn>>
    BY DEF ExtractCharm, running, requests, commands
<1>3. TypeInv'
    BY <1>1, <1>2 DEF Inv, TypeInv
<1>4. \A x \in {"prepare", "pause", "record", "upgrade-charm", "resume"} : Left(x)' <=> Left(x)
    BY <1>1
<1>5. PauseInv'
    BY <1>1, <1>2, <1>4 DEF Inv, PauseInv
<1>6. LifecycleInv'
    BY <1>2, UpgradeKeepsLifecycle DEF ExtractCharm
<1>7. firing.id \in Upgrades \cup {"force"} /\ (firing.id # "force" => Left("upgrade-charm"))
    BY UpgradeStep DEF ExtractCharm, StepFits, Left
<1>8. ASSUME firing.id = "force" PROVE OwedInv'
    <2>1. owed' = owed
        BY <1>2, <1>8 DEF Inv, TypeInv
    <2> QED BY <1>1, <1>2, <1>4, <1>8, <2>1 DEF Inv, OwedInv
<1>9. ASSUME firing.id \in Upgrades PROVE OwedInv'
    <2>1. disk.inflight = firing.id /\ firing.id \in TransitionId /\ firing.id # None
        BY <1>1, <1>9, Actions, NoneAssumption DEF Inv, FiringInv
    <2>2. UnitWorkflow[firing.id].source = disk.state
        BY <2>1 DEF Inv, DiskInv
    <2>3. \/ firing.id = "upgrade_charm" /\ disk.state = "started"
          \/ disk.state = "charm_upgrade_error"
        BY <1>9, <2>2 DEF Upgrades, UnitWorkflow, Transition
    <2>4. firing.id # "force"
        BY <1>9 DEF Upgrades
    <2>5. Left("upgrade-charm")'
        BY <1>4, <1>7, <2>4
    <2>6. disk'.state = disk.state /\ disk'.inflight = firing.id
        BY <1>1, <2>1
    <2> QED BY <2>3, <2>5, <2>6 DEF OwedInv
<1>10. OwedInv'
    BY <1>7, <1>8, <1>9
<1> QED BY <1>1, <1>3, <1>5, <1>6, <1>10 DEF Inv

\* The unit is recorded to run the new charm.
LEMMA RecordKeepsInv == ASSUME Inv, RecordCharm PROVE Inv'
<1>1. /\ firing' # None /\ firing'.id = firing.id /\ firing # None
      /\ \A x : Left(x)' <=> Left(x) /\ x # "record"
      /\ FiringInv' /\ LockInv' /\ DiskInv' /\ UNCHANGED <<disk, up>>
    BY Went DEF Inv, Doing, RecordCharm
<1>2. UNCHANGED Aside
    BY DEF RecordCharm, running, requests, commands, history, Aside
<1>3. TypeInv'
    BY <1>1, <1>2 DEF Inv, TypeInv, Aside
<1>4. \A x \in {"prepare", "pause", "extract", "upgrade-charm", "resume"} : Left(x)' <=> Left(x)
    BY <1>1
<1>5. PauseInv'
    BY <1>1, <1>2, <1>4 DEF Inv, PauseInv, Aside
<1>6. LifecycleInv'
    BY <1>2, UpgradeKeepsLifecycle DEF RecordCharm, Aside
<1>7. OwedInv'
    BY <1>1, <1>2, <1>4 DEF Inv, OwedInv, Aside
<1> QED BY <1>1, <1>3, <1>5, <1>6, <1>7 DEF Inv

\* The upgrade hook has run: it is no longer owed.
LEMMA UpgradeHookKeepsInv == ASSUME Inv, UpgradeHookEnds PROVE Inv'
<1>1. /\ firing' # None /\ firing'.id = firing.id /\ firing # None
      /\ \A x : Left(x)' <=> Left(x) /\ x # "upgrade-charm"
      /\ FiringInv' /\ LockInv' /\ DiskInv' /\ UNCHANGED <<disk, up>>
    BY Went DEF Inv, Doing, UpgradeHookEnds
<1>2. /\ owed' = FALSE
      /\ UNCHANGED <<executor, lifecycle, resolved, resolving, service_charm, torn>>
    BY DEF UpgradeHookEnds, running, requests, commands
<1>3. TypeInv'
    BY <1>1, <1>2 DEF Inv, TypeInv
<1>4. PauseInv'
    BY <1>1, <1>2 DEF PauseInv, UpgradeHookEnds
<1>5. LifecycleInv'
    BY <1>2, UpgradeKeepsLifecycle DEF UpgradeHookEnds
<1>6. OwedInv'
    BY <1>2 DEF OwedInv
<1> QED BY <1>1, <1>3, <1>4, <1>5, <1>6 DEF Inv

\* The executor is started again, when nothing of the upgrade is left.
LEMMA ResumeKeepsInv == ASSUME Inv, ResumeExecutor PROVE Inv'
<1>1. /\ firing' # None /\ firing'.id = firing.id /\ firing # None
      /\ \A x : Left(x)' <=> Left(x) /\ x # "resume"
      /\ FiringInv' /\ LockInv' /\ DiskInv' /\ UNCHANGED <<disk, up>>
    BY Went DEF Inv, Doing, ResumeExecutor
<1>2. /\ executor' = TRUE
      /\ UNCHANGED <<lifecycle, resolved, resolving, service_charm, owed, torn>>
    BY DEF ResumeExecutor, requests, commands, history
<1>3. TypeInv'
    BY <1>1, <1>2 DEF Inv, TypeInv
<1>4. firing.todo = <<"resume">>
    BY UpgradeStep DEF ResumeExecutor, StepFits
<1>5. \A x : Left(x) <=> x = "resume"
    BY <1>4, Members DEF Left
<1>6. PauseInv'
    BY <1>1, <1>5 DEF PauseInv
<1>7. LifecycleInv'
    BY <1>2, UpgradeKeepsLifecycle DEF ResumeExecutor
<1>8. \A x \in {"prepare", "upgrade-charm"} : Left(x)' <=> Left(x)
    BY <1>1
<1>9. OwedInv'
    BY <1>1, <1>2, <1>8 DEF Inv, OwedInv
<1> QED BY <1>1, <1>3, <1>6, <1>7, <1>9 DEF Inv

\* An agent that holds the lock and fires nothing has no upgrade hook owed in
\* a started unit, unless it is starting.
LEMMA Idle ==
    ASSUME Inv, NEW p \in Watch, Acquired(p)
    PROVE  /\ lock # <<>> /\ firing = None /\ up = "on" /\ Holder = p
           /\ disk.inflight = None /\ lifecycle = run_lifecycle
           /\ owed /\ ~torn => disk.state = "charm_upgrade_error"
<1>1. lock # <<>> /\ firing = None /\ Holder = p
    BY DEF Acquired
<1>2. up = "on"
    <2>1. Holder # "start"
        BY <1>1 DEF Watch
    <2>2. up # "starting"
        BY <2>1 DEF Inv, LockInv, Holder
    <2> QED BY <1>1, <2>2 DEF Inv, LockInv
<1>3. disk.inflight = None /\ lifecycle = run_lifecycle
    BY <1>1, <1>2 DEF Inv, DiskInv, LifecycleInv
<1>4. "upgrade_charm" # None /\ "upgrade_charm_error" # None
    BY NoneAssumption, Actions DEF Upgrades, Plain
<1>5. owed /\ ~torn => disk.state = "charm_upgrade_error"
    BY <1>3, <1>4 DEF Inv, OwedInv
<1> QED BY <1>1, <1>2, <1>3, <1>5

\* synchronize: what is recorded is fired again, or automatic transitions are.
LEMMA SynchronizeKeepsInv == ASSUME Inv, Synchronize PROVE Inv'
<1>1. lock # <<>> /\ firing = None /\ Holder = "start"
    BY DEF Synchronize, Acquired
<1>2. up = "starting"
    <2>1. lock \in Seq(Party) /\ lock[1] = "start" /\ 1 \in 1..Len(lock)
        BY <1>1 DEF Inv, LockInv, Holder
    <2>2. up # "on"
        BY <2>1 DEF Inv, LockInv, Watch
    <2> QED BY <1>1, <2>2 DEF Inv, LockInv
<1>3. lifecycle = run_lifecycle
    BY <1>1, <1>2 DEF Inv, LifecycleInv
<1>4. UNCHANGED Aside
    BY DEF Synchronize, running, requests, commands, history, Aside
<1>5. CASE disk.inflight # None
    <2> DEFINE t == disk.inflight
    <2>1. t \in TransitionId /\ UnitWorkflow[t].source = disk.state /\ fire_transition(t)
        BY <1>5 DEF Inv, TypeInv, DiskInv, Synchronize
    <2>2. t \in Halts => lifecycle \/ t = "error_retry_configure"
        <3>1. UnitWorkflow["error_configure"].source = "started"
            BY DEF UnitWorkflow, Transition
        <3> QED BY <1>3, <2>1, <3>1 DEF Halts, run_lifecycle
    <2>3. t \in Runs => ~lifecycle
        BY <1>3, <2>1, WorkflowFacts DEF run_lifecycle, Running
    <2>4. owed /\ ~torn /\ disk.state = "started"
              => t \in {"upgrade_charm", "upgrade_charm_error"}
        BY DEF Inv, OwedInv
    <2> HIDE DEF t
    <2> QED BY <1>1, <1>2, <1>3, <1>4, <2>1, <2>2, <2>3, <2>4, FireKeepsInv
<1>6. CASE disk.inflight = None
    <2>1. /\ firing' = [id |-> "automatic", todo |-> <<>>, charm |-> None]
          /\ UNCHANGED <<disk, up, lock, job>>
        BY <1>6 DEF Synchronize
    <2>2. firing' \in Firing
        BY <2>1 DEF Firing
    <2>3. firing'.id = "automatic" /\ firing'.todo = <<>> /\ firing' # None
        BY <2>1, <2>2, NoneAssumption
    <2>4. /\ "automatic" \notin TransitionId
          /\ "automatic" \notin Halts \cup Runs
        BY Actions DEF Plain, Installs, Starts, OnlyRuns, Halts, Upgrades, Runs
    <2>5. TypeInv'
        BY <1>4, <2>1 DEF Inv, TypeInv, Aside
    <2>6. LockInv'
        BY <2>1 DEF Inv, LockInv
    <2>7. Rest("automatic", <<>>)
        BY DEF Rest, Plain, PlainRest
    <2>8. FiringInv'
        BY <1>1, <1>6, <2>1, <2>2, <2>3, <2>4, <2>7 DEF FiringInv
    <2>9. DiskInv'
        BY <1>6, <2>1 DEF DiskInv
    <2>10. PauseInv'
        BY <2>3, Members DEF PauseInv, Left
    <2>11. LifecycleInv'
        BY <1>3, <1>4, <2>1, <2>3, <2>4 DEF LifecycleInv, run_lifecycle, Aside
    <2>12. OwedInv'
        BY <1>4, <2>1, <2>3 DEF Inv, OwedInv, Aside
    <2> QED BY <2>5, <2>6, <2>8, <2>9, <2>10, <2>11, <2>12 DEF Inv
<1> QED BY <1>5, <1>6

\* An automatic transition, or none.
LEMMA AutomaticKeepsInv == ASSUME Inv, Automatic PROVE Inv'
<1>1. /\ "automatic" \notin TransitionId
      /\ "automatic" \notin Halts \cup Runs
    BY Actions DEF Plain, Installs, Starts, OnlyRuns, Halts, Upgrades, Runs
<1>2. /\ firing # None /\ lock # <<>> /\ disk.inflight = None /\ lifecycle = run_lifecycle
    BY <1>1 DEF Automatic, Inv, FiringInv, LifecycleInv
<1>3. UNCHANGED Aside
    BY DEF Automatic, running, requests, commands, history, Aside
<1>4. CASE Return /\ UNCHANGED disk
    BY <1>2, <1>3, <1>4, ReleaseKeepsInv
<1>5. ASSUME NEW t \in automatic, UnitWorkflow[t].source = disk.state, fire_transition(t)
      PROVE  Inv'
    <2>1. /\ t \in TransitionId /\ t \notin Halts
          /\ UnitWorkflow[t].source \notin Running /\ (t \in Runs => t = "start")
        BY <1>5, NoneAssumption DEF automatic, TransitionId, UnitWorkflow, Transition, Halts,
            Running, Runs, Starts, OnlyRuns
    <2>2. ~run_lifecycle /\ disk.state # "started"
        BY <1>5, <2>1 DEF run_lifecycle, Running
    <2> QED BY <1>2, <1>3, <1>5, <2>1, <2>2, FireKeepsInv
<1> QED BY <1>4, <1>5 DEF Automatic

\* The callback of the watch of the resolved node.
LEMMA ResolvedKeepsInv == ASSUME Inv, cb_watch_resolved PROVE Inv'
<1>1. /\ lock # <<>> /\ firing = None /\ up = "on" /\ Holder = "resolved"
      /\ disk.inflight = None /\ lifecycle = run_lifecycle
    BY Idle DEF cb_watch_resolved, Watch
<1>2. UNCHANGED Aside
    BY DEF cb_watch_resolved, running, requests, commands, history, Aside
<1>3. job["resolved"] \in Retry
    <2>1. lock \in Seq(Party) /\ 1 \in 1..Len(lock) /\ lock[1] = "resolved"
        BY <1>1 DEF Inv, LockInv, Holder
    <2> QED BY <2>1 DEF Inv, LockInv
<1>4. CASE (Return \/ Raise) /\ UNCHANGED disk
    BY <1>1, <1>2, <1>4, ReleaseKeepsInv
<1>5. ASSUME disk.state # "started", NEW t \in aliased(job["resolved"]), fire_transition(t)
      PROVE  Inv'
    <2>1. /\ t \in TransitionId /\ UnitWorkflow[t].source = disk.state
          /\ UnitWorkflow[t].alias \in Retry
        BY <1>3 DEF aliased
    <2>2. t \notin Halts
        BY <2>1, NoneAssumption DEF Halts, Retry, UnitWorkflow, Transition
    <2>3. t \in Runs => ~run_lifecycle
        BY <2>1, WorkflowFacts DEF run_lifecycle, Running
    <2> QED BY <1>1, <1>2, <1>5, <2>1, <2>2, <2>3, FireKeepsInv
<1> QED BY <1>4, <1>5 DEF cb_watch_resolved, fire_transition_alias

\* The callback of the watch of the upgrade node.
LEMMA UpgradeFlagKeepsInv == ASSUME Inv, cb_watch_upgrade_flag PROVE Inv'
<1>1. /\ lock # <<>> /\ firing = None /\ up = "on" /\ Holder = "upgrade"
      /\ disk.inflight = None /\ lifecycle = run_lifecycle
    BY Idle DEF cb_watch_upgrade_flag, Watch
<1>2. UNCHANGED Aside
    BY DEF cb_watch_upgrade_flag, running, requests, commands, history, Aside
<1>3. CASE Return /\ UNCHANGED disk
    BY <1>1, <1>2, <1>3, ReleaseKeepsInv
<1>4. CASE disk.state = "started" /\ fire_transition("upgrade_charm")
    <2>1. /\ "upgrade_charm" \in TransitionId
          /\ UnitWorkflow["upgrade_charm"].source = disk.state
          /\ "upgrade_charm" \notin Halts \cup Runs
        BY <1>4 DEF TransitionId, UnitWorkflow, Transition, Halts, Runs, Starts, OnlyRuns
    <2> QED BY <1>1, <1>2, <1>4, <2>1, FireKeepsInv
<1>5. CASE /\ disk.state # "started"
           /\ firing' = [id |-> "force", todo |-> <<"prepare">>, charm |-> None]
           /\ UNCHANGED <<disk, up, first, lost, lock, job>>
    <2>1. <<"prepare">> \in Seq(Step)
        BY DEF Step
    <2>2. firing' \in Firing
        BY <1>5, <2>1 DEF Firing
    <2>3. firing'.id = "force" /\ firing'.todo = <<"prepare">> /\ firing' # None
        BY <1>5, <2>2, NoneAssumption
    <2>4. "force" \notin TransitionId /\ "force" \notin Halts \cup Runs
        BY Actions DEF Plain, Installs, Starts, OnlyRuns, Halts, Upgrades, Runs
    <2>5. TypeInv'
        BY <1>2, <1>5 DEF Inv, TypeInv, Aside
    <2>6. LockInv'
        BY <1>5 DEF Inv, LockInv
    <2>7. Rest("force", <<"prepare">>)
        BY DEF Rest
    <2>8. FiringInv'
        BY <1>1, <1>5, <2>2, <2>3, <2>4, <2>7 DEF FiringInv
    <2>9. DiskInv'
        BY <1>1, <1>5 DEF DiskInv
    <2>10. PauseInv'
        BY <2>3, Members DEF PauseInv, Left
    <2>11. LifecycleInv'
        BY <1>1, <1>2, <1>5, <2>3, <2>4 DEF LifecycleInv, run_lifecycle, Aside
    <2>12. OwedInv'
        BY <1>2, <1>5, <2>3 DEF Inv, OwedInv, Aside
    <2> QED BY <2>5, <2>6, <2>8, <2>9, <2>10, <2>11, <2>12 DEF Inv
<1> QED BY <1>3, <1>4, <1>5 DEF cb_watch_upgrade_flag

\* The callback of the watch of the configuration.
LEMMA ConfigKeepsInv == ASSUME Inv, cb_watch_config_changed PROVE Inv'
<1>1. /\ lock # <<>> /\ firing = None /\ up = "on" /\ Holder = "config"
      /\ disk.inflight = None /\ lifecycle = run_lifecycle
      /\ owed /\ ~torn => disk.state = "charm_upgrade_error"
    BY Idle DEF cb_watch_config_changed, Watch
<1>2. UNCHANGED Aside
    BY DEF cb_watch_config_changed, running, requests, commands, history, Aside
<1>3. CASE Return /\ UNCHANGED disk
    BY <1>1, <1>2, <1>3, ReleaseKeepsInv
<1>4. CASE disk.state = "started" /\ fire_transition("configure")
    <2>1. /\ "configure" \in TransitionId
          /\ UnitWorkflow["configure"].source = disk.state
          /\ "configure" \notin Halts \cup Runs
        BY <1>4 DEF TransitionId, UnitWorkflow, Transition, Halts, Runs, Starts, OnlyRuns
    <2> QED BY <1>1, <1>2, <1>4, <2>1, FireKeepsInv
<1> QED BY <1>3, <1>4 DEF cb_watch_config_changed

\* What a step that can fail is a step of: what was recorded leads from the
\* state on disk, and a lifecycle that the transition was to start, or that
\* it configures, is as its error transition expects.
LEMMA Failing ==
    ASSUME Inv, firing # None, firing.todo # <<>>, Head(firing.todo) \in DOMAIN fault,
           firing.id # "force"
    PROVE  /\ firing.id \in TransitionId /\ disk.inflight = firing.id
           /\ UnitWorkflow[firing.id].source = disk.state
           /\ firing.id \notin Halts \cup Erring
           /\ \/ firing.id \in {"configure", "retry_configure_hook"} /\ lifecycle = TRUE
              \/ /\ firing.id \in Installs \cup Starts \cup Upgrades
                 /\ lifecycle = run_lifecycle
<1> DEFINE id == firing.id
<1>1. Rest(id, firing.todo) /\ StepFits(id, firing.todo)
    BY StepsFit DEF Inv, FiringInv
<1>2. DOMAIN fault = {"install", "config-changed", "start", "upgrade-charm", "prepare",
                      "extract", "record"}
    BY DEF fault
<1>3. \/ id \in Installs
      \/ id \in Starts /\ Left("run")
      \/ id \in {"configure", "retry_configure_hook"} /\ ~Left("run")
      \/ id \in Upgrades
    BY <1>1, <1>2 DEF StepFits, Left
<1>4. id \in TransitionId /\ id \notin Halts \cup Erring
    BY <1>3, Actions DEF Installs, Starts, Upgrades, Halts, Erring
<1>5. disk.inflight = id /\ id # None
    BY <1>4, NoneAssumption DEF Inv, FiringInv
<1>6. UnitWorkflow[id].source = disk.state
    BY <1>5 DEF Inv, DiskInv
<1>7. CASE id \in Installs \cup Upgrades
    <2>1. id \notin Halts \cup Runs
        BY <1>7 DEF Installs, Upgrades, Halts, Runs, Starts, OnlyRuns
    <2> QED BY <1>4, <1>5, <1>6, <1>7, <2>1 DEF Inv, LifecycleInv
<1>8. CASE id \in Starts /\ Left("run")
    <2>1. id \in Runs
        BY <1>8 DEF Runs
    <2>2. ~lifecycle /\ ~run_lifecycle
        BY <1>6, <1>8, <2>1, WorkflowFacts DEF Inv, LifecycleInv, run_lifecycle, Running
    <2>3. lifecycle \in BOOLEAN /\ run_lifecycle \in BOOLEAN
        BY DEF Inv, TypeInv, run_lifecycle
    <2>4. lifecycle = run_lifecycle
        BY <2>2, <2>3
    <2> QED BY <1>4, <1>5, <1>6, <1>8, <2>4
<1>9. CASE id = "retry_configure_hook" /\ ~Left("run")
    <2>1. lifecycle
        BY <1>9 DEF Inv, LifecycleInv, Runs
    <2>2. lifecycle = TRUE
        BY <2>1 DEF Inv, TypeInv
    <2> QED BY <1>4, <1>5, <1>6, <1>9, <2>2
<1>10. CASE id = "configure"
    <2>1. id \notin Halts \cup Runs
        BY <1>10 DEF Halts, Runs, Starts, OnlyRuns
    <2>2. disk.state = "started"
        BY <1>6, <1>10 DEF UnitWorkflow, Transition
    <2>3. lifecycle = run_lifecycle
        BY <2>1 DEF Inv, LifecycleInv
    <2>4. run_lifecycle = TRUE
        BY <2>2 DEF run_lifecycle
    <2> QED BY <1>4, <1>5, <1>6, <1>10, <2>3, <2>4
<1> QED BY <1>3, <1>7, <1>8, <1>9, <1>10

\* The transitions that have no error transition, or the one they have.
LEMMA Errors ==
    /\ \A t \in Installs \cup Starts :
         UnitWorkflow[t].error \in {None, "error_install", "error_start"}
    /\ UnitWorkflow["configure"].error = "error_configure"
    /\ UnitWorkflow["retry_configure_hook"].error = "error_retry_configure"
    /\ \A t \in Upgrades : UnitWorkflow[t].error \in Erring
    /\ UnitWorkflow["upgrade_charm"].error = "upgrade_charm_error"
    /\ {"error_configure", "error_retry_configure"} \cap (Runs \cup {None}) = {}
    /\ ({"error_install", "error_start"} \cup Erring) \cap (Halts \cup Runs \cup {None}) = {}
<1>1. \A t \in Installs \cup Starts :
         UnitWorkflow[t].error \in {None, "error_install", "error_start"}
    BY DEF UnitWorkflow, Transition, Installs, Starts
<1>2. /\ UnitWorkflow["configure"].error = "error_configure"
      /\ UnitWorkflow["retry_configure_hook"].error = "error_retry_configure"
      /\ UnitWorkflow["upgrade_charm"].error = "upgrade_charm_error"
    BY DEF UnitWorkflow, Transition
<1>3. \A t \in Upgrades : UnitWorkflow[t].error \in Erring
    BY DEF UnitWorkflow, Transition, Upgrades, Erring
<1>4. /\ {"error_configure", "error_retry_configure"} \cap Runs = {}
      /\ ({"error_install", "error_start"} \cup Erring) \cap (Halts \cup Runs) = {}
    BY DEF Halts, Runs, Starts, OnlyRuns, Erring
<1>5. {"error_configure", "error_retry_configure", "error_install", "error_start"} \cup Erring
          \subseteq TransitionId
    BY Actions DEF Plain, Halts, Erring
<1>6. None \notin TransitionId
    BY NoneAssumption
<1> QED BY <1>1, <1>2, <1>3, <1>4, <1>5, <1>6

\* A hook or an upgrade fails.
LEMMA ActionFailsKeepsInv == ASSUME Inv, ActionFails PROVE Inv'
<1> DEFINE id == firing.id
<1>1. firing # None /\ firing.todo # <<>> /\ Head(firing.todo) \in DOMAIN fault /\ lock # <<>>
    BY DEF ActionFails, Inv, FiringInv
<1>2. UNCHANGED Aside
    BY DEF ActionFails, running, requests, commands, history, Aside
<1>3. CASE id = "force"
    <2>1. Raise /\ disk' = disk
        BY <1>3 DEF ActionFails
    <2>2. "force" \notin TransitionId /\ "force" \notin Halts \cup Runs
        BY Actions DEF Plain, Installs, Starts, OnlyRuns, Halts, Upgrades, Runs
    <2>3. disk.inflight = None /\ lifecycle = run_lifecycle
        BY <1>1, <1>3, <2>2 DEF Inv, FiringInv, LifecycleInv
    <2> QED BY <1>1, <1>2, <2>1, <2>3, ReleaseKeepsInv
<1>4. CASE id # "force"
    <2>1. /\ id \in TransitionId /\ disk.inflight = id
          /\ UnitWorkflow[id].source = disk.state /\ id \notin Halts \cup Erring
          /\ \/ id \in {"configure", "retry_configure_hook"} /\ lifecycle = TRUE
             \/ id \in Installs \cup Starts \cup Upgrades /\ lifecycle = run_lifecycle
        BY <1>1, <1>4, Failing
    <2>2. owed /\ ~torn /\ disk.state = "started" => id = "upgrade_charm"
        BY <2>1 DEF Inv, OwedInv, Erring
    <2> DEFINE e == UnitWorkflow[id].error
    <2>3. CASE e # None
        <3>1. fire_transition(e)
            BY <1>1, <1>4, <2>3 DEF ActionFails
        <3>2. e \in TransitionId /\ UnitWorkflow[e].source = disk.state
            BY <2>1, <2>3, WorkflowFacts
        <3>3. id = "upgrade_charm" => e = "upgrade_charm_error"
            BY Errors
        <3>4. CASE id \in {"configure", "retry_configure_hook"}
            <4>1. e \in {"error_configure", "error_retry_configure"}
                BY <3>4, Errors
            <4>2. e \in Halts /\ e \notin Runs
                BY <4>1, Errors DEF Halts
            <4>3. lifecycle = TRUE
                BY <2>1, <3>4 DEF Installs, Starts, Upgrades
            <4> HIDE DEF e, id
            <4> QED BY <1>1, <1>2, <2>2, <3>1, <3>2, <3>3, <4>2, <4>3, FireKeepsInv
        <3>5. CASE id \notin {"configure", "retry_configure_hook"}
            <4>1. e \in {"error_install", "error_start"} \cup Erring
                BY <2>1, <2>3, <3>5, Errors
            <4>2. e \notin Halts \cup Runs /\ lifecycle = run_lifecycle
                BY <2>1, <3>5, <4>1, Errors
            <4> HIDE DEF e, id
            <4> QED BY <1>1, <1>2, <2>2, <3>1, <3>2, <3>3, <4>2, FireKeepsInv
        <3> QED BY <3>4, <3>5
    <2>4. CASE e = None
        <3>1. Return /\ disk' = [disk EXCEPT !.inflight = None]
            BY <1>1, <1>4, <2>4 DEF ActionFails, forget_transition
        <3>2. id \in Installs \cup Starts /\ lifecycle = run_lifecycle
            BY <2>1, <2>4, Errors
        <3>3. disk'.inflight = None
            BY <3>1 DEF Inv, TypeInv
        <3>4. UnitWorkflow[id].source \notin Running
            <4>1. /\ UnitWorkflow["install"].source = None
                  /\ UnitWorkflow["retry_install_hook"].source = "install_error"
                BY DEF UnitWorkflow, Transition
            <4>2. None \notin Running
                BY NoneAssumption DEF TransitionId, UnitWorkflow, Transition, Running
            <4>3. id \in Starts => id \in Runs
                BY DEF Runs
            <4> QED BY <3>2, <4>1, <4>2, <4>3, WorkflowFacts DEF Installs, Running
        <3>5. ~(owed /\ ~torn)
            BY <2>1, <3>4 DEF Inv, OwedInv, Running
        <3> QED BY <1>1, <1>2, <3>1, <3>2, <3>3, <3>5, ReleaseKeepsInv
    <2> QED BY <2>3, <2>4
<1> QED BY <1>3, <1>4

\* The action is over.
LEMMA SetStateKeepsInv == ASSUME Inv, SetState PROVE Inv'
<1> DEFINE id == firing.id
<1>1. /\ firing # None /\ id # "automatic" /\ firing.todo = <<>> /\ lock # <<>>
      /\ firing \in Firing /\ Rest(id, <<>>)
    BY DEF SetState, Inv, FiringInv
<1>2. UNCHANGED <<executor, lifecycle, resolved, resolving, service_charm, torn>>
    BY DEF SetState, running, requests, commands
<1>3. \A x : ~Left(x)
    BY <1>1, Members DEF Left
<1>4. CASE id = "force"
    <2>1. Return /\ disk' = disk /\ owed' = owed
        BY <1>4 DEF SetState
    <2>2. "force" \notin TransitionId /\ "force" \notin Halts \cup Runs
        BY Actions DEF Plain, Installs, Starts, OnlyRuns, Halts, Upgrades, Runs
    <2>3. disk.inflight = None /\ lifecycle = run_lifecycle
        BY <1>1, <1>4, <2>2 DEF Inv, FiringInv, LifecycleInv
    <2>4. UNCHANGED Aside
        BY <1>2, <2>1 DEF Aside
    <2> QED BY <1>1, <2>1, <2>3, <2>4, ReleaseKeepsInv
<1>5. CASE id # "force"
    <2>1. id \in TransitionId /\ id # None
        BY <1>1, <1>5, NoneAssumption DEF Firing
    <2>2. disk.inflight = id /\ UnitWorkflow[id].source = disk.state
        BY <1>1, <2>1 DEF Inv, FiringInv, DiskInv
    <2> DEFINE d == UnitWorkflow[id].destination
    <2>3. /\ disk' = [state |-> d, inflight |-> None]
          /\ firing' = [id |-> "automatic", todo |-> <<"store">> \o <<>>, charm |-> None]
          /\ owed' = (owed /\ id # "retry_upgrade_charm")
          /\ UNCHANGED <<up, lock, job>>
        BY <1>1, <1>5 DEF SetState, Carry
    <2>4. d \in State
        BY <2>1 DEF State
    <2>5. firing' = [id |-> "automatic", todo |-> <<"store">>, charm |-> None]
        BY <2>3, Stored
    <2>6. <<"store">> \in Seq(Step)
        BY DEF Step
    <2>7. firing' \in Firing
        BY <2>5, <2>6 DEF Firing
    <2>8. firing'.id = "automatic" /\ firing'.todo = <<"store">> /\ firing' # None
        BY <2>5, <2>7, NoneAssumption
    <2>9. disk'.state = d /\ disk'.inflight = None
        BY <2>3
    <2>10. "automatic" \notin TransitionId /\ "automatic" \notin Halts \cup Runs
        BY Actions DEF Plain, Installs, Starts, OnlyRuns, Halts, Upgrades, Runs
    <2>11. TypeInv'
        <3>1. disk' \in [state : State, inflight : TransitionId \cup {None}]
            BY <2>3, <2>4
        <3>2. owed' \in BOOLEAN
            BY <2>3
        <3> QED BY <1>2, <3>1, <3>2 DEF Inv, TypeInv
    <2>12. LockInv'
        BY <2>3 DEF Inv, LockInv
    <2>13. Rest("automatic", <<"store">>)
        BY DEF Rest, Plain, PlainRest
    <2>14. FiringInv'
        BY <1>1, <2>3, <2>7, <2>8, <2>9, <2>10, <2>13 DEF FiringInv
    <2>15. DiskInv'
        BY <2>9 DEF DiskInv
    <2>16. PauseInv'
        <3>1. \A x : Left(x)' <=> x = "store"
            BY <2>8, Members DEF Left
        <3> QED BY <3>1 DEF PauseInv
    <2>17. LifecycleInv'
        <3>1. lifecycle <=> d \in Running
            <4>1. CASE id \in Halts
                <5>1. ~lifecycle
                    BY <1>1, <1>3, <4>1 DEF Inv, LifecycleInv
                <5>2. d \notin Running
                    BY <4>1, WorkflowFacts DEF Running
                <5> QED BY <5>1, <5>2
            <4>2. CASE id \in Runs
                <5>1. lifecycle
                    BY <1>1, <1>3, <4>2 DEF Inv, LifecycleInv
                <5>2. d \in Running
                    BY <4>2, WorkflowFacts DEF Running
                <5> QED BY <5>1, <5>2
            <4>3. CASE id \notin Halts \cup Runs
                <5>1. lifecycle = run_lifecycle
                    BY <1>1, <4>3 DEF Inv, LifecycleInv
                <5>2. run_lifecycle <=> UnitWorkflow[id].source \in Running
                    BY <2>2 DEF run_lifecycle, Running
                <5>3. UnitWorkflow[id].source \in Running <=> d \in Running
                    BY <2>1, <4>3, WorkflowFacts
                <5> QED BY <5>1, <5>2, <5>3
            <4> QED BY <4>1, <4>2, <4>3
        <3>2. lifecycle' \in BOOLEAN /\ run_lifecycle' \in BOOLEAN
            BY <1>2 DEF Inv, TypeInv, run_lifecycle
        <3>3. run_lifecycle' <=> d \in Running
            BY <2>9 DEF run_lifecycle, Running
        <3>4. lifecycle' = run_lifecycle'
            BY <1>2, <3>1, <3>2, <3>3
        <3> QED BY <2>8, <2>10, <3>4 DEF LifecycleInv
    <2>18. OwedInv'
        <3>1. ASSUME owed', ~torn' PROVE d = "charm_upgrade_error"
            <4>1. owed /\ ~torn /\ id # "retry_upgrade_charm"
                BY <1>2, <2>3, <3>1 DEF Inv, TypeInv
            <4>2. id \notin {"upgrade_charm", "retry_upgrade_charm_hook"}
                BY <1>1, <1>3, <4>1 DEF Inv, OwedInv
            <4>3. id = "upgrade_charm_error" \/ disk.state = "charm_upgrade_error"
                BY <2>2, <4>1, <4>2 DEF Inv, OwedInv
            <4>4. id \in Erring
                BY <2>1, <2>2, <4>1, <4>2, <4>3, NoneAssumption
                    DEF TransitionId, UnitWorkflow, Transition, Erring
            <4> QED BY <4>4, WorkflowFacts
        <3> QED BY <2>8, <2>9, <3>1 DEF OwedInv
    <2> QED BY <2>11, <2>12, <2>14, <2>15, <2>16, <2>17, <2>18 DEF Inv
<1> QED BY <1>4, <1>5

\* A new process.
LEMMA StartKeepsInv == ASSUME Inv, Start PROVE Inv'
<1>1. /\ up = "off" /\ up' = "starting" /\ lock' = <<"start">>
      /\ executor' = run_executor /\ lifecycle' = run_lifecycle
      /\ UNCHANGED <<disk, job, firing, resolved, resolving, service_charm, owed, torn>>
    BY DEF Start, requests, commands, history
<1>2. firing = None /\ firing' = None
    BY <1>1 DEF Inv, LockInv, FiringInv
<1>3. run_executor \in BOOLEAN /\ run_lifecycle \in BOOLEAN
    BY DEF run_executor, run_lifecycle
<1>4. TypeInv'
    BY <1>1, <1>3 DEF Inv, TypeInv
<1>5. LockInv'
    <2>1. /\ lock' \in Seq(Party) /\ \A i, j \in 1..Len(lock') : lock'[i] = lock'[j] => i = j
          /\ \A i \in 1..Len(lock') : lock'[i] \notin Watch
        BY <1>1 DEF Party, Watch
    <2> QED BY <1>1, <2>1 DEF Inv, LockInv, Watch
<1>6. FiringInv'
    BY <1>2 DEF FiringInv
<1>7. DiskInv'
    BY <1>1 DEF Inv, DiskInv
<1>8. PauseInv'
    BY <1>2 DEF PauseInv
<1>9. LifecycleInv'
    BY <1>1, <1>2 DEF LifecycleInv, run_lifecycle
<1>10. OwedInv'
    BY <1>1, <1>2 DEF Inv, OwedInv
<1> QED BY <1>4, <1>5, <1>6, <1>7, <1>8, <1>9, <1>10 DEF Inv

\* What leaves the agent and its state alone keeps the invariant.
LEMMA FrameKeepsInv ==
    ASSUME Inv, LockInv', lock # <<>> => lock' # <<>>,
           UNCHANGED <<disk, up, firing, executor, lifecycle, owed, torn>>,
           resolved' \in Retry \cup {None}, resolving' \in Retry \cup {None},
           service_charm' \in Charm
    PROVE  Inv'
<1>1. TypeInv'
    BY DEF Inv, TypeInv
<1>2. FiringInv'
    BY DEF Inv, FiringInv
<1>3. DiskInv'
    BY DEF Inv, DiskInv
<1>4. PauseInv'
    BY DEF Inv, PauseInv, Left
<1>5. LifecycleInv'
    BY DEF Inv, LifecycleInv, Left, run_lifecycle
<1>6. OwedInv'
    BY DEF Inv, OwedInv, Left
<1> QED BY <1>1, <1>2, <1>3, <1>4, <1>5, <1>6 DEF Inv

\* A callback that took a request waits for the lock, behind all others.
LEMMA Enqueued ==
    ASSUME LockInv, NEW p \in Watch, Listening(p), NEW request, Enqueue(p, request),
           request # None, p = "resolved" => request \in Retry, up' = up
    PROVE  LockInv' /\ lock' # <<>>
<1>1. /\ lock \in Seq(Party) /\ p \in Party /\ lock' = Append(lock, p) /\ up = "on"
      /\ job' = [job EXCEPT ![p] = request] /\ job[p] = None
    BY DEF LockInv, Enqueue, Listening, Party
<1>2. /\ Len(lock) \in Nat /\ Len(lock') = Len(lock) + 1 /\ lock' \in Seq(Party)
      /\ lock'[Len(lock')] = p /\ lock' # <<>>
      /\ \A i \in 1..Len(lock') : i # Len(lock') => i \in 1..Len(lock) /\ lock'[i] = lock[i]
    BY <1>1
<1>3. \A i \in 1..Len(lock) : lock[i] \in Watch /\ lock[i] # p
    BY <1>1 DEF LockInv
<1>4. \A i \in 1..Len(lock') : lock'[i] \in Watch /\ (lock'[i] = p <=> i = Len(lock'))
    BY <1>2, <1>3
<1>5. \A i, j \in 1..Len(lock') : lock'[i] = lock'[j] => i = j
    BY <1>2, <1>4 DEF LockInv
<1>6. DOMAIN job' = Party /\ job'[p] = request /\ (\A q \in Party : q # p => job'[q] = job[q])
    BY <1>1 DEF LockInv
<1>7. \A i \in 1..Len(lock') : job'[lock'[i]] # None
    <2>1. TAKE i \in 1..Len(lock')
    <2>2. CASE i = Len(lock')
        BY <1>2, <1>6, <2>2
    <2>3. CASE i # Len(lock')
        BY <1>2, <1>3, <1>6, <2>3 DEF LockInv, Party
    <2> QED BY <2>2, <2>3
<1>8. \A i \in 1..Len(lock') : lock'[i] = "resolved" => job'["resolved"] \in Retry
    <2>1. TAKE i \in 1..Len(lock')
    <2>2. CASE i = Len(lock')
        BY <1>2, <1>6, <2>2
    <2>3. CASE i # Len(lock')
        BY <1>2, <1>3, <1>6, <2>3 DEF LockInv, Party, Watch
    <2> QED BY <2>2, <2>3
<1> QED BY <1>1, <1>2, <1>4, <1>5, <1>6, <1>7, <1>8 DEF LockInv

\* A watch calls back.
LEMMA TakesKeepInv ==
    ASSUME Inv, TakeResolved \/ TakeUpgradeFlag \/ TakeConfigChange
    PROVE  Inv'
<1>1. \A p : NothingFirst(p) /\ up' = up => LockInv' /\ lock' = lock
    BY DEF NothingFirst, Inv, LockInv
<1>2. None \notin Retry \cup {"normal", "force", "configure"}
    BY NoneAssumption DEF Retry
<1>3. CASE TakeResolved
    <2>1. /\ UNCHANGED <<disk, up, firing, executor, lifecycle, owed, torn>>
          /\ resolved' = None /\ resolving' = resolving /\ service_charm' = service_charm
        BY <1>3 DEF TakeResolved, running, commands, history
    <2>2. LockInv' /\ (lock # <<>> => lock' # <<>>)
        <3>1. CASE resolved # None
            <4>1. Listening("resolved") /\ Enqueue("resolved", resolved) /\ resolved \in Retry
                BY <1>3, <3>1 DEF TakeResolved, Inv, TypeInv
            <4> QED BY <2>1, <3>1, <4>1, Enqueued DEF Inv, Watch
        <3>2. CASE resolved = None
            BY <1>1, <1>3, <2>1, <3>2 DEF TakeResolved
        <3> QED BY <3>1, <3>2
    <2> QED BY <2>1, <2>2, FrameKeepsInv DEF Inv, TypeInv
<1>4. CASE TakeUpgradeFlag
    <2>1. /\ UNCHANGED <<disk, up, firing, executor, lifecycle, owed, torn>>
          /\ UNCHANGED <<resolved, resolving, service_charm>>
        BY <1>4 DEF TakeUpgradeFlag, running, commands, history
    <2>2. LockInv' /\ (lock # <<>> => lock' # <<>>)
        <3>1. CASE upgrade_flag # None /\ service_charm # unit_charm
            <4>1. Listening("upgrade") /\ Enqueue("upgrade", upgrade_flag)
                BY <1>4, <3>1 DEF TakeUpgradeFlag
            <4> QED BY <2>1, <3>1, <4>1, Enqueued DEF Inv, Watch
        <3>2. CASE ~(upgrade_flag # None /\ service_charm # unit_charm)
            BY <1>1, <1>4, <2>1, <3>2 DEF TakeUpgradeFlag
        <3> QED BY <3>1, <3>2
    <2> QED BY <2>1, <2>2, FrameKeepsInv DEF Inv, TypeInv
<1>5. CASE TakeConfigChange
    <2>1. /\ UNCHANGED <<disk, up, firing, executor, lifecycle, owed, torn>>
          /\ UNCHANGED <<resolved, resolving, service_charm>>
        BY <1>5 DEF TakeConfigChange, running, commands, history
    <2>2. Listening("config") /\ Enqueue("config", "configure")
        BY <1>5 DEF TakeConfigChange
    <2>3. LockInv' /\ lock' # <<>>
        BY <1>2, <2>1, <2>2, Enqueued DEF Inv, Watch
    <2> QED BY <2>1, <2>3, FrameKeepsInv DEF Inv, TypeInv
<1> QED BY <1>3, <1>4, <1>5

\* Users' commands, or nothing at all.
LEMMA UserKeepsInv == ASSUME Inv, User \/ UNCHANGED vars PROVE Inv'
<1> USE DEF process, running, commands, history
<1>1. UNCHANGED <<disk, up, lock, job, firing, executor, lifecycle, owed, torn>>
    BY DEF User, ResolveUnit, SetResolved, CheckUnit, ChangeConfig, PublishCharm, MarkUnit, vars
<1>2. LockInv'
    BY <1>1 DEF Inv, LockInv
<1>3. /\ resolved' \in Retry \cup {None} /\ resolving' \in Retry \cup {None}
      /\ service_charm' \in Charm
    <2>1. CASE ResolveUnit
        BY <2>1 DEF ResolveUnit, Inv, TypeInv, Retry
    <2>2. CASE SetResolved
        BY <2>2 DEF SetResolved, Inv, TypeInv, Retry
    <2>3. CASE CheckUnit
        BY <2>3 DEF CheckUnit, Inv, TypeInv
    <2>4. CASE ChangeConfig
        BY <2>4 DEF ChangeConfig, Inv, TypeInv
    <2>5. CASE PublishCharm
        <3>1. MaxCharm \in Nat
            BY UnitAgentAssumption
        <3> QED BY <2>5, <3>1 DEF PublishCharm, Inv, TypeInv, Charm
    <2>6. CASE MarkUnit
        BY <2>6 DEF MarkUnit, Inv, TypeInv
    <2>7. CASE UNCHANGED vars
        BY <2>7 DEF vars, requests, Inv, TypeInv
    <2> QED BY <2>1, <2>2, <2>3, <2>4, <2>5, <2>6, <2>7 DEF User
<1> QED BY <1>1, <1>2, <1>3, FrameKeepsInv

\* The process dies, perhaps with the state file half written.
LEMMA DieKeepsInv == ASSUME Inv, Die PROVE Inv'
<1>1. /\ up' = "off" /\ lock' = <<>> /\ job' = [p \in Party |-> None] /\ firing' = None
      /\ executor' = FALSE /\ lifecycle' = FALSE
      /\ UNCHANGED <<resolved, resolving, service_charm, owed>>
    BY DEF Die, requests, commands
<1>2. \/ UNCHANGED <<disk, torn>>
      \/ disk' = [state |-> None, inflight |-> None] /\ torn' = TRUE
    BY DEF Die
<1>3. None \in State
    <2>1. "install" \in TransitionId /\ UnitWorkflow["install"].source = None
        BY DEF TransitionId, UnitWorkflow, Transition
    <2> QED BY <2>1 DEF State
<1>4. TypeInv'
    <2>1. [state |-> None, inflight |-> None]
              \in [state : State, inflight : TransitionId \cup {None}]
        BY <1>3
    <2>2. disk \in [state : State, inflight : TransitionId \cup {None}] /\ torn \in BOOLEAN
        BY DEF Inv, TypeInv
    <2>3. disk' \in [state : State, inflight : TransitionId \cup {None}] /\ torn' \in BOOLEAN
        BY <1>2, <2>1, <2>2
    <2> QED BY <1>1, <2>3 DEF Inv, TypeInv
<1>5. LockInv'
    BY <1>1 DEF LockInv
<1>6. FiringInv'
    BY <1>1 DEF FiringInv
<1>7. DiskInv'
    BY <1>1, <1>2 DEF Inv, DiskInv
<1>8. PauseInv'
    BY <1>1 DEF PauseInv
<1>9. LifecycleInv'
    BY <1>1 DEF LifecycleInv
<1>10. OwedInv'
    BY <1>1, <1>2 DEF Inv, OwedInv
<1> QED BY <1>4, <1>5, <1>6, <1>7, <1>8, <1>9, <1>10 DEF Inv

\* Nothing runs at first.
LEMMA InitInv == ASSUME Init PROVE Inv
<1>1. None \in State
    <2>1. "install" \in TransitionId /\ UnitWorkflow["install"].source = None
        BY DEF TransitionId, UnitWorkflow, Transition
    <2> QED BY <2>1 DEF State
<1>2. TypeInv
    <2>1. disk \in [state : State, inflight : TransitionId \cup {None}]
        BY <1>1 DEF Init
    <2>2. 0 \in Charm
        BY UnitAgentAssumption DEF Charm
    <2> QED BY <2>1, <2>2 DEF Init, TypeInv
<1>3. LockInv
    BY DEF Init, LockInv
<1>4. FiringInv /\ DiskInv /\ PauseInv /\ LifecycleInv /\ OwedInv
    BY DEF Init, FiringInv, DiskInv, PauseInv, LifecycleInv, OwedInv
<1> QED BY <1>2, <1>3, <1>4 DEF Inv

\* Every step keeps the invariant.
LEMMA NextKeepsInv == ASSUME Inv, [Next]_vars PROVE Inv'
<1>1. CASE Agent
    BY <1>1, StartKeepsInv, SynchronizeKeepsInv, AutomaticKeepsInv, ResolvedKeepsInv,
       UpgradeFlagKeepsInv, ConfigKeepsInv, StoreKeepsInv, HookEndsKeepsInv, RunKeepsInv,
       HaltKeepsInv, VerifyKeepsInv, PrepareKeepsInv, PauseKeepsInv, ExtractKeepsInv,
       RecordKeepsInv, UpgradeHookKeepsInv, ResumeKeepsInv, SetStateKeepsInv, TakesKeepInv
       DEF Agent
<1>2. CASE ActionFails
    BY <1>2, ActionFailsKeepsInv
<1>3. CASE User \/ UNCHANGED vars
    BY <1>3, UserKeepsInv
<1>4. CASE Die
    BY <1>4, DieKeepsInv
<1> QED BY <1>1, <1>2, <1>3, <1>4 DEF Next

\* The unit agent keeps the invariant, whatever fails and whenever it dies.
THEOREM Invariance == Spec => []Inv
<1>1. Init => Inv
    BY InitInv
<1>2. Inv /\ [Next]_vars => Inv'
    BY NextKeepsInv
<1> QED BY <1>1, <1>2, PTL DEF Spec

\* UnitLifecycle.upgrade_charm replaces a charm with the hook executor stopped:
\* no queued hook runs from a directory that is being extracted.
THEOREM Paused == Spec => []PausedWhileReplacing
<1>1. ASSUME Inv PROVE PausedWhileReplacing
    <2> SUFFICES ASSUME NEW step \in {"extract", "record", "upgrade-charm"}, Doing(step)
                 PROVE  ~executor
        BY DEF PausedWhileReplacing
    <2>1. /\ StepFits(firing.id, firing.todo) /\ Head(firing.todo) = step /\ Left(step)
          /\ firing # None
        BY <1>1, UpgradeStep
    <2>2. ~Left("prepare") /\ ~Left("pause")
        BY <2>1 DEF StepFits, Left
    <2> QED BY <1>1, <2>1, <2>2 DEF Inv, PauseInv
<1>2. Inv => PausedWhileReplacing
    BY <1>1
<1> QED BY <1>2, Invariance, PTL

\* A unit that is started after an upgrade has run the new charm's hook, or a
\* user waived it, unless the state file was lost: synchronize fires what was
\* left inflight, and a failed upgrade leaves an error state.
THEOREM HookRuns == Spec => []UpgradeHookRuns
<1>1. ASSUME Inv PROVE UpgradeHookRuns
    <2> SUFFICES ASSUME up = "on", lock = <<>>, disk.state = "started", owed, ~torn
                 PROVE  FALSE
        BY DEF UpgradeHookRuns, AtRest
    <2>1. firing = None
        BY <1>1 DEF Inv, FiringInv
    <2>2. disk.inflight = None
        BY <1>1, <2>1 DEF Inv, DiskInv
    <2>3. "upgrade_charm" # None /\ "upgrade_charm_error" # None
        BY NoneAssumption, Actions DEF Upgrades, Plain
    <2> QED BY <1>1, <2>2, <2>3 DEF Inv, OwedInv
<1>2. Inv => UpgradeHookRuns
    BY <1>1
<1> QED BY <1>2, Invariance, PTL
-----------------------------------------------------------------------------
(* The executor *)

\* Transitions from the state of a failed upgrade are about the upgrade.
LEMMA UpgradeSources ==
    /\ \A t \in TransitionId :
         UnitWorkflow[t].source = "charm_upgrade_error" => t \in Upgrades \cup Erring
    /\ \A t \in automatic : t \in TransitionId /\ UnitWorkflow[t].source # "charm_upgrade_error"
    /\ UnitWorkflow["configure"].source = "started"
    /\ "upgrade_charm" \in Upgrades
<1>1. None # "charm_upgrade_error"
    BY NoneAssumption DEF TransitionId, UnitWorkflow, Transition
<1>2. \A t \in TransitionId :
         UnitWorkflow[t].source = "charm_upgrade_error" => t \in Upgrades \cup Erring
    BY <1>1 DEF TransitionId, UnitWorkflow, Transition, Upgrades, Erring
<1>3. \A t \in automatic : t \in TransitionId /\ UnitWorkflow[t].source # "charm_upgrade_error"
    BY <1>1 DEF TransitionId, UnitWorkflow, Transition, automatic
<1>4. UnitWorkflow["configure"].source = "started" /\ "upgrade_charm" \in Upgrades
    BY DEF UnitWorkflow, Transition, Upgrades
<1> QED BY <1>2, <1>3, <1>4

\* The callback ends, the executor and the state as they were.
LEMMA ReleaseKeepsExecutor ==
    ASSUME Inv, lock # <<>>, Return \/ Raise,
           RunsOrStranded' \/ (disk' = disk /\ disk.state = "charm_upgrade_error")
    PROVE  ExecutorInv'
<1>1. firing' = None
    BY Released DEF Inv
<1> QED BY <1>1 DEF ExecutorInv, mid_upgrade

\* A transition is fired: the executor runs, or the transition is an upgrade's.
LEMMA FireKeepsExecutor ==
    ASSUME Inv, NEW t \in TransitionId, UnitWorkflow[t].source = disk.state,
           fire_transition(t), RunsOrStranded' \/ t \in Upgrades \cup Erring
    PROVE  ExecutorInv'
<1>1. firing' # None /\ firing'.id = t /\ Begins(t, firing'.todo)
    BY Fired DEF Inv
<1>2. t \in Upgrades => Left("prepare")'
    BY <1>1, FirstSteps DEF Left
<1> QED BY <1>1, <1>2 DEF ExecutorInv

\* A step other than an upgrade's first and last leaves the executor alone.
LEMMA StepKeepsExecutor ==
    ASSUME Inv, ExecutorInv, NEW step \in Step \ {"prepare", "pause", "resume"},
           Doing(step), Done, RunsOrStranded' = RunsOrStranded
    PROVE  ExecutorInv'
<1>1. /\ firing' # None /\ firing'.id = firing.id /\ firing # None
      /\ \A x : Left(x)' <=> Left(x) /\ x # step
      /\ UNCHANGED <<disk, up>>
    BY Went DEF Inv, Doing
<1>2. \A x \in {"prepare", "resume"} : Left(x)' <=> Left(x)
    BY <1>1
<1> QED BY <1>1, <1>2 DEF ExecutorInv

\* All steps of actions but the failing ones, and ends of transitions.
LEMMA StepsKeepExecutor ==
    ASSUME Inv, ExecutorInv,
           \/ StoreState \/ HookEnds \/ RunLifecycle \/ HaltLifecycle \/ VerifyRunning
           \/ PrepareUpgrade \/ PauseExecutor \/ ExtractCharm \/ RecordCharm
           \/ UpgradeHookEnds \/ ResumeExecutor
    PROVE  ExecutorInv'
<1> USE DEF running, requests, commands, history
<1>a. UNCHANGED <<executor, stranded>> => RunsOrStranded' = RunsOrStranded
    BY DEF RunsOrStranded
<1>1. CASE StoreState
    BY <1>a, <1>1, StepKeepsExecutor DEF StoreState, Step
<1>2. CASE HookEnds
    BY <1>a, <1>2, StepKeepsExecutor DEF HookEnds, Step
<1>3. CASE RunLifecycle
    BY <1>a, <1>3, StepKeepsExecutor DEF RunLifecycle, Step
<1>4. CASE HaltLifecycle
    <2>1. CASE lifecycle
        BY <1>a, <1>4, <2>1, StepKeepsExecutor DEF HaltLifecycle, Step
    <2>2. CASE ~lifecycle
        <3>1. /\ firing # None /\ firing.id \in Halts /\ Left("halt") /\ lock # <<>>
            <4>1. firing \in Firing /\ firing.todo # <<>> /\ Head(firing.todo) = "halt"
                BY <1>4 DEF HaltLifecycle, Doing, Inv, FiringInv
            <4>2. firing.todo \in Seq(Step)
                BY <4>1 DEF Firing
            <4>3. 1 \in 1..Len(firing.todo) /\ firing.todo[1] = "halt"
                BY <4>1, <4>2
            <4> QED BY <1>4, <4>3, StepsFit
                DEF HaltLifecycle, Doing, Inv, FiringInv, StepFits, Left, Has
        <3>2. up = "starting"
            BY <2>2, <3>1 DEF Inv, LifecycleInv
        <3>3. Holder = "start" /\ Raise
            BY <1>4, <2>2, <3>2 DEF HaltLifecycle, Inv, LockInv, Holder
        <3>4. up' = "failed" /\ firing' = None
            BY <3>3 DEF Raise
        <3> QED BY <3>4 DEF ExecutorInv
    <2> QED BY <2>1, <2>2
<1>5. CASE VerifyRunning
    <2>1. CASE lifecycle
        BY <1>a, <1>5, <2>1, StepKeepsExecutor DEF VerifyRunning, Step
    <2>2. CASE ~lifecycle
        <3>1. firing # None /\ lock # <<>> /\ Raise /\ UNCHANGED disk /\ RunsOrStranded' = RunsOrStranded
            BY <1>a, <1>5, <2>2 DEF VerifyRunning, Doing, Inv, FiringInv
        <3>2. firing.id \in {"configure", "retry_configure_hook"}
            BY <1>5, StepsFit DEF VerifyRunning, Doing, Inv, FiringInv, StepFits
        <3>3. RunsOrStranded
            BY <3>1, <3>2 DEF ExecutorInv, Upgrades, Erring
        <3> QED BY <3>1, <3>3, ReleaseKeepsExecutor
    <2> QED BY <2>1, <2>2
<1>6. CASE PrepareUpgrade
    <2>1. firing.id \in Upgrades \cup {"force"} /\ firing # None /\ firing \in Firing
        BY <1>6, UpgradeStep DEF PrepareUpgrade
    <2> DEFINE todo == upgrade_steps(service_charm # unit_charm)
    <2>2. firing' = [firing EXCEPT !.todo = todo, !.charm = service_charm]
        BY <1>6 DEF PrepareUpgrade
    <2>3. Has(todo, "resume") /\ todo \in Seq(Step)
        BY <2>1, UpgradeSteps
    <2> HIDE DEF todo
    <2>4. firing'.todo = todo /\ firing'.id = firing.id /\ firing' \in Firing
        BY <2>1, <2>2, <2>3 DEF Firing, Inv, TypeInv
    <2>5. firing' # None
        BY <2>4, NoneAssumption
    <2>6. firing'.id \in Upgrades \cup {"force"} /\ Left("resume")'
        BY <2>1, <2>3, <2>4 DEF Left
    <2> QED BY <2>5, <2>6 DEF ExecutorInv
<1>7. CASE PauseExecutor
    <2>1. firing' # None /\ firing'.id = firing.id /\ (Left("resume")' <=> Left("resume"))
        BY <1>7, Went DEF Inv, PauseExecutor
    <2>2. firing.id \in Upgrades \cup {"force"} /\ Left("resume")
        BY <1>7, UpgradeStep DEF PauseExecutor, StepFits, Left
    <2> QED BY <2>1, <2>2 DEF ExecutorInv
<1>8. CASE ExtractCharm
    BY <1>a, <1>8, StepKeepsExecutor DEF ExtractCharm, Step
<1>9. CASE RecordCharm
    BY <1>a, <1>9, StepKeepsExecutor DEF RecordCharm, Step
<1>10. CASE UpgradeHookEnds
    BY <1>a, <1>10, StepKeepsExecutor DEF UpgradeHookEnds, Step
<1>11. CASE ResumeExecutor
    <2>1. RunsOrStranded'
        BY <1>11 DEF ResumeExecutor, RunsOrStranded
    <2> QED BY <2>1 DEF ExecutorInv
<1> QED BY <1>1, <1>2, <1>3, <1>4, <1>5, <1>6, <1>7, <1>8, <1>9, <1>10, <1>11

\* From the callbacks, and synchronize, a transition is fired with the executor
\* running, or else from the state of an upgrade that was cut short or failed.
LEMMA CallbacksKeepExecutor ==
    ASSUME Inv, ExecutorInv,
           \/ Synchronize \/ Automatic
           \/ cb_watch_resolved \/ cb_watch_upgrade_flag \/ cb_watch_config_changed
    PROVE  ExecutorInv'
<1> USE DEF running, history
<1>a. UNCHANGED <<executor, stranded>> => RunsOrStranded' = RunsOrStranded
    BY DEF RunsOrStranded
<1>1. CASE Synchronize
    <2>1. /\ lock # <<>> /\ firing = None /\ RunsOrStranded' = RunsOrStranded
          /\ Holder = "start"
        BY <1>a, <1>1 DEF Synchronize, Acquired
    <2>2. up = "starting"
        <3>1. lock \in Seq(Party) /\ lock[1] = "start" /\ 1 \in 1..Len(lock)
            BY <2>1 DEF Inv, LockInv, Holder
        <3>2. up # "on"
            BY <3>1 DEF Inv, LockInv, Watch
        <3> QED BY <2>1, <3>2 DEF Inv, LockInv
    <2>3. RunsOrStranded \/ mid_upgrade
        BY <2>1, <2>2 DEF ExecutorInv
    <2>4. CASE disk.inflight # None
        <3> DEFINE t == disk.inflight
        <3>1. t \in TransitionId /\ UnitWorkflow[t].source = disk.state /\ fire_transition(t)
            BY <1>1, <2>4 DEF Inv, TypeInv, DiskInv, Synchronize
        <3>2. mid_upgrade => t \in Upgrades \cup Erring
            BY <3>1, UpgradeSources DEF mid_upgrade
        <3> HIDE DEF t
        <3> QED BY <2>1, <2>3, <3>1, <3>2, FireKeepsExecutor
    <2>5. CASE disk.inflight = None
        <3>1. /\ firing' = [id |-> "automatic", todo |-> <<>>, charm |-> None]
              /\ UNCHANGED <<disk, up>>
            BY <1>1, <2>5 DEF Synchronize
        <3>2. "upgrade_charm" # None
            BY NoneAssumption, Actions DEF Upgrades
        <3>3. RunsOrStranded \/ disk.state = "charm_upgrade_error"
            BY <2>3, <2>5, <3>2 DEF mid_upgrade
        <3>4. firing' \in Firing
            BY <3>1 DEF Firing
        <3>5. firing'.id = "automatic" /\ firing' # None
            BY <3>1, <3>4, NoneAssumption
        <3> QED BY <2>1, <3>1, <3>3, <3>5 DEF ExecutorInv
    <2> QED BY <2>4, <2>5
<1>2. CASE Automatic
    <2>1. /\ firing # None /\ firing.id = "automatic" /\ lock # <<>> /\ RunsOrStranded' = RunsOrStranded
        BY <1>a, <1>2 DEF Automatic, Inv, FiringInv
    <2>2. RunsOrStranded \/ disk.state = "charm_upgrade_error"
        BY <2>1 DEF ExecutorInv, Upgrades, Erring
    <2>3. CASE Return /\ UNCHANGED disk
        BY <2>1, <2>2, <2>3, ReleaseKeepsExecutor
    <2>4. ASSUME NEW t \in automatic, UnitWorkflow[t].source = disk.state, fire_transition(t)
          PROVE  ExecutorInv'
        BY <2>1, <2>2, <2>4, UpgradeSources, FireKeepsExecutor
    <2> QED BY <1>2, <2>3, <2>4 DEF Automatic
<1>3. ASSUME NEW p \in Watch, Acquired(p)
      PROVE  lock # <<>> /\ firing = None /\ (RunsOrStranded \/ disk.state = "charm_upgrade_error")
    <2>1. "upgrade_charm" # None
        BY NoneAssumption, Actions DEF Upgrades
    <2>2. lock # <<>> /\ firing = None /\ up = "on" /\ disk.inflight = None
        BY <1>3, Idle
    <2> QED BY <2>1, <2>2 DEF ExecutorInv, mid_upgrade
<1>4. CASE cb_watch_resolved
    <2>1. /\ lock # <<>> /\ firing = None /\ RunsOrStranded' = RunsOrStranded
          /\ RunsOrStranded \/ disk.state = "charm_upgrade_error"
        BY <1>a, <1>3, <1>4 DEF cb_watch_resolved, Watch
    <2>2. CASE (Return \/ Raise) /\ UNCHANGED disk
        BY <2>1, <2>2, ReleaseKeepsExecutor
    <2>3. ASSUME NEW t \in aliased(job["resolved"]), fire_transition(t)
          PROVE  ExecutorInv'
        <3>1. t \in TransitionId /\ UnitWorkflow[t].source = disk.state
            BY DEF aliased
        <3> QED BY <2>1, <2>3, <3>1, UpgradeSources, FireKeepsExecutor
    <2> QED BY <1>4, <2>2, <2>3 DEF cb_watch_resolved, fire_transition_alias
<1>5. CASE cb_watch_upgrade_flag
    <2>1. /\ lock # <<>> /\ firing = None /\ RunsOrStranded' = RunsOrStranded
          /\ RunsOrStranded \/ disk.state = "charm_upgrade_error"
        BY <1>a, <1>3, <1>5 DEF cb_watch_upgrade_flag, Watch
    <2>2. CASE Return /\ UNCHANGED disk
        BY <2>1, <2>2, ReleaseKeepsExecutor
    <2>3. CASE disk.state = "started" /\ fire_transition("upgrade_charm")
        <3>1. /\ "upgrade_charm" \in TransitionId
              /\ UnitWorkflow["upgrade_charm"].source = disk.state
            BY <2>3 DEF TransitionId, UnitWorkflow, Transition
        <3> QED BY <2>1, <2>3, <3>1, UpgradeSources, FireKeepsExecutor
    <2>4. CASE /\ firing' = [id |-> "force", todo |-> <<"prepare">>, charm |-> None]
               /\ UNCHANGED <<disk, up, first, lost, lock, job>>
        <3>1. <<"prepare">> \in Seq(Step)
            BY DEF Step
        <3>2. firing' \in Firing
            BY <2>4, <3>1 DEF Firing
        <3>3. firing'.id = "force" /\ firing' # None
            BY <2>4, <3>2, NoneAssumption
        <3> QED BY <2>1, <2>4, <3>3 DEF ExecutorInv
    <2> QED BY <1>5, <2>2, <2>3, <2>4 DEF cb_watch_upgrade_flag
<1>6. CASE cb_watch_config_changed
    <2>1. /\ lock # <<>> /\ firing = None /\ RunsOrStranded' = RunsOrStranded
          /\ RunsOrStranded \/ disk.state = "charm_upgrade_error"
        BY <1>a, <1>3, <1>6 DEF cb_watch_config_changed, Watch
    <2>2. CASE Return /\ UNCHANGED disk
        BY <2>1, <2>2, ReleaseKeepsExecutor
    <2>3. CASE disk.state = "started" /\ fire_transition("configure")
        <3>1. "configure" \in TransitionId /\ UnitWorkflow["configure"].source = disk.state
            BY <2>3, Actions, UpgradeSources
        <3> QED BY <2>1, <2>3, <3>1, FireKeepsExecutor
    <2> QED BY <1>6, <2>2, <2>3 DEF cb_watch_config_changed
<1> QED BY <1>1, <1>2, <1>4, <1>5, <1>6

\* A failure outside a transition strands the executor if it is stopped by
\* then; any other is before the pause, or leads to an error transition.
LEMMA ActionFailsKeepsExecutor ==
    ASSUME Inv, ExecutorInv, ActionFails
    PROVE  ExecutorInv'
<1>1. /\ firing # None /\ firing.todo # <<>> /\ Head(firing.todo) \in DOMAIN fault
      /\ lock # <<>>
    BY DEF ActionFails, Inv, FiringInv
<1>2. RunsOrStranded => RunsOrStranded'
    BY DEF ActionFails, running, RunsOrStranded
<1>3. CASE firing.id = "force"
    <2>1. Raise
        BY <1>3 DEF ActionFails
    <2>2. RunsOrStranded'
        BY <1>3 DEF ActionFails, running, RunsOrStranded
    <2> QED BY <1>1, <2>1, <2>2, ReleaseKeepsExecutor
<1>4. CASE firing.id # "force"
    <2> DEFINE id == firing.id
               e == UnitWorkflow[id].error
    <2>1. /\ id \in TransitionId /\ UnitWorkflow[id].source = disk.state /\ id \notin Erring
          /\ id \in {"configure", "retry_configure_hook"} \cup Installs \cup Starts \cup Upgrades
        BY <1>1, <1>4, Failing
    <2>2. id \notin Upgrades => RunsOrStranded
        <3>1. "automatic" \notin TransitionId
            BY Actions DEF Plain, Installs, Starts, OnlyRuns, Halts, Upgrades
        <3> QED BY <1>1, <1>4, <2>1, <3>1 DEF ExecutorInv
    <2>3. id \in Upgrades => e \in Erring /\ e # None
        BY Errors
    <2>4. CASE e # None
        <3>1. fire_transition(e)
            BY <1>1, <1>4, <2>4 DEF ActionFails
        <3>2. e \in TransitionId /\ UnitWorkflow[e].source = disk.state
            BY <2>1, <2>4, WorkflowFacts
        <3> HIDE DEF e, id
        <3> QED BY <1>1, <2>2, <2>3, <3>1, <3>2, <1>2, FireKeepsExecutor
    <2>5. CASE e = None
        <3>1. Return
            BY <1>1, <1>4, <2>5 DEF ActionFails
        <3>2. RunsOrStranded
            BY <2>2, <2>3, <2>5
        <3> QED BY <1>1, <1>2, <3>1, <3>2, ReleaseKeepsExecutor
    <2> QED BY <2>4, <2>5
<1> QED BY <1>3, <1>4

\* An upgrade that failed ends in its error state, with the executor stopped.
LEMMA SetStateKeepsExecutor ==
    ASSUME Inv, ExecutorInv, SetState
    PROVE  ExecutorInv'
<1>1. /\ firing # None /\ firing.id # "automatic" /\ firing.todo = <<>> /\ lock # <<>>
      /\ firing \in Firing /\ RunsOrStranded' = RunsOrStranded
    BY DEF SetState, running, RunsOrStranded, Inv, FiringInv
<1>2. \A x : ~Left(x)
    BY <1>1, Members DEF Left
<1>3. CASE firing.id = "force"
    <2>1. Return /\ disk' = disk
        BY <1>3 DEF SetState
    <2>2. RunsOrStranded \/ disk.state = "charm_upgrade_error"
        BY <1>1, <1>2, <1>3 DEF ExecutorInv, Erring
    <2> QED BY <1>1, <2>1, <2>2, ReleaseKeepsExecutor
<1>4. CASE firing.id # "force"
    <2>1. /\ disk' = [state |-> UnitWorkflow[firing.id].destination, inflight |-> None]
          /\ firing' = [id |-> "automatic", todo |-> <<"store">> \o <<>>, charm |-> None]
        BY <1>1, <1>4 DEF SetState, Carry
    <2>2. RunsOrStranded \/ firing.id \in Erring
        BY <1>1, <1>2, <1>4 DEF ExecutorInv
    <2>3. RunsOrStranded' \/ disk'.state = "charm_upgrade_error"
        BY <1>1, <2>1, <2>2, WorkflowFacts
    <2>4. firing'.id = "automatic"
        BY <2>1
    <2>5. disk'.state = "charm_upgrade_error" => mid_upgrade'
        BY DEF mid_upgrade
    <2> QED BY <2>3, <2>4, <2>5 DEF ExecutorInv
<1> QED BY <1>3, <1>4

\* Every step keeps the executor running where it should.
LEMMA NextKeepsExecutor ==
    ASSUME Inv, ExecutorInv, [Next]_vars
    PROVE  ExecutorInv'
<1>1. CASE Start
    <2>1. /\ executor' = run_executor /\ UNCHANGED <<disk, firing>> /\ up = "off"
        BY <1>1 DEF Start
    <2>2. firing' = None
        BY <2>1 DEF Inv, LockInv, FiringInv
    <2> QED BY <2>1, <2>2 DEF ExecutorInv, RunsOrStranded, run_executor, mid_upgrade
<1>2. CASE \/ Synchronize \/ Automatic
           \/ cb_watch_resolved \/ cb_watch_upgrade_flag \/ cb_watch_config_changed
    BY <1>2, CallbacksKeepExecutor
<1>3. CASE \/ StoreState \/ HookEnds \/ RunLifecycle \/ HaltLifecycle \/ VerifyRunning
           \/ PrepareUpgrade \/ PauseExecutor \/ ExtractCharm \/ RecordCharm
           \/ UpgradeHookEnds \/ ResumeExecutor
    BY <1>3, StepsKeepExecutor
<1>4. CASE SetState
    BY <1>4, SetStateKeepsExecutor
<1>5. CASE ActionFails
    BY <1>5, ActionFailsKeepsExecutor
<1>6. CASE User \/ TakeResolved \/ TakeUpgradeFlag \/ TakeConfigChange \/ UNCHANGED vars
    <2>1. UNCHANGED <<disk, up, firing, RunsOrStranded>>
        BY <1>6 DEF User, ResolveUnit, SetResolved, CheckUnit, ChangeConfig, PublishCharm,
            MarkUnit, TakeResolved, TakeUpgradeFlag, TakeConfigChange, vars, process, running,
            history, RunsOrStranded
    <2> QED BY <2>1 DEF ExecutorInv, Left, mid_upgrade
<1>7. CASE Die
    <2>1. up' = "off" /\ firing' = None
        BY <1>7 DEF Die
    <2> QED BY <2>1 DEF ExecutorInv
<1> QED BY <1>1, <1>2, <1>3, <1>4, <1>5, <1>6, <1>7 DEF Next, Agent

\* Between transitions, whichever hook, download or extraction failed, was
\* retried or was cut short, the lifecycle runs exactly when the state on disk
\* says so, no transition is left recorded, and the executor runs but in the
\* state of a failed upgrade or after a forced one that failed: there alone the
\* code leaves a unit without hooks in a state that does not tell.
THEOREM Agrees == Spec => []AgreesWithState
<1>1. Init => ExecutorInv
    BY DEF Init, ExecutorInv
<1>2. Inv /\ ExecutorInv /\ [Next]_vars => ExecutorInv'
    BY NextKeepsExecutor
<1>3. ASSUME Inv, ExecutorInv PROVE AgreesWithState
    <2> SUFFICES ASSUME up = "on", lock = <<>>
                 PROVE  /\ lifecycle = run_lifecycle
                        /\ executor \/ disk.state = "charm_upgrade_error" \/ stranded
                        /\ disk.inflight = None
        BY DEF AgreesWithState, AtRest
    <2>1. firing = None
        BY <1>3 DEF Inv, FiringInv
    <2>2. disk.inflight = None /\ lifecycle = run_lifecycle
        BY <1>3, <2>1 DEF Inv, DiskInv, LifecycleInv
    <2>3. "upgrade_charm" # None
        BY NoneAssumption, Actions DEF Upgrades
    <2>4. disk.state = "charm_upgrade_error" \/ ~mid_upgrade
        BY <2>2, <2>3 DEF mid_upgrade
    <2> QED BY <1>3, <2>1, <2>2, <2>4 DEF ExecutorInv, RunsOrStranded
<1>4. Inv /\ ExecutorInv => AgreesWithState
    BY <1>3
<1> QED BY <1>1, <1>2, <1>4, Invariance, PTL DEF Spec
===============================================================================
