-------------------------- MODULE MachineAgentProofs --------------------------
(***************************************************************************)
(* Proofs about the machine agent: its sessions, and the units it deploys  *)
(* and destroys step by step.  Both invariants are about what a process    *)
(* that died left behind, so that they say what holds of the disk and of   *)
(* ZooKeeper between any two steps.                                        *)
(***************************************************************************)
EXTENDS MachineAgent, TLAPS

\* Who owns the agent node: a live session, and one whose id is on disk as
\* soon as it may own the node, so that the next process can close it.
PresenceInv ==
    /\ presence \in live \cup {0}
    /\ Connected => last \in live
    /\ ~left_behind =>
        /\ agent \in {"down", "launched"} => presence \in {0, session_file}
        /\ agent \in {"killed", "connected", "saved", "watching"} => presence = 0
        /\ agent \in {"started", "refused"} => presence = last
    /\ agent \in {"saved", "watching", "started", "refused"} => session_file = last

\* Each new session, but the first, is owed to a fault.
SessionsCounted == (Connected => last <= faults + 1) /\ (~Connected => last <= faults)

SessionInv == SessionTypeOK /\ SessionsCounted /\ PresenceInv

\* What holds of a unit's charm, its job and the process, whatever the step.
UnitInv ==
    /\ \A u \in conf : charm[u] \in {"whole", "again"}
    /\ job \subseteq conf
    /\ At("install") => charm[op.unit] \in {"whole", "again"}
    /\ At("run") => op.unit \in conf
    /\ At("uninstall") => op.unit \notin job
    /\ At("remove") => op.unit \notin conf

Inv == TypeOK /\ SessionsCounted /\ PresenceInv /\ UnitInv
-----------------------------------------------------------------------------
(* Sessions *)

\* Closing a session (agents/base.py, _kill_existing_session) or losing it
\* takes the node that it owned.
LEMMA EndSessionEffect ==
    ASSUME SessionTypeOK, PresenceInv, NEW s, EndSession(s)
    PROVE  /\ live' \subseteq live /\ presence' \in live' \cup {0}
           /\ presence' \in {presence, 0} /\ (presence' # s \/ s = 0)
BY DEF EndSession, SessionTypeOK, PresenceInv

\* Every step of the session keeps its invariant.
LEMMA SessionSteps ==
    ASSUME SessionInv,
           \/ launch \/ _kill_existing_session \/ _kill_existing_session_fails
           \/ connect \/ save_client_id \/ connect_agent \/ expire
    PROVE  SessionInv'
<1> USE FaultsAssumption DEF SessionInv, SessionsCounted, Connected
<1>0. /\ MaxFaults \in Nat /\ MaxFalseStarts \in Nat /\ last \in Nat /\ faults \in Nat
      /\ last <= MaxFaults + MaxFalseStarts + 1 /\ faults <= MaxFaults + MaxFalseStarts
      /\ left_behind \in BOOLEAN /\ session_file \in Nat /\ presence \in Nat
    BY DEF SessionTypeOK
<1>1. CASE launch
    BY <1>0, <1>1 DEF launch, SessionTypeOK, PresenceInv, Stage
<1>2. CASE _kill_existing_session
    <2>1. /\ agent = "launched" /\ agent' = "killed" /\ EndSession(session_file)
          /\ UNCHANGED <<last, session_file, left_behind, faults>>
        BY <1>2 DEF _kill_existing_session
    <2>2. /\ live' \subseteq live /\ presence' \in live' \cup {0}
          /\ presence' \in {presence, 0} /\ (presence' # session_file \/ session_file = 0)
        BY <2>1, EndSessionEffect
    <2>3. SessionTypeOK' /\ SessionsCounted'
        BY <1>0, <2>1, <2>2 DEF SessionTypeOK, Stage
    <2>4. PresenceInv'
        BY <1>0, <2>1, <2>2 DEF PresenceInv
    <2> QED BY <2>3, <2>4
<1>3. CASE _kill_existing_session_fails
    BY <1>3 DEF _kill_existing_session_fails, SessionTypeOK, PresenceInv, Stage
<1>4. CASE connect
    <2>1. SessionTypeOK'
        BY <1>4 DEF connect, SessionTypeOK, Stage
    <2>2. SessionsCounted' /\ PresenceInv'
        BY <1>4 DEF connect, SessionTypeOK, PresenceInv
    <2> QED BY <2>1, <2>2
<1>5. CASE save_client_id
    BY <1>5 DEF save_client_id, SessionTypeOK, PresenceInv, Stage
<1>6. CASE connect_agent
    <2>1. SessionTypeOK' /\ SessionsCounted'
        BY <1>6 DEF connect_agent, SessionTypeOK, Stage
    <2>2. PresenceInv'
        <3>1. \/ presence = 0 /\ agent' = "started" /\ presence' = last
              \/ presence # 0 /\ agent' = "refused" /\ presence' = presence
            BY <1>6 DEF connect_agent
        <3>2. agent = "watching" /\ UNCHANGED <<last, session_file, live, left_behind>>
            BY <1>6 DEF connect_agent
        <3> QED BY <1>0, <3>1, <3>2 DEF SessionTypeOK, PresenceInv
    <2> QED BY <2>1, <2>2
<1>7. CASE expire
    <2>1. PICK s \in live : /\ s # last \/ ~Connected
                            /\ EndSession(s)
                            /\ UNCHANGED <<agent, last, session_file, left_behind, faults>>
        BY <1>7 DEF expire
    <2>2. /\ live' \subseteq live /\ presence' \in live' \cup {0}
          /\ presence' \in {presence, 0} /\ (presence # s => presence' = presence)
          /\ live' = live \ {s}
        BY <2>1, EndSessionEffect DEF EndSession
    <2>3. SessionTypeOK' /\ SessionsCounted'
        BY <1>0, <2>1, <2>2 DEF SessionTypeOK
    <2>4. PresenceInv'
        BY <1>0, <2>1, <2>2 DEF PresenceInv, SessionTypeOK
    <2> QED BY <2>3, <2>4
<1> QED BY <1>1, <1>2, <1>3, <1>4, <1>5, <1>6, <1>7

\* The process stops or dies, or the machine is restarted.
LEMMA SessionEnds ==
    ASSUME SessionInv, stopService \/ die \/ restart_machine
    PROVE  SessionInv'
<1> USE FaultsAssumption DEF SessionInv, SessionsCounted, Connected, Fault, FalseStart
<1>0. /\ MaxFaults \in Nat /\ MaxFalseStarts \in Nat /\ last \in Nat /\ faults \in Nat
      /\ last <= MaxFaults + MaxFalseStarts + 1 /\ faults <= MaxFaults + MaxFalseStarts
      /\ left_behind \in BOOLEAN /\ session_file \in Nat /\ presence \in Nat
    BY DEF SessionTypeOK
<1>1. CASE stopService
    <2>1. /\ agent # "down" /\ agent' = "down" /\ session_file' = 0 /\ last' = last
          /\ faults < MaxFaults + MaxFalseStarts /\ faults' = faults + 1
          /\ IF HasClient
               THEN EndSession(last) /\ UNCHANGED left_behind
               ELSE /\ left_behind' = (left_behind \/ session_file \in live)
                    /\ UNCHANGED <<live, presence>>
        BY <1>0, <1>1 DEF stopService
    <2>2. CASE HasClient
        <3>1. /\ live' \subseteq live /\ presence' \in live' \cup {0}
              /\ presence' \in {presence, 0} /\ (presence' # last \/ last = 0)
            BY <2>1, <2>2, EndSessionEffect
        <3>2. SessionTypeOK' /\ SessionsCounted'
            BY <1>0, <2>1, <2>2, <3>1 DEF SessionTypeOK, Stage, HasClient
        <3>3. PresenceInv'
            BY <1>0, <2>1, <2>2, <3>1 DEF PresenceInv, SessionTypeOK, HasClient
        <3> QED BY <3>2, <3>3
    <2>3. CASE ~HasClient
        <3>1. /\ left_behind' = (left_behind \/ session_file \in live)
              /\ UNCHANGED <<live, presence>>
            BY <2>1, <2>3
        <3>2. SessionTypeOK' /\ SessionsCounted'
            BY <1>0, <2>1, <2>3, <3>1 DEF SessionTypeOK, Stage, HasClient
        <3>3. PresenceInv'
            BY <1>0, <2>1, <2>3, <3>1 DEF PresenceInv, SessionTypeOK, HasClient, Stage
        <3> QED BY <3>2, <3>3
    <2> QED BY <2>2, <2>3
<1>2. CASE die
    BY <1>0, <1>2 DEF die, SessionTypeOK, PresenceInv, Stage
<1>3. CASE restart_machine
    <2>1. /\ agent' = "down" /\ session_file' = 0 /\ faults < MaxFaults /\ faults' = faults + 1
          /\ UNCHANGED <<last, live, presence>>
        BY <1>3 DEF restart_machine
    <2>2. /\ left_behind' \in BOOLEAN
          /\ ~left_behind' => live = {}
        BY <1>3 DEF restart_machine
    <2>3. SessionTypeOK' /\ SessionsCounted'
        BY <1>0, <2>1, <2>2 DEF SessionTypeOK, Stage
    <2>4. PresenceInv'
        BY <2>1, <2>2 DEF PresenceInv
    <2> QED BY <2>3, <2>4
<1> QED BY <1>1, <1>2, <1>3
-----------------------------------------------------------------------------
(* Units *)

\* The session keeps its invariant while the agent works on units: only the
\* bound on faults moves.
LEMMA SessionUntouched ==
    ASSUME SessionInv, UNCHANGED sessionVars, Fault \/ UNCHANGED faults
    PROVE  SessionInv'
BY FaultsAssumption DEF SessionInv, SessionTypeOK, SessionsCounted, PresenceInv, Connected,
   sessionVars, Fault

\* What a unit's deployment or removal works on.
LEMMA Steps ==
    ASSUME TypeOK, op # NoOp
    PROVE  /\ op \in Operation /\ op.unit \in Unit
           /\ op = [unit |-> op.unit, step |-> op.step]
           /\ \A s : [op EXCEPT !.step = s].unit = op.unit
           /\ \A s : [op EXCEPT !.step = s].step = s
BY DEF TypeOK, Operation

\* An operation is not the absence of one.
LEMMA OperationIsNotNoOp == \A o \in Operation : o # NoOp
BY NoOpAssumption

\* The next step of the operation, whichever it is.
LEMMA GotoEffect ==
    ASSUME TypeOK, op # NoOp, NEW s, Goto(s), \E o \in Operation : o.step = s
    PROVE  op' \in Operation /\ op' # NoOp /\ op'.unit = op.unit /\ op'.step = s
BY OperationIsNotNoOp DEF Goto, TypeOK, Operation

\* The types of what the agent itself works on; the rest is the session's.
UnitTypeOK ==
    /\ provider \in {"local", "other"}
    /\ topo \in [Unit -> {"new", "assigned", "unassigned", "removed"}]
    /\ old_units \subseteq Unit /\ stopped \subseteq Unit /\ started \subseteq Unit
    /\ op \in Operation \union {NoOp}
    /\ failed \subseteq Unit /\ conf \subseteq Unit /\ job \subseteq Unit
    /\ charm \in [Unit -> {"none", "partial", "whole", "again"}]
    /\ box \in [Unit -> Container] /\ template \in Container

\* An operation ends, done or logged as an error, with the disk as it is.
LEMMA OperationEnds ==
    ASSUME TypeOK, UnitInv, op # NoOp, Done \/ Raise,
           UNCHANGED <<provider, topo, watchVars, charm, conf, box, job>>,
           template' \in Container
    PROVE  UnitTypeOK' /\ UnitInv'
<1>1. op.unit \in Unit
    BY Steps
<1>2. op' = NoOp /\ failed' \subseteq Unit
    BY <1>1 DEF Done, Raise, TypeOK
<1>3. UnitTypeOK'
    BY <1>2 DEF TypeOK, UnitTypeOK, watchVars
<1> QED BY <1>2, <1>3 DEF UnitInv, At

\* An operation goes on to a step that says nothing of the disk.
LEMMA OperationGoesOn ==
    ASSUME TypeOK, UnitInv, op # NoOp, NEW s, Goto(s),
           s \in {"download", "check", "create", "configure", "customize", "clone",
                  "cloning", "unpack"},
           UNCHANGED <<provider, topo, watchVars, failed, charm, conf, job>>,
           box' \in [Unit -> Container], template' \in Container
    PROVE  UnitTypeOK' /\ UnitInv'
<1>1. \E o \in Operation : o.step = s
    <2>1. PICK u \in Unit : u = op.unit
        BY Steps
    <2>2. [unit |-> u, step |-> s] \in Operation
        BY DEF Operation
    <2> QED BY <2>2
<1>2. op' \in Operation /\ op' # NoOp /\ op'.step = s
    BY <1>1, GotoEffect
<1>3. UnitTypeOK'
    BY <1>2 DEF TypeOK, UnitTypeOK, watchVars
<1> QED BY <1>2, <1>3 DEF UnitInv, At

\* UnitDeployer.start_service_unit as far as the deployment itself.
LEMMA LookupSteps ==
    ASSUME TypeOK, UnitInv, get_unit_state \/ download_charm \/ start_service_unit
    PROVE  UnitTypeOK' /\ UnitInv'
<1> USE DEF agentVars, diskVars, At
<1>0. box \in [Unit -> Container] /\ template \in Container
    BY DEF TypeOK
<1>1. CASE get_unit_state
    BY <1>0, <1>1, OperationEnds, OperationGoesOn DEF get_unit_state
<1>2. CASE download_charm
    BY <1>0, <1>2, OperationEnds, OperationGoesOn DEF download_charm
<1>3. CASE start_service_unit
    <2>1. FirstStep \in {"clone", "create", "unpack"}
        BY DEF FirstStep, _get_master_template
    <2> QED BY <1>0, <1>3, <2>1, OperationEnds, OperationGoesOn DEF start_service_unit
<1> QED BY <1>1, <1>2, <1>3

\* The steps that make and clone containers.
LEMMA ContainerSteps ==
    ASSUME TypeOK, UnitInv, _create_wait \/ _customize_container \/ _clone_wait \/ _lxc_clone
    PROVE  UnitTypeOK' /\ UnitInv'
<1> USE DEF agentVars, diskVars, At
<1>0. box \in [Unit -> Container] /\ template \in Container
    BY DEF TypeOK
<1>1. CASE _create_wait
    BY <1>0, <1>1, OperationEnds, OperationGoesOn DEF _create_wait, Container
<1>2. CASE _customize_container
    BY <1>0, <1>2, OperationEnds, OperationGoesOn DEF _customize_container, Container
<1>3. CASE _clone_wait
    <2>1. [box EXCEPT ![op.unit] = "rootfs"] \in [Unit -> Container]
        BY <1>0 DEF Container
    <2> QED BY <1>0, <1>3, <2>1, OperationEnds, OperationGoesOn DEF _clone_wait
<1>4. CASE _lxc_clone
    <2>1. /\ [box EXCEPT ![op.unit] = "conf"] \in [Unit -> Container]
          /\ [box EXCEPT ![op.unit] = template] \in [Unit -> Container]
        BY <1>0 DEF Container
    <2>2. CASE box[op.unit] = "rootfs"
        BY <1>4, <2>1, <2>2 DEF _lxc_clone, UnitTypeOK, TypeOK, UnitInv, watchVars
    <2>3. CASE box[op.unit] # "rootfs"
        BY <1>0, <1>4, <2>1, <2>3, OperationGoesOn DEF _lxc_clone
    <2> QED BY <2>2, <2>3
<1> QED BY <1>1, <1>2, <1>3, <1>4

\* An operation goes on to a step s, whatever it did to the disk.
LEMMA NextStep ==
    ASSUME TypeOK, op # NoOp, NEW s \in {"unpacking", "install", "run", "uninstall", "remove"},
           Goto(s)
    PROVE  op' \in Operation /\ op' # NoOp /\ op'.unit = op.unit /\ op'.step = s
<1>1. PICK u \in Unit : u = op.unit
    BY Steps
<1>2. [unit |-> u, step |-> s] \in Operation
    BY DEF Operation
<1>3. \E o \in Operation : o.step = s
    BY <1>2
<1> QED BY <1>3, GotoEffect

\* A charm is unpacked over what is there, and is whole at the end
\* (machine/unit.py, unpack_charm); a job is installed after that.
LEMMA UnpackSteps ==
    ASSUME TypeOK, UnitInv,
           unpack_charm \/ unpacked \/ install \/ install_in_container
    PROVE  UnitTypeOK' /\ UnitInv'
<1> USE DEF agentVars, diskVars, At
<1> DEFINE u == op.unit
<1>0. op # NoOp => u \in Unit
    BY Steps
<1>1. CASE unpack_charm
    <2>1. op' \in Operation /\ op' # NoOp /\ op'.unit = u /\ op'.step = "unpacking" /\ u \in Unit
        BY <1>0, <1>1, NextStep DEF unpack_charm
    <2>2. /\ charm' = [charm EXCEPT ![u] = IF @ \in {"whole", "again"} THEN "again" ELSE "partial"]
          /\ UNCHANGED <<provider, topo, watchVars, failed, conf, box, template, job>>
        BY <1>1 DEF unpack_charm
    <2>3. UnitTypeOK'
        BY <2>1, <2>2 DEF TypeOK, UnitTypeOK, watchVars
    <2>4. \A v \in conf : charm'[v] \in {"whole", "again"}
        BY <2>1, <2>2 DEF UnitInv, TypeOK
    <2> QED BY <2>1, <2>2, <2>3, <2>4 DEF UnitInv
<1>2. CASE unpacked
    <2>1. UNCHANGED <<provider, topo, watchVars, conf, box, template, job>>
        BY <1>2 DEF unpacked
    <2>2. CASE Raise /\ UNCHANGED charm
        BY <1>2, <2>1, <2>2, OperationEnds DEF unpacked, TypeOK
    <2>3. CASE Goto("install") /\ charm' = [charm EXCEPT ![u] = "whole"] /\ UNCHANGED failed
        <3>1. op' \in Operation /\ op' # NoOp /\ op'.unit = u /\ op'.step = "install" /\ u \in Unit
            BY <1>0, <1>2, <2>3, NextStep DEF unpacked
        <3>2. UnitTypeOK'
            BY <2>1, <2>3, <3>1 DEF TypeOK, UnitTypeOK, watchVars
        <3>3. charm'[u] = "whole" /\ \A v \in conf : charm'[v] \in {"whole", "again"}
            BY <2>3, <3>1 DEF UnitInv, TypeOK
        <3> QED BY <2>1, <3>1, <3>2, <3>3 DEF UnitInv
    <2> QED BY <1>2, <2>2, <2>3 DEF unpacked
<1>3. CASE install \/ install_in_container
    <2>1. /\ op # NoOp /\ op.step = "install" /\ Goto("run") /\ conf' = conf \cup {u}
          /\ UNCHANGED <<provider, topo, watchVars, failed, charm, box, template, job>>
        BY <1>3 DEF install, install_in_container
    <2>2. op' \in Operation /\ op' # NoOp /\ op'.unit = u /\ op'.step = "run" /\ u \in Unit
        BY <1>0, <2>1, NextStep
    <2>3. UnitTypeOK'
        BY <2>1, <2>2 DEF TypeOK, UnitTypeOK, watchVars
    <2> QED BY <2>1, <2>2, <2>3 DEF UnitInv
<1> QED BY <1>1, <1>2, <1>3

\* A job that is installed is started, or the error is logged.
LEMMA RunSteps ==
    ASSUME TypeOK, UnitInv, start_job \/ run_container
    PROVE  UnitTypeOK' /\ UnitInv'
<1> USE DEF agentVars, diskVars, At
<1>1. /\ op # NoOp /\ op.unit \in Unit /\ op.unit \in conf
      /\ Done \/ Raise
      /\ job' \in {job, job \cup {op.unit}}
      /\ UNCHANGED <<provider, topo, watchVars, charm, conf, box, template>>
    BY Steps DEF start_job, run_container, UnitInv
<1>2. op' = NoOp /\ failed' \subseteq Unit
    BY <1>1 DEF Done, Raise, TypeOK
<1>3. UnitTypeOK'
    BY <1>1, <1>2 DEF TypeOK, UnitTypeOK, watchVars
<1> QED BY <1>1, <1>2, <1>3 DEF UnitInv

\* kill_service_unit: first the job is stopped, then it and the charm go.
LEMMA StopSteps ==
    ASSUME TypeOK, UnitInv, stop_job \/ stop_container
    PROVE  UnitTypeOK' /\ UnitInv'
<1> USE DEF agentVars, diskVars, At
<1>1. /\ op # NoOp /\ UNCHANGED <<provider, topo, watchVars, charm, conf, box, template>>
      /\ \/ Goto("uninstall") /\ job' = job \ {op.unit} /\ UNCHANGED failed
         \/ Raise /\ UNCHANGED job
    BY DEF stop_job, stop_container
<1>2. CASE Goto("uninstall") /\ job' = job \ {op.unit} /\ UNCHANGED failed
    <2>1. op' \in Operation /\ op' # NoOp /\ op'.unit = op.unit /\ op'.step = "uninstall"
        BY <1>1, <1>2, NextStep
    <2>2. UnitTypeOK'
        BY <1>1, <1>2, <2>1 DEF TypeOK, UnitTypeOK, watchVars
    <2> QED BY <1>1, <1>2, <2>1, <2>2 DEF UnitInv
<1>3. CASE Raise /\ UNCHANGED job
    BY <1>1, <1>3, OperationEnds DEF TypeOK
<1> QED BY <1>1, <1>2, <1>3

\* Its job is gone, and so the unit does not run, before its charm goes.
LEMMA RemoveSteps ==
    ASSUME TypeOK, UnitInv, uninstall \/ rmtree \/ destroy_container
    PROVE  UnitTypeOK' /\ UnitInv'
<1> USE DEF agentVars, diskVars, At
<1> DEFINE u == op.unit
<1>0. op # NoOp => u \in Unit
    BY Steps
<1>1. CASE uninstall
    <2>1. /\ op # NoOp /\ op.step = "uninstall" /\ Goto("remove") /\ conf' = conf \ {u}
          /\ UNCHANGED <<provider, topo, watchVars, failed, charm, box, template, job>>
        BY <1>1 DEF uninstall
    <2>2. op' \in Operation /\ op' # NoOp /\ op'.unit = u /\ op'.step = "remove" /\ u \in Unit
        BY <1>0, <2>1, NextStep
    <2>3. UnitTypeOK'
        BY <2>1, <2>2 DEF TypeOK, UnitTypeOK, watchVars
    <2>4. u \notin job
        BY <2>1 DEF UnitInv
    <2> QED BY <2>1, <2>2, <2>3, <2>4 DEF UnitInv
<1>2. CASE rmtree
    <2>1. /\ op # NoOp /\ op.step = "remove" /\ u \notin conf /\ u \in Unit
          /\ UNCHANGED <<provider, topo, watchVars, conf, box, template, job>>
          /\ \E c \in {"partial", "none"} : charm' = [charm EXCEPT ![u] = c]
          /\ op' = op \/ op' = NoOp
          /\ failed' \subseteq Unit
        BY <1>0, <1>2 DEF rmtree, UnitInv, Done, TypeOK
    <2>2. UnitTypeOK'
        BY <2>1 DEF TypeOK, UnitTypeOK, watchVars
    <2>3. \A v \in conf : charm'[v] \in {"whole", "again"}
        BY <2>1 DEF UnitInv, TypeOK
    <2> QED BY <2>1, <2>2, <2>3 DEF UnitInv
<1>3. CASE destroy_container
    <2>1. /\ op # NoOp /\ op.step = "uninstall" /\ u \notin job /\ u \in Unit
          /\ UNCHANGED <<provider, topo, watchVars, template, job>>
          /\ conf' = conf \ {u} /\ charm' = [charm EXCEPT ![u] = "none"]
          /\ box' = [box EXCEPT ![u] = "none"] /\ op' = NoOp /\ failed' \subseteq Unit
        BY <1>0, <1>3 DEF destroy_container, UnitInv, Done, TypeOK
    <2>2. UnitTypeOK'
        BY <2>1 DEF TypeOK, UnitTypeOK, watchVars, Container
    <2>3. \A v \in conf' : charm'[v] \in {"whole", "again"}
        BY <2>1 DEF UnitInv, TypeOK
    <2> QED BY <2>1, <2>2, <2>3 DEF UnitInv
<1> QED BY <1>1, <1>2, <1>3

\* The watch's callback takes up the units that left or came, one by one.
LEMMA WatchSteps ==
    ASSUME TypeOK, UnitInv, watch_service_units \/ next_stopped \/ next_started
    PROVE  UnitTypeOK' /\ UnitInv'
<1> USE DEF diskVars, At
<1>1. CASE watch_service_units
    BY <1>1 DEF watch_service_units, Idle, Assigned, TypeOK, UnitTypeOK, UnitInv
<1>2. CASE next_stopped \/ next_started
    <2>1. /\ UNCHANGED <<provider, topo, old_units, failed, charm, conf, box, template, job>>
          /\ stopped' \subseteq Unit /\ started' \subseteq Unit
          /\ \E u \in Unit, s \in {"stop", "lookup"} : op' = [unit |-> u, step |-> s]
        BY <1>2 DEF next_stopped, next_started, TypeOK
    <2>2. op' \in Operation /\ op'.step \in {"stop", "lookup"}
        BY <2>1 DEF Operation
    <2>3. UnitTypeOK'
        BY <2>1, <2>2 DEF TypeOK, UnitTypeOK
    <2> QED BY <2>1, <2>2, <2>3 DEF UnitInv
<1> QED BY <1>1, <1>2

\* Each step of a deployment or a removal.
LEMMA DeployKeepsInv ==
    ASSUME Inv, Deploy
    PROVE  Inv'
<1>1. UnitTypeOK' /\ UnitInv'
    BY LookupSteps, ContainerSteps, UnpackSteps, RunSteps, StopSteps, RemoveSteps, WatchSteps
    DEF Deploy, Inv
<1>2. UNCHANGED sessionVars /\ (Fault \/ UNCHANGED faults)
    BY DEF Deploy, agentVars, watch_service_units, next_stopped, next_started, get_unit_state,
           download_charm, start_service_unit, unpack_charm, unpacked, install,
           install_in_container, start_job, run_container, _create_wait,
           _customize_container, _clone_wait, _lxc_clone, stop_job, uninstall, rmtree,
           stop_container, destroy_container
<1>3. SessionInv'
    BY <1>2, SessionUntouched DEF Inv, TypeOK, SessionInv
<1> QED BY <1>1, <1>3 DEF Inv, TypeOK, UnitTypeOK, SessionInv

\* What the process held in memory is gone; what is on disk may have a job
\* started by upstart (agents/machine.py), whose charm is whole.
LEMMA EndKeepsInv ==
    ASSUME Inv, End \/ reboot
    PROVE  Inv'
<1>1. /\ stopService \/ die \/ restart_machine
      /\ op' = NoOp /\ old_units' = {} /\ stopped' = {} /\ started' = {}
      /\ job' \in {job, {}, conf}
      /\ UNCHANGED <<provider, topo, failed, charm, conf, box, template>>
    BY DEF End, reboot, Forget, diskVars
<1>2. SessionInv'
    BY <1>1, SessionEnds DEF Inv, TypeOK, SessionInv
<1>3. UnitTypeOK'
    BY <1>1 DEF Inv, TypeOK, UnitTypeOK
<1>4. UnitInv'
    BY <1>1 DEF Inv, UnitInv, At
<1> QED BY <1>2, <1>3, <1>4 DEF Inv, TypeOK, UnitTypeOK, SessionInv

\* The session's own steps, the commands, and the start of the watch.
LEMMA OtherStepsKeepInv ==
    ASSUME Inv, command \/ start \/ Session \/ UNCHANGED vars
    PROVE  Inv'
<1>1. CASE Session \/ start \/ UNCHANGED vars
    <2>1. UNCHANGED <<provider, topo, watchVars, op, failed, charm, conf, box, template, job>>
        BY <1>1 DEF Session, start, vars, diskVars
    <2>2. SessionInv'
        <3>1. CASE Session
            BY <3>1, SessionSteps DEF Session, Inv, TypeOK, SessionInv
        <3>2. CASE start
            <4>1. /\ agent = "saved" /\ agent' = "watching"
                  /\ UNCHANGED <<last, session_file, live, presence, left_behind, faults>>
                BY <3>2 DEF start
            <4>2. SessionTypeOK /\ left_behind \in BOOLEAN
                BY DEF Inv, TypeOK, SessionTypeOK
            <4>3. SessionTypeOK'
                BY <4>1, <4>2 DEF SessionTypeOK, Stage
            <4>4. SessionsCounted'
                BY <4>1 DEF Inv, SessionsCounted, Connected
            <4>5. PresenceInv'
                BY <4>1, <4>2 DEF Inv, PresenceInv, Connected
            <4> QED BY <4>3, <4>4, <4>5 DEF SessionInv
        <3>3. CASE UNCHANGED vars
            BY <3>3, SessionUntouched DEF vars, Inv, TypeOK, SessionInv
        <3> QED BY <1>1, <3>1, <3>2, <3>3
    <2>3. UnitTypeOK' /\ UnitInv'
        BY <2>1 DEF Inv, TypeOK, UnitTypeOK, UnitInv, At, watchVars
    <2> QED BY <2>2, <2>3 DEF Inv, TypeOK, UnitTypeOK, SessionInv
<1>2. CASE command
    <2>1. /\ UNCHANGED <<sessionVars, faults>>
          /\ UNCHANGED <<provider, watchVars, op, failed, charm, conf, box, template, job>>
        BY <1>2 DEF command, diskVars
    <2>2. topo' \in [Unit -> {"new", "assigned", "unassigned", "removed"}]
        BY <1>2 DEF command, assign_to_machine, unassign_from_machine, remove_unit_state,
                    Inv, TypeOK
    <2>3. SessionInv'
        BY <2>1, SessionUntouched DEF Inv, TypeOK, SessionInv
    <2>4. UnitTypeOK' /\ UnitInv'
        BY <2>1, <2>2 DEF Inv, TypeOK, UnitTypeOK, UnitInv, At, watchVars
    <2> QED BY <2>3, <2>4 DEF Inv, TypeOK, UnitTypeOK, SessionInv
<1> QED BY <1>1, <1>2
-----------------------------------------------------------------------------
(* The theorems *)

\* Nothing has been started and nothing is on disk.
LEMMA InitInv == Init => Inv
<1> SUFFICES ASSUME Init PROVE Inv
    OBVIOUS
<1> USE DEF Init, SessionInit
<1>1. SessionTypeOK
    <2>1. /\ 0 \in 0..(MaxFaults + MaxFalseStarts + 1)
          /\ 0 \in 0..(MaxFaults + MaxFalseStarts) /\ 0 \in 0..0
        BY FaultsAssumption
    <2> QED BY <2>1 DEF SessionTypeOK, Stage
<1>2. TypeOK
    BY <1>1 DEF TypeOK, Container
<1>3. SessionsCounted /\ PresenceInv
    BY DEF SessionsCounted, PresenceInv, Connected
<1>4. UnitInv
    BY DEF UnitInv, At
<1> QED BY <1>2, <1>3, <1>4 DEF Inv

\* Every step of the agent, and its end, keeps the invariant.
LEMMA NextKeepsInv == Inv /\ [Next]_vars => Inv'
BY DeployKeepsInv, EndKeepsInv, OtherStepsKeepInv DEF Next

\* The types of the agent, its session and the machine's disk, and the bound
\* on sessions: each but the first is owed to a fault.
THEOREM TypeCorrectness == Spec => []TypeOK
<1>1. Inv => TypeOK
    BY DEF Inv
<1> QED BY <1>1, InitInv, NextKeepsInv, PTL DEF Spec

\* A machine agent that has started owns its node by its own session: it closed
\* the one before by way of the id that had been saved (agents/base.py,
\* _kill_existing_session), for any number of deaths and of stops at any stage.
\* left_behind excuses only a session the next process had no means to close.
THEOREM AgentAnnounced == Spec => []Announced
<1>1. Inv => Announced
    BY DEF Inv, Announced, PresenceInv
<1> QED BY <1>1, InitInv, NextKeepsInv, PTL DEF Spec

\* Whatever step of a deployment or removal is cut short, no unit runs without
\* a job that is installed and a charm that was unpacked to the end
\* (machine/unit.py), for any number of units and deaths.
THEOREM WholeCharms == Spec => []UnitsRunWholeCharms
<1>1. Inv => UnitsRunWholeCharms
    BY DEF Inv, UnitsRunWholeCharms, UnitInv
<1> QED BY <1>1, InitInv, NextKeepsInv, PTL DEF Spec
===============================================================================
