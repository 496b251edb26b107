---------------------------- MODULE MachineAgent ----------------------------
(***************************************************************************)
(* The machine agent (juju/agents/machine.py) deploys the units assigned   *)
(* to its machine and destroys those no longer assigned, by way of         *)
(* juju/unit/deploy.py and juju/machine/unit.py: as upstart jobs           *)
(* (juju/lib/upstart.py), or in LXC containers (juju/lib/lxc) when the     *)
(* provider is the local one.                                              *)
(*                                                                         *)
(* The callback of the watch works through the changed units one by one,   *)
(* logs what fails and never tries it again; the process or the machine    *)
(* may die between any two of its steps.                                   *)
(***************************************************************************)
EXTENDS AgentSession

CONSTANTS Unit, NoOp

VARIABLES
    provider,      \* GlobalSettings: is the provider type "local"?
    topo,          \* the life of each unit in /topology
    old_units,     \* _WatchAssignedUnits._old_units, {} for None
    stopped,       \* units the callback still has to destroy
    started,       \* units the callback still has to deploy
    op,            \* the unit being worked on and the step reached
    failed,        \* units whose last operation was logged as an error
    charm,         \* the charm directory of each unit
    conf,          \* units whose upstart job is installed
    box,           \* the LXC container of each unit
    template,      \* the LXC container the others are cloned from
    job            \* units whose agent (or container) upstart (or LXC) runs

watchVars == <<old_units, stopped, started>>
diskVars  == <<charm, conf, box, template>>
vars == <<sessionVars, faults, provider, topo, watchVars, op, failed, diskVars, job>>

Operation ==
    [unit : Unit,
     step : {"lookup", "download", "check", "create", "configure", "customize",
             "clone", "cloning", "unpack", "unpacking", "install", "run",
             "stop", "uninstall", "remove"}]

ASSUME NoOpAssumption == NoOp \notin Operation

\* A container under construction: its root file system, then juju.conf in
\* it, then what the juju-create script installs.
Container == {"none", "rootfs", "conf", "ready"}

TypeOK ==
    /\ SessionTypeOK
    /\ provider \in {"local", "other"}
    /\ topo \in [Unit -> {"new", "assigned", "unassigned", "removed"}]
    /\ old_units \subseteq Unit /\ stopped \subseteq Unit /\ started \subseteq Unit
    /\ op \in Operation \union {NoOp}
    /\ failed \subseteq Unit /\ conf \subseteq Unit /\ job \subseteq Unit
    /\ charm \in [Unit -> {"none", "partial", "whole", "again"}]
    /\ box \in [Unit -> Container] /\ template \in Container

Init ==
    /\ SessionInit
    /\ provider \in {"local", "other"}
    /\ topo = [u \in Unit |-> "new"]
    /\ old_units = {} /\ stopped = {} /\ started = {}
    /\ op = NoOp
    /\ failed = {} /\ conf = {} /\ job = {}
    /\ charm = [u \in Unit |-> "none"]
    /\ box = [u \in Unit |-> "none"] /\ template = "none"

-----------------------------------------------------------------------------
(* The commands *)

Assigned == {u \in Unit : topo[u] = "assigned"}

assign_to_machine(u) == topo[u] = "new" /\ topo' = [topo EXCEPT ![u] = "assigned"]

\* remove-unit and destroy-service take a unit off its machine first.
unassign_from_machine(u) ==
    topo[u] = "assigned" /\ topo' = [topo EXCEPT ![u] = "unassigned"]

remove_unit_state(u) ==
    topo[u] = "unassigned" /\ topo' = [topo EXCEPT ![u] = "removed"]

command ==
    /\ \E u \in Unit :
           \/ assign_to_machine(u)
           \/ unassign_from_machine(u)
           \/ remove_unit_state(u)
    /\ UNCHANGED <<sessionVars, faults, provider, watchVars, op, failed, diskVars, job>>

-----------------------------------------------------------------------------
(* The watch on assigned units *)

\* start: the watch is set, and not waited for, before the agent is announced.
start ==
    /\ agent = "saved"
    /\ agent' = "watching"
    /\ UNCHANGED <<last, session_file, live, presence, left_behind, faults, provider, topo,
                   watchVars, op, failed, diskVars, job>>

Watching == agent \in {"watching", "started", "refused"}
Idle == op = NoOp /\ stopped = {} /\ started = {}

\* The watch reads the topology again once the callback has returned.
watch_service_units ==
    /\ Watching /\ Idle
    /\ Assigned # old_units
    /\ old_units' = Assigned
    /\ stopped' = old_units \ Assigned
    /\ started' = Assigned \ old_units
    /\ UNCHANGED <<sessionVars, faults, provider, topo, op, failed, diskVars, job>>

next_stopped ==
    /\ op = NoOp
    /\ \E u \in stopped :
           /\ op' = [unit |-> u, step |-> "stop"]
           /\ stopped' = stopped \ {u}
    /\ UNCHANGED <<sessionVars, faults, provider, topo, old_units, started, failed, diskVars, job>>

next_started ==
    /\ op = NoOp /\ stopped = {}
    /\ \E u \in started :
           /\ op' = [unit |-> u, step |-> "lookup"]
           /\ started' = started \ {u}
    /\ UNCHANGED <<sessionVars, faults, provider, topo, old_units, stopped, failed, diskVars, job>>

At(step) == op # NoOp /\ op.step = step
Goto(step) == op' = [op EXCEPT !.step = step]
Done == op' = NoOp /\ failed' = failed \ {op.unit}
\* watch_service_units logs the exception and goes on with the next unit.
Raise == op' = NoOp /\ failed' = failed \union {op.unit}

agentVars == <<sessionVars, provider, topo, watchVars>>

-----------------------------------------------------------------------------
(* UnitDeployer.start_service_unit *)

\* The states of the unit and its charm are read: gone with a removed unit.
get_unit_state ==
    /\ At("lookup")
    /\ IF topo[op.unit] = "removed"
         THEN Raise
         ELSE Goto("download") /\ UNCHANGED failed
    /\ UNCHANGED <<agentVars, faults, diskVars, job>>

download_charm ==
    /\ At("download")
    /\ \/ Goto("check") /\ UNCHANGED <<failed, faults>>
       \/ Fault /\ Raise
    /\ UNCHANGED <<agentVars, diskVars, job>>

is_constructed(c) == c \in {"conf", "ready"}

\* The container deployment makes its template if there is none.
_get_master_template == IF is_constructed(template) THEN "clone" ELSE "create"

\* get_deploy_factory: which deployment starts, and so with which step.
FirstStep == IF provider = "local" THEN _get_master_template ELSE "unpack"

\* By the pid of its job, or by its container among those lxc-ls shows to run.
is_running(u) == u \in job

\* Mutant: the job is installed before the charm is unpacked.
start_service_unit_installs_first ==
    /\ At("check")
    /\ IF is_running(op.unit)
         THEN Done /\ UNCHANGED conf
         ELSE /\ Goto(FirstStep)
              /\ conf' = conf \union {op.unit}
              /\ UNCHANGED failed
    /\ UNCHANGED <<agentVars, faults, charm, box, template, job>>

\* A unit that runs is left alone, any other is deployed as its provider does.
start_service_unit ==
    /\ At("check")
    /\ IF is_running(op.unit)
         THEN Done
         ELSE /\ Goto(FirstStep)
              /\ UNCHANGED failed
    /\ UNCHANGED <<agentVars, faults, diskVars, job>>

unpack_charm ==
    /\ At("unpack")
    /\ Goto("unpacking")
    /\ charm' = [charm EXCEPT ![op.unit] = IF @ \in {"whole", "again"} THEN "again" ELSE "partial"]
    /\ UNCHANGED <<agentVars, faults, failed, conf, box, template, job>>

unpacked ==
    /\ At("unpacking")
    /\ \/ /\ Goto("install")
          /\ charm' = [charm EXCEPT ![op.unit] = "whole"]
          /\ UNCHANGED <<failed, faults>>
       \/ Fault /\ Raise /\ UNCHANGED charm
    /\ UNCHANGED <<agentVars, conf, box, template, job>>

install ==
    /\ At("install") /\ provider # "local"
    /\ Goto("run")
    /\ conf' = conf \union {op.unit}
    /\ UNCHANGED <<agentVars, faults, failed, charm, box, template, job>>

\* The job goes into the container and starts with it.
install_in_container ==
    /\ At("install") /\ provider = "local"
    /\ Goto("run")
    /\ conf' = conf \union {op.unit}
    /\ UNCHANGED <<agentVars, faults, failed, charm, box, template, job>>

\* UpstartService.start: a job that does not keep its pid raises an error, and
\* upstart may run it all the same.
start_job ==
    /\ At("run") /\ provider # "local"
    /\ \/ job' = job \union {op.unit} /\ Done /\ UNCHANGED faults
       \/ /\ Fault /\ Raise /\ op.unit \notin job
          /\ job' \in {job, job \union {op.unit}}
    /\ UNCHANGED <<agentVars, diskVars>>

run_container ==
    /\ At("run") /\ provider = "local"
    /\ \/ job' = job \union {op.unit} /\ Done /\ UNCHANGED faults
       \/ Fault /\ Raise /\ UNCHANGED job
    /\ UNCHANGED <<agentVars, diskVars>>

-----------------------------------------------------------------------------
(* Containers *)

\* lxc-create refuses a container that exists, even in part.
_create_wait ==
    /\ At("create")
    /\ \/ template = "none" /\ Goto("configure") /\ UNCHANGED <<failed, faults>>
       \/ template # "none" /\ Raise /\ UNCHANGED faults
       \/ template = "none" /\ Fault /\ Raise
    /\ template' = "rootfs"
    /\ UNCHANGED <<agentVars, charm, conf, box, job>>

\* juju.conf, by which is_constructed goes, is in place before the script runs.
_customize_container ==
    /\ \/ /\ At("configure") /\ Goto("customize")
          /\ template' = "conf"
          /\ UNCHANGED <<failed, faults>>
       \/ /\ At("customize") /\ Goto("clone")
          /\ template' = "ready"
          /\ UNCHANGED <<failed, faults>>
       \/ /\ At("customize") /\ Fault /\ Raise
          /\ UNCHANGED template
    /\ UNCHANGED <<agentVars, charm, conf, box, job>>

_clone_wait ==
    /\ At("clone")
    /\ IF is_constructed(box[op.unit])
         THEN Goto("unpack") /\ UNCHANGED <<failed, box>>
         ELSE IF box[op.unit] = "rootfs"
         THEN Raise /\ UNCHANGED box
         ELSE Goto("cloning") /\ box' = [box EXCEPT ![op.unit] = "rootfs"] /\ UNCHANGED failed
    /\ UNCHANGED <<agentVars, faults, charm, conf, template, job>>

\* External: lxc-clone copies the template file by file.
_lxc_clone ==
    /\ At("cloning")
    /\ IF box[op.unit] = "rootfs"
         THEN box' = [box EXCEPT ![op.unit] = "conf"] /\ UNCHANGED op
         ELSE box' = [box EXCEPT ![op.unit] = template] /\ Goto("unpack")
    /\ UNCHANGED <<agentVars, faults, failed, charm, conf, template, job>>

-----------------------------------------------------------------------------
(* UnitDeployer.kill_service_unit *)

\* UpstartService.destroy: /sbin/stop if the job runs, then the job goes.
stop_job ==
    /\ At("stop") /\ provider # "local"
    /\ \/ Goto("uninstall") /\ job' = job \ {op.unit} /\ UNCHANGED <<failed, faults>>
       \/ op.unit \in job /\ Fault /\ Raise /\ UNCHANGED job
    /\ UNCHANGED <<agentVars, diskVars>>

\* Mutant: the unit's directory is left behind.
uninstall_only ==
    /\ At("uninstall") /\ provider # "local"
    /\ conf' = conf \ {op.unit}
    /\ Done
    /\ UNCHANGED <<agentVars, faults, charm, box, template, job>>

uninstall ==
    /\ At("uninstall") /\ provider # "local"
    /\ conf' = conf \ {op.unit}
    /\ Goto("remove")
    /\ UNCHANGED <<agentVars, faults, failed, charm, box, template, job>>

\* shutil.rmtree, which a death may cut short.
rmtree ==
    /\ At("remove")
    /\ IF charm[op.unit] \in {"whole", "again"}
         THEN charm' = [charm EXCEPT ![op.unit] = "partial"] /\ UNCHANGED <<op, failed>>
         ELSE charm' = [charm EXCEPT ![op.unit] = "none"] /\ Done
    /\ UNCHANGED <<agentVars, faults, conf, box, template, job>>

\* lxc-stop refuses a container it does not know.
stop_container ==
    /\ At("stop") /\ provider = "local"
    /\ \/ /\ box[op.unit] # "none"
          /\ Goto("uninstall") /\ job' = job \ {op.unit}
          /\ UNCHANGED <<failed, faults>>
       \/ box[op.unit] = "none" /\ Raise /\ UNCHANGED <<job, faults>>
       \/ op.unit \in job /\ Fault /\ Raise /\ UNCHANGED job
    /\ UNCHANGED <<agentVars, diskVars>>

\* lxc-destroy removes the container and all that is in it.
destroy_container ==
    /\ At("uninstall") /\ provider = "local"
    /\ Done
    /\ conf' = conf \ {op.unit}
    /\ charm' = [charm EXCEPT ![op.unit] = "none"]
    /\ box' = [box EXCEPT ![op.unit] = "none"]
    /\ UNCHANGED <<agentVars, faults, template, job>>

-----------------------------------------------------------------------------

\* Mutant: the next process goes on from the units this one had seen.
Forget_but_units == UNCHANGED old_units /\ stopped' = {} /\ started' = {} /\ op' = NoOp

\* What the process held in memory is gone; the next one starts from nothing.
Forget == old_units' = {} /\ stopped' = {} /\ started' = {} /\ op' = NoOp

Session ==
    /\ \/ launch \/ _kill_existing_session \/ _kill_existing_session_fails
       \/ connect \/ save_client_id \/ connect_agent \/ expire
    /\ UNCHANGED <<provider, topo, watchVars, op, failed, diskVars, job>>

End ==
    /\ die \/ stopService
    /\ Forget
    /\ UNCHANGED <<provider, topo, failed, diskVars, job>>

\* Upstart starts every installed job with the machine; containers stay down.
reboot ==
    /\ restart_machine
    /\ Forget
    /\ job' = IF provider = "local" THEN {} ELSE conf
    /\ UNCHANGED <<provider, topo, failed, diskVars>>

Deploy ==
    \/ watch_service_units \/ next_stopped \/ next_started
    \/ get_unit_state \/ download_charm \/ start_service_unit
    \/ unpack_charm \/ unpacked \/ install \/ install_in_container \/ start_job \/ run_container
    \/ _create_wait \/ _customize_container \/ _clone_wait \/ _lxc_clone
    \/ stop_job \/ uninstall \/ rmtree \/ stop_container \/ destroy_container

Next == command \/ start \/ Session \/ End \/ reboot \/ Deploy

Spec == Init /\ [][Next]_vars

\* Upstart keeps the agent running, and the reactor runs what is ready to run.
FairSpec ==
    /\ Spec
    /\ WF_vars(launch /\ UNCHANGED <<provider, topo, watchVars, op, failed, diskVars, job>>)
    /\ WF_vars((_kill_existing_session \/ connect \/ save_client_id \/ connect_agent)
               /\ UNCHANGED <<provider, topo, watchVars, op, failed, diskVars, job>>)
    /\ WF_vars(start) /\ WF_vars(Deploy)

-----------------------------------------------------------------------------

\* A machine agent that has started is announced by a node that will outlive
\* it by no more than its own session, whatever the former processes left: the
\* session of a process that died is closed by way of the file it saved
\* (agents/base.py, _kill_existing_session), unless closing it failed or the
\* file is gone: with the machine, or because a process that was stopped before
\* it had closed that session removed the file all the same (stopService).
Announced ==
    agent \in {"started", "refused"} /\ ~left_behind => presence = last

\* No unit agent, nor its container, ever runs without a charm that was once
\* unpacked to the end and a job that is installed, however the deployment or
\* the removal was cut short (machine/unit.py, start and destroy).
UnitsRunWholeCharms ==
    \A u \in job : u \in conf /\ charm[u] \in {"whole", "again"}

\* A unit assigned to the machine comes to run there, or the error that kept
\* it from running is logged, however often the agent dies on the way
\* (agents/machine.py, watch_service_units).
AssignedUnitsRun ==
    \A u \in Unit :
        topo[u] = "assigned" ~> (u \in job \union failed \/ topo[u] # "assigned")

Gone(u) == u \notin job \union conf /\ charm[u] = "none" /\ box[u] = "none"

\* A unit the agent knew of and that left the machine is taken off it with all
\* it has on disk, unless the agent dies first (the next process never learns
\* of the unit) or the error is logged.
DepartedUnitsGo ==
    \A u \in Unit :
        (u \in old_units /\ topo[u] # "assigned") ~> (Gone(u) \/ agent = "down" \/ u \in failed)
=============================================================================
