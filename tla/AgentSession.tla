---------------------------- MODULE AgentSession ----------------------------
(***************************************************************************)
(* What every agent does around its own work (juju/agents/base.py): close  *)
(* the ZooKeeper session a former process left behind, connect, save the   *)
(* id of the new session for the next process, and announce the agent by   *)
(* an ephemeral node (juju/state/agent.py), which lives as long as the     *)
(* session that created it.                                                *)
(*                                                                         *)
(* Sessions are numbered in the order they are created; last is that of    *)
(* the running process once it is connected.                               *)
(***************************************************************************)
EXTENDS Naturals

CONSTANTS
    MaxFaults,        \* bound: deaths, reboots, stops and failed commands together
    MaxFalseStarts    \* bound: processes stopped as soon as launched, on top of those

ASSUME FaultsAssumption == MaxFaults \in Nat /\ MaxFalseStarts \in Nat

VARIABLES
    agent,           \* the process: "down", or how far it has started
    last,            \* the last session created, 0 at first
    session_file,    \* the session id saved on disk, 0 when there is no file
    live,            \* ZooKeeper: the sessions that have not ended
    presence,        \* ZooKeeper: the session that owns the agent node, 0 when absent
    left_behind,     \* history: a session was left alive that the next process cannot close
    faults

sessionVars == <<agent, last, session_file, live, presence, left_behind>>

Stage == {"down", "launched", "killed", "connected", "saved", "watching", "started", "refused"}

SessionTypeOK ==
    /\ agent \in Stage
    /\ last \in 0..(MaxFaults + MaxFalseStarts + 1)
    /\ session_file \in 0..last /\ presence \in 0..last
    /\ live \subseteq 1..last
    /\ left_behind \in BOOLEAN
    /\ faults \in 0..(MaxFaults + MaxFalseStarts)

SessionInit ==
    /\ agent = "down"
    /\ last = 0 /\ session_file = 0 /\ presence = 0
    /\ live = {}
    /\ left_behind = FALSE
    /\ faults = 0

Connected == agent \in {"connected", "saved", "watching", "started", "refused"}

Fault == faults < MaxFaults /\ faults' = faults + 1

FalseStart == agent = "launched" /\ faults < MaxFaults + MaxFalseStarts /\ faults' = faults + 1

\* The session s ends, and with it the node it owns.
EndSession(s) ==
    /\ live' = live \ {s}
    /\ presence' = IF presence = s THEN 0 ELSE presence

-----------------------------------------------------------------------------

\* Upstart starts the agent, the first time and again when it has died.
launch ==
    /\ agent = "down"
    /\ agent' = "launched"
    /\ UNCHANGED <<last, session_file, live, presence, left_behind, faults>>

_kill_existing_session ==
    /\ agent = "launched"
    /\ agent' = "killed"
    /\ EndSession(session_file)
    /\ UNCHANGED <<last, session_file, left_behind, faults>>

\* Any ZooKeeperException is taken to mean that the session is gone.
_kill_existing_session_fails ==
    /\ agent = "launched" /\ session_file \in live
    /\ agent' = "killed"
    /\ left_behind' = TRUE
    /\ UNCHANGED <<last, session_file, live, presence, faults>>

connect ==
    /\ agent = "killed"
    /\ agent' = "connected"
    /\ last' = last + 1
    /\ live' = live \union {last + 1}
    /\ UNCHANGED <<session_file, presence, left_behind, faults>>

\* Mutant: the id of the new session is not saved.
save_client_id_omitted ==
    /\ agent = "connected"
    /\ agent' = "saved"
    /\ UNCHANGED <<last, session_file, live, presence, left_behind, faults>>

save_client_id ==
    /\ agent = "connected"
    /\ agent' = "saved"
    /\ session_file' = last
    /\ UNCHANGED <<last, live, presence, left_behind, faults>>

\* The last step of an agent's start.  The error of a node that exists ends
\* startService; the process, and the watches already set, go on.
connect_agent ==
    /\ agent = "watching"
    /\ IF presence = 0
         THEN agent' = "started" /\ presence' = last
         ELSE agent' = "refused" /\ UNCHANGED presence
    /\ UNCHANGED <<last, session_file, live, left_behind, faults>>

\* connect assigns self.client when the connection has come, and saves its id
\* in the same turn.
HasClient == Connected /\ agent # "connected"

\* stopService closes the session of self.client, if there is one by then, and
\* removes the file whatever it held: before the agent has closed the session
\* of a former process by way of the file, nothing is left to close it by.
stopService ==
    /\ agent # "down"
    /\ Fault \/ FalseStart
    /\ agent' = "down"
    /\ IF HasClient
         THEN EndSession(last) /\ UNCHANGED left_behind
         ELSE /\ left_behind' = (left_behind \/ session_file \in live)
              /\ UNCHANGED <<live, presence>>
    /\ session_file' = 0
    /\ UNCHANGED last

\* The process dies; its session stays until it is closed or times out.
die ==
    /\ agent # "down"
    /\ Fault
    /\ agent' = "down"
    /\ UNCHANGED <<last, session_file, live, presence, left_behind>>

\* The machine is restarted, and /var/run, where the session file is, emptied.
restart_machine ==
    /\ Fault
    /\ agent' = "down"
    /\ session_file' = 0
    /\ left_behind' = (left_behind \/ live # {})
    /\ UNCHANGED <<last, live, presence>>

\* ZooKeeper ends a session that no process keeps alive.
expire ==
    \E s \in live :
        /\ s # last \/ ~Connected
        /\ EndSession(s)
        /\ UNCHANGED <<agent, last, session_file, left_behind, faults>>
=============================================================================
