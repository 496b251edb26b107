# Juju in TLA+

Juju (the Python implementation under `src/juju`) deploys services on machines
and relates them.  All shared knowledge is in a ZooKeeper tree; commands
and agents are clients that read it, watch it and change it, with nobody in
charge.  This directory models what carries that design: the `/topology` node and
the clients that change it concurrently, the agents that turn it into instances,
open ports, running units and hooks, and how each of them survives failures,
restarts and each other.

Definitions keep the names of the source where TLA+ allows it, and
`PROJECT.json` gives the source lines of each.  A definition called *Mutant* is a
plausible bug in the definition that follows it; no specification uses it.

## The system

| Component | State | Operations | Hard because |
|---|---|---|---|
| Topology (`state/topology.py`) | machines, services, units with their machines and containers, relations, unit sequences, in one YAML node | add, remove, assign, unassign | every reference must stay sound, and unit names must never return |
| State managers (`state/{base,machine,service,relation,placement}.py`) | sequence nodes; nothing of their own | methods that read `/topology`, create nodes and change `/topology` one or more times through `retry_change` | clients interleave between any two calls, look things up before they use them, raise and die half way |
| Commands (`control/*`) | none | look something up, then call state managers | what they looked up is stale when the change is made |
| Constraints, placement, charm publishing (`machine/constraints.py`, `state/placement.py`, `charm/publisher.py`) | constraints of the environment, services, units and machines; charm nodes and storage | set, override, place, publish | levels and conflicts; two commands choose or upload at once |
| Relation unit watcher (`state/relation.py`) | known units, container and settings watches | calls back with old and new members, and with settings versions | ZooKeeper merges events; a callback that raises loses the watch |
| Hook scheduler (`hooks/scheduler.py`) | queue of changes, members and their versions, a state file | `cb_change_members`, `cb_change_settings`, `run`, `stop` | the queue is edited while a hook runs; the process dies between saves |
| Hook executor (`hooks/executor.py`) | queue of executions, running flag, lock, hooks to debug | start, stop, run a hook, run a priority hook, debug | start and stop meet loops that wait |
| Hook contexts and tools (`state/hook.py`, `state/utils.py`, `hooks/{protocol,commands,invoker}.py`) | caches and buffered settings of a hook | `relation-get`, `relation-set`, ..., flush at exit | commands overlap and outlive their hook; others write the same node |
| Unit workflow and lifecycle (`unit/{workflow,lifecycle}.py`, `lib/statemachine.py`) | state and inflight transition, on disk and in ZooKeeper; running flag; charm on disk | fire a transition, or its error transition, or automatic ones; synchronize at start | steps fail, raise, or are cut short by a crash and fired again |
| Relation workflow and lifecycle (the same files) | state file, watcher and scheduler of each relation; the list of known relations | up, down, error, reset, depart; store and resolve relations | errors come from the scheduler out of band; four parties share two kinds of lock |
| Unit agent (`agents/unit.py`) | three watches | callbacks for resolved, upgrade and config | requests are removed before they are carried out, and wait for one lock |
| Provisioning agent (`agents/provision.py`, `providers/ec2`) | cached machines | a pass over machines, from a watch or a timer | cached lists, calls that fail, instances that vanish |
| Firewall manager (`state/firewall.py`) | watched services, units, ports and machines | callbacks that set further watches; a pass over a machine | nested watches that end one another |
| Agent base (`agents/base.py`) | session file, presence node | connect, kill the former session | the file is saved after the connection and lost with `/var/run` |
| Machine agent, unit deployment (`agents/machine.py`, `unit/deploy.py`, `machine/unit.py`, `lib/{upstart,lxc}`) | deployed units | start and kill units | each of some ten steps on disk may fail or be the last |
| Status (`control/status.py`) | none | walk the topology | dangling containers, scopes |
| Charm formats, connections, other providers, `environments.yaml`, access control | files, sockets, cloud services | parsing and I/O | not a matter of state shared with the rest |

The interactions: commands and agents share `/topology`; a unit agent hears of
relations through `/topology` and of related units through presence and settings
nodes; the relation lifecycle feeds the watcher's callbacks to the scheduler; the
scheduler's hooks and the unit's own hooks meet in the executor; the workflow
starts and stops the lifecycle, and the lifecycle the executor; hooks read and
write ZooKeeper through their context; users talk to a unit through its
`resolved` and `upgrade` nodes and the service's configuration; the machine
agent follows the units assigned to its machine, and the provisioning agent and
its firewall manager the machines, exposed flags and ports.

What makes each part correct: the topology refers only to what exists, and
changes as if each change were atomic; a charm sees the hooks of a related unit in
order and in the end knows who is there and what they wrote; what a hook changed
is written at once when it succeeds; a unit agent runs what its state says, does
not skip an upgrade's hook, answers each request, and can be killed at any time;
each machine gets one instance and keeps it, each assigned unit its agent, each
exposed unit its ports; a unit's machine satisfies what was asked of it.

## Modules

| Module | Models | State and actions |
|---|---|---|
| `Topology` | `InternalTopology` | a record; each mutator is an operator to the set of topologies it may leave, empty when the code raises |
| `TopologyChanges` | the change functions given to `_retry_topology_change` | each a request with the values its closure captured |
| `AtomicTopology` | the abstract specification of what clients do to `/topology` | `topology`, `issued` (names ever given); one action per state manager method, each atomic |
| `StateManagers` | the methods as they are | a client's `agenda` of changes; each is read (`ReadTopology`), computed and written if the version is still the one read (`WriteTopology`, `Conflict`, `KeepTopology`); `Raise` and `Die` end a method anywhere and undo nothing |
| `RelationEndpoints` | descriptors, endpoints and relations as the commands find them | pure operators on a topology |
| `StatusReport` | what `status` collects for a scope | pure operators on a topology |
| `RelationNodes`, `HookScheduler` | where a relation's nodes are; the watcher and scheduler of one relation of one unit | a handler is one step, as the agent has one thread; `Crash` may cut a handler at any of its saves |
| `HookExecutor` | the executor, its debugging, and the upgrade that pauses it | `turn` is the stack of callbacks of the reactor's turn: firing a deferred runs its waiters at once, and nothing else happens until the stack is empty |
| `SettingsStore` | the abstract specification of a hook's changes to its unit's settings | all changes to a relation's settings happen at once, after success |
| `HookContext` | contexts, commands, flush, `YAMLState.write` | each command's call, each of its reads (the topology, a node) and its answer is a step, as are the read and the write of a flush; a unit hook, a relation hook and a broken hook start with different contexts |
| `UnitAgent` | the unit workflow and lifecycle and the callbacks of the agent | `firing` is the transition fired by the holder of the workflow lock and the steps its action still has; each step is an action, `Die` comes between any two |
| `RelationWorkflow` | relation workflows and lifecycles under the unit lifecycle | `todo` is what each party (the relations watch, the resolved watch, the unit, each scheduler's loop) has still to do; `locks` has holders and waiters |
| `Provisioning` | `ProvisioningAgent` over EC2's instances and groups | `pass` is where `process_machines` is; each call is a step |
| `Firewall` | `FirewallManager` | `todo` is what each callback has still to do; a watch set inside a callback runs its first callback there |
| `AgentSession`, `MachineAgent` | sessions and presence of an agent; deployment and removal of units | `op` is the unit being worked on and the step reached |
| `Constraints`, `Deployment` | constraints and instance types; `deploy`, `add-unit`, `set-constraints` | `client` is where each command is |

`StateManagers` instantiates `AtomicTopology` with the same variables, so
`ImplementsAtomicTopology` is step refinement by the identity mapping, though no
method is atomic and most are several changes.  `current` is the set of clients
whose version is still the node's: it stands for the comparison of versions
without counting them.  `HookContext` implements `SettingsStore` with the
settings as they are, the buffered changes of the flush as `edits` and the phase
of the hook as `outcome`.  `MachineAgent` extends `AgentSession`, `Deployment`
extends `Constraints`, `StatusReport` and `RelationEndpoints` extend
`AtomicTopology`: each adds its questions to the other's states.

The `MC` modules give values to constants for TLC; where the constants are simple
the component is checked directly.  The `Proofs` modules extend the modules they are
about.

### Abstractions

* A topology is its parsed value: YAML, the version number and the migration of
  old topologies (disabled in the code) are left out.  Removing the subtrees
  of removed things is left out: nothing reads them once the topology does not
  name them.
* Creating a sequence node is merged with the reads before it.  In `StateManagers`
  all constraints are compatible and `deploy` is adding a service, then units, by
  one client; `Deployment` has constraints and charms instead, and its changes of
  the topology are single steps, as `StateManagers` shows they may be taken.
* `EndpointLists` offers `add_relation_state` the lists the command line can:
  one peer endpoint, or two that may relate; that `join_descriptors` finds these and
  no others is `RelationsCanBeNamed`.
* `HookScheduler`: sub-watches of the watcher (one container per role and scope)
  are one.  The lifecycle's `_run_lock` is held while a hook runs, so `stop` gets in
  between hooks or just as one ends.  A remote unit rests while the queue is longer
  than `MaxPending`: hooks end, so queues are short compared with the life of units.
* `UnitAgent`: reading and clearing a request node are one step (nothing else
  clears it).  Commands decide on the state they read in ZooKeeper before, which
  may be older than what is on disk.  A torn write leaves an empty file, which
  `yaml.load` reads as no state.  The stop transitions are left out: nothing fires
  them.  Relations are in `RelationWorkflow`, where in turn the unit only starts,
  stops, fails and upgrades.
* `RelationWorkflow`: hooks are the one that is next, what they are about is
  `HookScheduler`'s.  The unit's own error is resolved in one step.
* `HookContext`: hooks follow one another, as `OwnContext` of the executor allows.
  What others change (configuration, members, their settings) makes a difference
  only while a hook runs, so it changes then (`world` is one version of all of it), and
  the topology also while a unit hook is queued, whose invoker has read it
  (`InvokerStart`); "relation" stands for members and settings alike, which are cached
  the same way.  A relation is one node and one entry of the topology.  The answer to a command that comes
  after its hook's end changes nothing in the hook; its effect on the next is there.
* `Provisioning`, `Firewall`: the provider is EC2, with eventual termination, groups
  that stay in use, instances that vanish, and calls that fail; not with reads that
  lag behind writes.
* `MachineAgent`: an upstart job is installed or not, running or not; a unit agent
  killed by upstart while it respawns is not told from one killed before.
* `Constraints`: values are compared as the code does after conversion; text such as
  `2G` is a number and a suffix.

## Runs

All runs are exhaustive within their bounds, and every action of every module is
taken in some run.

| Run | Checks | Bounds and why |
|---|---|---|
| `atomic_topology` | the topology, what `status` makes of it, and how relations are named | a principal and a subordinate charm with endpoints of both scopes, implicit ones and peers; 2 machines, 3 service ids (so one name is deployed twice), 2 units, 3 relations |
| `placement` | two clients deploy, place, relate, remove and die: refinement of `AtomicTopology`; `ReusedMachinesAreUnused` | 2 machines, so that one is to be shared or reused; 1 service with a peer relation, 2 units; both placement policies |
| `subordinates` | refinement while agents add subordinate units and services go | a container relation, 2 services, 2 units |
| `hooks_of_one_unit` | order and completeness of hooks, the state file, and that every settings write is shown | one related unit, of a peer relation or in the same principal, that joins and leaves without bound and writes twice; two failing hooks or kills in all; remote units rest while more than 9 changes are queued |
| `unit_agent` | the four properties of `UnitAgent` | one upgrade, one death, torn writes; any number of requests, failing hooks, and charms that are not prepared, not extracted or not recorded |
| `provisioning` | `Provisioning` | the bootstrap machine and two more, 5 launches, 2 mishaps (errors, lost instances, deaths): one while the other is being repaired |
| `firewall` | `Firewall` | one service, unit, machine and port; exposed twice, so that a watch is set up again for what an earlier one has seen; flags and ports change, units go and the provider fails at most 5 times in all (exposed twice, that leaves two changes, failures or removals) |
| `hook_execution` | `HookExecutor` | 3 hooks of which the charm lacks one, 3 starts (first, and after two upgrades), a debugging session |
| `hook_contexts` | `HookContext` and its refinement of `SettingsStore` | 2 commands at once, 2 hooks of any kind, a queued one included (so one can be followed by a late command), 1 relation with two keys, which may be removed, an address write and 2 changes of the world |
| `relation_workflow` | `RelationWorkflow` | 1 relation, a death and a failed upgrade; failing hooks and the unit's stops are not bounded |
| `machine_agent` | `MachineAgent` | 2 units (one fails, the other must not), either provider, one death, reboot, stop or failed command (`MaxFaults`) and on top of it one process that is stopped while it launches (`MaxFalseStarts`): a death and then such a stop are what leaves a session behind |
| `deployment` | `Deployment` | 2 clients, 2 units, 3 machines (bootstrap, one to reuse, one to add), command lines of constraints that are accepted and refused, 2 settings or deploys |

One unit, relation or service is enough where the code keeps separate
objects for each and they meet only in locks and queues the model has.  Where they
meet in one object the bound is at least two: clients of a topology,
hooks of an executor, commands of a context, units of a machine agent, machines of
a provisioning pass.  The scheduler's queue is the exception: with two related
units the code breaks (see below), so its order is checked with one.

Clients, contents and relations are symmetric in runs that check no liveness.
Deadlock is checked in `placement` and `hooks_of_one_unit` and allowed where the
system may come to rest or use its bounds up.

What the properties say beyond types:

* `ReferencedServicesExist`, `NoDuplicateRelations`, `UnitNamesNeverReused`: no
  dangling service, endpoints of one scope joined once, no two units of one
  name even when a service is destroyed and deployed again.
* `ImplementsAtomicTopology`: no lost update, nothing computed from a stale
  topology, no method that leaves an unsound state when it is cut short.
* `ReusedMachinesAreUnused`: a machine chosen as unused is unused when it is taken.
* `StatusShowsEveryUnit`, `ScopedStatusAgrees`, `RelationsCanBeNamed`: reports and
  lookups are total on every topology reached, except as described below.
* `HooksInOrder`, `HooksKnowTheirUnit`, `SettledMembershipShown`,
  `SettingsEventuallyShown`, `SavedIsCurrent`: what a charm, and a restarted
  scheduler, may rely on.
* `AgreesWithState`, `UpgradeHookRuns`, `PausedWhileReplacing`,
  `RequestsAnswered`: what holds of a unit agent between and during transitions,
  whichever hook, preparation, extraction or recording failed.  One failure has a
  consequence that the first and the last name: a forced upgrade that could not
  replace the charm leaves the executor stopped (`stranded`, until an upgrade resumes
  it or the process ends), and then a hook that comes next waits
  (`HookStranded`).  Nothing else leaves it stopped outside `charm_upgrade_error`, and
  nobody waits for ever for anything else.
* `LifecycleFollowsWorkflow`, `NoHooksAfterBroken`, `DeparturesComplete`,
  `ResolutionsHonoured`: a relation runs when its state says so, by one loop; its
  broken hook is the last; it is forgotten, or resolved, in the end.
* `OwnContext`, `PausedMeansPaused`, `EveryHookAnswered`: one hook at a time, none
  while paused, none forgotten.
* `AcknowledgedChangesWritten`, `ConsistentView`, `ImplementsSettingsStore`: a hook's
  changes are written as one, over what others wrote, and its commands are told the
  same whenever they ask, of the topology too, which a unit hook has from before it
  was queued and other hooks from their first command that needs it.
* `OneInstancePerMachine`, `UsedInstancesKept`, `EventuallyProvisioned`;
  `PortsFollowPolicy`, `UnitsWatched`: instances and ports follow the topology.
  `UsedInstancesKept` says of every pass but one begun by the timer before the watch
  first called back that it shuts down no instance a machine has recorded;
  `EventuallyProvisioned` is of histories in which the first instance, where ZooKeeper
  and the agent run, is not shut down.  The two of the firewall name the units that a
  second exposure leaves unwatched (`missed`), and hold of all others.
* `Announced`, `UnitsRunWholeCharms`, `AssignedUnitsRun`, `DepartedUnitsGo`:
  deployments and presence over deaths of the agent and the machine.
* `OverridesHonoured`, `UnitsFitInstances`, `ServicesHaveTheirCharm`: what was asked
  of a unit is what it gets.

Where a module has a `TypeOK` it documents the state and holds in the instances above;
those of `AtomicTopology`, `StateManagers`, `Provisioning` and `MachineAgent` are proved.

### Fairness

Nothing obliges users to act, hooks to succeed or processes to die.  Assumed are:

* `HookScheduler`: watches fire, hooks end, the loop takes a change that stays in the
  queue, a stopped relation is started again (a unit stopped for good is owed
  no hooks).
* `UnitAgent`: weak fairness of the agent's steps together: they are callbacks of one
  reactor, and hooks end.
* `RelationWorkflow`: the steps of each party and of the loop, each a coroutine that
  the reactor resumes; watches fire.  Two conditions are the users': a unit in error
  is resolved, and an agent that died is started again.
* `HookExecutor`: each loop's steps, the end of each hook and debugging session.
  Strong fairness of starting: an upgrade that fails leaves the executor stopped,
  and is retried until it succeeds.
* `Provisioning`: the agent is restarted, its steps are taken, the timer goes off, EC2
  terminates what it was asked to; `/environment` is written once.
* `MachineAgent`: upstart keeps the agent running, the reactor runs what is ready.

## Where the code does not do what one would expect

These were met while modelling.  Where a condition, a constant or a bound is named,
the properties hold with it, and TLC shows the behaviour when it is dropped or
changed; the others were found by reading the code for the model.

Topology and commands:

* A relation between a global and a container endpoint is never recognised as
  existing, so it can be added again (`state/topology.py:549`): `NoDuplicateRelations`
  is asked of endpoints of one scope.
* A machine added for one unit may be taken by another client before that unit is
  assigned; both share it (`state/placement.py:47`).
* `status` with a scope that takes in a subordinate and not its principal fails with
  a `KeyError` (`control/status.py:467`); a subordinate whose principal was removed is
  hidden when another unit of its service still has one (479).
* `add-relation logging wordpress` is ambiguous when the charms share a relation of
  their own besides `juju-info`, though implicit relations "should be considered
  last" (comment near `state/service.py:200`).
* A charm uploaded by two commands at once always fails with `StateChanged`, also when
  the contents are the same: `get_sha256()` is a deferred and equal to nothing
  (`charm/publisher.py:119`), against the docstring at
  `charm/tests/test_publisher.py:95`.  `NoNodeException` is never raised there.
* `cpu=2 instance-type=any` is refused as ambiguous (`machine/constraints.py:164`); an
  instance type of the environment with a service's cpu leaves mem unset.

Hook scheduler and watcher:

* The queue removes the wrong change while a hook runs (`hooks/scheduler.py:130`: an
  index relative to `offset` is used on the whole list).  With two related units the
  order of hooks breaks and a joined hook is lost; with one, a hook that fails while
  its unit departs loses the joined hook.  `HooksInOrder` and
  `SettledMembershipShown` are asked until the first mishap, with one unit.
* Killed between two saves of one membership change, the scheduler comes back with
  versions for units that are not members; two joined changes for a unit make the
  callback raise and the watch is lost.  After a kill hooks may repeat.
* The last related unit leaves while the agent is down: its departed hook never
  runs (`state/relation.py:747` compares with an empty start).
* After `stop()` a container created later, or names being looked up, still
  invoke the callbacks, though the docstring (`state/relation.py:876`) says none are.
* `get_settings_path` adds the container id also for a subordinate's relations
  of global scope (`state/relation.py:496`).

Hook executor and contexts:

* Stopped and started in one turn of the reactor, the executor has two loops, and the
  next stop drops a hook whose caller waits for ever (`hooks/executor.py:101`; `Prompt =
  TRUE`).  `set_debug(None)` hangs up whatever hook runs.
* Overlapping `relation-set` commands lose acknowledged changes (`state/hook.py:272`):
  `tidy` excludes them.  A late command acts in the next hook's context; a flush that
  fails half way leaves what it wrote.
* An empty configuration is not cached and read again (`state/hook.py:94`): it is
  left out of `ConsistentView`.
* The protocol refuses relation commands in broken hooks, so the methods of
  `DepartedRelationHookContext` are unreachable; commands that fail exit with 0.

Unit agent and lifecycle:

* An agent killed with `error_retry_configure` inflight cannot start again.
* A failure to prepare an upgrade puts the unit in `charm_upgrade_error` with its
  executor running, where `docs/source/internals/unit-agent-persistence.rst:73` wants
  it stopped.
* A forced upgrade that fails to extract or record the charm leaves the executor
  stopped and the upgrade watch unset (`unit/lifecycle.py:75`); the next hook waits
  for ever with the workflow lock.  The history variable `stranded` marks it:
  `AgreesWithState` and `RequestsAnswered` fail without their `stranded` and
  `HookStranded`.
* `retry_upgrade_charm`, killed after it recorded the new charm, skips the hook
  when it is fired again, though "hooks will always be fired" when the charm changed
  (`unit/lifecycle.py:255`).  `UpgradeHookRuns` takes a resolve without hooks as the
  user's waiver, and leaves out a process that dies while it writes its state file
  (which then is empty).
* A death between the writes to disk and to ZooKeeper (`unit/workflow.py:267`) leaves
  ZooKeeper behind until the next change: `resolved` may refuse a unit in error.

Relations of a unit:

* A relation removed while a failed upgrade keeps the executor stopped: its departure
  holds the unit's `_run_lock` and waits for a hook that only an upgrade under that
  lock can release (`unit/lifecycle.py:398`).  `DeparturesComplete` and
  `ResolutionsHonoured` excuse failed upgrades (`failures > 0`).  A process that dies
  within an upgrade hangs the same way when it starts and finds a relation gone (185).
* A pending request to resolve resets a relation that is gone before its departure,
  so further hooks may run, against
  `docs/source/internals/unit-workflow-lifecycle.rst` (about line 103).
* A request between the reading and the clearing of the resolved node is lost (332),
  and one for a relation that has no workflow yet is accepted and dropped.
* Killed between `_add_relation` and `_store_relations` (416) while the relation
  goes, the agent never runs its broken hook.
* A subordinate's deployment is not waited for (`_add_subordinate_unit`): around a crash
  it happens twice or never.  The broken hook of a relation found on disk
  gets its name instead of its ident.

Provisioning and firewall:

* The timer's check before the first callback of the watch takes no machine to be in
  use and shuts down every instance, its own and ZooKeeper's included
  (`agents/provision.py:45,119`).  The model takes such passes (`early`);
  `UsedInstancesKept` fails without its `pass.early`, and `EventuallyProvisioned`
  without `[]Bootstrapped`.
* A service exposed a second time, with the units it had when the watch before ended,
  has those not watched (`state/firewall.py:166`), until a unit comes or goes:
  `PortsFollowPolicy` and `UnitsWatched` fail without `missed`.  Overlapping passes
  over a machine leave it wrong (`MaxPasses = 2`).
* A unit that is removed while the callback of its service's flag runs ends that
  watch (149); removed between reads it leaves its ports open.  `PortsFollowPolicy` is
  asked while no unit was removed, `UnitsWatched` but for services in `cut`.
* An instance that is lost and replaced gets no ports; a subordinate's ports are in no
  policy, as it has no machine of its own.

Machine agent:

* A unit that leaves the machine while the agent is down is never stopped, and what
  failed to deploy is not tried again before a restart.
* `juju.conf` is written before `juju-create` has run, and what makes a container
  count as constructed is the former (`lib/lxc/__init__.py:208,254`): an interrupted
  construction is taken for a whole one; an interrupted clone leaves a file system that
  the next clone refuses.
* The session file is in `/var/run` and the kill of a former session may fail: the new
  process finds the old presence node, and runs without one of its own
  (`left_behind`).  The same comes of a process that is stopped before it has closed the
  session of the one before: `stopService` has no client to close and removes the
  session file all the same (`agents/base.py:248-256`).
* A unit agent's class document expects the machine agent to restart dead unit agents;
  upstart does.  Subordinates are never killed by a machine agent, and a charm is
  not extracted over a dangling symlink.

## Proofs

Each theorem holds for every value of the constants: any number of clients, ids,
hooks, keys, relations, machines or deaths, where the runs show it on a small
instance.  All invariants below were first checked as invariants of a run.

| Module | Theorems | States |
|---|---|---|
| `AtomicTopologyProofs` | `TypeCorrect`, `ReferentialIntegrity`, `NamesNeverReused`, `NoRelationTwice`, `NamesStable`, `RolesAreExclusive`, `SubordinatesFollowPrincipals` | the invariants of the topology |
| | `EndpointsByName` | descriptors that name both ends of a relation lead to it and to no other |
| | `StatusComplete`, `ScopedStatusIsPart` | what `status` shows of any topology, for any scope |
| `StateManagersProofs` | `Refinement`, `Reuse`, `Invariance`, `TypeCorrectness` | interleaved, conflicting and dying clients implement `AtomicTopology`; a machine taken as unused is unused |
| `HookContextProofs` | `Refinement`, `Acknowledged`, `Consistent`, `Invariance` | contexts implement `SettingsStore`; what commands were told is true |
| `HookExecutorProofs` | `Locking`, `ContextIsOwn`, `Paused` | the executor's lock and what it protects |
| `UnitAgentProofs` | `Paused`, `HookRuns`, `Agrees`, `Invariance` | the unit agent between and during transitions |
| `MachineAgentProofs` | `AgentAnnounced`, `WholeCharms`, `TypeCorrectness` | presence and deployments over deaths |
| `ProvisioningProofs` | `OneInstance`, `UsedKept` | instances |
| `DeploymentProofs` | `Invariance`, `HonoursOverrides`, `PlacesWhereItFits`, `KeepsCharms` | constraints of units, the machines they get, the charms of services |

The lemmas on what each mutator of the topology returns open `AtomicTopologyProofs`
(and, for the few it needs, `StateManagersProofs`), so that the proofs about actions do
not expand the mutators.

### What is assumed

* That `None`, `Unset`, `Gone` and the like are none of the values they are told from
  (`NoneAssumption`, `NoOpAssumption`, `EntryAssumption`, `RankAssumption`, parts of
  `DeploymentAssumption`), that ids and bounds are numbers, and that
  each charm has a series (`DeploymentAssumption`).  TLC evaluates these in every run.
* `NoRelationTwice` and `EndpointsByName` have the hypothesis `UniqueRelationNames`: a
  charm uses a name for one relation.  Nothing checks it across the roles, but a
  charm finds the hooks of a relation by its name.  `EndpointsByName` also has
  `ImplicitReserved`: no charm provides the implicit relation or its interface, which
  `charm/metadata.py:210` refuses; requiring it is allowed and is in the run.  Both
  are evaluated on the endpoints of the run (`MCAtomicTopology`).

No other theorem has a hypothesis: what the code does against expectation is in the
models, and what a property excuses it names (`stranded`, `torn`, `early`, `left_behind`,
`tidy`).

### Along which lines

* **`AtomicTopology`.**  `UnitNamesNeverReused` alone is not inductive, as it says
  nothing of the number the next unit gets: `SequencesAhead` does, that every name
  ever issued has a number below its service's sequence.  `ReferencedServicesExist`
  is needed with it, because removing a service must find no unit left whose name
  would lose its service.  `NoDuplicateRelations` needs to know what a relation in
  the topology was made of (`RelationsMade`), as the check for an existing relation
  looks for names and roles and not for endpoints.
* **`RelationEndpoints`.**  The implicit endpoint that a descriptor adds is always a
  server's.  The named endpoint of the other end may relate to it only as a client of
  the implicit interface, and then, as both named endpoints may relate, the named
  server provides that interface and is the implicit endpoint itself
  (`ImplicitReserved`).  So the pair that was named is the only one (`NamedJoin`),
  whatever the topology is.
* **`StatusReport`.**  The report follows containers, and
  `get_assigned_machine_id` does so recursively: that this ends is
  `ContainersSound`, that what contains a unit was issued before it and is, while it
  is there, in no container itself.  A container may be gone, so the invariant has to
  speak of ids as well as of live units.  With it and the references
  (`ReferencedServicesExist`, `RelationsMade`) a topology is `Readable`, and both
  properties are shown of every readable topology: by the places a unit may be shown
  at (on top of its service, below its principal), of which each unit has one, or
  none if its principal is gone and another unit of its service hides it.
* **`StateManagers`.**  A write is accepted when the version is current, and then
  `VersionsTell`: the client has read the topology as it is, so the write is the step
  of the change it carries.  That this change is one the abstract action offers is
  `RequestsValid`: what a method found when it began still holds of the changes it
  has left to make, though any number of other clients have changed the topology
  since.  It holds because ids come from sequence nodes and are used once
  (`AddsDiffer`, `ContentCame`): a service or a unit that was there may go, but
  none that is different takes its id.
* **`HookContext`.**  `WriteInv`: what a write has prepared, and no version written
  meanwhile has superseded, is what its changes make of the settings as they are;
  that is what makes the read, the merge and the write one step of
  `SettingsStore`.  `PristineInv`: nobody else writes a key of the unit but its
  address, so a key that was left alone because the cache equals what was read has
  that value in the node.  `AckInv` follows an acknowledged change from the cache, through
  the `write()` under way and its retries, to the node; it needs `TidyInv`, that
  commands in order wait one at a time and only for what was not read before, the
  topology included, which no other command can then replace.
  `SeenInv` says that what the commands were told is what the context keeps.  The
  refinement needs none of the tidy history: it holds for overlapping and late
  commands too.
* **`HookExecutor`.**  Both properties rest on `LockInv`: who runs a hook, pauses or was
  just granted the lock is at the head of `run_lock`, who waits for it is behind, each
  once.  Firing a deferred runs its waiters in the same turn, so this is shown of
  every state within a turn.
* **`UnitAgent`.**  The invariant enumerates what may be left of each transition's
  action (`Rest`) and says for each what disk, lifecycle and executor are by
  then: the transition recorded as inflight leads from the state recorded
  (`DiskInv`), the executor is stopped from the pause to the resumption (`PauseInv`), the
  lifecycle runs unless what starts or stops it is still to come
  (`LifecycleInv`), and an upgrade hook that is owed is in front of the agent or the
  unit is in error (`OwedInv`).  A death keeps the disk alone, and the next process
  fires what it finds there.  `Agrees` also needs `ExecutorInv`: the executor runs or
  is `stranded` but from the pause of an upgrade to its end, or to
  `charm_upgrade_error` and out of it by a forced upgrade.
* **`MachineAgent`.**  `PresenceInv` says at each stage of a process which session owns
  the node and that its id is on disk before it does; `SessionsCounted` that each
  session but the first is owed to a fault.  `UnitInv` says what the step of a
  deployment in hand may rely on, whichever step was the last of an earlier process.
* **`Provisioning`.**  Between the creation of a machine's group and the launch the
  machine has no instance (`AboutToRun`), and while the agent waits for an instance to
  terminate it is the last of its machine (`AboutToRemoveGroup`).  `UsedInstancesKept`
  is a property of steps: an instance recorded for a machine is one a pass that is not `early` has still
  to look at, has kept, or did not find among those it may shut down
  (`RecordedSafe`), as machine ids are used once and the pass itself records what
  it launches.
* **`Deployment`.**  Two facts of the data of a `Constraints` object are kept by
  parsing, `with_series` and `update`: what it sets has cleared what that excludes
  (`Closed`), and it says of each name what was typed at its level (`Shows`).
  `LevelsOK` has them of the environment, the services and every command that has
  read one and not yet written; from them a unit's data honours the levels it was made
  from (`Honoured` in `UnitsOK`), and as data is frozen into the unit and what was typed
  is kept with it, it does for good.  `PlacedOK` says that the machine of a unit can
  satisfy it, and that a command which has added a machine for a unit and not yet
  assigned it still finds there the constraints it added it with: another command may
  take the machine meanwhile, or the unit or the machine may be gone, but nobody
  writes a machine's constraints.  That the instance type which EC2 is asked for has
  the cpu and memory needs `Closed`, of the machine as well: a type is only chosen by
  cpu and memory where none is set (`Fits`).  `CharmsOK` follows the bundle from the
  upload to the charm node, which is written once: a command that finds another's
  node there ends.

### Only model-checked

* All liveness (`SettingsEventuallyShown`, `RequestsAnswered`, `EventuallyProvisioned`,
  `EveryHookAnswered`, `DeparturesComplete`, `ResolutionsHonoured`,
  `AssignedUnitsRun`, `DepartedUnitsGo`): fairness and `ENABLED` are beyond the prover.
* `HooksInOrder`, `HooksKnowTheirUnit`, `SettledMembershipShown` and `SavedIsCurrent` of
  `HookScheduler`: what a callback leaves is a fold over the sequence of changes it
  was given, with the set of outcomes (it may die at any save) as the value; what
  holds of it for every sequence takes induction over the sequence.
* `PortsFollowPolicy` and `UnitsWatched` of `Firewall`: a callback's calls are a list
  made by folding and ordering sets, cut where a watch ends; the same holds.
* `LifecycleFollowsWorkflow` and `NoHooksAfterBroken` of `RelationWorkflow`: the plan of
  a transition is flattened from plans for each relation, in sequences whose length
  is the number of relations; again induction over sequences.

## Not modelled, and the plan

Not modelled, because it is parsing, formatting or I/O: charm and repository formats,
`environments.yaml`, options and output of commands, sockets and processes of hooks,
SSH tunnels, what is sent to EC2, the other providers, logging and the debug log.
Access control (`state/auth.py`, `state/security.py`) is called by nothing in this
version.  The migration of topologies is disabled in the code, and would not work
if it were enabled (`state/topology.py:578`).  The vendored test library
(`lib/mocker.py`) is no part of the program.

Left out of components that are modelled in part: agent, relation and instance
states in `status`; the environment's configuration and global settings; the
deployment of subordinates by the relation lifecycle (the change it makes to the
topology is in `StateManagers`); the addresses and options of agents.

Open are proofs for `HookScheduler`, `Firewall` and `RelationWorkflow`.  They need facts
of folds over sequences of any length.  Where a recursion has a known depth it can
be unfolded by giving the function it defines, as is done for containers in
`AtomicTopologyProofs`; for these it is not known, so callbacks would first have to
become sequences of steps, as in `HookExecutor`.
