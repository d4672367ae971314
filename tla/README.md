# Ankaios: TLA+ models, model checking and proofs

Ankaios manages workloads (containers) on several nodes. A *server* holds the
desired state; an *agent* per node runs the workloads assigned to it on a
container runtime; the `ank` CLI and, through the control interface, workloads
themselves ask the server for changes. This directory holds TLA+ models of parts
of it, the TLC instances that check them, and TLAPS proofs about them.

Run a check with `tlc -config X.cfg M`, a proof with `tlapm M.tla`. Paths below
are relative to the repository.

## 1. The system

| part | state | operations | interacts with |
|---|---|---|---|
| `agent/src/workload/workload_control_loop.rs`: one task per workload | configuration, container id, state checker, retry manager | create, update, delete, resume, retry, restart, start log fetcher | commands from the agent, states from the checker, states to the agent, the runtime |
| `agent/src/workload/retry_manager.rs` | current token, its validity, retry counter | new token, invalidate, wait for the backoff | the control loop |
| `agent/src/workload/workload_command_channel.rs` | bounded queue (5) | send a command | `Workload`, the facade's task, backoff tasks |
| `agent/src/generic_polling_state_checker.rs` | last state seen | poll every 500 ms, send changes, stop | runtime, control loop |
| `agent/src/agent_manager.rs` | store of all workload states | messages of the server, own states, resource tick | server, runtime manager |
| `agent/src/runtime_manager.rs` | `Workload` object per name | hello, update, execute operations | scheduler, facade, `Workload` |
| `agent/src/workload_scheduler/` | waiting queue, one entry per name | enqueue, re-evaluate | state store, own-state channel (20) |
| `agent/src/runtime_connectors/` | containers of the runtime | create, delete, look up, sample | the command lines of podman, podman-kube, containerd |
| `agent/src/control_interface/` | pipes, authorizer | read requests, write responses | workloads, server |
| `agent/src/workload_log_facade.rs`, `subscription_store.rs` | running log subscriptions | start, end, cancel | server, control loops |
| `server/src/ankaios_server.rs` | agents, states map, subscribers | handlers of all messages | agents, CLI |
| `server/src/ankaios_server/server_state.rs` with `cycle_check.rs`, `delete_graph.rs`, `config_renderer.rs` | desired state, rendered workloads, delete conditions | update, get, clean up | server |
| `server/src/ankaios_server/event_handler.rs`, `state_comparator.rs`, `log_campaign_store.rs` | subscriptions and campaigns | insert, remove, notify | server |
| `grpc/src/` | senders of the connected agents | connect, disconnect, forward | server, agents, CLI |
| `ank/src/cli_commands/` | wait list, buffered messages | apply, wait | server |

What is hard here: the control loop, its checker, its backoffs and the agent
interleave at every await; the container runtime fails at any call and the
containers change on their own; commands, states and retries wait in bounded
channels while what they refer to changes; an update is one operation for the
server and up to three steps for the agent, with dependencies on states of other
agents in between; server and agents restart independently and have to find each
other's work again. `PROJECT.json` lists these hazards at the lines where they
bite, with the property that covers each, or why none does.

## 2. Modules

| module | models | instances |
|---|---|---|
| `WorkloadControlLoop` | the control loop with command channel, retry tokens, state checker, podman | `MCWorkloadControlLoop` |
| `RetryBackoff` | the length of the backoff, in 64-bit arithmetic | itself |
| `RuntimeManager` | agent manager, runtime manager, scheduler, state store | `MCRuntimeManager` |
| `CycleCheck` | the search for cyclic dependencies | `MCCycleCheck` |
| `AnkaiosServer` | the server: desired state, delete graph, states map, connected agents | in the next three |
| `FromServerProxy` | which part of a message of the server is for which agent | in the next three |
| `AgentConnections` | the middleware between server and agents: senders map, connections that break | in the next two |
| `Cluster` | server, connections and agents together, with faults | `MCCluster` |
| `DesiredStateReplica` | abstract specification of what `Cluster` does for an agent | refined by `Cluster` |
| `Apply` | `ank apply` in wait mode against the cluster | `MCApply` |
| `Dependencies` | server and agents whose workloads wait for those of other agents | `MCDependencies` |
| `LogCampaignStore` | the four indexes of the server's log campaigns, as operators | in `LogCampaigns` |
| `LogCampaigns` | log collection: server, agents, `ank logs`, workloads that collect | `MCLogCampaigns` |
| `StateComparator` | fields of objects, difference trees, the matching of masks, as operators | in `Events` |
| `Events` | the server's changes of state and the events for subscribers | `MCEvents` |
| `WorkloadControlLoopProofs`, `RuntimeManagerProofs`, `CycleCheckProofs`, `DependenciesProofs`, `LogCampaignsProofs`, `ClusterProofs`, `ApplyProofs` | proofs about these modules (`ClusterProofs` also about `DesiredStateReplica`) | |
| `SequenceFacts` | induction, recursion and sequences, for the proofs about channels | |

A definition named `...Mutant` (or described as a mutant) is a plausible bug in
the definition that follows it; no specification uses it. Each shows that the
property it is paired with in `PROJECT.json` can fail.

### WorkloadControlLoop

`pc` is where the task stands. It is split at the awaits across which other tasks
can be seen to act: the call of the runtime (`delete`, `create`), stopping the old
checker (`deleted`), and the `select!`. Each command and each checker state is
handled by the action of its name; the `restart` branch is `RestartReusingBundle`
or `RestartByUpdate`. `workload_id`, `state_checker`, `retry_manager` and
`workload_named` are the fields of `ControlLoopState`. A retry token is a
generation number and a counter; "valid" is the flag it shares with the manager,
which is why only the manager's current generation can be valid.

The runtime is external: `container` maps ids to the instance and status of a
container. Podman refuses a second container of one name, a failed create tries
to remove by name what it left, and each call may fail. A create and its cleanup
that both fail count as one fault. `orphans` (history) are the containers the
loop lost through a failing cleanup or lookup, `wanted` the
last request it took up, `reported` the last state it sent per instance.
Folders, workload files and control-interface paths are left out, except that
writing the files may fail (`CreateIsRejected`). Podman's states before "running"
and between "running" and "exited", which are reported as Starting and Stopping,
and "paused" are left out: the loop forwards them and does nothing else. The
checker reads and sends a state in one step. In the code it reads from a list of
containers up to a second old, and may wait for room in its channel with the
state in hand.

### RetryBackoff

`calc_backoff` is `min(300000, 500 * 2^counter)` in `u64`, which wraps around in a
release build (a debug build panics instead). Numbers are four 16-bit limbs, so
that TLC's integers suffice. The jitter is left out: it picks a timeout up to the
maximal one, which is what the properties are about.

### RuntimeManager

`phase` is where the agent's main task stands; a handler is split wherever it
sends into the channel of the agent's own states, because it waits there while
the channel is full. `ops` and `ready` are the local lists of the handler. Each
configuration is its own instance name; the workload names are `Name`.
Operations carry the new and the old configuration and the delete conditions.
`handle_update_workload` receives the difference of two desired states, as the
server computes it; `handle_server_hello` a whole desired state, with any subset
of the containers that may exist. `leaving` are deletions the control loops have
been told to carry out. `send_workload_state_to_agent` stands for the control
loops: an active one sends Starting, Running, Succeeded or Failed in any order, a
leaving one RequestedAtRuntime and, last, Removed. It is an abstraction of its own
and has not been checked against WorkloadControlLoop. `executed`, `overtaken` and
`desired` are history, for the properties.

Abstractions: Failed stands for ExecFailed, Lost and Unknown, Starting also for
a retry; Initial, StartingFailed, Stopping, DeleteFailed, AgentDisconnected and
NotScheduled are left out; deleting a container that has no control loop
succeeds; one runtime; a message with several states is several messages; a
failed send to a control loop is only logged by the code and does not happen
here; the message to the server that ends the handling of an own state is not
observed. The log messages and `ServerGone` are in `LogCampaigns`; `Response`,
`Stop` and the resource tick change none of this state and are not modelled.

### CycleCheck

A step is one iteration of the search's inner loop or the choice of a start node.
`Init` ranges over all graphs whose unchanged part has no cycle, because it was
accepted before. Names are numbers, so that sorting them is sorting numbers.

### AnkaiosServer, FromServerProxy

One action per handler of `listen_to_agents`, each whole: the messages it sends are
appended to `to_agents` in the order of the code. A workload is a name, an agent, an
id and dependencies. The id stands for the hash of the runtime configuration:
workloads that differ in their dependencies only share their instance name, as in
the code. An update has the mask as a set of names; whether it can be carried out
(rendering, validation, cycle check) is a choice, `RejectUpdateState`. Of the
execution states those are told apart that the server or another agent acts on.

### AgentConnections, Cluster

A connection has a task of the server, which stands before the hello, forwards,
or has failed and not yet reported the agent gone, and two queues. Client and
server notice a broken connection independently. `agent_senders` maps a name to one
connection, as in the code, so that an old connection's end can take away the new
one's sender. `session` is the connection the agent's client uses.

The agents of `Cluster` are abstract: `view` is what the agent has been told to run,
`unreported` and `leaving` are the starts and the deletions whose report is to come,
`leftovers` the containers it finds after a restart, `passed_over` the workloads
that a hello does not list and that have no container. Loops carry out what they are
told without failing, since `WorkloadControlLoop` is about failures; dependencies
are in `Dependencies`. `astray` is history: instances of which a message was lost
with a connection or came late over one that had been left.

### Apply

`Cluster` with one client that reads the workloads, updates, reads the complete
state, makes its wait list and waits, each answer racing with the reports the
server sends to clients. A state that arrives during a request is kept in `missed`.
A second client updates the same workloads. `fresh` and `told` are history: the
instances of which neither the server had a state nor the client an older report when
the server took the update, and those reported running since.

### Dependencies

`AnkaiosServer` with agents in more detail and connections in less: a lost
connection is noticed by both ends at once, because `Cluster` is about the
difference. Each agent has its own store of states, starts and deletions that
wait, and the channel of own states, unbounded here since `RuntimeManager` is about
the bound. A message of the server is distributed without a step in between, which
saves half of the states. `Enqueue` is one look at the whole queue.

### LogCampaignStore, LogCampaigns

Requests of clients and of workloads are told apart by their ids, as
`request_id.rs` does. A log task reads for a set of instances; only the end of a log
is modelled, not its lines. A task can be through before its subscription is stored.
A client leaves with a `Goodbye`, or is aborted: every exit with an error, and a kill,
ends the process without one. `late`, `swept` and `unserved` are history that names
the cases in which the properties do not promise anything.

### StateComparator, Events

A state is a tree, given as a set of paths with the kind and value at each; a
difference tree is a set of paths with their prefixes. The server's handlers are
reduced to the change of the tree they make and the events that follow. `view` is
what a subscriber makes of the events, `blind` (history) those that were not told of
a change of a kind listed below.

## 3. Runs

| run | shows | bounds |
|---|---|---|
| `WorkloadControlLoop` | safety of the loop | 2 instances with different restart policies, 2 containers, channels of 2, 3 commands, 2 exits, 1 fault |
| `WorkloadControlLoopLive` | deletes are answered, creations settle, failures are restarted | 1 instance, real channel sizes (5 and 20), 2 commands, 1 exit, 1 fault |
| `RetryBackoff` | the first 62 retries are held back exponentially | counter up to 70, beyond the point where 2^64 is passed |
| `CycleCheck` | the search ends, is exhaustive, and rejects no acyclic state | all graphs of up to 4 workloads, one of which may depend on itself |
| `RuntimeManager` | no ready operation waits, none is lost, the agent runs what was asked for, handlers end unless they have filled their channel | 1 name with 2 configurations, another agent's workload, channel of 2, 2 updates, 2 hellos, 1 server state, 1 own state |
| `Cluster` | the agent follows the desired state, as a replica told of every change; the server's states become true | 1 agent, 1 name with 2 ids, 2 connections, 1 update, 1 fault, 2 events in all |
| `Apply` | the client returns only for what runs, and returns | 1 agent, 1 name with 2 ids, 1 connection, started with neither, the old or the new workload, 1 update of another client or 1 fault |
| `Dependencies` | stores agree, the delete graph is complete, deletions and starts end | 2 agents, 2 names with 2 ids, 1 update, 1 lost connection |
| `LogCampaigns` | the indexes agree, campaigns end with their collector, tasks end with their campaign, `ank logs` ends | 2 agents, a collector and a provider, 1 client, at most 3 of: 2 requests of workloads, 1 update, 1 lost connection, the client |
| `Events` | a subscriber's copy is current, subscriptions end with their owner | 1 agent, 1 workload, 2 tags, subscribers of both kinds, 4 changes |

Channels of 2 fill up within a few commands, which is what their size matters
for. One fault is enough to lose a container, after which further creates fail
without one; two exits let a restarted workload exit again; three commands for an update to overtake another one's retry and be deleted;
two updates for an operation to overtake one that waits; a second hello for the
server to restart while workloads run. Four workloads are the fewest for a workload that is on the stack twice
while another one is on the path. Two connections are an old one and the one that
replaces it; one update that can be placed before, between and after the hellos, the
loss and the reports is what an agent can miss. A second agent in `Dependencies` and
`LogCampaigns` is the one whose loss concerns the other one. Four changes take a
subscriber through an agent's arrival, a workload, its state and the agent's end.
The larger instances that were checked once and take longer are: `RuntimeManager` with
the real channel of 20 and three states of the server (2,686,311 states),
`DoneMeansRunning` with two events (6,278,999 states), and the invariants of `LogCampaigns` with 4 events (8,645,250 states, before clients could be
aborted). Type invariants are run for the control loop, the agent, the cluster and the
logs; that of `CycleCheck` is proved with its `Inv`. Container ids are symmetric. Deadlock is not
checked where the environment's budget may be used up.

Each of the following runs violates one property that the documentation states.
`PROJECT.json` quotes the line.

| run | what the code does |
|---|---|
| `RestartAfterDelete` | after a failed delete, the exit of the workload restarts it |
| `CycleMissed` | the search accepts a cyclic state |

The models also show the following behaviours, which the documentation does not
lead one to expect. No run is kept for them: where a property has an exception,
the exception is one of them.

The agent:

- A state that the checker of the previous container queued restarts the next
  container of the same instance, although it runs
  (`workload_control_loop.rs:63` compares instance names only).
- A workload whose id is unknown, after a failed cleanup or a failed resume, is
  reported as `Removed` while its container runs (`workload_control_loop.rs:462`).
- A failed delete cannot be repeated: `Workload::delete` consumes the object, and
  the runtime manager has taken it out of its map (`workload.rs:189`).
- A command of the agent can enter the channel before the `Create` of the spawned
  task (`runtime_facade.rs:228`). The safety properties hold nevertheless.
- The delete of a configuration that waits for the second half of its update is
  answered for the old instance only (`runtime_manager.rs:548`); the state of the
  deleted instance stays in the store.
- The `Removed` of an old control loop erases the `WaitingToStart` of a new
  workload of the same instance (`workload_states_map.rs:169`).
- A second container of a name makes the hello delete the workload it has just
  resumed (`runtime_manager.rs:359`).
- The backoff is 0 from the 63rd retry on, when the product has wrapped around
  (`retry_manager.rs:117`; `FirstRetriesHeldBack` says until when it is not).
- An operation in the queue can be executed after a newer one of its name that was
  ready at once (`scheduler.rs:115`); the exception in `OnlyOvertakenDiverge`.
- A second hello drops the `Workload` object of a running loop
  (`runtime_manager.rs:282`).
- The agent manager blocks on the channel of own states, which only it reads, when
  one message makes more workloads wait than the channel has places
  (`scheduler.rs:309`); the exception in `OnlyFullChannelBlocks`.

Server, middleware and agents (`Cluster`):

- The end of an old connection removes the sender of the new one, by its name, and
  its `AgentGone` may follow the new hello: the agent is attached and the server
  does not know it as connected. `Converges` is about agents that are known.
- An `UpdateWorkload` can reach a new connection before the `ServerHello`. After a
  restart of the agent this leaves the old container without a loop.
- An update of a workload the agent does not know reports no `Removed` for the old
  instance, a deletion lost with its connection none either: the server's entry stays.
- Reports of an old connection that are forwarded late bring a removed entry back.

Dependencies:

- The agent's store is not cleared on reconnection, and the states sent with a hello
  tell of no removal. A workload removed meanwhile stays "Running" in the store; a
  deletion that waits for its end never comes.
- A deletion may be released while the dependant is about to start: agents decide on
  their own copies (`server/doc/swdesign/README.md:1013` describes the condition).
- A `Removed` of an old instance erases the edges of its name although dependants
  remain (`delete_graph.rs:62`); `forgotten` in `GraphCovers`.

`ank apply`:

- If another client deletes what is waited for, the client waits for ever, although
  `ank/doc/swdesign/README.md:744` lists removed as final. `Excused` has the cases.
- A Running that was missed before the update completes the wait for an update that
  keeps the instance name, or that brings back an instance which was removed
  meanwhile; `fresh` in `DoneMeansRunning`.

Logs:

- `remove_agent_log_campaign_entry` takes the whole entry of a workload's name, of
  which another agent's collector may be part; that one is then not cancelled when
  it is deleted (`swept`). A collector being deleted may start campaigns (`late`).
- A request for an agent that is not connected, or for an instance that is not there,
  is accepted and never stopped: `ank logs` waits for ever (`unserved`).
- A client that exits with an error, or is killed, sends no `Goodbye`: its campaign
  stays in the store, and the agents go on reading for it.

Events; `Unseen` and `UnseenUpdate` have the first three:

- A mask that names a mapping inside of what is added or removed gets no event
  (`server/doc/swdesign/README.md:1579` describes the matching).
- A sequence that is filled or emptied is missed by every mask but the empty one.
- A field that becomes, or ceases to be, a mapping is missed by a mask that reaches
  below it.
- Changes of an agent's tags by an update are not compared, and so not told.

**Fairness.** `WorkloadControlLoop` has weak fairness of the loop, the backoffs
and the checker: tokio schedules every task that can run, and every timer runs
out. Nothing is assumed of agent, containers and faults. `RuntimeManager` has weak
fairness of a handler in progress and of receiving own states: `select!` picks
branches at random, so a branch that stays ready is taken in the end. The search
of `CycleCheck` is one uninterrupted call. `Cluster`, `Apply`, `Dependencies` and
`LogCampaigns` have weak fairness of each task that can go on: the server, the
distribution of its messages, the tasks of a connection, the agent's handlers and
loops, the client's reading. An agent's client reconnects for ever (`client.rs:109`).
Nothing is assumed of faults, requests, logs that end and signals.

## 4. Proofs

The theorems hold for all values of the constants that satisfy the assumptions
that the modules state with them (`ASSUME`). These say that workloads, configurations
and updates have names, agents, policies and dependencies of the right kind, that
bounds are natural numbers and channels have at least one place, that the values that
stand for "none" are no workloads, states or operations, and, for `RuntimeManager`,
`CycleCheck`, `Dependencies` and `LogCampaigns`, that workloads, graphs, instances and
requests are finite, so that hash maps can be listed. `LogCampaigns` needs one request id to exist.

**WorkloadControlLoop.** `Inv` is inductive. The safety properties are not by
themselves:

- `OnlyFaultsOrphan` needs to know that `workload_id` names a container of the
  managed instance and that a deleted one is gone (`ContainerIsNamed`), and that
  `Resume` comes before anything else (`ResumeComesFirst`).
- `RemovedMeansGone` needs to know that a creation, also one due by a retry, was
  announced as Starting (`AnnouncedBeforeCreate`).
- `AtMostOneLiveRetry` needs that no outstanding token is newer than the retry
  manager's (`TokensAreOld`).

The proof goes through types and retries, containers and checker, and reports, in
this order. Proved: `TypeOK`, `OnlyFaultsOrphan`, `RemovedMeansGone`,
`OldInstancesStayRemoved`, `LiveRetryHasNoWorkload`, `AtMostOneLiveRetry`,
`CheckerWatchesOwnWorkload`.

**RuntimeManager.** There are two inductive invariants. `Inv` is `TypeOK`, finiteness
of `deleted` (so that its operations can be listed) and `NothingReadyWaits`. The latter
is inductive because the store changes only in steps that drain the queue, and because
an operation is queued under the verdict of the store as it is then.

`Order` follows the operations on one name through the handler's lists, the queue and
the `Workload` object. None of the three properties about them is inductive:

- `Filtering`: the list being filtered has one operation per name, new ones are what the
  server wants, and drained ones have left the queue. Otherwise filtering one operation
  could throw away another one of its name.
- `Greeting`: a hello that is half handled has every wanted workload resumed or still
  in one of its lists, and deletes only what it also adds.
- `Newest` is `NewestIsKept`. `InLine`: the ready operations on a name are first halves
  of updates, then at most one other operation, which is the newest. `Judged`: once the
  newest operation has been looked at, whatever is held is the newest, a second half
  is held only with the workload stopped or about to be, and with nothing left the agent
  runs what is desired. The last two are claimed of names that were not overtaken.

TLC checked `Order` on the instance of the run (1,893,254 states) and on one with two
local names (3,755,307 states) before it was proved. Proved: `TypeOK` (all operations are
well formed and queued under their own name), `NothingReadyWaits`, `NewestIsKept`,
`OnlyOvertakenDiverge`, `WaitingUpdateIsStopped`.

**CycleCheck.** `Inv` adds to the types that what is left of the search is on the
stack and that no visited workload depends on itself. That a reported workload is on
a cycle needs `OnTrack`: the workloads of the path are found on the stack, in their
order, and each reaches everything that is above it. The path itself is no path of the
graph: leaving a workload that is met again takes its end away too early, which is how
a cycle can be missed. What is left of it still reaches the workload being looked at.
Proved: `NothingSkipped` (an accepted state was searched completely),
`SelfDependencyFound`, `ReportedIsOnCycle` (no acyclic state is rejected).

**Dependencies.** `GraphCovers` is inductive by itself. Only an accepted update adds a
workload, and it inserts the edges of what it adds; only a `Removed` takes edges away,
and it is recorded in `forgotten`.

`StoresAgree` compares the server's map with an agent's store after the messages that
are on their way to the agent. It is not inductive, because it speaks only of connected
agents whose hello was answered, and an agent becomes one of them with what it has kept
from before. `Inv` has the types, that nothing is on its way to an agent without a
connection (`Cut`), and for every agent and every instance of another one `Sound`:

- The last state the agent will be told of the instance is the one the server has, or one
  that no agent has reported yet.
- If it will be told none and the server has no entry, then neither has the agent, unless
  the removal did not reach it (`outlived`). This holds of every agent, connected or not:
  the states that answer a hello mention no instance that is gone.
- If it will be told none, is connected and its hello was answered, its store is right.

TLC checked `Inv` on the instance of the run (485,154 states) before it was proved.
Proved: `GraphCovers`, `StoresAgree`.

**LogCampaigns.** `CampaignInv` says that the store has its type, that a request of a
workload that is known under its agent is also indexed under its name, or `swept`
(`Indexed`), and has two of the properties. Without `Indexed` the deletion of a workload,
which looks under the name, could leave what is known under the agent. `PresenceInv`
adds the types of all messages and what `CollectorsArePresent` needs: in the channel to
the server, no request follows the end of its collector (`RequestsInOrder`), an agent's
unsent requests are its own (`UnsentAreOwn`), and a client's requests are indexed under
that client (`CliIndexed`), where its goodbye looks for them. Proved: `TypeOK`,
`ProvidersHaveCollectors`, `DeletedCollectorsCancelled`, `CollectorsArePresent`.

**DesiredStateReplica.** `ReplicaInv` is the types and `UpToDate`: the last state an
agent that takes part will see is the present one. This is a theorem about the abstract
specification, for variables of its own; it is at the end of `ClusterProofs`.

**Cluster.** The abstract `coming` of an agent is computed from the messages on their way
to it: `Trail` applies them, one after the other, to what the agent sees, and `States` is
the list of views this leads to. `InSync` says that the last of them is what the server
wants. It is not inductive, since a step can make an agent take part that did not before:

- `OnTheWay` claims the same of an agent that has not been greeted, if a `ServerHello` for
  it is among its messages.
- `QueuedHello`: a hello that the middleware still has to distribute, with what follows it,
  leads to what is wanted from whatever the agent sees by then. A connection that replaces
  another one starts with an empty queue, so this is all that is known of its agent.
- `Addressed`: what is in a connection is for its agent, so that the part of a message that
  is for the agent is the message. `Owned`: a client's connection is its own.

For every action there is a lemma about what it does to the views of each agent (none
of them changes, the first is reached, or one is added at the end) and one that takes it
to a step of `DesiredStateReplica` or to none. Proved: `TypeOK`, `InSync`,
`ImplementsReplica` (initial states and steps; the abstract specification has no
fairness).

**Apply.** `ApplyInv` is the invariant of `Cluster`, which a client's requests do not
disturb, and what `DoneMeansRunning` rests on:

- `Heard`: a fresh instance that is Running in the server's map, or in any message the
  client has missed or has still to read, was reported running since the update. The
  report passes through all of these places, so they have to be taken together.
- `Unscheduled`: NotScheduled, which also ends the waiting, is said of workloads without
  an agent only, and these are not waited for. For this, agents report nothing of the
  kind (`AgentsSay`).
- `Listed`: while the client waits, its list has workloads of connected agents only, and
  before the server has answered it is empty.

One lemma for each of the server's handlers says which states it sends and stores
(`ServerTells`): removed or disconnected ones, those of the map, and those of the message
it handles. TLC checked `ApplyInv` without the part of `Cluster` on the instance of the
run (389,604 states) before it was proved. The older reports that `missed` may hold are
why `fresh` asks for what the client was told, not for the server's map alone. Proved:
`DoneMeansRunning`, and `InSync` in the presence of the client.

**SequenceFacts.** The provers cannot use an induction theorem that has an operator as a
parameter. Where induction is needed (`Trail`, and the parts of a message in
`LogCampaigns`, are recursive functions), the claim is put as a set of numbers:
`Induction` says that a set with 0 and the successors of its members has all natural
numbers, and `Recursion` and `BoundedRecursion` that for steps given as functions there
is a function that takes them, so that a recursive definition satisfies its equation.

**Only model-checked.** All liveness properties (fairness is out of the prover's
reach). `ViewIsCurrent` and `NoCorpses` of `Events`, whose difference trees are recursive
operators. `FirstRetriesHeldBack`: the constants of `RetryBackoff` are those of the code,
so that TLC has computed all there is.

## 5. Not modelled

- Control interface: pipes and files; the authorizer is a pure match of masks. What
  workloads ask for enters as messages in `LogCampaigns` and `Events`.
- Podman-kube and containerd: command lines, and a table that merges states.
- Configuration renderer, validation and API types: conversions of data. What matters
  of them to the models is which workloads share an instance name.
- TLS, certificates, versions, message sizes; start-up, parsing, formatting, files,
  the resource monitor, code generation: no state that others interleave with.
- The other commands of `ank`: one request and the formatting of the answer.
- Log lines: they are passed on unchanged.
- `RuntimeManager` composed with control loops that block on the command and the
  state channel, and `WorkloadControlLoop` composed with `Cluster`: the product of the
  two is out of TLC's reach. The hazards that need them are listed with that reason.

The lines the models stand for are a tenth of the repository's Rust, which is counted
with its unit tests, in the same files, and with code that is listed above.
