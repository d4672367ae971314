------------------------------- MODULE Apply -------------------------------
(***************************************************************************)
(* `ank apply` in wait mode against the cluster: the command line client   *)
(* (cli_commands.rs) with its connection (server_connection.rs,            *)
(* grpc_cli_connection.rs) and its wait list (wait_list.rs).  Another      *)
(* client may change the desired state at the same time (RequestUpdate).   *)
(***************************************************************************)
EXTENDS Cluster

CONSTANT Manifest  \* what the client applies; None is refused by the server

ASSUME ManifestAssumption ==
  \A u \in Manifest \ {None} :
    /\ u \in [mask : SUBSET Name, new : SUBSET Workload]
    /\ IsState(u.new) /\ names(u.new) \subseteq u.mask

VARIABLES
  cli,          \* the phase, the wait list, and the agents connected when it was made
  from_server,  \* messages for the client
  missed,       \* missed_from_server_messages: the states in them
  fresh,        \* instances the server had no state of when it took the client's update,
                \* and the client was not told that they run
  told          \* instances reported running to the server since

cliVars == <<cli, from_server, missed>>
historyVars == <<fresh, told>>
applyVars == <<vars, cliVars, historyVars>>

\* Waiting for the answer of get_workloads, of update_state, of get_complete_state.
Requesting == {"before", "update", "after"}
IsConnected == cli.phase \in Requesting \cup {"wait"}
Idle == [phase |-> "idle", added |-> {}, deleted |-> {}, agents |-> {}]

-----------------------------------------------------------------------------
(* The wait list *)

Reported(S, states) == {s[1] : s \in {t \in S : t[2] \in states}}

\* Mutant: Removed is final for an added workload, too.
wait_list_updateEager(l, S) ==
  LET gone(final) == {i \in Instance : i \in Reported(S, final) \/ i.agent \notin l.agents}
  IN [l EXCEPT !.added = @ \ gone({"Running", "NotScheduled", "AgentDisconnected", "Removed"}),
               !.deleted = @ \ gone({"Removed", "AgentDisconnected"})]

\* WaitList::update.  Workloads of agents that were not connected are not waited for.
wait_list_update(l, S) ==
  LET gone(final) == {i \in Instance : i \in Reported(S, final) \/ i.agent \notin l.agents}
  IN [l EXCEPT !.added = @ \ gone({"Running", "NotScheduled", "AgentDisconnected"}),
               !.deleted = @ \ gone({"Removed", "AgentDisconnected"})]

-----------------------------------------------------------------------------
(* The client *)

Request(m) == to_server' = Append(to_server, m)

apply ==
  /\ cli.phase = "idle"
  /\ cli' = [cli EXCEPT !.phase = "before"]
  /\ Request(CompleteStateRequest("cli"))
  /\ UNCHANGED <<serverVars, to_agents, connVars, agentVars, budget, from_server, missed, historyVars>>

\* The client ends, and with it its connection.
End(phase) ==
  /\ cli' = [Idle EXCEPT !.phase = phase] /\ from_server' = <<>> /\ missed' = {}
  /\ fresh' = {} /\ told' = {}

Continue(next) == cli' = next /\ from_server' = Tail(from_server) /\ UNCHANGED historyVars

\* The loop of wait_for_complete goes on until the list is empty.
WaitOn(l) ==
  IF l.added \cup l.deleted = {} THEN End("done")
  ELSE Continue([l EXCEPT !.phase = "wait"]) /\ missed' = {}

Takes(kind) ==
  /\ from_server # <<>> /\ Head(from_server).kind = kind
  /\ UNCHANGED <<serverVars, to_agents, connVars, agentVars, budget>>

get_workloads ==
  /\ cli.phase = "before" /\ Takes("CompleteState")
  /\ \E u \in Manifest : Request(UpdateState("cli", u))
  /\ Continue([cli EXCEPT !.phase = "update"]) /\ UNCHANGED missed

update_state ==
  /\ cli.phase = "update" /\ Takes("UpdateStateSuccess")
  /\ LET m == Head(from_server)
     IN IF m.added \cup m.deleted = {}
        THEN End("done") /\ UNCHANGED to_server
        ELSE /\ Continue([cli EXCEPT !.phase = "after", !.added = m.added, !.deleted = m.deleted])
             /\ Request(CompleteStateRequest("cli")) /\ UNCHANGED missed

update_state_error ==
  /\ cli.phase = "update" /\ Takes("Error")
  /\ End("failed") /\ UNCHANGED to_server

\* Mutant: what came while the client waited for the answers is dropped.
wait_for_completeMutant ==
  /\ cli.phase = "after" /\ Takes("CompleteState")
  /\ WaitOn(wait_list_update([cli EXCEPT !.agents = Head(from_server).agents], {}))
  /\ UNCHANGED to_server

\* What came while the client waited for the answers is looked at first.
wait_for_complete ==
  /\ cli.phase = "after" /\ Takes("CompleteState")
  /\ WaitOn(wait_list_update([cli EXCEPT !.agents = Head(from_server).agents], missed))
  /\ UNCHANGED to_server

store_unexpected_message ==
  /\ cli.phase \in Requesting /\ Takes("UpdateWorkloadState")
  /\ missed' = missed \cup Head(from_server).states
  /\ Continue(cli) /\ UNCHANGED to_server

read_next_update_workload_state ==
  /\ cli.phase = "wait" /\ Takes("UpdateWorkloadState")
  /\ WaitOn(wait_list_update(cli, Head(from_server).states)) /\ UNCHANGED to_server

\* Only requests time out.
run_until_timeout ==
  /\ cli.phase \in Requesting
  /\ End("failed") /\ UNCHANGED vars

-----------------------------------------------------------------------------
(* The cluster with the client *)

\* The part of a message that is for the client: all states, and its answers.
ForCli(m) ==
  \/ m.kind = "UpdateWorkloadState" /\ m.states # {}
  \/ m.kind \in {"UpdateStateSuccess", "Error", "CompleteState"} /\ m.request = "cli"

ApplyDistribute ==
  /\ Distribute
  /\ from_server' = IF IsConnected /\ ForCli(Head(to_agents))
                    THEN Append(from_server, Head(to_agents)) ELSE from_server
  /\ UNCHANGED <<cli, missed, historyVars>>

\* The states the client was told, or will be with what is on its way.
StatesIn(M) == UNION {m.states : m \in {x \in M : x.kind = "UpdateWorkloadState"}}
Noticed == missed \cup StatesIn(Range(from_server) \cup Range(to_agents))

ApplyServerStep ==
  /\ ServerStep /\ UNCHANGED cliVars
  /\ LET m == Head(to_server)
     IN CASE m.kind = "UpdateState" /\ m.request = "cli" /\ IsConnected ->
               /\ fresh' = {i \in Instance : workload_states_map[i] = None /\ <<i, "Running">> \notin Noticed}
               /\ told' = {}
          [] m.kind = "UpdateWorkloadState" /\ fresh # {} ->
               told' = told \cup Reported(m.states, {"Running"}) /\ UNCHANGED fresh
          [] OTHER -> UNCHANGED historyVars

ClusterStep ==
  /\ \/ RequestUpdate
     \/ \E c \in Connection : Middleware(c) \/ Fail(c)
     \/ \E a \in Agent : Connect(a) \/ Disconnect(a) \/ AgentStep(a) \/ Crash(a)
  /\ UNCHANGED <<cliVars, historyVars>>

CliStep ==
  \/ get_workloads \/ update_state \/ update_state_error \/ wait_for_complete
  \/ store_unexpected_message \/ read_next_update_workload_state

ApplyInit ==
  /\ Init
  /\ cli = Idle /\ from_server = <<>> /\ missed = {}
  /\ fresh = {} /\ told = {}

ApplyNext ==
  apply \/ CliStep \/ run_until_timeout \/ ApplyDistribute \/ ApplyServerStep \/ ClusterStep

\* As in Cluster; a client that reads goes on reading.
ApplySpec ==
  /\ ApplyInit /\ [][ApplyNext]_applyVars
  /\ WF_applyVars(CliStep) /\ WF_applyVars(ApplyDistribute) /\ WF_applyVars(ApplyServerStep)
  /\ \A c \in Connection : WF_applyVars(Middleware(c) /\ UNCHANGED <<cliVars, historyVars>>)
  /\ \A a \in Agent :
       /\ WF_applyVars(Connect(a) /\ UNCHANGED <<cliVars, historyVars>>)
       /\ WF_applyVars(Disconnect(a) /\ UNCHANGED <<cliVars, historyVars>>)
       /\ WF_applyVars(execute_from_server_command(a) /\ UNCHANGED <<cliVars, historyVars>>)
       /\ WF_applyVars(ReportRunning(a) /\ UNCHANGED <<cliVars, historyVars>>)
       /\ WF_applyVars(ReportRemoved(a) /\ UNCHANGED <<cliVars, historyVars>>)

-----------------------------------------------------------------------------
\* An instance on the wait list that the client may wait for in vain: another
\* client's update took it away before it ran, its report got astray, or the
\* server does not find out that its agent is gone.
Excused(i) ==
  \/ i \in cli.added /\ i \notin instance_names(rendered_workloads)
  \/ i \in astray
  \/ i.agent \in agent_map /\ ~Attached(i.agent)

\* The client stops waiting: whatever the order in which the reports, the answers
\* and the loss of an agent come, what the wait list is about is told to it after
\* the list is made, or is among the messages it missed.
WaitEnds ==
  <>[](cli.phase = "wait") => <>[](\E i \in cli.added \cup cli.deleted : Excused(i))

\* Reported running after the server took the update, or the agent was not
\* connected, or is reported as disconnected.
Settled(i) ==
  \/ i \in told
  \/ cli.phase = "after" /\ i.agent \notin Head(from_server).agents
  \/ <<i, "AgentDisconnected">> \in missed \cup StatesIn({Head(from_server)})

\* An added instance that leaves the wait list is settled, unless the server had a
\* state of it before, or the client keeps an older report from before it was
\* removed.
DoneMeansRunning ==
  [][\A i \in cli.added \ cli'.added : i \in fresh /\ cli'.phase # "failed" => Settled(i)]_applyVars

=============================================================================
