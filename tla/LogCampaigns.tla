---------------------------- MODULE LogCampaigns ----------------------------
(***************************************************************************)
(* Collection of logs: collectors (workloads, and the command line client  *)
(* with `ank logs`) ask the server, which keeps the campaigns in its store *)
(* and passes requests on to the agents, whose tasks read the logs and     *)
(* tell when one has ended.  Log lines are left out: they are passed on    *)
(* and change nothing.  The middleware splits a message as soon as the     *)
(* server has sent it; a connection breaks for both ends at once.          *)
(***************************************************************************)
EXTENDS LogCampaignStore, Naturals, FiniteSets, Sequences, Functions

CONSTANTS
  None,
  Startup,   \* initial states: what is desired, and what the agents have
  Update,    \* later desired states
  Collector, \* names of the workloads that are allowed to ask for logs
  Wanted,    \* sets of instances whose logs may be asked for
  MaxRequests, MaxUpdates, MaxDrops,  \* bounds on the environment,
  MaxEvents                           \* and on all it does, clients included

ASSUME LogCampaignsAssumption ==
  /\ Collector \subseteq Name
  /\ Startup \subseteq [desired : SUBSET Instance, alive : SUBSET Instance]
  /\ Update \cup Wanted \subseteq SUBSET Instance
  /\ \A W \in Update \cup {s.desired : s \in Startup} : \A i, j \in W : i.name = j.name => i = j
  /\ {} \notin Wanted
  /\ Id # {} /\ IsFiniteSet(RequestId) /\ IsFiniteSet(Instance)
  /\ MaxRequests \in Nat /\ MaxUpdates \in Nat /\ MaxDrops \in Nat /\ MaxEvents \in Nat

VARIABLES
  desired,             \* the server's desired state
  log_campaign_store,
  to_server,
  connected,           \* the agents with a connection
  to_agent,            \* per agent: messages for it
  unsent,              \* per agent: messages that wait for a connection
  alive,               \* workload objects of the agents
  subscription_store,  \* per agent: requests with an entry
  tasks,               \* per agent and request: what its task still reads
  cli,                 \* per client: phase and what it still waits for
  from_server,         \* per client: responses for it
  late,                \* requests of collectors that were not desired any more
  swept,               \* requests another agent's end took from the index by name
  unserved,            \* pairs of request and instance no task was started for
  budget

serverVars == <<desired, log_campaign_store, late, swept>>
agentVars == <<alive, subscription_store, tasks>>
linkVars == <<connected, to_agent, unsent>>
vars == <<serverVars, agentVars, linkVars, to_server, cli, from_server, unserved, budget>>

Spend(k) ==
  /\ budget[k] > 0 /\ budget.events > 0
  /\ budget' = [budget EXCEPT ![k] = @ - 1, !.events = @ - 1]

LogsRequest(r, P) == [kind |-> "LogsRequest", request |-> r, instances |-> P]
LogsCancelRequest(r) == [kind |-> "LogsCancelRequest", request |-> r]
LogsRequestAccepted(r, P) == [kind |-> "LogsRequestAccepted", request |-> r, instances |-> P]
LogsStopResponse(r, i) == [kind |-> "LogsStopResponse", request |-> r, instance |-> i]
UpdateState(W) == [kind |-> "UpdateState", state |-> W]
AgentGone(a) == [kind |-> "AgentGone", agent |-> a]
Goodbye(c) == [kind |-> "Goodbye", cli |-> c]
ServerGone == [kind |-> "ServerGone"]
Message ==
  [kind : {"LogsRequest", "LogsRequestAccepted"}, request : RequestId, instances : SUBSET Instance]
  \cup [kind : {"LogsCancelRequest"}, request : RequestId]
  \cup [kind : {"LogsStopResponse"}, request : RequestId, instance : Instance]
  \cup [kind : {"UpdateState"}, state : SUBSET Instance]
  \cup [kind : {"AgentGone"}, agent : Agent] \cup [kind : {"Goodbye"}, cli : Cli] \cup {ServerGone}

\* The elements of a hash set, or the answers of tasks, one after the other in any order.
Orders(S) == Injection(1..Cardinality(S), S)

-----------------------------------------------------------------------------
(* What the middleware makes of the server's messages M *)

\* The responses for a workload end in its pipe and are left out.
ForAgent(m, a) ==
  CASE m.kind = "LogsRequest" ->
         LET P == {i \in m.instances : i.agent = a}
         IN IF P = {} THEN <<>> ELSE <<LogsRequest(m.request, P)>>
    [] m.kind = "LogsCancelRequest" -> <<m>>
    [] OTHER -> <<>>
ForCli(m, c) ==
  m.kind \in {"LogsRequestAccepted", "LogsStopResponse"}
  /\ m.request \in CliRequestId /\ m.request.cli = c

\* The parts of the first n messages for an agent, for all n.
Parts(M, a) ==
  LET parts[n \in 0..Len(M)] == IF n = 0 THEN <<>> ELSE parts[n - 1] \o ForAgent(M[n], a)
  IN parts

Distribute(M) ==
  /\ to_agent' = [a \in Agent |->
       IF a \in connected THEN to_agent[a] \o Parts(M, a)[Len(M)] ELSE to_agent[a]]
  /\ from_server' = [c \in Cli |->
       IF cli[c].phase \in {"gone", "aborted"} THEN <<>>
       ELSE from_server[c] \o SelectSeq(M, LAMBDA m : ForCli(m, c))]

-----------------------------------------------------------------------------
(* The server *)

Receives(kind) ==
  /\ to_server # <<>> /\ Head(to_server).kind = kind
  /\ to_server' = Tail(to_server)

Cancels(R) == Orders({LogsCancelRequest(r) : r \in R})

collector(r) == [name |-> r.workload, agent |-> r.agent]

HandleLogsRequest ==
  /\ Receives("LogsRequest")
  /\ \E r \in RequestId :
     LET P == Head(to_server).instances \cap desired
     IN /\ r = Head(to_server).request
        /\ log_campaign_store' =
             IF P = {} THEN log_campaign_store ELSE insert_log_campaign(log_campaign_store, r, P)
        /\ Distribute((IF P = {} THEN <<>> ELSE <<LogsRequest(r, P)>>) \o <<LogsRequestAccepted(r, P)>>)
        /\ IF P # {} /\ r \in AgentRequestId
           THEN /\ late' = (late \ {r}) \cup ({r} \cap {q \in AgentRequestId : collector(q) \notin desired})
                /\ swept' = swept \ {r}
           ELSE UNCHANGED <<late, swept>>
        /\ unserved' = unserved \cup
             {<<r, i>> : i \in {j \in P : j.agent \notin connected /\ AgentGone(j.agent) \notin Range(to_server)}}
  /\ UNCHANGED <<desired, connected, unsent>>

HandleLogsCancelRequest ==
  /\ Receives("LogsCancelRequest")
  /\ \E r \in RequestId :
        /\ r = Head(to_server).request
        /\ log_campaign_store' = remove_logs_request_id(log_campaign_store, r)
        /\ Distribute(<<LogsCancelRequest(r)>>)
  /\ UNCHANGED <<desired, late, swept, unserved, connected, unsent>>

\* cancel_log_requests_of_deleted_workloads, in the course of an update.
HandleUpdateState ==
  /\ Receives("UpdateState")
  /\ \E W \in Update :
     LET N == {i.name : i \in desired \ W}
     IN /\ W = Head(to_server).state /\ desired' = W
        /\ log_campaign_store' = remove_collector_campaign_entries(log_campaign_store, N)
        /\ \E M \in Cancels(UNION {log_campaign_store.workload_name_request_id_store[n] : n \in N}) : Distribute(M)
  /\ UNCHANGED <<late, swept, unserved, connected, unsent>>

\* Mutant: nobody is told that the logs of the agent's workloads have ended.
HandleAgentGoneMutant ==
  /\ Receives("AgentGone")
  /\ \E a \in Agent :
     LET R == log_campaign_store.agent_log_request_ids_store[a]
     IN /\ a = Head(to_server).agent
        /\ log_campaign_store' = remove_agent_log_campaign_entry(log_campaign_store, a)
        /\ \E M \in Cancels(R) : Distribute(M)
  /\ UNCHANGED <<desired, late, swept, unserved, connected, unsent>>

HandleAgentGone ==
  /\ Receives("AgentGone")
  /\ \E a \in Agent :
     LET R == log_campaign_store.agent_log_request_ids_store[a]
         S == {LogsStopResponse(d[1], d[2]) : d \in disconnected_log_providers(log_campaign_store, a)}
     IN /\ a = Head(to_server).agent
        /\ log_campaign_store' = remove_agent_log_campaign_entry(log_campaign_store, a)
        /\ \E M \in Cancels(R), L \in Orders(S) : Distribute(M \o L)
        /\ swept' = swept \cup
             ((UNION {log_campaign_store.workload_name_request_id_store[r.workload] : r \in R}) \ R)
  /\ UNCHANGED <<desired, late, unserved, connected, unsent>>

HandleGoodbye ==
  /\ Receives("Goodbye")
  /\ \E c \in Cli :
        /\ c = Head(to_server).cli
        /\ log_campaign_store' = remove_cli_log_campaign_entry(log_campaign_store, c)
        /\ \E M \in Cancels(log_campaign_store.cli_log_request_id_store[c]) : Distribute(M)
  /\ UNCHANGED <<desired, late, swept, unserved, connected, unsent>>

\* Only passed on: the store keeps the instance as a provider.
HandleLogsStopResponse ==
  /\ Receives("LogsStopResponse") /\ Distribute(<<Head(to_server)>>)
  /\ UNCHANGED <<serverVars, unserved, connected, unsent>>

ServerStep ==
  /\ \/ HandleLogsRequest \/ HandleLogsCancelRequest \/ HandleUpdateState
     \/ HandleAgentGone \/ HandleGoodbye \/ HandleLogsStopResponse
  /\ UNCHANGED <<agentVars, cli, budget>>

-----------------------------------------------------------------------------
(* The agents *)

Send(a, M) ==
  IF a \in connected
  THEN to_server' = to_server \o M /\ UNCHANGED unsent
  ELSE unsent' = [unsent EXCEPT ![a] = @ \o M] /\ UNCHANGED to_server

Stops(r, P) == Orders({LogsStopResponse(r, i) : i \in P})

\* spawn_log_collection.  An instance that is not there gets no task, and no stop
\* either.  A task may be through before its entry is added, which then stays.
HandleLogsRequestOnAgent(a, r, P) ==
  /\ subscription_store' = [subscription_store EXCEPT ![a] = @ \cup {r}]
  /\ unserved' = unserved \cup {<<r, i>> : i \in P \ alive}
  /\ \/ /\ tasks' = [tasks EXCEPT ![a][r] = P \cap alive]
        /\ UNCHANGED <<to_server, unsent>>
     \/ /\ tasks' = [tasks EXCEPT ![a][r] = None]
        /\ \E M \in Stops(r, P \cap alive) : Send(a, M)

delete_subscriptions(a, R) ==
  /\ subscription_store' = [subscription_store EXCEPT ![a] = @ \ R]
  /\ tasks' = [tasks EXCEPT ![a] =
                 [r \in RequestId |-> IF r \in R \cap subscription_store[a] THEN None ELSE @[r]]]

\* Mutant: the end of the connection leaves the subscriptions as they are.
execute_from_server_commandMutant(a) ==
  /\ to_agent[a] # <<>> /\ to_agent' = [to_agent EXCEPT ![a] = Tail(@)]
  /\ LET m == Head(to_agent[a])
     IN \/ m.kind = "LogsRequest" /\ HandleLogsRequestOnAgent(a, m.request, m.instances)
        \/ /\ m.kind = "LogsCancelRequest" /\ delete_subscriptions(a, {m.request})
           /\ UNCHANGED <<to_server, unsent, unserved>>
        \/ /\ m.kind = "ServerGone"
           /\ UNCHANGED <<subscription_store, tasks, to_server, unsent, unserved>>
  /\ UNCHANGED <<serverVars, alive, connected, cli, from_server, budget>>

execute_from_server_command(a) ==
  /\ to_agent[a] # <<>> /\ to_agent' = [to_agent EXCEPT ![a] = Tail(@)]
  /\ LET m == Head(to_agent[a])
     IN \/ m.kind = "LogsRequest" /\ HandleLogsRequestOnAgent(a, m.request, m.instances)
        \/ /\ m.kind = "LogsCancelRequest" /\ delete_subscriptions(a, {m.request})
           /\ UNCHANGED <<to_server, unsent, unserved>>
        \/ /\ m.kind = "ServerGone" /\ delete_subscriptions(a, subscription_store[a])
           /\ UNCHANGED <<to_server, unsent, unserved>>
  /\ UNCHANGED <<serverVars, alive, connected, cli, from_server, budget>>

Reads(a, r, i) == tasks[a][r] # None /\ i \in tasks[a][r]

\* The logs of an instance have ended: consume_futures_and_forward_logs_until_stop.
LogEnds(a, r, i) ==
  /\ Reads(a, r, i)
  /\ tasks' = [tasks EXCEPT ![a][r] = @ \ {i}]
  /\ Send(a, <<LogsStopResponse(r, i)>>)
  /\ UNCHANGED <<serverVars, alive, subscription_store, connected, to_agent, cli, from_server, unserved, budget>>

TaskEnds(a, r) ==
  /\ tasks[a][r] = {}
  /\ tasks' = [tasks EXCEPT ![a][r] = None]
  /\ subscription_store' = [subscription_store EXCEPT ![a] = @ \ {r}]
  /\ UNCHANGED <<serverVars, alive, linkVars, to_server, cli, from_server, unserved, budget>>

\* Workload objects come and go with the desired state, with some delay.
WorkloadStep(i) ==
  /\ \/ i \in desired \ alive /\ i.agent \in connected /\ alive' = alive \cup {i}
     \/ i \in alive \ desired /\ i.agent \in connected /\ alive' = alive \ {i}
  /\ UNCHANGED <<serverVars, subscription_store, tasks, linkVars, to_server, cli, from_server, unserved, budget>>

\* A workload asks for logs, or has enough of them.
CollectorStep(i) ==
  /\ i \in alive /\ i.name \in Collector /\ Spend("requests")
  /\ \E r \in {q \in AgentRequestId : collector(q) = i} :
       \/ \E P \in Wanted : Send(i.agent, <<LogsRequest(r, P)>>)
       \/ Send(i.agent, <<LogsCancelRequest(r)>>)
  /\ UNCHANGED <<serverVars, agentVars, connected, to_agent, cli, from_server, unserved>>

-----------------------------------------------------------------------------
(* ank logs *)

CliRequest(c) == CHOOSE r \in CliRequestId : r.cli = c

\* The client shuts down; its connection says goodbye.
Leave(c, M) ==
  /\ cli' = [cli EXCEPT ![c] = [phase |-> "gone", waits |-> {}]]
  /\ from_server' = [from_server EXCEPT ![c] = <<>>]
  /\ to_server' = to_server \o M \o <<Goodbye(c)>>

\* The process exits with an error, or is killed.  The middleware drops its sender;
\* nobody tells the server (grpc_cli_connection.rs:95).
Abort(c) ==
  /\ cli' = [cli EXCEPT ![c] = [phase |-> "aborted", waits |-> {}]]
  /\ from_server' = [from_server EXCEPT ![c] = <<>>]
  /\ UNCHANGED to_server

send_logs_request_for_workloads(c) ==
  /\ cli[c].phase = "new" /\ Spend("clients")
  /\ \E P \in Wanted :
       /\ cli' = [cli EXCEPT ![c] = [phase |-> "request", waits |-> P]]
       /\ to_server' = Append(to_server, LogsRequest(CliRequest(c), P))
  /\ UNCHANGED <<serverVars, agentVars, linkVars, from_server, unserved>>

\* An instance that is not accepted is an error.
get_logs_accepted_response(c) ==
  /\ cli[c].phase = "request" /\ from_server[c] # <<>>
  /\ IF cli[c].waits \subseteq Head(from_server[c]).instances
     THEN /\ cli' = [cli EXCEPT ![c].phase = "listen"]
          /\ from_server' = [from_server EXCEPT ![c] = Tail(@)]
          /\ UNCHANGED to_server
     ELSE Abort(c)
  /\ UNCHANGED <<serverVars, agentVars, linkVars, unserved, budget>>

listen_for_workload_logs(c) ==
  /\ cli[c].phase = "listen" /\ from_server[c] # <<>>
  /\ LET W == cli[c].waits \ {Head(from_server[c]).instance}
     IN IF W = {} THEN Leave(c, <<>>)
        ELSE /\ cli' = [cli EXCEPT ![c].waits = W]
             /\ from_server' = [from_server EXCEPT ![c] = Tail(@)]
             /\ UNCHANGED to_server
  /\ UNCHANGED <<serverVars, agentVars, linkVars, unserved, budget>>

\* A signal, which is handled while listening only, a timeout, which is for the
\* answer only, or the end of the process.
Interrupt(c) ==
  /\ cli[c].phase \in {"request", "listen"}
  /\ \/ cli[c].phase = "listen" /\ Leave(c, <<LogsCancelRequest(CliRequest(c))>>)
     \/ Abort(c)
  /\ UNCHANGED <<serverVars, agentVars, linkVars, unserved, budget>>

-----------------------------------------------------------------------------
(* Connections, other clients *)

Connect(a) ==
  /\ a \notin connected /\ connected' = connected \cup {a}
  /\ to_server' = to_server \o unsent[a] /\ unsent' = [unsent EXCEPT ![a] = <<>>]
  /\ UNCHANGED <<serverVars, agentVars, to_agent, cli, from_server, unserved, budget>>

\* Of the messages for the agent some have arrived.
Drop(a) ==
  /\ a \in connected /\ Spend("drops")
  /\ connected' = connected \ {a}
  /\ \E n \in 0..Len(to_agent[a]) :
       to_agent' = [to_agent EXCEPT ![a] = Append(SubSeq(@, 1, n), ServerGone)]
  /\ to_server' = Append(to_server, AgentGone(a))
  /\ UNCHANGED <<serverVars, agentVars, unsent, cli, from_server, unserved>>

RequestUpdate ==
  /\ Spend("updates")
  /\ \E W \in Update : to_server' = Append(to_server, UpdateState(W))
  /\ UNCHANGED <<serverVars, agentVars, linkVars, cli, from_server, unserved>>

Init ==
  /\ \E s \in Startup : desired = s.desired /\ alive = s.alive
  /\ log_campaign_store = EmptyStore
  /\ to_server = <<>>
  /\ connected = Agent /\ to_agent = [a \in Agent |-> <<>>] /\ unsent = [a \in Agent |-> <<>>]
  /\ subscription_store = [a \in Agent |-> {}]
  /\ tasks = [a \in Agent |-> [r \in RequestId |-> None]]
  /\ cli = [c \in Cli |-> [phase |-> "new", waits |-> {}]] /\ from_server = [c \in Cli |-> <<>>]
  /\ late = {} /\ swept = {} /\ unserved = {}
  /\ budget = [clients |-> 1, requests |-> MaxRequests, updates |-> MaxUpdates,
               drops |-> MaxDrops, events |-> MaxEvents]

CliTask(c) == get_logs_accepted_response(c) \/ listen_for_workload_logs(c)
LogTask(a) == \E r \in RequestId : TaskEnds(a, r) \/ \E i \in Instance \ alive : LogEnds(a, r, i)

Next ==
  \/ ServerStep \/ RequestUpdate
  \/ \E a \in Agent : execute_from_server_command(a) \/ Connect(a) \/ LogTask(a) \/ Drop(a)
  \/ \E a \in Agent, r \in RequestId, i \in alive : LogEnds(a, r, i)
  \/ \E i \in Instance : WorkloadStep(i) \/ CollectorStep(i)
  \/ \E c \in Cli : CliTask(c) \/ send_logs_request_for_workloads(c) \/ Interrupt(c)

Fairness ==
  /\ WF_vars(ServerStep)
  /\ \A a \in Agent :
       WF_vars(execute_from_server_command(a)) /\ WF_vars(Connect(a)) /\ WF_vars(LogTask(a))
  /\ \A c \in Cli : WF_vars(CliTask(c))

Spec == Init /\ [][Next]_vars /\ Fairness

-----------------------------------------------------------------------------
\* Types; the store has a request under its own collector, and an instance under
\* its own agent.
TypeOK ==
  /\ log_campaign_store \in Store
  /\ to_server \in Seq(Message)
  /\ to_agent \in [Agent -> Seq(Message)] /\ unsent \in [Agent -> Seq(Message)]
  /\ \A a \in Agent, r \in RequestId :
       \A i \in log_campaign_store.log_providers_store[a][r] : i.agent = a
  /\ desired \subseteq Instance /\ alive \subseteq Instance /\ connected \subseteq Agent
  /\ subscription_store \in [Agent -> SUBSET RequestId]
  /\ tasks \in [Agent -> [RequestId -> {None} \cup SUBSET Instance]]
  /\ cli \in [Cli -> [phase : {"new", "request", "listen", "gone", "aborted"}, waits : SUBSET Instance]]
  /\ late \subseteq AgentRequestId /\ swept \subseteq AgentRequestId

Known(r) ==
  \/ \E a \in Agent : r \in log_campaign_store.agent_log_request_ids_store[a]
  \/ \E c \in Cli : r \in log_campaign_store.cli_log_request_id_store[c]

\* The providers of a request are held for a known collector only, whatever the
\* order in which collectors, providers and their agents go.
ProvidersHaveCollectors ==
  \A r \in RequestId, a \in Agent : log_campaign_store.log_providers_store[a][r] # {} => Known(r)

\* The end of every collector that is known reaches the server and ends its
\* campaigns: the collector is connected, or its end is among the messages; but a
\* client that exits with an error, or is killed, leaves its campaign behind.
CollectorsArePresent ==
  \A r \in RequestId :
    Known(r) => IF r \in CliRequestId
                THEN cli[r.cli].phase # "gone" \/ Goodbye(r.cli) \in Range(to_server)
                ELSE r.agent \in connected \/ AgentGone(r.agent) \in Range(to_server)

\* The campaigns of a workload end when it leaves the desired state; not those it
\* starts later, until its agent deletes it, and not those that the end of
\* another agent took from the index by name (log_campaign_store.rs:92).
DeletedCollectorsCancelled ==
  \A r \in AgentRequestId : Known(r) => collector(r) \in desired \/ r \in late \cup swept

\* An agent does not go on reading logs for a request the server has forgotten.
CollectionsEnd ==
  \A r \in RequestId : <>[]~Known(r) => \A a \in Agent : <>[](tasks[a][r] = None)

\* ank logs ends, unless an instance it waits for has logs to come, or one was not
\* there when the agent, or its agent when the server, took the request.
LogsEnd ==
  \A c \in Cli :
    <>[](cli[c].phase \in {"request", "listen"})
    => LET r == CliRequest(c)
       IN <>[](\E i \in cli[c].waits :
                 <<r, i>> \in unserved \/ Reads(i.agent, r, i))

=============================================================================
