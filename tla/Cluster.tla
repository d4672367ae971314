------------------------------ MODULE Cluster ------------------------------
(***************************************************************************)
(* The server, the gRPC middleware and the agents together, with faults:   *)
(* connections break, either end finds out at its own time, agents crash   *)
(* and come back.  Of an agent there is what it makes of the server's      *)
(* messages (agent_manager.rs, runtime_manager.rs; RuntimeManager has the  *)
(* detail) and that its control loops report what comes of it.             *)
(***************************************************************************)
EXTENDS AgentConnections

CONSTANTS
  Update,                \* what clients may ask for
  MaxUpdates, MaxFaults, \* bounds on the environment
  MaxEvents              \* and on updates and faults together

ASSUME ClusterAssumption ==
  /\ Update \subseteq [mask : SUBSET Name, new : SUBSET Workload]
  /\ \A u \in Update : IsState(u.new) /\ names(u.new) \subseteq u.mask
  /\ MaxConnections \in Nat /\ MaxUpdates \in Nat /\ MaxFaults \in Nat /\ MaxEvents \in Nat

VARIABLES
  view,         \* per agent: the workloads it takes the server to want
  passed_over,  \* per agent: workloads of its own that a hello did not reach
  leftovers,    \* per agent: instances with a container from before a crash
  leaving,      \* per agent: instances its control loops are to remove
  unreported,   \* per agent: instances that are not reported running yet
  greeted,      \* per agent: a ServerHello came over the present connection
  budget

agentVars == <<view, passed_over, leftovers, leaving, unreported, greeted>>
vars == <<serverVars, to_server, to_agents, connVars, agentVars, budget>>

Spend(k) ==
  /\ budget[k] > 0 /\ budget.events > 0
  /\ budget' = [budget EXCEPT ![k] = @ - 1, !.events = @ - 1]

Own(a) == view[a] \cup passed_over[a]

-----------------------------------------------------------------------------
(* The agents *)

\* Control loops told to remove the workloads in gone and to start those in started.
TellLoops(a, gone, started) ==
  /\ leaving' = [leaving EXCEPT ![a] = @ \cup gone]
  /\ unreported' = [unreported EXCEPT ![a] = (@ \ gone) \cup started]

\* Mutant: a workload that is resumed does not report its state again.
handle_server_helloMutant(a, W) ==
  LET unneeded == {v \in Own(a) : v.name \notin names(W)}
      unknown == {i \in leftovers[a] : i.name \notin names(Own(a))}
  IN \E missed \in SUBSET {v \in unneeded : instance_name(v) \in unreported[a]} :
       /\ view' = [view EXCEPT ![a] = W]
       /\ passed_over' = [passed_over EXCEPT ![a] = missed]
       /\ leftovers' = [leftovers EXCEPT ![a] = {}]
       /\ TellLoops(a, (instance_names(Own(a) \ missed) \cup unknown) \ instance_names(W),
                    instance_names(W \ Own(a)))
       /\ greeted' = [greeted EXCEPT ![a] = TRUE]
       /\ astray' = astray \cup (leftovers[a] \ (unknown \cup instance_names(W)))

\* A workload of the agent that the hello does not list is deleted if the runtime
\* lists a container of it, which may not be there yet while it is being started.
\* A container of an earlier run whose name the agent knows again, from an update
\* that came before the hello, is left to itself: its Workload object is updated.
handle_server_hello(a, W) ==
  LET unneeded == {v \in Own(a) : v.name \notin names(W)}
      unknown == {i \in leftovers[a] : i.name \notin names(Own(a))}
  IN \E missed \in SUBSET {v \in unneeded : instance_name(v) \in unreported[a]} :
       /\ view' = [view EXCEPT ![a] = W]
       /\ passed_over' = [passed_over EXCEPT ![a] = missed]
       /\ leftovers' = [leftovers EXCEPT ![a] = {}]
       /\ TellLoops(a, (instance_names(Own(a) \ missed) \cup unknown) \ instance_names(W),
                    instance_names(W))
       /\ greeted' = [greeted EXCEPT ![a] = TRUE]
       /\ astray' = astray \cup (leftovers[a] \ (unknown \cup instance_names(W)))

\* Mutant: added workloads are handled before deleted ones.
handle_update_workloadMutant(a, A, D) ==
  LET touched == names(A) \cup {d.instance.name : d \in D}
      old == {v \in Own(a) : v.name \in touched}
      unknown == {d.instance : d \in {e \in D : e.instance.name \notin names(old)}}
      unanswered == {i \in unknown : i.name \in names(A)}
  IN /\ view' = [view EXCEPT ![a] = {v \in @ \cup A : v.name \notin {d.instance.name : d \in D}}]
     /\ passed_over' = [passed_over EXCEPT ![a] = {v \in @ : v.name \notin touched}]
     /\ TellLoops(a, instance_names(old) \cup (unknown \ unanswered), instance_names(A))
     /\ astray' = astray \cup unanswered
     /\ UNCHANGED <<leftovers, greeted>>

\* A deletion ends with Removed even if the agent has no such workload; an update
\* of such a workload creates the new one and says nothing of the old one.
handle_update_workload(a, A, D) ==
  LET touched == names(A) \cup {d.instance.name : d \in D}
      old == {v \in Own(a) : v.name \in touched}
      unknown == {d.instance : d \in {e \in D : e.instance.name \notin names(old)}}
      unanswered == {i \in unknown : i.name \in names(A)}
  IN /\ view' = [view EXCEPT ![a] = {v \in @ : v.name \notin touched} \cup A]
     /\ passed_over' = [passed_over EXCEPT ![a] = {v \in @ : v.name \notin touched}]
     /\ TellLoops(a, instance_names(old) \cup (unknown \ unanswered), instance_names(A))
     /\ astray' = astray \cup unanswered
     /\ UNCHANGED <<leftovers, greeted>>

\* AgentManager::execute_from_server_command.
execute_from_server_command(a) ==
  LET c == session[a]
  IN /\ c # 0 /\ connection[c].task # "hello" /\ connection[c].to_agent # <<>>
     /\ connection' = [connection EXCEPT ![c].to_agent = Tail(@)]
     /\ LET m == Head(connection[c].to_agent)
        IN \/ m.kind = "ServerHello" /\ handle_server_hello(a, m.added)
           \/ m.kind = "UpdateWorkload" /\ handle_update_workload(a, m.added, m.deleted)
           \/ m.kind = "UpdateWorkloadState" /\ UNCHANGED <<agentVars, astray>>
  /\ UNCHANGED <<serverVars, to_server, to_agents, agent_senders, session, budget>>

\* A message for the server; without a connection it would wait.
Send(a, m) ==
  LET c == session[a]
  IN /\ c # 0 /\ connection[c].task # "hello"
     /\ IF connection[c].task = "forward" /\ connection[c].up
        THEN /\ connection' = [connection EXCEPT ![c].from_agent = Append(@, m)]
             /\ UNCHANGED astray
        ELSE astray' = astray \cup Reports({m}) /\ UNCHANGED connection

\* store_and_forward_own_workload_states.  A workload starts once the loop has
\* removed what it replaces.
ReportRunning(a) ==
  /\ \E i \in unreported[a] :
       /\ \A l \in leaving[a] : l.name # i.name
       /\ Send(a, UpdateWorkloadState({<<i, "Running">>}))
       /\ unreported' = [unreported EXCEPT ![a] = @ \ {i}]
  /\ UNCHANGED <<serverVars, to_server, to_agents, agent_senders, session, view, passed_over, leftovers,
                 leaving, greeted, budget>>

ReportRemoved(a) ==
  /\ \E i \in leaving[a] :
       /\ Send(a, UpdateWorkloadState({<<i, "Removed">>}))
       /\ leaving' = [leaving EXCEPT ![a] = @ \ {i}]
  /\ UNCHANGED <<serverVars, to_server, to_agents, agent_senders, session, view, passed_over, leftovers,
                 unreported, greeted, budget>>

-----------------------------------------------------------------------------
(* Faults, clients *)

\* The agent's process ends, with its host or without it: containers stay or go.
Crash(a) ==
  /\ session[a] # 0 /\ Spend("faults")
  /\ connection[session[a]].task # "hello"
  /\ LET containers == instance_names(Own(a)) \cup leaving[a] \cup leftovers[a]
     IN \E kept \in SUBSET containers :
          /\ leftovers' = [leftovers EXCEPT ![a] = kept]
          /\ LeaveConnection(a, containers \ kept)
  /\ view' = [view EXCEPT ![a] = {}] /\ passed_over' = [passed_over EXCEPT ![a] = {}]
  /\ leaving' = [leaving EXCEPT ![a] = {}] /\ unreported' = [unreported EXCEPT ![a] = {}]
  /\ greeted' = [greeted EXCEPT ![a] = FALSE]
  /\ UNCHANGED <<serverVars, to_server, to_agents, agent_senders>>

Connect(a) == connect_agent(a) /\ UNCHANGED <<agentVars, budget>>

Disconnect(a) ==
  /\ ClientLosesConnection(a)
  /\ greeted' = [greeted EXCEPT ![a] = FALSE]
  /\ UNCHANGED <<serverVars, to_server, to_agents, agent_senders, view, passed_over,
                 leftovers, leaving, unreported, budget>>

Fail(c) == NetworkFails(c) /\ Spend("faults") /\ UNCHANGED agentVars

RequestUpdate ==
  /\ Spend("updates")
  /\ \E u \in Update : to_server' = Append(to_server, UpdateState("other", u))
  /\ UNCHANGED <<serverVars, to_agents, connVars, agentVars>>

-----------------------------------------------------------------------------
Init ==
  /\ ServerInit /\ ConnInit
  /\ view = [a \in Agent |-> {}] /\ passed_over = [a \in Agent |-> {}]
  /\ leftovers = [a \in Agent |-> {}] /\ leaving = [a \in Agent |-> {}]
  /\ unreported = [a \in Agent |-> {}] /\ greeted = [a \in Agent |-> FALSE]
  /\ budget = [updates |-> MaxUpdates, faults |-> MaxFaults, events |-> MaxEvents]

ServerStep == ServerNext /\ UNCHANGED <<connVars, agentVars, budget>>
Middleware(c) == ConnTask(c) /\ UNCHANGED <<agentVars, budget>>
Distribute == forward_from_server /\ UNCHANGED <<agentVars, budget>>
AgentStep(a) == execute_from_server_command(a) \/ ReportRunning(a) \/ ReportRemoved(a)

Next ==
  \/ ServerStep \/ Distribute \/ RequestUpdate
  \/ \E c \in Connection : Middleware(c) \/ Fail(c)
  \/ \E a \in Agent : Connect(a) \/ Disconnect(a) \/ AgentStep(a) \/ Crash(a)

Spec == Init /\ [][Next]_vars

\* Every task goes on while it can; faults and requests need not happen.
FairSpec ==
  /\ Spec
  /\ WF_vars(ServerStep) /\ WF_vars(Distribute)
  /\ \A c \in Connection : WF_vars(Middleware(c))
  /\ \A a \in Agent : /\ WF_vars(Connect(a)) /\ WF_vars(Disconnect(a))
                      /\ WF_vars(execute_from_server_command(a))
                      /\ WF_vars(ReportRunning(a)) /\ WF_vars(ReportRemoved(a))

-----------------------------------------------------------------------------
\* Types, of the server's state and of all that is on its way as well.
TypeOK ==
  /\ ServerTypeOK
  /\ agent_senders \in [Agent -> Connection \cup {0}]
  /\ session \in [Agent -> Connection \cup {0}]
  /\ connection \in [Connection ->
       [agent : Agent \cup {NoAgent}, task : {"unused", "hello", "forward", "failed", "ended"},
        up : BOOLEAN, closed : BOOLEAN, from_agent : Seq(ToServer), to_agent : Seq(FromServer)]]
  /\ view \in [Agent -> SUBSET Workload] /\ passed_over \in [Agent -> SUBSET Workload]
  /\ leftovers \in [Agent -> SUBSET Instance] /\ leaving \in [Agent -> SUBSET Instance]
  /\ unreported \in [Agent -> SUBSET Instance] /\ greeted \in [Agent -> BOOLEAN]
  /\ astray \subseteq Instance

\* The agent's connection is the one the server sends to, and works.
Attached(a) ==
  session[a] # 0 /\ agent_senders[a] = session[a] /\ connection[session[a]].up

\* A message that changes what agent a takes the server to want, and what a then
\* makes of it.
Concerns(m, a) == m.kind \in {"ServerHello", "UpdateWorkload"} /\ ForAgent(m, a) # <<>>
Applied(V, m, a) ==
  IF m.kind = "ServerHello" THEN m.added
  ELSE LET A == {w \in m.added : w.agent = a}
           D == {d \in m.deleted : d.instance.agent = a}
       IN {v \in V : v.name \notin names(A) \cup {d.instance.name : d \in D}} \cup A

\* The messages on their way to agent a, and to others, oldest first.
Messages(a) == connection[session[a]].to_agent \o to_agents

\* From V on, the states that the first n messages lead agent a to.
Trail(V, ms, a) ==
  LET t[n \in 0..Len(ms)] ==
        IF n = 0 THEN <<V>>
        ELSE IF Concerns(ms[n], a) THEN Append(t[n - 1], Applied(t[n - 1][Len(t[n - 1])], ms[n], a))
        ELSE t[n - 1]
  IN t

\* The states agent a is in and comes to.
States(a) == Trail(view[a], Messages(a), a)[Len(Messages(a))]

\* The agent takes part: it is attached, was greeted over this connection, and
\* the server knows it as connected.
Synced(a) == Attached(a) /\ greeted[a] /\ a \in agent_map

\* What an agent that takes part has been told, with what is on its way, is what
\* the server wants of it: no reconnection, race of a hello with an update, or
\* deletion the server handles by itself makes it miss a part.
InSync ==
  \A a \in Agent : Synced(a) =>
    States(a)[Len(States(a))] = get_workloads_for_agent(rendered_workloads, a)

Replica == INSTANCE DesiredStateReplica WITH
  State <- SUBSET Workload,
  desired <- [a \in Agent |-> get_workloads_for_agent(rendered_workloads, a)],
  seen <- view,
  synced <- [a \in Agent |-> Synced(a)],
  coming <- [a \in Agent |-> IF Synced(a) THEN Tail(States(a)) ELSE <<>>]

\* Server, middleware and agents implement the distribution of workloads: an agent
\* that takes part sees every state the server wants of it, in order.
ImplementsReplica == Replica!Spec

\* The agent stays attached, and known to the server as connected.
StaysConnected(a) == <>[](Attached(a) /\ a \in agent_map)

\* An agent that stays connected comes to what the server wants of it, whatever
\* connections were astray, and agents crashed, before.
Converges ==
  \A a \in Agent :
    StaysConnected(a) => <>[](view[a] = get_workloads_for_agent(rendered_workloads, a))

\* The server's map tells of what is desired that it runs, and of nothing else,
\* but for instances whose Removed got astray, and workloads a hello passed over.
MapIsTrue(a) ==
  \A k \in {x \in Instance : x.agent = a} :
    IF k \in instance_names(get_workloads_for_agent(rendered_workloads, a))
    THEN workload_states_map[k] = "Running"
    ELSE \/ workload_states_map[k] = None
         \/ k \in instance_names(passed_over[a])
         \/ k \in astray

\* The states of the workloads of an agent that stays connected become true in
\* the end: a state reported before a connection was astray, or AgentDisconnected,
\* does not outlive the reports that follow the next hello.
StatesBecomeTrue == \A a \in Agent : StaysConnected(a) => <>[]MapIsTrue(a)

=============================================================================
