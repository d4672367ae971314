---------------------------- MODULE Dependencies ----------------------------
(***************************************************************************)
(* Dependencies of workloads on different agents.  An agent starts and     *)
(* deletes by the states in its own store (dependency_state_validator.rs,  *)
(* scheduler.rs, agent_manager.rs), which the server's broadcasts and the  *)
(* reports of its own workloads fill.  The server is AnkaiosServer; a      *)
(* connection is a pair of channels that breaks for both ends at once      *)
(* (AgentConnections has the rest).                                        *)
(***************************************************************************)
EXTENDS FromServerProxy, FiniteSetsExt

CONSTANTS
  Update,               \* what clients may ask for
  MaxUpdates, MaxDrops  \* bounds on the environment

ASSUME DependenciesAssumption ==
  /\ \A u \in Update : /\ u \in [mask : SUBSET Name, new : SUBSET Workload]
                       /\ IsState(u.new) /\ names(u.new) \subseteq u.mask
  /\ MaxUpdates \in Nat /\ MaxDrops \in Nat
  /\ IsFiniteSet(Instance) /\ None # "Removed"

VARIABLES
  connected,             \* the agents with a connection
  to_agent,              \* per agent: messages for it
  unsent,                \* per agent: reports that wait for a connection
  workload_state_store,  \* per agent
  starts,                \* per agent: workloads to start, with the conditions awaited
  deletes,               \* per agent: instances to delete, with the conditions awaited
  running,               \* per agent: workloads with a container
  own_states,            \* per agent: channel of the reports of its workloads
  outlived,              \* per agent: instances whose Removed did not reach it
  forgotten,             \* names whose edges a Removed took from the delete graph
  budget

linkVars == <<connected, to_agent, unsent>>
workVars == <<workload_state_store, starts, deletes, running, own_states>>
historyVars == <<outlived, forgotten>>
vars == <<serverVars, to_server, to_agents, linkVars, workVars, historyVars, budget>>

Spend(k) == budget[k] > 0 /\ budget' = [budget EXCEPT ![k] = @ - 1]

-----------------------------------------------------------------------------
(* Conditions on the states of other workloads *)

get_states_for_workload_name(store, n) ==
  {store[k] : k \in {i \in Instance : i.name = n}} \ {None}

Fulfilling(condition) ==
  CASE condition = "AddCondRunning" -> {"Running"}
    [] condition = "AddCondSucceeded" -> {"Succeeded"}
    [] condition = "AddCondFailed" -> {"Failed"}

create_fulfilled(deps, store) ==
  \A d \in deps : get_states_for_workload_name(store, d[1]) \cap Fulfilling(d[2]) # {}

\* Mutant: a workload that waits to start is pending.
delete_fulfilledMutant(deps, store) ==
  \A n \in deps :
    get_states_for_workload_name(store, n) \cap {"Initial", "WaitingToStart", "Running"} = {}

\* DelCondNotPendingNorRunning, for every instance; waiting to start is not pending.
delete_fulfilled(deps, store) ==
  \A n \in deps : get_states_for_workload_name(store, n) \cap {"Initial", "Running"} = {}

-----------------------------------------------------------------------------
(* The agents *)

\* An operation whose conditions are fulfilled goes to a control loop and waits for
\* nothing any more.  A workload that replaces another one is looked at once that
\* one may be deleted.
ReadyDeletes(D, store) ==
  {IF delete_fulfilled(d.deps, store) THEN [d EXCEPT !.deps = {}] ELSE d : d \in D}
Replaces(s, D) == \E d \in D : d.instance.name = s.workload.name /\ d.deps # {}
ReadyStarts(S, D, store) ==
  {IF ~Replaces(s, D) /\ create_fulfilled(s.deps, store) THEN [s EXCEPT !.deps = {}] ELSE s : s \in S}

\* In some order.
Reports(I, state) ==
  LET order == CHOOSE f \in Bijection(1..Cardinality(I), I) : TRUE
  IN [k \in 1..Cardinality(I) |-> <<order[k], state>>]

\* The operations of agent a, S and D and the new ones.  A new deletion that waits
\* is reported, and a start that is new, or replaces a workload that may be deleted
\* from now on, and waits.  states are the reports made before.
Enqueue(a, store, S, D, newS, newD, states) ==
  LET D1 == ReadyDeletes(D \cup newD, store)
      S1 == ReadyStarts(S \cup newS, D1, store)
      stopping == {d.instance : d \in {e \in D1 \cap newD : e.deps # {}}}
      waiting == {s \in S1 : s.deps # {} /\ ~Replaces(s, D1) /\ (s \in newS \/ Replaces(s, D))}
  IN /\ deletes' = [deletes EXCEPT ![a] = D1]
     /\ starts' = [starts EXCEPT ![a] = S1]
     /\ own_states' = [own_states EXCEPT ![a] =
          states \o Reports(stopping, "WaitingToStop")
                 \o Reports({instance_name(s.workload) : s \in waiting}, "WaitingToStart")]

Starting(W) == {[workload |-> w, deps |-> w.deps] : w \in W}

\* A container of the same instance is resumed and reports its state, another one
\* is replaced, and one the server does not list is deleted; none of it waits.
handle_server_hello(a, W) ==
  LET resumed == {r \in running[a] : instance_name(r) \in instance_names(W)}
      other == {[instance |-> instance_name(r), deps |-> {}] : r \in running[a] \ resumed}
      new == {w \in W : instance_name(w) \notin instance_names(resumed)}
      kept == {s \in starts[a] : s.workload.name \notin names(W)}
  IN /\ Enqueue(a, workload_state_store[a], kept, deletes[a], Starting(new), other,
                own_states[a] \o Reports(instance_names(resumed), "Running"))
     /\ UNCHANGED workload_state_store

\* An operation that waits gives way to a later one of the same name.
handle_update_workload(a, A, D) ==
  LET touched == names(A) \cup {d.instance.name : d \in D}
      known == names(running[a]) \cup {s.workload.name : s \in starts[a]}
      todo == {d \in D : d.instance.name \in known \/ d.instance.name \notin names(A)}
      kept == {s \in starts[a] : s.workload.name \notin touched}
  IN /\ Enqueue(a, workload_state_store[a], kept, deletes[a], Starting(A), todo, own_states[a])
     /\ UNCHANGED workload_state_store

\* Mutant: the queue is looked at before the states are stored.
process_statesMutant(a, S, states) ==
  /\ workload_state_store' = [workload_state_store EXCEPT ![a] = process_new_states(@, S)]
  /\ Enqueue(a, workload_state_store[a], starts[a], deletes[a], {}, {}, states)

\* New states in the store, and update_workloads_on_fulfilled_dependencies.
process_states(a, S, states) ==
  LET store == process_new_states(workload_state_store[a], S)
  IN /\ workload_state_store' = [workload_state_store EXCEPT ![a] = store]
     /\ Enqueue(a, store, starts[a], deletes[a], {}, {}, states)

execute_from_server_command(a) ==
  /\ to_agent[a] # <<>> /\ to_agent' = [to_agent EXCEPT ![a] = Tail(@)]
  /\ LET m == Head(to_agent[a])
     IN \/ m.kind = "ServerHello" /\ handle_server_hello(a, m.added) /\ UNCHANGED outlived
        \/ m.kind = "UpdateWorkload" /\ handle_update_workload(a, m.added, m.deleted) /\ UNCHANGED outlived
        \/ /\ m.kind = "UpdateWorkloadState" /\ process_states(a, m.states, own_states[a])
           /\ outlived' = [outlived EXCEPT ![a] = @ \ {s[1] : s \in m.states}]
  /\ UNCHANGED <<serverVars, to_server, to_agents, connected, unsent, running, forgotten, budget>>

store_and_forward_own_workload_states(a) ==
  /\ own_states[a] # <<>>
  /\ LET S == {Head(own_states[a])}
     IN /\ process_states(a, S, Tail(own_states[a]))
        /\ IF a \in connected
           THEN to_server' = Append(to_server, UpdateWorkloadState(S)) /\ UNCHANGED unsent
           ELSE unsent' = [unsent EXCEPT ![a] = Append(@, UpdateWorkloadState(S))] /\ UNCHANGED to_server
  /\ UNCHANGED <<serverVars, to_agents, connected, to_agent, running, historyVars, budget>>

\* A control loop creates the workload, once what it replaces is gone.
Start(a) ==
  /\ \E s \in starts[a] :
       /\ s.deps = {} /\ \A d \in deletes[a] : d.instance.name # s.workload.name
       /\ starts' = [starts EXCEPT ![a] = @ \ {s}]
       /\ running' = [running EXCEPT ![a] = @ \cup {s.workload}]
       /\ own_states' = [own_states EXCEPT ![a] = Append(@, <<instance_name(s.workload), "Running">>)]
  /\ UNCHANGED <<serverVars, to_server, to_agents, linkVars, workload_state_store, deletes, historyVars, budget>>

\* A control loop deletes the container, if there is one.
Delete(a) ==
  /\ \E d \in deletes[a] :
       /\ d.deps = {}
       /\ deletes' = [deletes EXCEPT ![a] = @ \ {d}]
       /\ running' = [running EXCEPT ![a] = {w \in @ : instance_name(w) # d.instance}]
       /\ own_states' = [own_states EXCEPT ![a] = Append(@, <<d.instance, "Removed">>)]
  /\ UNCHANGED <<serverVars, to_server, to_agents, linkVars, workload_state_store, starts, historyVars, budget>>

-----------------------------------------------------------------------------
(* Connections, clients, the server *)

Connect(a) ==
  /\ a \notin connected /\ connected' = connected \cup {a}
  /\ to_server' = Append(to_server, AgentHello(a)) \o unsent[a]
  /\ unsent' = [unsent EXCEPT ![a] = <<>>]
  /\ UNCHANGED <<serverVars, to_agents, to_agent, workVars, historyVars, budget>>

Removals(M) == UNION {Removed(m.states) : m \in {x \in M : x.kind = "UpdateWorkloadState"}}

Drop(a) ==
  /\ a \in connected /\ Spend("drops")
  /\ connected' = connected \ {a}
  /\ to_agent' = [to_agent EXCEPT ![a] = <<>>]
  /\ to_server' = Append(to_server, AgentGone(a))
  /\ outlived' = [outlived EXCEPT ![a] = @ \cup Removals(Range(to_agent[a]))]
  /\ UNCHANGED <<serverVars, to_agents, unsent, workVars, forgotten>>

Distribute ==
  /\ to_agents # <<>> /\ to_agents' = Tail(to_agents)
  /\ to_agent' = [a \in Agent |->
       IF a \in connected THEN to_agent[a] \o ForAgent(Head(to_agents), a) ELSE to_agent[a]]
  /\ outlived' = [a \in Agent |->
       IF a \in connected THEN outlived[a]
       ELSE outlived[a] \cup Removals(Range(ForAgent(Head(to_agents), a)))]
  /\ UNCHANGED <<serverVars, to_server, connected, unsent, workVars, forgotten, budget>>

RequestUpdate ==
  /\ Spend("updates")
  /\ \E u \in Update : to_server' = Append(to_server, UpdateState("other", u))
  /\ UNCHANGED <<serverVars, to_agents, linkVars, workVars, historyVars>>

ServerStep ==
  /\ ServerNext
  /\ forgotten' = forgotten \cup {i.name : i \in Removals({Head(to_server)})}
  /\ UNCHANGED <<linkVars, workVars, outlived, budget>>

Init ==
  /\ ServerInit
  /\ connected = {} /\ to_agent = [a \in Agent |-> <<>>] /\ unsent = [a \in Agent |-> <<>>]
  /\ workload_state_store = [a \in Agent |-> [i \in Instance |-> None]]
  /\ starts = [a \in Agent |-> {}] /\ deletes = [a \in Agent |-> {}] /\ running = [a \in Agent |-> {}]
  /\ own_states = [a \in Agent |-> <<>>]
  /\ outlived = [a \in Agent |-> {}] /\ forgotten = {}
  /\ budget = [updates |-> MaxUpdates, drops |-> MaxDrops]

\* What an agent does by itself.
AgentTask(a) ==
  execute_from_server_command(a) \/ store_and_forward_own_workload_states(a) \/ Start(a) \/ Delete(a)

\* The distribution of a message is quick: no other step comes between.
Next ==
  \/ Distribute
  \/ /\ to_agents = <<>>
     /\ \/ ServerStep \/ RequestUpdate
        \/ \E a \in Agent : Connect(a) \/ Drop(a) \/ AgentTask(a)

Spec ==
  /\ Init /\ [][Next]_vars
  /\ WF_vars(Distribute) /\ WF_vars(to_agents = <<>> /\ ServerStep)
  /\ \A a \in Agent :
       /\ WF_vars(to_agents = <<>> /\ Connect(a))
       /\ WF_vars(to_agents = <<>> /\ execute_from_server_command(a))
       /\ WF_vars(to_agents = <<>> /\ store_and_forward_own_workload_states(a))
       /\ WF_vars(to_agents = <<>> /\ Start(a)) /\ WF_vars(to_agents = <<>> /\ Delete(a))

-----------------------------------------------------------------------------
\* The messages on their way to agent a, and those among them with a state of i.
OnTheWay(a) == to_agent[a] \o to_agents
Tells(m, i) == m.kind = "UpdateWorkloadState" /\ \E s \in m.states : s[1] = i
Telling(a, i) == {k \in DOMAIN OnTheWay(a) : Tells(OnTheWay(a)[k], i)}

\* The state of instance i, of another agent, in the store of a when they have come.
ComingState(a, i) ==
  IF Telling(a, i) = {} THEN workload_state_store[a][i]
  ELSE process_new_states(workload_state_store[a], OnTheWay(a)[Max(Telling(a, i))].states)[i]

\* What a connected agent, its hello answered, knows of the workloads of others, with what is on its
\* way, is what the server knows, but for a state no agent has reported yet and
\* for an instance that was removed while the agent was away.
StoresAgree ==
  \A a \in {b \in connected \cap agent_map : AgentHello(b) \notin Range(to_server)} :
    \A i \in {k \in Instance : k.agent # a} :
      \/ ComingState(a, i) = workload_states_map[i]
      \/ workload_states_map[i] \in {"Initial", "NotScheduled"}
      \/ workload_states_map[i] = None /\ i \in outlived[a]

\* The delete graph has every workload that is to go before one it depends on can,
\* until a Removed takes the edges away.
GraphCovers ==
  \A n \in Name \ forgotten : Dependants(rendered_workloads, n) \subseteq delete_graph[n]

\* A workload of name n runs, and nobody is to delete it.
RunsOn(n) ==
  \E b \in Agent : \E w \in running[b] :
    w.name = n /\ \A d \in deletes[b] : d.instance # instance_name(w)

\* A deletion ends, unless a workload it waits for runs on, or was removed while
\* the agent was away.
DeletionsEnd ==
  \A i \in {k \in instance_names(Workload) : k.agent \in Agent} :
    <>[](\E d \in deletes[i.agent] : d.instance = i)
    => <>[](\E d \in deletes[i.agent] : d.instance = i /\ \E n \in d.deps :
              RunsOn(n) \/ \E k \in outlived[i.agent] : k.name = n)

\* A workload starts, unless one it depends on is not wanted, or its own
\* predecessor is not gone.
StartsEnd ==
  \A w \in {x \in Workload : x.agent \in Agent} :
    <>[](\E s \in starts[w.agent] : s.workload = w)
    => <>[](\/ \E d \in w.deps : d[1] \notin names(rendered_workloads)
            \/ \E d \in deletes[w.agent] : d.instance.name = w.name)

=============================================================================
