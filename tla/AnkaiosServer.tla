---------------------------- MODULE AnkaiosServer ----------------------------
(***************************************************************************)
(* The server task (ankaios_server.rs): it takes one message after the     *)
(* other from `to_server` and answers into `to_agents`.  Its state is the  *)
(* desired state as rendered workloads with the delete graph               *)
(* (server_state.rs, delete_graph.rs), the states of the workloads         *)
(* (workload_states_map.rs) and the connected agents.                      *)
(* The stores of log campaigns and of event subscribers are touched by the *)
(* same handlers and share no state with this one: LogCampaigns and Events *)
(* model the handlers' effect on them.                                     *)
(***************************************************************************)
EXTENDS Naturals, Sequences, FiniteSets

CONSTANTS
  Agent,
  NoAgent,    \* the empty agent name of a workload that is not scheduled
  Name,       \* workload names
  Id,         \* hashes of runtime configurations
  Workload,   \* rendered workloads: [name, agent, id, deps]
  None,
  Startup     \* the startup manifests the server may be given

AddCondition == {"AddCondRunning", "AddCondSucceeded", "AddCondFailed"}

\* The execution states that are told apart: those the server sets, and of those
\* agents report the ones that matter to another workload.
ExecutionState ==
  {"Initial", "NotScheduled", "AgentDisconnected", "WaitingToStart", "Running", "WaitingToStop"}

\* At most one workload of each name.
IsState(W) == \A v, w \in W : v.name = w.name => v = w
names(W) == {w.name : w \in W}

ASSUME WorkloadAssumption ==
  /\ NoAgent \notin Agent
  /\ Workload \subseteq [name : Name, agent : Agent \cup {NoAgent}, id : Id,
                         deps : SUBSET (Name \X AddCondition)]
  /\ Startup \subseteq SUBSET Workload /\ \A W \in Startup : IsState(W)
  /\ None \notin ExecutionState

VARIABLES
  rendered_workloads,
  delete_graph,         \* per name: the workloads whose end a deletion awaits
  workload_states_map,
  agent_map,            \* the connected agents
  to_server, to_agents  \* channels

stateVars == <<rendered_workloads, delete_graph>>
serverVars == <<stateVars, workload_states_map, agent_map>>

\* The hash in an instance name covers the runtime configuration only: two
\* workloads that differ elsewhere, in their dependencies say, share it.
instance_name(w) == [name |-> w.name, agent |-> w.agent, id |-> w.id]
instance_names(W) == {instance_name(w) : w \in W}
Instance == [name : Name, agent : Agent \cup {NoAgent}, id : Id]

-----------------------------------------------------------------------------
(* Messages *)

AgentHello(a) == [kind |-> "AgentHello", agent |-> a]
AgentGone(a) == [kind |-> "AgentGone", agent |-> a]
\* A request names its sender, for the answer.  update has the mask, as names of
\* workloads, and what is to be there under it; None if it cannot be carried out.
UpdateState(r, u) == [kind |-> "UpdateState", request |-> r, update |-> u]
UpdateWorkloadState(S) == [kind |-> "UpdateWorkloadState", states |-> S]
ServerHello(a, W) == [kind |-> "ServerHello", agent |-> a, added |-> W]
UpdateWorkload(A, D) == [kind |-> "UpdateWorkload", added |-> A, deleted |-> D]
UpdateStateSuccess(r, A, D) ==
  [kind |-> "UpdateStateSuccess", request |-> r, added |-> A, deleted |-> D]
Error(r) == [kind |-> "Error", request |-> r]
CompleteStateRequest(r) == [kind |-> "CompleteStateRequest", request |-> r]
CompleteState(r, agents) == [kind |-> "CompleteState", request |-> r, agents |-> agents]

Receives(kind) ==
  /\ to_server # <<>> /\ Head(to_server).kind = kind
  /\ to_server' = Tail(to_server)

\* UpdateWorkloadState is left out where there is nothing to tell.
StatesMessage(S) == IF S = {} THEN <<>> ELSE <<UpdateWorkloadState(S)>>

-----------------------------------------------------------------------------
(* The map of workload states.  A state is a pair of instance and state. *)

Entries(map, I) == {<<i, map[i]>> : i \in {j \in I : map[j] # None}}

get_workload_state_for_agent(map, a) == Entries(map, {i \in Instance : i.agent = a})
get_workload_state_excluding_agent(map, a) == Entries(map, {i \in Instance : i.agent # a})

agent_disconnected(map, a) ==
  [i \in Instance |-> IF i.agent = a /\ map[i] # None THEN "AgentDisconnected" ELSE map[i]]

\* An entry that is there is kept.
initial_state(map, W) ==
  [i \in Instance |->
     IF i \in instance_names(W) /\ map[i] = None
     THEN IF i.agent = NoAgent THEN "NotScheduled" ELSE "Initial"
     ELSE map[i]]

remove(map, I) == [i \in Instance |-> IF i \in I THEN None ELSE map[i]]

Removed(S) == {s[1] : s \in {t \in S : t[2] = "Removed"}}

\* Mutant: Removed is stored like any other state.
process_new_statesMutant(map, S) ==
  [i \in Instance |-> IF \E s \in S : s[1] = i THEN (CHOOSE s \in S : s[1] = i)[2] ELSE map[i]]

process_new_states(map, S) ==
  [i \in Instance |->
     IF i \in Removed(S) THEN None
     ELSE IF \E s \in S : s[1] = i THEN (CHOOSE s \in S : s[1] = i)[2]
     ELSE map[i]]

-----------------------------------------------------------------------------
(* The delete graph *)

Dependants(W, n) == {w.name : w \in {v \in W : <<n, "AddCondRunning">> \in v.deps}}

\* Mutant: the edges of the new workloads take the place of the old ones.
insertMutant(graph, W) == [n \in Name |-> Dependants(W, n)]

insert(graph, W) == [n \in Name |-> graph[n] \cup Dependants(W, n)]

apply_delete_conditions_to(graph, W) ==
  {[instance |-> instance_name(w), deps |-> graph[w.name]] : w \in W}

\* Whichever instance of the name was removed, the entry goes.
remove_deleted_workloads_from_delete_graph(graph, S) ==
  [n \in Name |-> IF \E i \in Removed(S) : i.name = n THEN {} ELSE graph[n]]

-----------------------------------------------------------------------------
(* The handlers *)

get_workloads_for_agent(W, a) == {w \in W : w.agent = a}

\* Mutant: an agent that is known as connected gets its workloads no second time.
HandleAgentHelloMutant ==
  /\ Receives("AgentHello")
  /\ LET a == Head(to_server).agent
     IN /\ to_agents' = to_agents
             \o StatesMessage(get_workload_state_excluding_agent(workload_states_map, a))
             \o IF a \in agent_map THEN <<>>
                ELSE <<ServerHello(a, get_workloads_for_agent(rendered_workloads, a))>>
        /\ agent_map' = agent_map \cup {a}
  /\ UNCHANGED <<stateVars, workload_states_map>>

HandleAgentHello ==
  /\ Receives("AgentHello")
  /\ LET a == Head(to_server).agent
     IN /\ to_agents' = to_agents
             \o StatesMessage(get_workload_state_excluding_agent(workload_states_map, a))
             \o <<ServerHello(a, get_workloads_for_agent(rendered_workloads, a))>>
        /\ agent_map' = agent_map \cup {a}
  /\ UNCHANGED <<stateVars, workload_states_map>>

\* Mutant: the others are told the states from before.
HandleAgentGoneMutant ==
  /\ Receives("AgentGone")
  /\ LET a == Head(to_server).agent
     IN /\ agent_map' = agent_map \ {a}
        /\ workload_states_map' = agent_disconnected(workload_states_map, a)
        /\ to_agents' = Append(to_agents,
             UpdateWorkloadState(get_workload_state_for_agent(workload_states_map, a)))
  /\ UNCHANGED stateVars

HandleAgentGone ==
  /\ Receives("AgentGone")
  /\ LET a == Head(to_server).agent
     IN /\ agent_map' = agent_map \ {a}
        /\ workload_states_map' = agent_disconnected(workload_states_map, a)
        /\ to_agents' = Append(to_agents,
             UpdateWorkloadState(get_workload_state_for_agent(workload_states_map', a)))
  /\ UNCHANGED stateVars

\* The desired state with what the update says under its mask.
generate_new_state(W, u) == {w \in W : w.name \notin u.mask} \cup u.new

added_workloads(W) == W \ rendered_workloads
deleted_workloads(W) == rendered_workloads \ W

\* Mutant: whether the agent is connected is not asked.
never_startedMutant(w, map) == w.agent = NoAgent \/ map[instance_name(w)] = "Initial"

\* No agent can take care of the deletion.
never_started(w, map) ==
  \/ w.agent = NoAgent
  \/ w.agent \notin agent_map /\ map[instance_name(w)] = "Initial"

\* ServerState::update and handle_post_update_steps.
AcceptUpdate(r, W) ==
  LET added == added_workloads(W)
      deleted == deleted_workloads(W)
      map == initial_state(workload_states_map, added)
      unstarted == {w \in deleted : never_started(w, map)}
  IN /\ rendered_workloads' = W
     /\ delete_graph' = insert(delete_graph, added)
     /\ workload_states_map' = remove(map, instance_names(unstarted))
     /\ to_agents' = to_agents
          \o StatesMessage({<<i, "Removed">> : i \in instance_names(unstarted)})
          \o <<UpdateWorkload(added, apply_delete_conditions_to(delete_graph', deleted \ unstarted)),
               UpdateStateSuccess(r, instance_names(added), instance_names(deleted))>>

\* The new desired state may differ in nothing that concerns a workload.
HandleUpdateState ==
  /\ Receives("UpdateState") /\ Head(to_server).update # None
  /\ LET r == Head(to_server).request
         W == generate_new_state(rendered_workloads, Head(to_server).update)
     IN IF W = rendered_workloads
        THEN /\ to_agents' = Append(to_agents, UpdateStateSuccess(r, {}, {}))
             /\ UNCHANGED <<stateVars, workload_states_map>>
        ELSE AcceptUpdate(r, W)
  /\ UNCHANGED agent_map

\* The mask, the validation, the rendering or the cycle check fails.
RejectUpdateState ==
  /\ Receives("UpdateState") /\ Head(to_server).update = None
  /\ to_agents' = Append(to_agents, Error(Head(to_server).request))
  /\ UNCHANGED serverVars

\* The states are stored whatever is known of their agent or their instance.
HandleUpdateWorkloadState ==
  /\ Receives("UpdateWorkloadState")
  /\ LET S == Head(to_server).states
     IN /\ workload_states_map' = process_new_states(workload_states_map, S)
        /\ delete_graph' = remove_deleted_workloads_from_delete_graph(delete_graph, S)
        /\ to_agents' = Append(to_agents, UpdateWorkloadState(S))
  /\ UNCHANGED <<rendered_workloads, agent_map>>

HandleCompleteStateRequest ==
  /\ Receives("CompleteStateRequest")
  /\ to_agents' = Append(to_agents, CompleteState(Head(to_server).request, agent_map))
  /\ UNCHANGED serverVars

-----------------------------------------------------------------------------
\* AnkaiosServer::start with one of the startup manifests.
ServerInit ==
  /\ rendered_workloads \in Startup
  /\ delete_graph = insert([n \in Name |-> {}], rendered_workloads)
  /\ workload_states_map = initial_state([i \in Instance |-> None], rendered_workloads)
  /\ agent_map = {}
  /\ to_server = <<>>
  /\ to_agents = IF rendered_workloads = {} THEN <<>>
                 ELSE <<UpdateWorkload(rendered_workloads, {})>>

ServerNext ==
  \/ HandleAgentHello \/ HandleAgentGone \/ HandleUpdateState \/ RejectUpdateState
  \/ HandleUpdateWorkloadState \/ HandleCompleteStateRequest

\* The messages, and whom they may be from.
Sender == {"cli", "other"}
WorkloadState == Instance \X (ExecutionState \cup {"Removed"})
StateUpdate == {u \in [mask : SUBSET Name, new : SUBSET Workload] :
                  IsState(u.new) /\ names(u.new) \subseteq u.mask}
DeletedWorkload == [instance : Instance, deps : SUBSET Name]

ToServer ==
  [kind : {"AgentHello", "AgentGone"}, agent : Agent]
  \cup [kind : {"UpdateState"}, request : Sender, update : StateUpdate \cup {None}]
  \cup [kind : {"UpdateWorkloadState"}, states : SUBSET WorkloadState]
  \cup [kind : {"CompleteStateRequest"}, request : Sender]

FromServer ==
  [kind : {"ServerHello"}, agent : Agent, added : SUBSET Workload]
  \cup [kind : {"UpdateWorkload"}, added : SUBSET Workload, deleted : SUBSET DeletedWorkload]
  \cup [kind : {"UpdateWorkloadState"}, states : SUBSET WorkloadState]
  \cup [kind : {"UpdateStateSuccess"}, request : Sender, added : SUBSET Instance, deleted : SUBSET Instance]
  \cup [kind : {"Error"}, request : Sender]
  \cup [kind : {"CompleteState"}, request : Sender, agents : SUBSET Agent]

ServerTypeOK ==
  /\ rendered_workloads \subseteq Workload /\ IsState(rendered_workloads)
  /\ delete_graph \in [Name -> SUBSET Name]
  /\ workload_states_map \in [Instance -> ExecutionState \cup {None}]
  /\ agent_map \subseteq Agent
  /\ to_server \in Seq(ToServer) /\ to_agents \in Seq(FromServer)

=============================================================================
