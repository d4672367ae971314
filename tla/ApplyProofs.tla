----------------------------- MODULE ApplyProofs -----------------------------
(***************************************************************************)
(* When `ank apply` stops waiting for a workload it has added, the         *)
(* workload runs, for all sets of agents, workloads and manifests and any  *)
(* number of updates of other clients, connections and faults.             *)
(***************************************************************************)
EXTENDS Apply, ClusterProofs

-----------------------------------------------------------------------------
(* Sequences of messages, and the states in them *)

\* The messages of a sequence, of its first one and the others.
LEMMA RangeOfTail ==
  ASSUME NEW M, NEW q \in Seq(M), q # <<>>
  PROVE  /\ Head(q) \in M /\ Head(q) \in Range(q)
         /\ Tail(q) \in Seq(M) /\ Range(Tail(q)) \in SUBSET Range(q)
<1>1. /\ Len(q) \in Nat /\ Len(q) # 0 /\ Head(q) = q[1] /\ Head(q) \in M /\ Tail(q) \in Seq(M)
      /\ Len(Tail(q)) = Len(q) - 1 /\ \A k \in 1..Len(q) - 1 : Tail(q)[k] = q[k + 1]
  OBVIOUS
<1>2. DOMAIN q = 1..Len(q) /\ DOMAIN Tail(q) = 1..Len(q) - 1 /\ 1 \in 1..Len(q)
  BY <1>1
<1>3. Head(q) \in Range(q)
  BY <1>1, <1>2, Zenon DEF Range
<1> DEFINE t == Tail(q)
<1> HIDE DEF t
<1>4. ASSUME NEW m \in Range(t) PROVE m \in Range(q)
  <2>1. PICK k \in 1..Len(q) - 1 : m = t[k]
    BY <1>2, <1>4 DEF Range, t
  <2>2. k + 1 \in 1..Len(q) /\ m = q[k + 1]
    BY <1>1, <2>1 DEF t
  <2> QED
    BY <1>2, <2>2 DEF Range
<1> QED
  BY <1>1, <1>3, <1>4 DEF t

\* Of two sequences, and with one more.
LEMMA RangeOfBoth ==
  ASSUME NEW M, NEW q \in Seq(M)
  PROVE  /\ \A r \in Seq(M) : q \o r \in Seq(M) /\ Range(q \o r) = Range(q) \cup Range(r)
         /\ \A m \in M : Append(q, m) \in Seq(M) /\ Range(Append(q, m)) = Range(q) \cup {m}
<1>1. ASSUME NEW r \in Seq(M) PROVE q \o r \in Seq(M) /\ Range(q \o r) = Range(q) \cup Range(r)
  <2> DEFINE s == q \o r
  <2>1. /\ DOMAIN s = 1..Len(q) + Len(r) /\ DOMAIN q = 1..Len(q) /\ DOMAIN r = 1..Len(r)
        /\ Len(q) \in Nat /\ Len(r) \in Nat /\ s \in Seq(M)
        /\ \A k \in 1..Len(q) : s[k] = q[k]
        /\ \A k \in 1..Len(r) : s[Len(q) + k] = r[k]
    OBVIOUS
  <2> HIDE DEF s
  <2>2. /\ \A k \in 1..Len(q) : k \in 1..Len(q) + Len(r)
        /\ \A k \in 1..Len(r) : Len(q) + k \in 1..Len(q) + Len(r)
    BY <2>1
  <2>3. Range(q) \in SUBSET Range(s) /\ Range(r) \in SUBSET Range(s)
    BY <2>1, <2>2, Zenon DEF Range
  <2>4. ASSUME NEW m \in Range(s) PROVE m \in Range(q) \cup Range(r)
    <3>1. PICK k \in 1..Len(q) + Len(r) : m = s[k]
      BY <2>1, <2>4 DEF Range
    <3>2. k \in 1..Len(q) \/ (k - Len(q) \in 1..Len(r) /\ Len(q) + (k - Len(q)) = k)
      BY <2>1, <3>1
    <3>3. (\E n \in 1..Len(q) : m = q[n]) \/ (\E n \in 1..Len(r) : m = r[n])
      BY <2>1, <3>1, <3>2, Zenon
    <3> QED
      BY <2>1, <3>3, Zenon DEF Range
  <2> QED
    BY <2>1, <2>3, <2>4 DEF s
<1>2. ASSUME NEW m \in M PROVE Append(q, m) \in Seq(M) /\ Range(Append(q, m)) = Range(q) \cup {m}
  <2> DEFINE s == Append(q, m)
  <2>1. /\ DOMAIN s = 1..Len(q) + 1 /\ DOMAIN q = 1..Len(q) /\ Len(q) \in Nat /\ s \in Seq(M)
        /\ s[Len(q) + 1] = m /\ \A k \in 1..Len(q) : s[k] = q[k]
    OBVIOUS
  <2> HIDE DEF s
  <2>2. \A k : k \in 1..Len(q) + 1 <=> k \in 1..Len(q) \/ k = Len(q) + 1
    BY <2>1
  <2>3. Range(s) = Range(q) \cup {m}
    BY <2>1, <2>2 DEF Range
  <2> QED
    BY <2>1, <2>3 DEF s
<1> QED
  BY <1>1, <1>2

\* One message, two, and none.
LEMMA RangeOfFew ==
  /\ \A m : Range(<<m>>) = {m}
  /\ \A m, n : Range(<<m, n>>) = {m, n}
  /\ Range(<<>>) = {}
<1>1. /\ \A m : DOMAIN <<m>> = 1..1 /\ <<m>>[1] = m
      /\ \A m, n : DOMAIN <<m, n>> = 1..2 /\ <<m, n>>[1] = m /\ <<m, n>>[2] = n
      /\ DOMAIN <<>> = 1..0
  OBVIOUS
<1>2. 1..1 = {1} /\ 1..2 = {1, 2} /\ 1..0 = {}
  OBVIOUS
<1> QED
  BY <1>1, <1>2 DEF Range

\* States of several messages, and of one.
LEMMA StatesOf ==
  /\ \A M, N : StatesIn(M \cup N) = StatesIn(M) \cup StatesIn(N)
  /\ \A M, N : M \in SUBSET N => StatesIn(M) \in SUBSET StatesIn(N)
  /\ \A m : m.kind = "UpdateWorkloadState" => StatesIn({m}) = m.states
  /\ \A m : m.kind # "UpdateWorkloadState" => StatesIn({m}) = {}
  /\ StatesIn({}) = {}
<1>1. \A M, N : StatesIn(M \cup N) = StatesIn(M) \cup StatesIn(N)
  BY DEF StatesIn
<1>2. \A M, N : M \in SUBSET N => StatesIn(M) \in SUBSET StatesIn(N)
  BY DEF StatesIn
<1>3. \A m : m.kind = "UpdateWorkloadState" => StatesIn({m}) = m.states
  BY DEF StatesIn
<1>4. \A m : m.kind # "UpdateWorkloadState" => StatesIn({m}) = {}
  BY DEF StatesIn
<1> QED
  BY <1>1, <1>2, <1>3, <1>4 DEF StatesIn

-----------------------------------------------------------------------------
(* The invariant *)

\* What the client holds.
CliType ==
  [phase : Requesting \cup {"idle", "wait", "done", "failed"}, added : SUBSET Instance,
   deleted : SUBSET Instance, agents : SUBSET Agent]
ClientOK ==
  /\ cli \in CliType
  /\ from_server \in Seq(FromServer) /\ missed \in SUBSET WorkloadState
  /\ fresh \in SUBSET Instance

\* There is a wait list once the server has answered, and while the client waits
\* it has workloads of agents only that were connected.
Listed ==
  /\ cli.phase \notin {"after", "wait"} => cli.added = {}
  /\ cli.phase = "wait" => \A i \in cli.added : i.agent \in cli.agents

\* Agents report nothing but that a workload runs or is removed.
Plain(m) == m.kind = "UpdateWorkloadState" => \A s \in m.states : s[2] \in {"Running", "Removed"}
AgentsSay ==
  /\ \A m \in Range(to_server) : Plain(m)
  /\ \A c \in Connection : \A m \in Range(connection[c].from_agent) : Plain(m)

\* Only workloads without an agent are not scheduled.
Unscheduled ==
  /\ \A s \in Noticed : s[2] = "NotScheduled" => s[1].agent = NoAgent
  /\ \A i \in Instance : workload_states_map[i] = "NotScheduled" => i.agent = NoAgent

\* A fresh instance that the client is told to run, or the server takes to run, was
\* reported running since.
Heard ==
  \A i \in fresh :
    \/ <<i, "Running">> \in Noticed
    \/ workload_states_map[i] = "Running"
    => i \in told

\* With Inv, the invariant of the cluster.
ApplyInv == Inv /\ ClientOK /\ Listed /\ AgentsSay /\ Unscheduled /\ Heard

-----------------------------------------------------------------------------
(* What the server tells *)

\* A state the server may send when it handles message m.
Tellable(s, m) ==
  \/ s[2] \in {"Removed", "AgentDisconnected"}
  \/ s[1] \in Instance /\ s[2] = workload_states_map[s[1]]
  \/ s \in StatesIn({m})

\* And one it may come to store.
Storable(i, state, m) ==
  \/ state \in {None, "Initial", "AgentDisconnected", workload_states_map[i]}
  \/ state = "NotScheduled" /\ i.agent = NoAgent
  \/ <<i, state>> \in StatesIn({m})

ServerTells ==
  /\ to_server # <<>> /\ to_server' = Tail(to_server) /\ to_agents' \in Seq(FromServer)
  /\ \A s \in StatesIn(Range(to_agents')) : s \in StatesIn(Range(to_agents)) \/ Tellable(s, Head(to_server))
  /\ \A i \in Instance : Storable(i, workload_states_map'[i], Head(to_server))

\* The states in a message that is left out where there are none.
LEMMA StatesMessageOf ==
  ASSUME NEW S \in SUBSET WorkloadState
  PROVE  StatesMessage(S) \in Seq(FromServer) /\ StatesIn(Range(StatesMessage(S))) = S
<1> DEFINE m == UpdateWorkloadState(S)
<1>1. m \in FromServer /\ m.kind = "UpdateWorkloadState" /\ m.states = S
  BY MessageTypes DEF UpdateWorkloadState
<1> HIDE DEF m
<1>2. <<m>> \in Seq(FromServer) /\ <<>> \in Seq(FromServer)
  BY <1>1
<1>3. StatesIn(Range(<<m>>)) = S /\ StatesIn(Range(<<>>)) = {}
  BY <1>1, RangeOfFew, StatesOf, Zenon
<1> QED
  BY <1>2, <1>3, Zenon DEF StatesMessage, m

\* Entries of the map (workload_states_map.rs).
LEMMA EntriesOf ==
  ASSUME NEW map, NEW I \in SUBSET Instance, NEW s \in Entries(map, I)
  PROVE  s[1] \in I /\ s[2] = map[s[1]]
<1>1. PICK i \in I : s = <<i, map[i]>>
  BY DEF Entries
<1> QED
  BY <1>1

\* A message more, and more of them, states among them.
LEMMA TellsOne ==
  ASSUME NEW q \in Seq(FromServer), NEW m \in FromServer
  PROVE  Append(q, m) \in Seq(FromServer)
         /\ StatesIn(Range(Append(q, m))) = StatesIn(Range(q)) \cup StatesIn({m})
BY RangeOfBoth, StatesOf

LEMMA TellsMore ==
  ASSUME NEW q \in Seq(FromServer), NEW r \in Seq(FromServer)
  PROVE  q \o r \in Seq(FromServer)
         /\ StatesIn(Range(q \o r)) = StatesIn(Range(q)) \cup StatesIn(Range(r))
BY RangeOfBoth, StatesOf

LEMMA TellsAround ==
  ASSUME NEW q \in Seq(FromServer), NEW S \in SUBSET WorkloadState,
         NEW t \in Seq(FromServer), StatesIn(Range(t)) = {}
  PROVE  q \o StatesMessage(S) \o t \in Seq(FromServer)
         /\ StatesIn(Range(q \o StatesMessage(S) \o t)) = StatesIn(Range(q)) \cup S
<1> DEFINE r == StatesMessage(S)
           u == q \o r
<1>1. r \in Seq(FromServer) /\ StatesIn(Range(r)) = S
  BY StatesMessageOf
<1> HIDE DEF r
<1>2. u \in Seq(FromServer) /\ StatesIn(Range(u)) = StatesIn(Range(q)) \cup S
  BY <1>1, TellsMore
<1> HIDE DEF u
<1>3. u \o t \in Seq(FromServer) /\ StatesIn(Range(u \o t)) = StatesIn(Range(u))
  BY <1>2, TellsMore
<1> QED
  BY <1>2, <1>3, Zenon DEF u, r

\* A hello: the states of the others, and what the agent is to run.
LEMMA HelloTells == ASSUME ServerTypeOK, HandleAgentHello PROVE ServerTells
<1> DEFINE m == Head(to_server)
           a == m.agent
           S == get_workload_state_excluding_agent(workload_states_map, a)
           h == ServerHello(a, get_workloads_for_agent(rendered_workloads, a))
<1>1. /\ m \in ToServer /\ m.kind = "AgentHello" /\ to_server # <<>> /\ to_server' = Tail(to_server)
      /\ workload_states_map \in StatesMap /\ to_agents \in Seq(FromServer)
      /\ UNCHANGED workload_states_map
  BY ReceivesType DEF HandleAgentHello, Receives, ServerTypeOK, StatesMap
<1>2. a \in Agent /\ get_workloads_for_agent(rendered_workloads, a) \in SUBSET Workload
  BY <1>1, ToServerParts DEF ServerTypeOK, get_workloads_for_agent
<1>3. h \in FromServer /\ h.kind = "ServerHello"
  BY <1>2, MessageTypes DEF ServerHello
<1>4. S \in SUBSET WorkloadState
  BY <1>1, MapTypes
<1>5. to_agents' = to_agents \o StatesMessage(S) \o <<h>>
  BY DEF HandleAgentHello
<1>6. \A s \in S : s[1] \in Instance /\ s[2] = workload_states_map[s[1]]
  <2>1. {i \in Instance : i.agent # a} \in SUBSET Instance
    OBVIOUS
  <2> QED
    BY <2>1, EntriesOf DEF get_workload_state_excluding_agent
<1> HIDE DEF h, S, a
<1>7. <<h>> \in Seq(FromServer) /\ StatesIn(Range(<<h>>)) = {}
  <2>1. StatesIn({h}) = {}
    BY <1>3, StatesOf
  <2>2. Range(<<h>>) = {h}
    BY RangeOfFew, Zenon
  <2>3. <<h>> \in Seq(FromServer)
    BY <1>3
  <2> QED
    BY <2>1, <2>2, <2>3, Zenon
<1>8. to_agents' \in Seq(FromServer) /\ StatesIn(Range(to_agents')) = StatesIn(Range(to_agents)) \cup S
  BY <1>1, <1>4, <1>5, <1>7, TellsAround, Zenon
<1> QED
  BY <1>1, <1>6, <1>8 DEF ServerTells, Tellable, Storable

\* An agent is gone: its workloads are known as such.
LEMMA GoneTells == ASSUME ServerTypeOK, HandleAgentGone PROVE ServerTells
<1> DEFINE m == Head(to_server)
           a == m.agent
           map == agent_disconnected(workload_states_map, a)
           S == get_workload_state_for_agent(map, a)
           u == UpdateWorkloadState(S)
<1>1. /\ m \in ToServer /\ m.kind = "AgentGone" /\ to_server # <<>> /\ to_server' = Tail(to_server)
      /\ workload_states_map \in StatesMap /\ to_agents \in Seq(FromServer)
  BY ReceivesType DEF HandleAgentGone, Receives, ServerTypeOK, StatesMap
<1>2. workload_states_map' = map /\ to_agents' = Append(to_agents, u)
  BY DEF HandleAgentGone
<1>3. map \in StatesMap /\ S \in SUBSET WorkloadState
  BY <1>1, MapTypes
<1>4. u \in FromServer /\ StatesIn({u}) = S
  <2>1. u.kind = "UpdateWorkloadState" /\ u.states = S
    BY DEF UpdateWorkloadState
  <2> QED
    BY <1>3, <2>1, MessageTypes, StatesOf
<1>5. \A i \in Instance : map[i] \in {"AgentDisconnected", workload_states_map[i]}
  BY DEF agent_disconnected
<1>6. \A s \in S : s[1] \in Instance /\ s[2] = map[s[1]]
  <2>1. {i \in Instance : i.agent = a} \in SUBSET Instance
    OBVIOUS
  <2> QED
    BY <2>1, EntriesOf DEF get_workload_state_for_agent
<1> HIDE DEF u, S, map, a
<1>7. to_agents' \in Seq(FromServer) /\ StatesIn(Range(to_agents')) = StatesIn(Range(to_agents)) \cup S
  BY <1>1, <1>2, <1>4, TellsOne
<1>8. \A s \in S : Tellable(s, m)
  BY <1>5, <1>6 DEF Tellable
<1>9. \A i \in Instance : Storable(i, workload_states_map'[i], m)
  BY <1>2, <1>5 DEF Storable
<1> QED
  BY <1>1, <1>7, <1>8, <1>9 DEF ServerTells

\* An update: of the deleted workloads those that no agent knows are removed at once.
LEMMA UpdateTells == ASSUME ServerTypeOK, HandleUpdateState PROVE ServerTells
<1> DEFINE m == Head(to_server)
           r == m.request
           W == generate_new_state(rendered_workloads, m.update)
<1>1. /\ m \in ToServer /\ m.kind = "UpdateState" /\ to_server # <<>> /\ to_server' = Tail(to_server)
      /\ workload_states_map \in StatesMap /\ to_agents \in Seq(FromServer) /\ m.update # None
  BY ReceivesType DEF HandleUpdateState, Receives, ServerTypeOK, StatesMap
<1>2. r \in Sender /\ W \in SUBSET Workload /\ rendered_workloads \in SUBSET Workload
  <2>1. m.request \in Sender /\ m.update \in StateUpdate
    BY <1>1, ToServerParts
  <2> QED
    BY <2>1 DEF generate_new_state, StateUpdate, ServerTypeOK
<1>3. CASE W = rendered_workloads
  <2> DEFINE u == UpdateStateSuccess(r, {}, {})
  <2>1. to_agents' = Append(to_agents, u) /\ UNCHANGED workload_states_map
    BY <1>3 DEF HandleUpdateState
  <2>2. u \in FromServer /\ StatesIn({u}) = {}
    <3>1. u.kind # "UpdateWorkloadState"
      BY DEF UpdateStateSuccess
    <3> QED
      BY <1>2, <3>1, MessageTypes, StatesOf
  <2> HIDE DEF u
  <2>3. to_agents' \in Seq(FromServer) /\ StatesIn(Range(to_agents')) = StatesIn(Range(to_agents))
    BY <1>1, <2>1, <2>2, TellsOne, Zenon
  <2> QED
    BY <1>1, <2>1, <2>3 DEF ServerTells, Storable
<1>4. CASE W # rendered_workloads
  <2> DEFINE added == added_workloads(W)
             deleted == deleted_workloads(W)
             map == initial_state(workload_states_map, added)
             unstarted == {w \in deleted : never_started(w, map)}
             S == {<<i, "Removed">> : i \in instance_names(unstarted)}
             u == UpdateWorkload(added, apply_delete_conditions_to(delete_graph', deleted \ unstarted))
             v == UpdateStateSuccess(r, instance_names(added), instance_names(deleted))
  <2>1. /\ to_agents' = to_agents \o StatesMessage(S) \o <<u, v>>
        /\ workload_states_map' = remove(map, instance_names(unstarted))
    BY <1>4, Zenon DEF HandleUpdateState, AcceptUpdate
  <2>2. added \in SUBSET Workload /\ deleted \in SUBSET Workload /\ unstarted \in SUBSET Workload
    BY <1>2 DEF added_workloads, deleted_workloads
  <2>3. delete_graph' \in Graph
    <3>1. delete_graph' = insert(delete_graph, added) /\ delete_graph \in Graph
      BY <1>4 DEF HandleUpdateState, AcceptUpdate, ServerTypeOK, Graph
    <3> QED
      BY <2>2, <3>1, GraphTypes
  <2>4. S \in SUBSET WorkloadState /\ \A s \in S : s[2] = "Removed"
    <3>1. instance_names(unstarted) \in SUBSET Instance
      BY <2>2, InstanceNames
    <3>2. \A i \in Instance : <<i, "Removed">> \in WorkloadState
      BY DEF WorkloadState
    <3> HIDE DEF unstarted
    <3>3. \A s \in S : s[2] = "Removed"
      OBVIOUS
    <3> QED
      BY <3>1, <3>2, <3>3
  <2>5. u \in FromServer /\ v \in FromServer
    <3>1. apply_delete_conditions_to(delete_graph', deleted \ unstarted) \in SUBSET DeletedWorkload
      BY <2>2, <2>3, GraphTypes
    <3>2. instance_names(added) \in SUBSET Instance /\ instance_names(deleted) \in SUBSET Instance
      BY <2>2, InstanceNames
    <3> QED
      BY <1>2, <2>2, <3>1, <3>2, MessageTypes
  <2>6. u.kind # "UpdateWorkloadState" /\ v.kind # "UpdateWorkloadState"
    BY DEF UpdateWorkload, UpdateStateSuccess
  <2>7. \A i \in Instance : Storable(i, workload_states_map'[i], m)
    <3>1. \A i \in Instance :
            \/ map[i] \in {"Initial", workload_states_map[i]}
            \/ map[i] = "NotScheduled" /\ i.agent = NoAgent
      BY DEF initial_state
    <3>2. \A i \in Instance : workload_states_map'[i] \in {None, map[i]}
      BY <2>1 DEF remove
    <3> HIDE DEF map
    <3> QED
      BY <3>1, <3>2 DEF Storable
  <2> HIDE DEF u, v, S
  <2>8. <<u, v>> \in Seq(FromServer) /\ StatesIn(Range(<<u, v>>)) = {}
    <3>1. StatesIn({u}) = {} /\ StatesIn({v}) = {} /\ {u, v} = {u} \cup {v}
      BY <2>6, StatesOf
    <3>2. StatesIn({u, v}) = {}
      <4>1. StatesIn({u} \cup {v}) = StatesIn({u}) \cup StatesIn({v})
        BY StatesOf, Zenon
      <4> QED
        BY <3>1, <4>1, Zenon
    <3>3. Range(<<u, v>>) = {u, v}
      BY RangeOfFew, Zenon
    <3>4. <<u, v>> \in Seq(FromServer)
      BY <2>5
    <3> QED
      BY <3>2, <3>3, <3>4, Zenon
  <2>9. to_agents' \in Seq(FromServer) /\ StatesIn(Range(to_agents')) = StatesIn(Range(to_agents)) \cup S
    BY <1>1, <2>1, <2>4, <2>8, TellsAround, Zenon
  <2> QED
    BY <1>1, <2>4, <2>7, <2>9 DEF ServerTells, Tellable
<1> QED
  BY <1>3, <1>4

\* Reported states: they are stored and passed on.
LEMMA ReportTells == ASSUME ServerTypeOK, HandleUpdateWorkloadState PROVE ServerTells
<1> DEFINE m == Head(to_server)
           S == m.states
           u == UpdateWorkloadState(S)
<1>1. /\ m \in ToServer /\ m.kind = "UpdateWorkloadState"
      /\ to_server # <<>> /\ to_server' = Tail(to_server)
      /\ workload_states_map \in StatesMap /\ to_agents \in Seq(FromServer)
  BY ReceivesType DEF HandleUpdateWorkloadState, Receives, ServerTypeOK, StatesMap
<1>2. /\ to_agents' = Append(to_agents, u)
      /\ workload_states_map' = process_new_states(workload_states_map, S)
  BY DEF HandleUpdateWorkloadState
<1>3. S \in SUBSET WorkloadState /\ StatesIn({m}) = S
  BY <1>1, ToServerParts, StatesOf
<1>4. u \in FromServer /\ StatesIn({u}) = S
  <2>1. u.kind = "UpdateWorkloadState" /\ u.states = S
    BY DEF UpdateWorkloadState
  <2> QED
    BY <1>3, <2>1, MessageTypes, StatesOf
<1> HIDE DEF u, S
<1>5. to_agents' \in Seq(FromServer) /\ StatesIn(Range(to_agents')) = StatesIn(Range(to_agents)) \cup S
  BY <1>1, <1>2, <1>4, TellsOne
<1>6. ASSUME NEW i \in Instance PROVE Storable(i, workload_states_map'[i], m)
  <2>1. CASE i \in Removed(S)
    BY <1>2, <2>1 DEF process_new_states, Storable
  <2>2. CASE i \notin Removed(S) /\ \E s \in S : s[1] = i
    <3> DEFINE s == CHOOSE t \in S : t[1] = i
    <3>1. s \in S /\ s[1] = i
      BY <2>2
    <3>2. workload_states_map'[i] = s[2]
      BY <1>2, <2>2 DEF process_new_states
    <3>3. s = <<s[1], s[2]>>
      BY <1>3, <3>1 DEF WorkloadState
    <3> QED
      BY <1>3, <3>1, <3>2, <3>3 DEF Storable
  <2>3. CASE i \notin Removed(S) /\ ~\E s \in S : s[1] = i
    BY <1>2, <2>3 DEF process_new_states, Storable
  <2> QED
    BY <2>1, <2>2, <2>3
<1> QED
  BY <1>1, <1>3, <1>5, <1>6 DEF ServerTells, Tellable

\* A refusal, and an answer to a question.
LEMMA AnswerTells ==
  ASSUME ServerTypeOK, RejectUpdateState \/ HandleCompleteStateRequest
  PROVE  ServerTells
<1> DEFINE m == Head(to_server)
<1>1. /\ m \in ToServer /\ to_server # <<>> /\ to_server' = Tail(to_server)
      /\ to_agents \in Seq(FromServer) /\ workload_states_map' = workload_states_map
      /\ m.kind \in {"UpdateState", "CompleteStateRequest"}
  BY ReceivesType
  DEF RejectUpdateState, HandleCompleteStateRequest, Receives, ServerTypeOK, serverVars
<1>2. m.request \in Sender /\ agent_map \in SUBSET Agent
  BY <1>1, ToServerParts DEF ServerTypeOK
<1>3. ASSUME NEW u \in FromServer, u.kind # "UpdateWorkloadState", to_agents' = Append(to_agents, u)
      PROVE  ServerTells
  <2>1. StatesIn({u}) = {}
    BY <1>3, StatesOf
  <2>2. to_agents' \in Seq(FromServer) /\ StatesIn(Range(to_agents')) = StatesIn(Range(to_agents))
    BY <1>1, <1>3, <2>1, TellsOne, Zenon
  <2> QED
    BY <1>1, <2>2 DEF ServerTells, Storable
<1>4. CASE RejectUpdateState
  <2>1. Error(m.request) \in FromServer /\ Error(m.request).kind # "UpdateWorkloadState"
    BY <1>2, MessageTypes DEF Error
  <2> QED
    BY <1>3, <1>4, <2>1 DEF RejectUpdateState
<1>5. CASE HandleCompleteStateRequest
  <2>1. /\ CompleteState(m.request, agent_map) \in FromServer
        /\ CompleteState(m.request, agent_map).kind # "UpdateWorkloadState"
    BY <1>2, MessageTypes DEF CompleteState
  <2> QED
    BY <1>3, <1>5, <2>1 DEF HandleCompleteStateRequest
<1> QED
  BY <1>4, <1>5

\* All that the server does (ankaios_server.rs).
LEMMA ServerStepTells == ASSUME ServerTypeOK, ServerNext PROVE ServerTells
BY HelloTells, GoneTells, UpdateTells, ReportTells, AnswerTells DEF ServerNext

-----------------------------------------------------------------------------
(* Steps of the server and of the cluster *)

\* The server handles a message; states of the client's cluster only grow by what it
\* tells.
LEMMA ServerKeeps ==
  ASSUME ApplyInv, ApplyServerStep
  PROVE  Inv' /\ ClientOK' /\ Listed' /\ AgentsSay' /\ Unscheduled' /\ Heard'
<1> DEFINE m == Head(to_server)
<1>1. /\ ServerNext /\ UNCHANGED <<connVars, agentVars, budget>> /\ ServerStep
      /\ cli' = cli /\ from_server' = from_server /\ missed' = missed
  BY DEF ApplyServerStep, ServerStep, cliVars
<1>2. ServerTypeOK /\ ServerTells /\ to_agents \in Seq(FromServer) /\ to_server \in Seq(ToServer)
  BY <1>1, ServerStepTells DEF ApplyInv, Inv, TypeOK, ServerTypeOK
<1>3. Inv'
  BY <1>1, Steps DEF ApplyInv, Next
<1>4. /\ m \in Range(to_server) /\ m \in ToServer /\ Range(to_server') \in SUBSET Range(to_server)
      /\ to_agents' \in Seq(FromServer)
  BY <1>2, RangeOfTail DEF ServerTells
<1>5. \A s \in StatesIn({m}) : s[2] \in {"Running", "Removed"}
  BY <1>4, StatesOf DEF ApplyInv, AgentsSay, Plain
<1>6. \A s \in Noticed' : s \in Noticed \/ Tellable(s, m)
  <2>1. \A M : StatesIn(Range(from_server) \cup M) = StatesIn(Range(from_server)) \cup StatesIn(M)
    BY StatesOf, Zenon
  <2>2. /\ Noticed = missed \cup StatesIn(Range(from_server)) \cup StatesIn(Range(to_agents))
        /\ Noticed' = missed \cup StatesIn(Range(from_server)) \cup StatesIn(Range(to_agents'))
    BY <1>1, <2>1 DEF Noticed
  <2>3. \A s \in StatesIn(Range(to_agents')) : s \in StatesIn(Range(to_agents)) \/ Tellable(s, m)
    BY <1>2 DEF ServerTells
  <2> QED
    BY <2>2, <2>3, Zenon
<1>7. \A i \in Instance : Storable(i, workload_states_map'[i], m)
  BY <1>2 DEF ServerTells
<1>8. Listed'
  BY <1>1 DEF ApplyInv, Listed
<1>9. AgentsSay'
  BY <1>1, <1>4 DEF ApplyInv, AgentsSay, connVars
<1>10. Unscheduled'
  <2>1. ASSUME NEW s \in Noticed', s[2] = "NotScheduled" PROVE s[1].agent = NoAgent
    <3>1. CASE s \in Noticed
      BY <2>1, <3>1 DEF ApplyInv, Unscheduled
    <3>2. CASE Tellable(s, m)
      BY <1>5, <2>1, <3>2 DEF ApplyInv, Unscheduled, Tellable
    <3> QED
      BY <1>6, <2>1, <3>1, <3>2
  <2>2. ASSUME NEW i \in Instance, workload_states_map'[i] = "NotScheduled" PROVE i.agent = NoAgent
    <3>1. Storable(i, "NotScheduled", m)
      BY <1>7, <2>2
    <3>2. None # "NotScheduled"
      BY WorkloadAssumption DEF ExecutionState
    <3> QED
      BY <1>5, <3>1, <3>2 DEF ApplyInv, Unscheduled, Storable
  <2> QED
    BY <2>1, <2>2 DEF Unscheduled
<1>11. ASSUME NEW i \in Instance, <<i, "Running">> \in Noticed' \/ workload_states_map'[i] = "Running"
       PROVE  \/ <<i, "Running">> \in Noticed \/ workload_states_map[i] = "Running"
              \/ <<i, "Running">> \in StatesIn({m})
  <2>1. CASE <<i, "Running">> \in Noticed'
    <3>1. <<i, "Running">>[1] = i /\ <<i, "Running">>[2] = "Running"
      OBVIOUS
    <3>2. <<i, "Running">> \in Noticed \/ Tellable(<<i, "Running">>, m)
      BY <1>6, <2>1
    <3> QED
      BY <3>1, <3>2 DEF Tellable
  <2>2. CASE workload_states_map'[i] = "Running"
    <3>1. Storable(i, "Running", m)
      BY <1>7, <2>2
    <3>2. None # "Running"
      BY WorkloadAssumption DEF ExecutionState
    <3> QED
      BY <3>1, <3>2 DEF Storable
  <2> QED
    BY <1>11, <2>1, <2>2
<1>12. CASE m.kind = "UpdateState" /\ m.request = "cli" /\ IsConnected
  <2>1. fresh' = {i \in Instance : workload_states_map[i] = None /\ <<i, "Running">> \notin Noticed}
    BY <1>12 DEF ApplyServerStep
  <2>2. StatesIn({m}) = {}
    BY <1>12, StatesOf
  <2>3. None # "Running"
    BY WorkloadAssumption DEF ExecutionState
  <2>4. Heard'
    BY <1>11, <2>1, <2>2, <2>3 DEF Heard
  <2>5. ClientOK'
    BY <1>1, <2>1, SMTT(30) DEF ApplyInv, ClientOK
  <2> QED
    BY <1>3, <1>8, <1>9, <1>10, <2>4, <2>5
<1>13. CASE m.kind = "UpdateWorkloadState" /\ fresh # {}
  <2>1. fresh' = fresh /\ told' = told \cup Reported(m.states, {"Running"})
    BY <1>13 DEF ApplyServerStep
  <2>2. StatesIn({m}) = m.states
    BY <1>13, StatesOf
  <2>3. \A i : <<i, "Running">> \in m.states => i \in Reported(m.states, {"Running"})
    <3>1. \A i : <<i, "Running">>[1] = i /\ <<i, "Running">>[2] = "Running"
      OBVIOUS
    <3> QED
      BY <3>1 DEF Reported
  <2>4. fresh \in SUBSET Instance
    BY DEF ApplyInv, ClientOK
  <2>5. Heard'
    BY <1>11, <2>1, <2>2, <2>3, <2>4 DEF ApplyInv, Heard
  <2>6. ClientOK'
    BY <1>1, <2>1, SMTT(30) DEF ApplyInv, ClientOK
  <2> QED
    BY <1>3, <1>8, <1>9, <1>10, <2>5, <2>6
<1>14. CASE /\ ~(m.kind = "UpdateState" /\ m.request = "cli" /\ IsConnected)
            /\ ~(m.kind = "UpdateWorkloadState" /\ fresh # {})
  <2>1. fresh' = fresh /\ told' = told
    BY <1>14 DEF ApplyServerStep, historyVars
  <2>2. fresh = {} \/ StatesIn({m}) = {}
    BY <1>14, StatesOf
  <2>3. fresh \in SUBSET Instance
    BY DEF ApplyInv, ClientOK
  <2>4. Heard'
    BY <1>11, <2>1, <2>2, <2>3 DEF ApplyInv, Heard
  <2>5. ClientOK'
    BY <1>1, <2>1 DEF ApplyInv, ClientOK
  <2> QED
    BY <1>3, <1>8, <1>9, <1>10, <2>4, <2>5
<1> QED
  BY <1>12, <1>13, <1>14

\* What an agent's connection and the server's channel carry after a step.
LEMMA SaysAlong ==
  ASSUME TypeOK, AgentsSay,
         \A m \in Range(to_server') : m \in Range(to_server) \/ Plain(m),
         NEW d, \A c \in Connection : c # d => connection'[c].from_agent = connection[c].from_agent,
         d \in Connection =>
           \A m \in Range(connection'[d].from_agent) : m \in Range(connection[d].from_agent) \/ Plain(m)
  PROVE  AgentsSay'
<1>1. \A m \in Range(to_server') : Plain(m)
  BY Zenon DEF AgentsSay
<1>2. ASSUME NEW c \in Connection, NEW m \in Range(connection'[c].from_agent) PROVE Plain(m)
  <2>1. CASE c # d
    <3>1. connection'[c].from_agent = connection[c].from_agent
      BY <2>1, Zenon
    <3> QED
      BY <1>2, <3>1, Zenon DEF AgentsSay
  <2>2. CASE c = d
    <3>1. m \in Range(connection[c].from_agent) \/ Plain(m)
      BY <1>2, <2>2, Zenon
    <3> QED
      BY <3>1, Zenon DEF AgentsSay
  <2> QED
    BY <2>1, <2>2
<1> QED
  BY <1>1, <1>2, Zenon DEF AgentsSay, Plain

\* A message that is none of states.
LEMMA OtherIsPlain ==
  /\ \A a : Plain(AgentHello(a)) /\ Plain(AgentGone(a))
  /\ \A r, u : Plain(UpdateState(r, u))
  /\ \A r : Plain(CompleteStateRequest(r))
BY DEF Plain, AgentHello, AgentGone, UpdateState, CompleteStateRequest

\* One more message to the server.
LEMMA OneMoreSaid ==
  ASSUME to_server \in Seq(ToServer), NEW m \in ToServer, to_server' = Append(to_server, m)
  PROVE  Range(to_server') = Range(to_server) \cup {m}
BY RangeOfBoth

\* The tasks of a connection pass on what the agent said.
LEMMA MiddlewareSays ==
  ASSUME TypeOK, Owned, AgentsSay, NEW c \in Connection, Middleware(c)
  PROVE  AgentsSay'
<1> DEFINE q == connection[c].from_agent
<1>1. /\ connection \in [Connection -> ConnectionType] /\ connection[c] \in ConnectionType
      /\ to_server \in Seq(ToServer) /\ q \in Seq(ToServer)
  BY DEF TypeOK, ServerTypeOK, ConnectionType
<1>2. CASE agent_hello(c) \/ agent_gone(c)
  <2>1. connection[c].agent \in Agent
    BY <1>2 DEF Owned, agent_hello, agent_gone
  <2>2. PICK m \in ToServer : to_server' = Append(to_server, m) /\ Plain(m)
    BY <1>2, <2>1, MessageTypes, OtherIsPlain DEF agent_hello, agent_gone
  <2>3. \A x \in Range(to_server') : x \in Range(to_server) \/ Plain(x)
    BY <1>1, <2>2, OneMoreSaid
  <2>4. \A d \in Connection : connection'[d].from_agent = connection[d].from_agent
    <3>1. PICK t : connection' = [connection EXCEPT ![c].task = t]
      BY <1>2 DEF agent_hello, agent_gone
    <3> QED
      BY <1>1, <3>1 DEF ConnectionType
  <2> QED
    BY <2>3, <2>4, SaysAlong
<1>3. CASE forward_to_server(c)
  <2>1. /\ q # <<>> /\ to_server' = Append(to_server, Head(q))
        /\ connection' = [connection EXCEPT ![c].from_agent = Tail(@)]
    BY <1>3 DEF forward_to_server
  <2>2. Head(q) \in ToServer /\ Head(q) \in Range(q) /\ Range(Tail(q)) \in SUBSET Range(q)
    BY <1>1, <2>1, RangeOfTail
  <2>3. Plain(Head(q))
    BY <2>2 DEF AgentsSay
  <2>4. \A x \in Range(to_server') : x \in Range(to_server) \/ Plain(x)
    BY <1>1, <2>1, <2>2, <2>3, OneMoreSaid
  <2>5. /\ \A d \in Connection : d # c => connection'[d].from_agent = connection[d].from_agent
        /\ connection'[c].from_agent = Tail(q)
    BY <1>1, <2>1 DEF ConnectionType
  <2> QED
    BY <2>2, <2>4, <2>5, SaysAlong
<1>4. CASE ForwardFails(c) \/ ForwardEnds(c)
  <2>1. to_server' = to_server
    BY <1>4 DEF ForwardFails, ForwardEnds
  <2>2. \A d \in Connection : d # c => connection'[d].from_agent = connection[d].from_agent
    BY <1>1, <1>4 DEF ForwardFails, ForwardEnds, ConnectionType
  <2>3. connection'[c].from_agent \in {<<>>, q}
    BY <1>1, <1>4 DEF ForwardFails, ForwardEnds, ConnectionType
  <2>4. \A m \in Range(connection'[c].from_agent) : m \in Range(q)
    BY <2>3, RangeOfFew
  <2> QED
    BY <2>1, <2>2, <2>4, SaysAlong
<1> QED
  BY <1>2, <1>3, <1>4, SMTT(30) DEF Middleware, ConnTask

\* An agent reports.
LEMMA ReportSays ==
  ASSUME TypeOK, AgentsSay, NEW a \in Agent, ReportRunning(a) \/ ReportRemoved(a)
  PROVE  AgentsSay'
<1> DEFINE c == session[a]
           q == connection[c].from_agent
<1>1. /\ connection \in [Connection -> ConnectionType] /\ (c # 0 => c \in Connection)
      /\ unreported[a] \in SUBSET Instance /\ leaving[a] \in SUBSET Instance
  BY SMTT(30) DEF TypeOK, ConnectionType
<1>2. PICK i \in Instance, state \in {"Running", "Removed"} :
        to_server' = to_server /\ Send(a, UpdateWorkloadState({<<i, state>>}))
  BY <1>1, SMTT(30) DEF ReportRunning, ReportRemoved
<1> DEFINE m == UpdateWorkloadState({<<i, state>>})
<1>3. m \in ToServer /\ Plain(m)
  <2>1. {<<i, state>>} \in SUBSET WorkloadState /\ <<i, state>>[2] = state
    BY DEF WorkloadState, ExecutionState
  <2> QED
    BY <2>1, MessageTypes DEF Plain, UpdateWorkloadState
<1>4. Send(a, m) /\ c # 0
  BY <1>2, Zenon DEF Send
<1> HIDE DEF m
<1>5. \/ connection' = connection
      \/ connection' = [connection EXCEPT ![c].from_agent = Append(@, m)]
  BY <1>4 DEF Send
<1>6. c \in Connection /\ q \in Seq(ToServer)
  BY <1>1, <1>4 DEF ConnectionType
<1>7. \A d \in Connection : d # c => connection'[d].from_agent = connection[d].from_agent
  BY <1>1, <1>5, <1>6, SMTT(30) DEF ConnectionType
<1>8. connection'[c].from_agent \in {q, Append(q, m)}
  BY <1>1, <1>5, <1>6 DEF ConnectionType
<1>9. \A x \in Range(connection'[c].from_agent) : x \in Range(q) \/ Plain(x)
  <2>1. Range(Append(q, m)) = Range(q) \cup {m}
    BY <1>3, <1>6, RangeOfBoth
  <2> QED
    BY <1>3, <1>8, <2>1, Zenon
<1> QED
  BY <1>2, <1>7, <1>9, SaysAlong, SMTT(30)

\* The other steps of the cluster: from_agent stays, or is that of a new connection.
LEMMA OthersSay ==
  ASSUME TypeOK, AgentsSay,
         \/ RequestUpdate
         \/ \E c \in Connection : Fail(c)
         \/ \E a \in Agent : Connect(a) \/ Disconnect(a) \/ Crash(a) \/ execute_from_server_command(a)
  PROVE  AgentsSay'
<1>1. connection \in [Connection -> ConnectionType] /\ to_server \in Seq(ToServer)
  BY DEF TypeOK, ServerTypeOK, ConnectionType
<1>2. CASE RequestUpdate
  <2>1. PICK u \in Update : to_server' = Append(to_server, UpdateState("other", u))
    BY <1>2 DEF RequestUpdate
  <2>2. UpdateState("other", u) \in ToServer /\ Plain(UpdateState("other", u))
    <3>1. u \in StateUpdate /\ "other" \in Sender
      BY ClusterAssumption, Zenon DEF StateUpdate, Sender
    <3> QED
      BY <3>1, MessageTypes, OtherIsPlain
  <2>3. \A m \in Range(to_server') : m \in Range(to_server) \/ Plain(m)
    BY <1>1, <2>1, <2>2, OneMoreSaid
  <2>4. connection' = connection
    BY <1>2 DEF RequestUpdate, connVars
  <2> QED
    BY <2>3, <2>4, SaysAlong
<1>3. ASSUME NEW c \in Connection, Fail(c) PROVE AgentsSay'
  <2>1. to_server' = to_server /\ connection' = [connection EXCEPT ![c].up = FALSE]
    BY <1>3 DEF Fail, NetworkFails
  <2>2. \A d \in Connection : connection'[d].from_agent = connection[d].from_agent
    BY <1>1, <2>1 DEF ConnectionType
  <2> QED
    BY <2>1, <2>2, SaysAlong
<1>4. ASSUME NEW a \in Agent, Connect(a) PROVE AgentsSay'
  <2>1. PICK c \in Connection :
          /\ connection' = [connection EXCEPT ![c] = [Unused EXCEPT !.agent = a, !.task = "hello", !.up = TRUE]]
          /\ to_server' = to_server
    BY <1>4, Zenon DEF Connect, connect_agent
  <2>2. /\ \A d \in Connection : d # c => connection'[d].from_agent = connection[d].from_agent
        /\ connection'[c].from_agent = <<>>
    BY <1>1, <2>1 DEF Unused
  <2>3. Range(connection'[c].from_agent) = {}
    BY <2>2, RangeOfFew
  <2> QED
    BY <2>1, <2>2, <2>3, SaysAlong
<1>5. ASSUME NEW a \in Agent, Disconnect(a) \/ Crash(a) PROVE AgentsSay'
  <2> DEFINE c == session[a]
  <2>1. /\ to_server' = to_server /\ c # 0
        /\ connection' = [connection EXCEPT ![c].closed = TRUE, ![c].up = FALSE, ![c].to_agent = <<>>]
    BY <1>5, Zenon DEF Disconnect, Crash, ClientLosesConnection, LeaveConnection
  <2>2. c \in Connection
    BY <2>1 DEF TypeOK
  <2>3. \A d \in Connection : connection'[d].from_agent = connection[d].from_agent
    BY <1>1, <2>1, <2>2 DEF ConnectionType
  <2> QED
    BY <2>1, <2>3, SaysAlong, Zenon
<1>6. ASSUME NEW a \in Agent, execute_from_server_command(a) PROVE AgentsSay'
  <2> DEFINE c == session[a]
  <2>1. to_server' = to_server /\ c # 0 /\ connection' = [connection EXCEPT ![c].to_agent = Tail(@)]
    BY <1>6, Zenon DEF execute_from_server_command
  <2>2. c \in Connection
    BY <2>1 DEF TypeOK
  <2>3. \A d \in Connection : connection'[d].from_agent = connection[d].from_agent
    BY <1>1, <2>1, <2>2 DEF ConnectionType
  <2> QED
    BY <2>1, <2>3, SaysAlong
<1> QED
  BY <1>2, <1>3, <1>4, <1>5, <1>6, SMTT(30)

\* Neither the client nor the server's state has a part in the steps of the cluster.
LEMMA ClusterKeeps == ASSUME ApplyInv, ClusterStep PROVE ApplyInv'
<1>1. TypeOK /\ Owned /\ AgentsSay
  BY DEF ApplyInv, Inv
<1>2. Inv'
  BY Steps DEF ApplyInv, ClusterStep, Next
<1>3. AgentsSay'
  BY <1>1, MiddlewareSays, ReportSays, OthersSay DEF ClusterStep, AgentStep
<1>4. /\ cli' = cli /\ from_server' = from_server /\ missed' = missed /\ fresh' = fresh /\ told' = told
  BY DEF ClusterStep, cliVars, historyVars
<1>5. workload_states_map' = workload_states_map /\ to_agents' = to_agents
  <2>1. ASSUME NEW c \in Connection, Middleware(c) \/ Fail(c)
        PROVE  workload_states_map' = workload_states_map /\ to_agents' = to_agents
    BY <2>1 DEF Middleware, ConnTask, agent_hello, forward_to_server, ForwardFails, agent_gone, ForwardEnds,
                Fail, NetworkFails, serverVars
  <2>2. ASSUME NEW a \in Agent, Connect(a) \/ Disconnect(a) \/ Crash(a)
        PROVE  workload_states_map' = workload_states_map /\ to_agents' = to_agents
    BY <2>2 DEF Connect, connect_agent, Disconnect, Crash, serverVars
  <2>3. ASSUME NEW a \in Agent, AgentStep(a)
        PROVE  workload_states_map' = workload_states_map /\ to_agents' = to_agents
    BY <2>3 DEF AgentStep, execute_from_server_command, ReportRunning, ReportRemoved, serverVars
  <2>4. CASE RequestUpdate
    BY <2>4 DEF RequestUpdate, serverVars
  <2> QED
    BY <2>1, <2>2, <2>3, <2>4 DEF ClusterStep
<1>6. Noticed' = Noticed
  BY <1>4, <1>5 DEF Noticed
<1> QED
  BY <1>2, <1>3, <1>4, <1>5, <1>6 DEF ApplyInv, ClientOK, Listed, Unscheduled, Heard

\* A message the server sent is distributed, and the client gets its part.
LEMMA ApplyDistributeKeeps == ASSUME ApplyInv, ApplyDistribute PROVE ApplyInv'
<1> DEFINE m == Head(to_agents)
<1>1. /\ Distribute /\ cli' = cli /\ missed' = missed /\ fresh' = fresh /\ told' = told
      /\ from_server' \in {from_server, Append(from_server, m)}
  BY SMTT(30) DEF ApplyDistribute, historyVars
<1>2. /\ TypeOK /\ to_agents \in Seq(FromServer) /\ from_server \in Seq(FromServer)
      /\ connection \in [Connection -> ConnectionType]
  BY DEF ApplyInv, Inv, TypeOK, ServerTypeOK, ClientOK, ConnectionType
<1>3. Inv'
  BY <1>1, Steps DEF ApplyInv, Next
<1>4. /\ to_agents # <<>> /\ to_agents' = Tail(to_agents) /\ Deliver(m)
      /\ workload_states_map' = workload_states_map /\ to_server' = to_server
  BY <1>1 DEF Distribute, forward_from_server, serverVars
<1>5. m \in FromServer /\ m \in Range(to_agents) /\ Range(to_agents') \in SUBSET Range(to_agents)
  BY <1>2, <1>4, RangeOfTail
<1>6. from_server' \in Seq(FromServer) /\ Range(from_server') \in SUBSET (Range(from_server) \cup {m})
  <2>1. /\ Append(from_server, m) \in Seq(FromServer)
        /\ Range(Append(from_server, m)) = Range(from_server) \cup {m}
    BY <1>2, <1>5, RangeOfBoth
  <2> QED
    BY <1>1, <1>2, <2>1, Zenon
<1>7. Noticed' \in SUBSET Noticed
  <2> DEFINE P == Range(from_server') \cup Range(to_agents')
             Q == Range(from_server) \cup Range(to_agents)
  <2>1. P \in SUBSET Q
    BY <1>5, <1>6
  <2> HIDE DEF P, Q
  <2>2. StatesIn(P) \in SUBSET StatesIn(Q)
    BY <2>1, StatesOf, Zenon
  <2> QED
    BY <1>1, <2>2, Zenon DEF Noticed, P, Q
<1>8. \A c \in Connection : connection'[c].from_agent = connection[c].from_agent
  BY <1>2, <1>4 DEF Deliver, ConnectionType
<1>9. AgentsSay'
  BY <1>4, <1>8 DEF ApplyInv, AgentsSay
<1> QED
  BY <1>1, <1>3, <1>4, <1>6, <1>7, <1>9 DEF ApplyInv, ClientOK, Listed, Unscheduled, Heard

-----------------------------------------------------------------------------
(* Steps of the client *)

\* The client may say something to the server, and nothing else changes there.
Asks ==
  /\ UNCHANGED <<serverVars, to_agents, connVars, agentVars, budget>>
  /\ \/ to_server' = to_server
     \/ \E m \in ToServer : Plain(m) /\ to_server' = Append(to_server, m)

LEMMA AsksKeeps == ASSUME ApplyInv, Asks PROVE Inv' /\ AgentsSay'
<1>1. /\ UNCHANGED <<rendered_workloads, delete_graph, workload_states_map, agent_map, to_agents>>
      /\ UNCHANGED <<agent_senders, connection, session, astray>>
      /\ UNCHANGED <<view, passed_over, leftovers, leaving, unreported, greeted>>
  BY DEF Asks, serverVars, stateVars, connVars, agentVars
<1>2. to_server \in Seq(ToServer)
  BY DEF ApplyInv, Inv, TypeOK, ServerTypeOK
<1>3. /\ to_server' \in Seq(ToServer)
      /\ \A m \in Range(to_server') : m \in Range(to_server) \/ Plain(m)
  <2>1. CASE to_server' = to_server
    BY <1>2, <2>1
  <2>2. ASSUME NEW m \in ToServer, Plain(m), to_server' = Append(to_server, m)
        PROVE  /\ to_server' \in Seq(ToServer)
               /\ \A x \in Range(to_server') : x \in Range(to_server) \/ Plain(x)
    BY <1>2, <2>2, RangeOfBoth
  <2> QED
    BY <2>1, <2>2 DEF Asks
<1>4. TypeOK' /\ Owned' /\ Addressed'
  BY <1>1, <1>3, Zenon DEF ApplyInv, Inv, TypeOK, ServerTypeOK, Owned, Addressed
<1>5. ServerSame /\ \A a \in Agent : Untouched(a)
  BY <1>1, Zenon DEF ServerSame, Untouched
<1>6. \A a \in Agent : Stays(a)
  BY <1>5, UntouchedStays
<1>7. Inv'
  <2>1. TypeOK /\ OnTheWay /\ QueuedHello
    BY DEF ApplyInv, Inv
  <2> QED
    BY <1>4, <1>5, <1>6, <2>1, StaysAll, SameQueue, ZenonT(30) DEF Inv
<1>8. AgentsSay'
  BY <1>1, <1>3, Zenon DEF ApplyInv, AgentsSay
<1> QED
  BY <1>7, <1>8

\* What the client is told has its type.
LEMMA NoticedTypes == ASSUME ApplyInv PROVE Noticed \in SUBSET WorkloadState
<1>1. Range(from_server) \in SUBSET FromServer /\ Range(to_agents) \in SUBSET FromServer
  <2>1. from_server \in Seq(FromServer) /\ to_agents \in Seq(FromServer)
    BY DEF ApplyInv, Inv, TypeOK, ServerTypeOK, ClientOK
  <2> QED
    BY <2>1, InRange
<1>2. \A m \in FromServer : m.kind = "UpdateWorkloadState" => m.states \in SUBSET WorkloadState
  BY FromServerParts
<1>3. StatesIn(Range(from_server) \cup Range(to_agents)) \in SUBSET WorkloadState
  BY <1>1, <1>2 DEF StatesIn
<1> QED
  BY <1>3, Zenon DEF Noticed, ApplyInv, ClientOK

\* The client reads what it was told, and remembers nothing else.
Reads ==
  /\ from_server' \in Seq(FromServer) /\ Range(from_server') \in SUBSET Range(from_server)
  /\ missed' \in SUBSET Noticed
  /\ (fresh' = fresh /\ told' = told) \/ fresh' = {}

LEMMA ReadsKeeps ==
  ASSUME ApplyInv, Asks, Reads, cli' \in CliType, Listed'
  PROVE  ApplyInv'
<1>1. Inv' /\ AgentsSay'
  BY AsksKeeps
<1>2. workload_states_map' = workload_states_map /\ to_agents' = to_agents
  BY DEF Asks, serverVars
<1>3. Noticed' \in SUBSET Noticed
  <2> DEFINE P == Range(from_server') \cup Range(to_agents)
             Q == Range(from_server) \cup Range(to_agents)
  <2>1. P \in SUBSET Q
    BY DEF Reads
  <2> HIDE DEF P, Q
  <2>2. StatesIn(P) \in SUBSET StatesIn(Q)
    BY <2>1, StatesOf, Zenon
  <2>3. Noticed = missed \cup StatesIn(Q) /\ Noticed' = missed' \cup StatesIn(P)
    BY <1>2 DEF Noticed, P, Q
  <2> QED
    BY <2>2, <2>3 DEF Reads
<1>4. ClientOK'
  BY NoticedTypes DEF ApplyInv, ClientOK, Reads
<1>5. Unscheduled' /\ Heard'
  BY <1>2, <1>3 DEF ApplyInv, Unscheduled, Heard, Reads
<1> QED
  BY <1>1, <1>4, <1>5 DEF ApplyInv

\* The first message for the client.
LEMMA FirstForClient ==
  ASSUME ApplyInv, from_server # <<>>
  PROVE  /\ Head(from_server) \in FromServer
         /\ Tail(from_server) \in Seq(FromServer) /\ Range(Tail(from_server)) \in SUBSET Range(from_server)
         /\ StatesIn({Head(from_server)}) \in SUBSET Noticed
<1>1. from_server \in Seq(FromServer)
  BY DEF ApplyInv, ClientOK
<1>2. /\ Head(from_server) \in FromServer /\ Head(from_server) \in Range(from_server)
      /\ Tail(from_server) \in Seq(FromServer) /\ Range(Tail(from_server)) \in SUBSET Range(from_server)
  BY <1>1, RangeOfTail
<1> DEFINE P == {Head(from_server)}
           Q == Range(from_server) \cup Range(to_agents)
<1>3. P \in SUBSET Q
  BY <1>2
<1> HIDE DEF P, Q
<1>4. StatesIn(P) \in SUBSET StatesIn(Q)
  BY <1>3, StatesOf, Zenon
<1> QED
  BY <1>2, <1>4, Zenon DEF Noticed, P, Q

\* The client ends.
LEMMA EndKeeps ==
  ASSUME ApplyInv, Asks, NEW phase \in {"done", "failed"}, End(phase)
  PROVE  ApplyInv' /\ cli'.added = {} /\ cli'.phase = phase
<1>1. cli' \in CliType /\ Listed' /\ cli'.added = {} /\ cli'.phase = phase
  BY DEF End, Idle, CliType, Listed
<1>2. Reads
  <2>1. <<>> \in Seq(FromServer) /\ Range(<<>>) \in SUBSET Range(from_server)
    BY RangeOfFew
  <2> QED
    BY <2>1 DEF End, Reads
<1> QED
  BY <1>1, <1>2, ReadsKeeps

\* An instance that a list with the connected agents of l loses to the states in S.
Explained(i, l, S) == i \in told \/ i.agent \notin l.agents \/ <<i, "AgentDisconnected">> \in S

\* The list is updated with states the client was told, and the client waits on
\* (wait_list.rs, update).
LEMMA WaitKeeps ==
  ASSUME ApplyInv, Asks, from_server # <<>>, NEW S \in SUBSET Noticed, NEW l \in CliType,
         WaitOn(wait_list_update(l, S))
  PROVE  /\ ApplyInv'
         /\ \A i \in l.added \ cli'.added : i \in fresh => Explained(i, l, S)
<1> DEFINE final == {"Running", "NotScheduled", "AgentDisconnected"}
           gone == {i \in Instance : i \in Reported(S, final) \/ i.agent \notin l.agents}
           n == wait_list_update(l, S)
<1>1. n \in CliType /\ n.added = l.added \ gone /\ n.agents = l.agents
  BY Zenon DEF wait_list_update, CliType
<1>2. ASSUME NEW i \in l.added \cap gone, i \in fresh PROVE Explained(i, l, S)
  <2>1. CASE i.agent \notin l.agents
    BY <2>1 DEF Explained
  <2>2. CASE i \in Reported(S, final)
    <3>1. PICK s \in S : s[1] = i /\ s[2] \in final
      BY <2>2 DEF Reported
    <3>2. s = <<i, s[2]>> /\ s \in Noticed
      BY <3>1, NoticedTypes DEF WorkloadState
    <3>3. CASE s[2] = "Running"
      BY <1>2, <3>2, <3>3 DEF ApplyInv, Heard, Explained
    <3>4. CASE s[2] = "NotScheduled"
      <4>1. i.agent = NoAgent
        BY <3>1, <3>2, <3>4 DEF ApplyInv, Unscheduled
      <4>2. NoAgent \notin l.agents
        BY WorkloadAssumption, SMTT(30) DEF CliType
      <4> QED
        BY <4>1, <4>2 DEF Explained
    <3>5. CASE s[2] = "AgentDisconnected"
      BY <3>2, <3>5 DEF Explained
    <3> QED
      BY <3>1, <3>3, <3>4, <3>5
  <2> QED
    BY <1>2, <2>1, <2>2
<1>3. \A i \in n.added : i.agent \in l.agents
  <2>1. l.added \in SUBSET Instance
    BY DEF CliType
  <2> QED
    BY <1>1, <2>1
<1> HIDE DEF n, gone
<1>4. CASE n.added \cup n.deleted = {}
  <2>1. End("done")
    BY <1>4 DEF WaitOn, n
  <2>2. ApplyInv' /\ cli'.added = {}
    BY <2>1, EndKeeps
  <2>3. n.added = {}
    BY <1>4
  <2> QED
    BY <1>1, <1>2, <2>2, <2>3
<1>5. CASE n.added \cup n.deleted # {}
  <2>1. Continue([n EXCEPT !.phase = "wait"]) /\ missed' = {}
    BY <1>5 DEF WaitOn, n
  <2>2. cli' \in CliType /\ cli'.phase = "wait" /\ cli'.added = n.added /\ cli'.agents = l.agents
    BY <1>1, <2>1 DEF Continue, CliType
  <2>3. Listed'
    BY <1>3, <2>2 DEF Listed
  <2>4. Reads
    BY <2>1, FirstForClient DEF Continue, Reads, historyVars
  <2> QED
    BY <1>1, <1>2, <2>2, <2>3, <2>4, ReadsKeeps, SMTT(30)
<1> QED
  BY <1>4, <1>5

\* What the client may ask for.
LEMMA Asking ==
  /\ CompleteStateRequest("cli") \in ToServer /\ Plain(CompleteStateRequest("cli"))
  /\ \A u \in Manifest : UpdateState("cli", u) \in ToServer /\ Plain(UpdateState("cli", u))
<1>1. \A u \in Manifest : u \in StateUpdate \cup {None}
  BY ManifestAssumption, Zenon DEF StateUpdate
<1>2. \A u \in StateUpdate \cup {None} : UpdateState("cli", u) \in ToServer
  BY DEF ToServer, UpdateState, Sender
<1>3. CompleteStateRequest("cli") \in ToServer
  BY DEF ToServer, CompleteStateRequest, Sender
<1> QED
  BY <1>1, <1>2, <1>3, OtherIsPlain

\* An added instance leaves the wait list only if it is settled, or the client fails.
Leaves == \A i \in cli.added \ cli'.added : i \in fresh /\ cli'.phase # "failed" => Settled(i)

\* The client asks, and goes on with the answers (cli_commands.rs).
LEMMA RequestKeeps ==
  ASSUME ApplyInv, apply \/ get_workloads \/ update_state \/ update_state_error
  PROVE  ApplyInv' /\ Leaves
<1>1. cli \in CliType /\ missed \in SUBSET Noticed /\ from_server \in Seq(FromServer)
  BY DEF ApplyInv, ClientOK, Noticed
<1>2. CASE apply
  <2>1. Asks
    BY <1>2, Asking DEF apply, Asks, Request
  <2>2. cli.phase = "idle" /\ cli' = [cli EXCEPT !.phase = "before"]
    BY <1>2 DEF apply
  <2>3. cli' \in CliType /\ cli'.phase = "before" /\ cli'.added = cli.added
    BY <1>1, <2>2 DEF CliType, Requesting
  <2>4. Listed' /\ Leaves
    BY <2>2, <2>3 DEF ApplyInv, Listed, Leaves
  <2>5. Reads
    BY <1>1, <1>2 DEF apply, Reads, historyVars
  <2> QED
    BY <2>1, <2>3, <2>4, <2>5, ReadsKeeps
<1>3. CASE get_workloads
  <2>1. Asks
    BY <1>3, Asking DEF get_workloads, Takes, Asks, Request
  <2>2. /\ cli.phase = "before" /\ from_server # <<>> /\ missed' = missed
        /\ Continue([cli EXCEPT !.phase = "update"])
    BY <1>3 DEF get_workloads, Takes
  <2>3. cli' \in CliType /\ cli'.phase = "update" /\ cli'.added = cli.added
    BY <1>1, <2>2 DEF CliType, Requesting, Continue
  <2>4. Listed' /\ Leaves
    BY <2>2, <2>3 DEF ApplyInv, Listed, Leaves
  <2>5. Reads
    BY <1>1, <2>2, FirstForClient DEF Continue, Reads, historyVars
  <2> QED
    BY <2>1, <2>3, <2>4, <2>5, ReadsKeeps
<1>4. CASE update_state
  <2> DEFINE m == Head(from_server)
  <2>1. /\ cli.phase = "update" /\ from_server # <<>> /\ m.kind = "UpdateStateSuccess"
        /\ UNCHANGED <<serverVars, to_agents, connVars, agentVars, budget>>
    BY <1>4 DEF update_state, Takes
  <2>2. cli.added = {} /\ Leaves
    BY <2>1 DEF ApplyInv, Listed, Leaves
  <2>3. CASE m.added \cup m.deleted = {}
    <3>1. End("done") /\ Asks
      BY <1>4, <2>1, <2>3 DEF update_state, Asks
    <3> QED
      BY <2>2, <3>1, EndKeeps
  <2>4. CASE m.added \cup m.deleted # {}
    <3>1. /\ Continue([cli EXCEPT !.phase = "after", !.added = m.added, !.deleted = m.deleted])
          /\ Request(CompleteStateRequest("cli")) /\ missed' = missed
      BY <1>4, <2>4 DEF update_state
    <3>2. Asks
      BY <2>1, <3>1, Asking DEF Asks, Request
    <3>3. m.added \in SUBSET Instance /\ m.deleted \in SUBSET Instance
      BY <2>1, FirstForClient DEF FromServer
    <3>4. cli' \in CliType /\ cli'.phase = "after"
      BY <1>1, <3>1, <3>3, Zenon DEF CliType, Requesting, Continue
    <3>5. Listed'
      BY <3>4 DEF Listed
    <3>6. Reads
      BY <1>1, <2>1, <3>1, FirstForClient DEF Continue, Reads, historyVars
    <3> QED
      BY <2>2, <3>2, <3>4, <3>5, <3>6, ReadsKeeps, SMTT(30)
  <2> QED
    BY <2>3, <2>4
<1>5. CASE update_state_error
  <2>1. Asks /\ End("failed")
    BY <1>5 DEF update_state_error, Takes, Asks
  <2>2. ApplyInv' /\ cli'.phase = "failed"
    BY <2>1, EndKeeps
  <2> QED
    BY <2>2 DEF Leaves
<1> QED
  BY <1>2, <1>3, <1>4, <1>5

\* The client waits, or gives up.
LEMMA ListKeeps ==
  ASSUME ApplyInv,
         \/ wait_for_complete \/ store_unexpected_message
         \/ read_next_update_workload_state \/ run_until_timeout
  PROVE  ApplyInv' /\ Leaves
<1> DEFINE m == Head(from_server)
<1>1. cli \in CliType /\ missed \in SUBSET Noticed
  BY DEF ApplyInv, ClientOK, Noticed
<1>2. CASE wait_for_complete
  <2> DEFINE l == [cli EXCEPT !.agents = m.agents]
  <2>1. /\ cli.phase = "after" /\ from_server # <<>> /\ m.kind = "CompleteState" /\ Asks
        /\ WaitOn(wait_list_update(l, missed))
    BY <1>2 DEF wait_for_complete, Takes, Asks
  <2>2. m.agents \in SUBSET Agent
    BY <2>1, FirstForClient DEF FromServer
  <2>3. l \in CliType /\ l.added = cli.added /\ l.agents = m.agents
    BY <1>1, <2>2 DEF CliType
  <2> HIDE DEF l
  <2>4. ApplyInv' /\ \A i \in cli.added \ cli'.added : i \in fresh => Explained(i, l, missed)
    BY <1>1, <2>1, <2>3, WaitKeeps, ZenonT(30)
  <2> QED
    BY <2>1, <2>3, <2>4 DEF Leaves, Settled, Explained
<1>3. CASE store_unexpected_message
  <2>1. /\ from_server # <<>> /\ m.kind = "UpdateWorkloadState" /\ Asks
        /\ missed' = missed \cup m.states /\ Continue(cli)
    BY <1>3 DEF store_unexpected_message, Takes, Asks
  <2>2. StatesIn({m}) = m.states
    BY <2>1, StatesOf
  <2>3. Reads /\ cli' = cli
    BY <1>1, <2>1, <2>2, FirstForClient, ZenonT(30) DEF Continue, Reads, historyVars
  <2>4. Listed' /\ Leaves
    BY <2>3 DEF ApplyInv, Listed, Leaves
  <2> QED
    BY <1>1, <2>1, <2>3, <2>4, ReadsKeeps, SMTT(30)
<1>4. CASE read_next_update_workload_state
  <2>1. /\ cli.phase = "wait" /\ from_server # <<>> /\ m.kind = "UpdateWorkloadState" /\ Asks
        /\ WaitOn(wait_list_update(cli, m.states))
    BY <1>4 DEF read_next_update_workload_state, Takes, Asks
  <2>2. StatesIn({m}) = m.states
    BY <2>1, StatesOf
  <2>3. m.states \in SUBSET Noticed
    BY <2>1, <2>2, FirstForClient, ZenonT(30)
  <2>4. ApplyInv' /\ \A i \in cli.added \ cli'.added : i \in fresh => Explained(i, cli, m.states)
    BY <1>1, <2>1, <2>3, WaitKeeps
  <2>5. \A i \in cli.added : i.agent \in cli.agents
    BY <2>1 DEF ApplyInv, Listed
  <2> QED
    BY <2>2, <2>4, <2>5 DEF Leaves, Settled, Explained
<1>5. CASE run_until_timeout
  <2>1. Asks /\ End("failed")
    BY <1>5 DEF run_until_timeout, Asks, vars
  <2>2. ApplyInv' /\ cli'.phase = "failed"
    BY <2>1, EndKeeps
  <2> QED
    BY <2>2 DEF Leaves
<1> QED
  BY <1>2, <1>3, <1>4, <1>5

-----------------------------------------------------------------------------
\* At first there is no client, and only startup workloads have a state.
LEMMA ApplyStart == ASSUME ApplyInit PROVE ApplyInv
<1>1. Inv /\ ServerInit /\ ConnInit
  BY Start DEF ApplyInit, Init
<1>2. cli = Idle /\ from_server = <<>> /\ missed = {} /\ fresh = {} /\ told = {}
  BY DEF ApplyInit
<1>3. ClientOK /\ Listed /\ Heard
  BY <1>2 DEF ClientOK, Listed, Heard, Idle, CliType
<1>4. AgentsSay
  <2>1. to_server = <<>> /\ \A c \in Connection : connection[c].from_agent = <<>>
    BY <1>1 DEF ServerInit, ConnInit, Unused
  <2> QED
    BY <2>1, RangeOfFew DEF AgentsSay
<1>5. \A i \in Instance : workload_states_map[i] = "NotScheduled" => i.agent = NoAgent
  <2>1. None # "NotScheduled"
    BY WorkloadAssumption DEF ExecutionState
  <2> QED
    BY <1>1, <2>1 DEF ServerInit, initial_state
<1>6. Noticed = {}
  <2> DEFINE u == UpdateWorkload(rendered_workloads, {})
  <2>1. to_agents = <<>> \/ to_agents = <<u>>
    BY <1>1 DEF ServerInit
  <2>2. StatesIn({u}) = {}
    <3>1. u.kind # "UpdateWorkloadState"
      BY DEF UpdateWorkload
    <3> QED
      BY <3>1, StatesOf
  <2> HIDE DEF u
  <2>3. Range(to_agents) = {} \/ Range(to_agents) = {u}
    BY <2>1, RangeOfFew
  <2>4. Range(from_server) = {}
    BY <1>2, RangeOfFew
  <2>5. StatesIn(Range(from_server) \cup Range(to_agents)) = {}
    BY <2>2, <2>3, <2>4, StatesOf
  <2> QED
    BY <1>2, <2>5, Zenon DEF Noticed
<1> QED
  BY <1>1, <1>3, <1>4, <1>5, <1>6, SMTT(30) DEF ApplyInv, Unscheduled

\* All steps; those of others leave the wait list as it is.
LEMMA ApplySteps == ASSUME ApplyInv, [ApplyNext]_applyVars PROVE ApplyInv' /\ [Leaves]_applyVars
<1>1. CASE apply \/ CliStep \/ run_until_timeout
  BY <1>1, RequestKeeps, ListKeeps DEF CliStep
<1>2. CASE ApplyDistribute
  <2>1. cli' = cli
    BY <1>2 DEF ApplyDistribute
  <2> QED
    BY <1>2, <2>1, ApplyDistributeKeeps DEF Leaves
<1>3. CASE ApplyServerStep
  <2>1. cli' = cli
    BY <1>3 DEF ApplyServerStep, cliVars
  <2>2. ApplyInv'
    BY <1>3, ServerKeeps DEF ApplyInv
  <2> QED
    BY <2>1, <2>2 DEF Leaves
<1>4. CASE ClusterStep
  <2>1. cli' = cli
    BY <1>4 DEF ClusterStep, cliVars
  <2> QED
    BY <1>4, <2>1, ClusterKeeps DEF Leaves
<1>5. CASE UNCHANGED applyVars
  <2>1. UNCHANGED <<vars, cliVars, historyVars>>
    BY <1>5 DEF applyVars
  <2>2. Asks /\ Reads /\ cli' = cli
    BY <2>1 DEF Asks, Reads, vars, cliVars, historyVars, ApplyInv, ClientOK, Noticed
  <2>3. cli' \in CliType /\ Listed'
    BY <2>2 DEF ApplyInv, ClientOK, Listed
  <2> QED
    BY <1>5, <2>2, <2>3, ReadsKeeps
<1> QED
  BY <1>1, <1>2, <1>3, <1>4, <1>5 DEF ApplyNext

\* The client stops waiting for a workload it added only once the workload was
\* reported running after the update, or its agent was not connected or is reported
\* as disconnected (cli_commands.rs, wait_for_complete; wait_list.rs), whatever
\* messages it missed, other clients do and connections and agents fail.
THEOREM DoneIsRunning == ApplySpec => DoneMeansRunning
<1>1. ApplyInit => ApplyInv
  BY ApplyStart
<1>2. ApplyInv /\ [ApplyNext]_applyVars => ApplyInv' /\ [Leaves]_applyVars
  BY ApplySteps
<1>3. ApplySpec => [][Leaves]_applyVars
  BY <1>1, <1>2, PTL DEF ApplySpec
<1> QED
  BY <1>3 DEF DoneMeansRunning, Leaves

\* An agent that takes part is told what the server wants of it, with a client that
\* waits as well as without.
THEOREM AgentsStayInSync == ApplySpec => []InSync
<1>1. ApplyInit => ApplyInv
  BY ApplyStart
<1>2. ApplyInv /\ [ApplyNext]_applyVars => ApplyInv'
  BY ApplySteps
<1>3. ApplyInv => InSync
  <2>1. \A a \in Agent : Synced(a) => Known(a)
    BY DEF Synced, Known
  <2> QED
    BY <2>1 DEF ApplyInv, Inv, OnTheWay, Comes, LastOf, Wanted, InSync
<1> QED
  BY <1>1, <1>2, <1>3, PTL DEF ApplySpec

=============================================================================
