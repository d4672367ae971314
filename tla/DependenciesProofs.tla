------------------------- MODULE DependenciesProofs -------------------------
(***************************************************************************)
(* Proofs about the server's delete graph, and about the states that the   *)
(* server and the agents keep of the workloads.                            *)
(***************************************************************************)
EXTENDS Dependencies, SequenceFacts, FiniteSetTheorems

-----------------------------------------------------------------------------
(* The delete graph *)

\* The graph has the edges of new workloads, and keeps those of the others
\* (delete_graph.rs, insert).
LEMMA InsertCovers ==
  ASSUME NEW G, NEW V, NEW W, NEW n \in Name, Dependants(V, n) \subseteq G[n]
  PROVE  Dependants(W, n) \subseteq insert(G, W \ V)[n]
<1> SUFFICES ASSUME NEW m \in Dependants(W, n) PROVE m \in insert(G, W \ V)[n]
  OBVIOUS
<1>1. PICK w \in W : <<n, "AddCondRunning">> \in w.deps /\ m = w.name
  BY DEF Dependants
<1>2. insert(G, W \ V)[n] = G[n] \cup Dependants(W \ V, n)
  BY DEF insert
<1>3. CASE w \in V
  <2>1. m \in Dependants(V, n)
    BY <1>1, <1>3 DEF Dependants
  <2> QED
    BY <1>2, <2>1
<1>4. CASE w \notin V
  <2>1. m \in Dependants(W \ V, n)
    BY <1>1, <1>4 DEF Dependants
  <2> QED
    BY <1>2, <2>1
<1> QED
  BY <1>3, <1>4

\* The startup manifest is inserted into the graph (AnkaiosServer::start).
LEMMA InitCovers == Init => GraphCovers
<1> SUFFICES ASSUME Init, NEW n \in Name \ forgotten
             PROVE  Dependants(rendered_workloads, n) \subseteq delete_graph[n]
  BY DEF GraphCovers
<1>1. delete_graph = insert([m \in Name |-> {}], rendered_workloads)
  BY DEF Init, ServerInit
<1>2. delete_graph[n] = [m \in Name |-> {}][n] \cup Dependants(rendered_workloads, n)
  BY <1>1 DEF insert
<1> QED
  BY <1>2

\* Only an accepted update changes the desired state, and adds its edges.
LEMMA UpdateStateCovers ==
  ASSUME GraphCovers, HandleUpdateState, forgotten \subseteq forgotten'
  PROVE  GraphCovers'
<1> DEFINE W == generate_new_state(rendered_workloads, Head(to_server).update)
           r == Head(to_server).request
<1>1. CASE W = rendered_workloads
  <2>1. UNCHANGED stateVars
    BY <1>1 DEF HandleUpdateState
  <2> QED
    BY <2>1 DEF GraphCovers, stateVars
<1>2. CASE W # rendered_workloads
  <2>1. AcceptUpdate(r, W)
    BY <1>2 DEF HandleUpdateState
  <2>2. rendered_workloads' = W /\ delete_graph' = insert(delete_graph, W \ rendered_workloads)
    BY <2>1 DEF AcceptUpdate, added_workloads
  <2> HIDE DEF W
  <2>3. ASSUME NEW n \in Name, n \notin forgotten'
        PROVE  Dependants(W, n) \subseteq insert(delete_graph, W \ rendered_workloads)[n]
    <3>1. Dependants(rendered_workloads, n) \subseteq delete_graph[n]
      BY <2>3 DEF GraphCovers
    <3> QED
      BY <3>1, InsertCovers, Zenon
  <2> QED
    BY <2>2, <2>3, SMTT(30) DEF GraphCovers
<1> QED
  BY <1>1, <1>2

\* A Removed takes the edges of its name, which is among the forgotten from then on.
LEMMA UpdateWorkloadStateCovers ==
  ASSUME GraphCovers, HandleUpdateWorkloadState,
         forgotten' = forgotten \cup {i.name : i \in Removals({Head(to_server)})}
  PROVE  GraphCovers'
<1> DEFINE S == Head(to_server).states
<1>1. /\ delete_graph' = remove_deleted_workloads_from_delete_graph(delete_graph, S)
      /\ rendered_workloads' = rendered_workloads
  BY DEF HandleUpdateWorkloadState
<1>2. Removals({Head(to_server)}) = Removed(S)
  BY DEF Removals, HandleUpdateWorkloadState, Receives
<1>3. ASSUME NEW n \in Name, n \notin forgotten'
      PROVE  Dependants(rendered_workloads, n) \subseteq delete_graph'[n]
  <2>1. ~ \E i \in Removed(S) : i.name = n
    BY <1>2, <1>3, Zenon
  <2>2. delete_graph'[n] = delete_graph[n]
    BY <1>1, <2>1 DEF remove_deleted_workloads_from_delete_graph
  <2>3. n \in Name \ forgotten
    BY <1>3
  <2> QED
    BY <2>2, <2>3 DEF GraphCovers
<1> QED
  BY <1>1, <1>3, Zenon DEF GraphCovers

\* The handlers of the server.
LEMMA ServerStepCovers == GraphCovers /\ ServerStep => GraphCovers'
<1> SUFFICES ASSUME GraphCovers, ServerStep PROVE GraphCovers'
  OBVIOUS
<1>1. forgotten' = forgotten \cup {i.name : i \in Removals({Head(to_server)})}
  BY DEF ServerStep
<1>2. CASE HandleUpdateState
  BY <1>1, <1>2, UpdateStateCovers
<1>3. CASE HandleUpdateWorkloadState
  BY <1>1, <1>3, UpdateWorkloadStateCovers
<1>4. CASE HandleAgentHello \/ HandleAgentGone \/ RejectUpdateState \/ HandleCompleteStateRequest
  <2>1. UNCHANGED stateVars
    BY <1>4 DEF HandleAgentHello, HandleAgentGone, RejectUpdateState, HandleCompleteStateRequest, serverVars
  <2> QED
    BY <1>1, <2>1 DEF GraphCovers, stateVars
<1> QED
  BY <1>2, <1>3, <1>4 DEF ServerStep, ServerNext

\* For every set of agents, names and workloads, however updates, reports and the
\* loss of agents come: the delete graph (delete_graph.rs) has every workload that a
\* deletion must await, until a Removed of that name was handled.
THEOREM GraphAlwaysCovers == Spec => []GraphCovers
<1>1. Init => GraphCovers
  BY InitCovers
<1>2. GraphCovers /\ [Next]_vars => GraphCovers'
  <2> SUFFICES ASSUME GraphCovers, [Next]_vars PROVE GraphCovers'
    OBVIOUS
  <2>1. CASE ServerStep
    BY <2>1, ServerStepCovers
  <2>2. ASSUME UNCHANGED <<stateVars, forgotten>> PROVE GraphCovers'
    BY <2>2 DEF GraphCovers, stateVars
  <2>3. CASE Distribute \/ RequestUpdate
    BY <2>2, <2>3, Zenon DEF Distribute, RequestUpdate, serverVars, historyVars
  <2>4. ASSUME NEW a \in Agent, Connect(a) \/ Drop(a) PROVE GraphCovers'
    BY <2>2, <2>4, Zenon DEF Connect, Drop, serverVars, historyVars
  <2>5. ASSUME NEW a \in Agent, AgentTask(a) PROVE GraphCovers'
    BY <2>2, <2>5 DEF AgentTask, execute_from_server_command, store_and_forward_own_workload_states,
       Start, Delete, serverVars, historyVars
  <2>6. CASE UNCHANGED vars
    BY <2>2, <2>6 DEF vars, serverVars, historyVars
  <2> QED
    BY <2>1, <2>3, <2>4, <2>5, <2>6 DEF Next
<1> QED
  BY <1>1, <1>2, PTL DEF Spec

-----------------------------------------------------------------------------
(* What a sequence of messages tells of an instance *)

\* The state that is stored (workload_states_map.rs, process_new_states).
Stored(s) == IF s[2] = "Removed" THEN None ELSE s[2]

\* The states of instance i in a message.
Told(m, i) ==
  IF m.kind = "UpdateWorkloadState" THEN {Stored(s) : s \in {t \in m.states : t[1] = i}} ELSE {}

\* No message in q has a state of i; the last one that has, has v.
Silent(q, i) == \A k \in 1..Len(q) : Told(q[k], i) = {}
Says(q, i, v) ==
  \E k \in 1..Len(q) : v \in Told(q[k], i) /\ \A l \in 1..Len(q) : l > k => Told(q[l], i) = {}

\* Storing the states of a message has one of those it tells as its result, or
\* changes nothing.
LEMMA Stores ==
  ASSUME NEW map, NEW S, NEW i \in Instance, NEW m, m.kind = "UpdateWorkloadState", m.states = S
  PROVE  /\ Told(m, i) # {} => process_new_states(map, S)[i] \in Told(m, i)
         /\ Told(m, i) = {} => process_new_states(map, S)[i] = map[i]
<1> DEFINE p == CHOOSE s \in S : s[1] = i
<1>1. Told(m, i) = {Stored(s) : s \in {t \in S : t[1] = i}}
  BY DEF Told
<1>2. process_new_states(map, S)[i] =
        IF i \in Removed(S) THEN None ELSE IF \E s \in S : s[1] = i THEN p[2] ELSE map[i]
  BY DEF process_new_states
<1>3. (\E s \in S : s[1] = i) => p \in S /\ p[1] = i
  OBVIOUS
<1> HIDE DEF p
<1>4. CASE i \in Removed(S)
  <2>1. PICK s \in S : s[1] = i /\ s[2] = "Removed"
    BY <1>4 DEF Removed
  <2>2. None \in Told(m, i)
    BY <1>1, <2>1 DEF Stored
  <2> QED
    BY <1>2, <1>4, <2>2
<1>5. CASE i \notin Removed(S) /\ \E s \in S : s[1] = i
  <2>1. p[2] # "Removed"
    BY <1>3, <1>5 DEF Removed
  <2>2. p[2] \in Told(m, i)
    BY <1>1, <1>3, <1>5, <2>1 DEF Stored
  <2> QED
    BY <1>2, <1>5, <2>2
<1>6. CASE ~ \E s \in S : s[1] = i
  <2>1. Told(m, i) = {} /\ i \notin Removed(S)
    BY <1>1, <1>6 DEF Removed
  <2> QED
    BY <1>2, <1>6, <2>1
<1> QED
  BY <1>4, <1>5, <1>6

\* Two sequences one after the other.
LEMMA TwoParts ==
  ASSUME NEW M, NEW q \in Seq(M), NEW r \in Seq(M), NEW i
  PROVE  /\ Silent(q \o r, i) <=> Silent(q, i) /\ Silent(r, i)
         /\ \A v : Says(q \o r, i, v) <=> Says(r, i, v) \/ (Silent(r, i) /\ Says(q, i, v))
<1> DEFINE s == q \o r
           Q == 1..Len(q)
           R == 1..Len(r)
<1>1. /\ Len(q) \in Nat /\ Len(r) \in Nat /\ Len(s) = Len(q) + Len(r)
      /\ \A k \in Q : s[k] = q[k]
      /\ \A k \in R : s[Len(q) + k] = r[k]
  OBVIOUS
<1>2. /\ \A k \in Q : k \in 1..Len(s)
      /\ \A k \in R : Len(q) + k \in 1..Len(s)
      /\ \A k \in 1..Len(s) : k \in Q \/ (k > Len(q) /\ k - Len(q) \in R /\ Len(q) + (k - Len(q)) = k)
  BY <1>1
<1> HIDE DEF s
<1>3. Silent(s, i) <=> Silent(q, i) /\ Silent(r, i)
  <2>1. Silent(s, i) => Silent(q, i) /\ Silent(r, i)
    BY <1>1, <1>2, Zenon DEF Silent
  <2>2. ASSUME Silent(q, i), Silent(r, i), NEW k \in 1..Len(s) PROVE Told(s[k], i) = {}
    <3>1. CASE k \in Q
      BY <1>1, <2>2, <3>1, Zenon DEF Silent
    <3>2. CASE k \notin Q
      <4>1. k - Len(q) \in R /\ s[k] = r[k - Len(q)]
        BY <1>1, <1>2, <3>2
      <4> QED
        BY <2>2, <4>1, Zenon DEF Silent
    <3> QED
      BY <3>1, <3>2
  <2> QED
    BY <2>1, <2>2, Zenon DEF Silent
<1>4. ASSUME NEW v, Says(s, i, v) PROVE Says(r, i, v) \/ (Silent(r, i) /\ Says(q, i, v))
  <2>1. PICK k \in 1..Len(s) : v \in Told(s[k], i) /\ \A l \in 1..Len(s) : l > k => Told(s[l], i) = {}
    BY <1>4, Zenon DEF Says
  <2>2. CASE k \in Q
    <3>1. \A l \in R : Len(q) + l > k
      BY <1>1, <2>2
    <3>2. Silent(r, i)
      BY <1>1, <1>2, <2>1, <3>1 DEF Silent
    <3>3. Says(q, i, v)
      BY <1>1, <1>2, <2>1, <2>2 DEF Says
    <3> QED
      BY <3>2, <3>3
  <2>3. CASE k \notin Q
    <3> DEFINE n == k - Len(q)
    <3>1. n \in R /\ Len(q) + n = k
      BY <1>2, <2>3
    <3>2. \A l \in R : l > n => Len(q) + l > k
      BY <1>1, <3>1
    <3> HIDE DEF n
    <3>3. v \in Told(r[n], i)
      BY <1>1, <2>1, <3>1
    <3>4. \A l \in R : l > n => Told(r[l], i) = {}
      BY <1>1, <1>2, <2>1, <3>2
    <3> QED
      BY <3>1, <3>3, <3>4, Zenon DEF Says
  <2> QED
    BY <2>2, <2>3
<1>5. ASSUME NEW v, Says(r, i, v) PROVE Says(s, i, v)
  <2>1. PICK k \in R : v \in Told(r[k], i) /\ \A l \in R : l > k => Told(r[l], i) = {}
    BY <1>5, Zenon DEF Says
  <2>2. Len(q) + k \in 1..Len(s) /\ v \in Told(s[Len(q) + k], i)
    BY <1>1, <1>2, <2>1
  <2>3. ASSUME NEW l \in 1..Len(s), l > Len(q) + k PROVE Told(s[l], i) = {}
    <3>1. l - Len(q) \in R /\ l - Len(q) > k /\ s[l] = r[l - Len(q)]
      <4>1. l \notin Q
        BY <1>1, <2>3
      <4>2. l - Len(q) \in R /\ Len(q) + (l - Len(q)) = l
        BY <1>2, <4>1, Zenon
      <4>3. l - Len(q) > k
        BY ONLY <1>1, <2>3, <4>2
      <4>4. s[Len(q) + (l - Len(q))] = r[l - Len(q)]
        BY <1>1, <4>2, Zenon
      <4> QED
        BY <4>2, <4>3, <4>4, Zenon
    <3> QED
      BY <2>1, <3>1, Zenon
  <2> QED
    BY <2>2, <2>3, Zenon DEF Says
<1>6. ASSUME NEW v, Silent(r, i), Says(q, i, v) PROVE Says(s, i, v)
  <2>1. PICK k \in Q : v \in Told(q[k], i) /\ \A l \in Q : l > k => Told(q[l], i) = {}
    BY <1>6, Zenon DEF Says
  <2>2. k \in 1..Len(s) /\ v \in Told(s[k], i)
    BY <1>1, <1>2, <2>1
  <2>3. ASSUME NEW l \in 1..Len(s), l > k PROVE Told(s[l], i) = {}
    <3>1. CASE l \in Q
      BY <1>1, <2>1, <2>3, <3>1, Zenon
    <3>2. CASE l \notin Q
      <4>1. l - Len(q) \in R /\ s[l] = r[l - Len(q)]
        BY <1>1, <1>2, <3>2
      <4> QED
        BY <1>6, <4>1, Zenon DEF Silent
    <3> QED
      BY <3>1, <3>2
  <2> QED
    BY <2>2, <2>3, Zenon DEF Says
<1> QED
  BY <1>3, <1>4, <1>5, <1>6, Zenon DEF s

\* A single message, and none.
LEMMA OneMessage ==
  ASSUME NEW m, NEW i
  PROVE  /\ Silent(<<m>>, i) <=> Told(m, i) = {}
         /\ \A v : Says(<<m>>, i, v) <=> v \in Told(m, i)
         /\ Silent(<<>>, i) /\ \A v : ~Says(<<>>, i, v)
<1>1. Len(<<m>>) = 1 /\ <<m>>[1] = m /\ 1..1 = {1} /\ Len(<<>>) = 0 /\ 1..0 = {}
  OBVIOUS
<1>2. Silent(<<m>>, i) <=> Told(m, i) = {}
  BY <1>1 DEF Silent
<1>3. ASSUME NEW v PROVE Says(<<m>>, i, v) <=> v \in Told(m, i)
  BY <1>1 DEF Says
<1>4. Silent(<<>>, i) /\ \A v : ~Says(<<>>, i, v)
  BY <1>1 DEF Silent, Says
<1> QED
  BY <1>2, <1>3, <1>4

\* A message of states, if there are any (ankaios_server.rs).
LEMMA MessageOfStates ==
  ASSUME NEW S, NEW i
  PROVE  LET q == StatesMessage(S)
         IN /\ Silent(q, i) <=> \A s \in S : s[1] # i
            /\ \A v : Says(q, i, v) <=> \E s \in S : s[1] = i /\ v = Stored(s)
<1> DEFINE m == UpdateWorkloadState(S)
<1>1. Told(m, i) = {Stored(s) : s \in {t \in S : t[1] = i}}
  BY DEF Told, UpdateWorkloadState
<1> HIDE DEF m
<1>2. CASE S = {}
  <2>1. StatesMessage(S) = <<>>
    BY <1>2 DEF StatesMessage
  <2> QED
    BY <1>2, <2>1, OneMessage, Zenon
<1>3. CASE S # {}
  <2>1. StatesMessage(S) = <<m>>
    BY <1>3 DEF StatesMessage, m
  <2>2. Told(m, i) = {} <=> \A s \in S : s[1] # i
    BY <1>1
  <2>3. \A v : v \in Told(m, i) <=> \E s \in S : s[1] = i /\ v = Stored(s)
    BY <1>1
  <2> QED
    BY <2>1, <2>2, <2>3, OneMessage
<1> QED
  BY <1>2, <1>3

\* Of the messages that tell of an instance one is the last.
LEMMA LastWord ==
  ASSUME NEW M, NEW q \in Seq(M), NEW i, ~Silent(q, i)
  PROVE  \E k \in 1..Len(q) : /\ Told(q[k], i) # {}
                              /\ \A l \in 1..Len(q) : Told(q[l], i) # {} => k >= l
<1> DEFINE T == {Len(q) - k : k \in {l \in 1..Len(q) : Told(q[l], i) # {}}}
<1>0. Len(q) \in Nat
  OBVIOUS
<1>1. T \subseteq Nat /\ T # {}
  <2>1. T \subseteq Nat
    BY <1>0
  <2>2. PICK k \in 1..Len(q) : Told(q[k], i) # {}
    BY Zenon DEF Silent
  <2>3. Len(q) - k \in T
    BY <2>2, Zenon
  <2> QED
    BY <2>1, <2>3, Zenon
<1>2. PICK x \in T : \A y \in T : x <= y
  BY <1>1, Least, Zenon
<1>3. PICK k \in 1..Len(q) : Told(q[k], i) # {} /\ x = Len(q) - k
  BY <1>2, Zenon
<1>4. ASSUME NEW l \in 1..Len(q), Told(q[l], i) # {} PROVE k >= l
  <2>1. Len(q) - l \in T
    BY <1>4, Zenon
  <2>2. Len(q) - k <= Len(q) - l
    BY <1>2, <1>3, <2>1, Zenon
  <2> QED
    BY ONLY <1>0, <2>2, k \in 1..Len(q), l \in 1..Len(q)
<1> QED
  BY <1>3, <1>4, Zenon

\* So q tells a state of i, or none.
LEMMA SaysSomething ==
  ASSUME NEW M, NEW q \in Seq(M), NEW i, ~Silent(q, i)
  PROVE  \E v : Says(q, i, v)
<1>1. PICK k \in 1..Len(q) : /\ Told(q[k], i) # {}
                            /\ \A l \in 1..Len(q) : Told(q[l], i) # {} => k >= l
  BY LastWord, Zenon
<1>2. PICK v : v \in Told(q[k], i)
  BY <1>1
<1>3. \A l \in 1..Len(q) : l > k => Told(q[l], i) = {}
  <2> SUFFICES ASSUME NEW l \in 1..Len(q), l > k, Told(q[l], i) # {} PROVE FALSE
    BY Zenon
  <2>1. k >= l
    BY <1>1, Zenon
  <2> QED
    BY <2>1
<1> QED
  BY <1>2, <1>3, Zenon DEF Says

-----------------------------------------------------------------------------
(* Types *)

OneEach(S) == \A s, t \in S : s[1] = t[1] => s = t

\* Messages to the server, from it, and the parts of these for agent a.
Upward == {m \in ToServer : m.kind = "UpdateWorkloadState" => OneEach(m.states)}
Downward == {m \in FromServer : m.kind = "ServerHello" => \A w \in m.added : w.agent = m.agent}
For(a) ==
  {m \in FromServer : /\ m.kind \in {"ServerHello", "UpdateWorkload"} => \A w \in m.added : w.agent = a
                      /\ m.kind = "UpdateWorkload" => \A d \in m.deleted : d.instance.agent = a}

\* The map of workload states, the delete graph.
StatesMap == [Instance -> ExecutionState \cup {None}]
Graph == [Name -> SUBSET Name]

ServerOK ==
  /\ rendered_workloads \in SUBSET Workload /\ delete_graph \in Graph
  /\ workload_states_map \in StatesMap /\ agent_map \in SUBSET Agent
  /\ to_server \in Seq(Upward) /\ to_agents \in Seq(Downward)

\* Workloads have instance names.
LEMMA InstanceNames ==
  /\ \A w \in Workload : instance_name(w) \in Instance /\ instance_name(w).agent = w.agent /\ w.name \in Name
  /\ \A W \in SUBSET Workload : instance_names(W) \in SUBSET Instance
<1>1. \A w \in Workload : instance_name(w) \in Instance /\ instance_name(w).agent = w.agent /\ w.name \in Name
  BY WorkloadAssumption, Zenon DEF instance_name, Instance
<1> QED
  BY <1>1 DEF instance_names

\* The messages are well formed.
LEMMA MessageTypes ==
  /\ \A a \in Agent : AgentHello(a) \in Upward /\ AgentGone(a) \in Upward
  /\ \A r \in Sender, u \in StateUpdate : UpdateState(r, u) \in Upward
  /\ \A S \in SUBSET WorkloadState : OneEach(S) => UpdateWorkloadState(S) \in Upward
  /\ \A S \in SUBSET WorkloadState : UpdateWorkloadState(S) \in Downward
  /\ \A a \in Agent, W \in SUBSET Workload :
       (\A w \in W : w.agent = a) => ServerHello(a, W) \in Downward /\ ServerHello(a, W) \in For(a)
  /\ \A W \in SUBSET Workload, D \in SUBSET DeletedWorkload : UpdateWorkload(W, D) \in Downward
  /\ \A r \in Sender, I \in SUBSET Instance, J \in SUBSET Instance :
       UpdateStateSuccess(r, I, J) \in Downward
  /\ \A r \in Sender : Error(r) \in Downward
  /\ \A r \in Sender, A \in SUBSET Agent : CompleteState(r, A) \in Downward
<1>1. /\ \A a \in Agent : AgentHello(a) \in Upward /\ AgentGone(a) \in Upward
      /\ \A r \in Sender, u \in StateUpdate : UpdateState(r, u) \in Upward
      /\ \A S \in SUBSET WorkloadState : OneEach(S) => UpdateWorkloadState(S) \in Upward
  BY DEF Upward, ToServer, AgentHello, AgentGone, UpdateState, UpdateWorkloadState
<1>2. /\ \A S \in SUBSET WorkloadState : UpdateWorkloadState(S) \in Downward
      /\ \A a \in Agent, W \in SUBSET Workload :
           (\A w \in W : w.agent = a) => ServerHello(a, W) \in Downward /\ ServerHello(a, W) \in For(a)
  BY Zenon DEF Downward, For, FromServer, UpdateWorkloadState, ServerHello
<1>3. \A W \in SUBSET Workload, D \in SUBSET DeletedWorkload : UpdateWorkload(W, D) \in Downward
  BY DEF Downward, FromServer, UpdateWorkload
<1>4. /\ \A r \in Sender, I \in SUBSET Instance, J \in SUBSET Instance :
           UpdateStateSuccess(r, I, J) \in Downward
      /\ \A r \in Sender : Error(r) \in Downward
      /\ \A r \in Sender, A \in SUBSET Agent : CompleteState(r, A) \in Downward
  BY DEF Downward, FromServer, UpdateStateSuccess, Error, CompleteState
<1> QED
  BY <1>1, <1>2, <1>3, <1>4, Zenon

\* What a message to the server is made of.
LEMMA UpwardParts ==
  ASSUME NEW m \in Upward
  PROVE  /\ m.kind \in {"AgentHello", "AgentGone"} => m.agent \in Agent
         /\ m.kind = "UpdateState" => m.request \in Sender /\ m.update \in StateUpdate \cup {None}
         /\ m.kind = "UpdateWorkloadState" => m.states \in SUBSET WorkloadState /\ OneEach(m.states)
         /\ m.kind = "CompleteStateRequest" => m.request \in Sender
BY DEF Upward, ToServer

\* And one to an agent.
LEMMA DownwardParts ==
  ASSUME NEW m \in FromServer
  PROVE  /\ m.kind = "ServerHello" => m.agent \in Agent /\ m.added \in SUBSET Workload
         /\ m.kind = "UpdateWorkload" =>
              m.added \in SUBSET Workload /\ m.deleted \in SUBSET DeletedWorkload
         /\ m.kind = "UpdateWorkloadState" => m.states \in SUBSET WorkloadState
BY DEF FromServer

\* The server takes one message.
LEMMA Received ==
  ASSUME ServerOK, NEW kind, Receives(kind)
  PROVE  Head(to_server) \in Upward /\ Head(to_server).kind = kind /\ to_server' \in Seq(Upward)
BY DEF ServerOK, Receives

\* What the operations on the map return (workload_states_map.rs).
LEMMA MapTypes ==
  ASSUME NEW map \in StatesMap
  PROVE  /\ \A a : agent_disconnected(map, a) \in StatesMap
         /\ \A W : initial_state(map, W) \in StatesMap
         /\ \A I : remove(map, I) \in StatesMap
         /\ \A S \in SUBSET WorkloadState : process_new_states(map, S) \in StatesMap
         /\ \A I \in SUBSET Instance : Entries(map, I) \in SUBSET WorkloadState
<1>1. ASSUME NEW a PROVE agent_disconnected(map, a) \in StatesMap
  BY DEF agent_disconnected, StatesMap, ExecutionState
<1>2. ASSUME NEW W PROVE initial_state(map, W) \in StatesMap
  BY DEF initial_state, StatesMap, ExecutionState
<1>3. ASSUME NEW I PROVE remove(map, I) \in StatesMap
  BY DEF remove, StatesMap
<1>4. ASSUME NEW S \in SUBSET WorkloadState PROVE process_new_states(map, S) \in StatesMap
  <2> DEFINE m == UpdateWorkloadState(S)
             new == process_new_states(map, S)
  <2>1. m.kind = "UpdateWorkloadState" /\ m.states = S
    BY DEF UpdateWorkloadState
  <2>2. \A i \in Instance : Told(m, i) \subseteq ExecutionState \cup {None}
    BY <2>1 DEF Told, Stored, WorkloadState
  <2> HIDE DEF m
  <2>3. \A i \in Instance : new[i] \in ExecutionState \cup {None}
    <3> SUFFICES ASSUME NEW i \in Instance PROVE new[i] \in ExecutionState \cup {None}
      OBVIOUS
    <3>1. /\ Told(m, i) # {} => new[i] \in Told(m, i)
          /\ Told(m, i) = {} => new[i] = map[i]
      BY <2>1, Stores
    <3> HIDE DEF new
    <3> QED
      BY <2>2, <3>1 DEF StatesMap
  <2>4. new = [i \in Instance |-> new[i]]
    BY DEF process_new_states
  <2> HIDE DEF new
  <2> QED
    BY <2>3, <2>4 DEF StatesMap, new
<1>5. ASSUME NEW I \in SUBSET Instance PROVE Entries(map, I) \in SUBSET WorkloadState
  BY WorkloadAssumption DEF Entries, StatesMap, WorkloadState
<1> QED
  BY <1>1, <1>2, <1>3, <1>4, <1>5

\* And those on the graph (delete_graph.rs).
LEMMA GraphTypes ==
  ASSUME NEW graph \in Graph
  PROVE  /\ \A W \in SUBSET Workload : insert(graph, W) \in Graph
         /\ \A W \in SUBSET Workload : apply_delete_conditions_to(graph, W) \in SUBSET DeletedWorkload
         /\ \A S : remove_deleted_workloads_from_delete_graph(graph, S) \in Graph
<1>1. ASSUME NEW W \in SUBSET Workload PROVE insert(graph, W) \in Graph
  BY InstanceNames DEF insert, Dependants, Graph
<1>2. ASSUME NEW W \in SUBSET Workload
      PROVE  apply_delete_conditions_to(graph, W) \in SUBSET DeletedWorkload
  BY InstanceNames DEF apply_delete_conditions_to, Graph, DeletedWorkload
<1>3. ASSUME NEW S PROVE remove_deleted_workloads_from_delete_graph(graph, S) \in Graph
  BY DEF remove_deleted_workloads_from_delete_graph, Graph
<1> QED
  BY <1>1, <1>2, <1>3

-----------------------------------------------------------------------------
(* What the server tells of its map *)

\* The messages p tell the states that the server has from now on, and if they tell
\* nothing of an instance, then its state is as before, or an initial one.
Tell(p) ==
  \A i \in Instance :
    /\ \A v : Says(p, i, v) => v = workload_states_map'[i]
    /\ Silent(p, i) => \/ workload_states_map'[i] = workload_states_map[i]
                       \/ /\ workload_states_map[i] = None
                          /\ workload_states_map'[i] \in {"Initial", "NotScheduled"}

\* The server knows the agent, and has answered its hello.
Answered(a) == a \in agent_map /\ AgentHello(a) \notin Range(to_server)

\* A hello of agent a is answered with all states of others.
Answers(p) ==
  \A a \in Agent : Answered(a)' /\ ~Answered(a) =>
    \A i \in Instance : i.agent # a /\ Silent(p, i) => workload_states_map[i] = None

Effect == \E p \in Seq(Downward) : to_agents' = to_agents \o p /\ Tell(p) /\ Answers(p)

\* The messages of a sequence, and of its first one and the others.
LEMMA HeadAndTail ==
  ASSUME NEW M, NEW q \in Seq(M), q # <<>>
  PROVE  /\ Head(q) \in M /\ Tail(q) \in Seq(M) /\ q = <<Head(q)>> \o Tail(q)
         /\ Range(q) = {Head(q)} \cup Range(Tail(q))
<1>1. /\ Len(q) \in Nat /\ Len(q) # 0 /\ Head(q) = q[1] /\ Head(q) \in M /\ Tail(q) \in Seq(M)
      /\ Len(Tail(q)) = Len(q) - 1 /\ \A k \in 1..Len(q) - 1 : Tail(q)[k] = q[k + 1]
  OBVIOUS
<1>2. q = <<Head(q)>> \o Tail(q)
  OBVIOUS
<1>3. DOMAIN q = 1..Len(q) /\ DOMAIN Tail(q) = 1..Len(q) - 1
  BY <1>1
<1> DEFINE t == Tail(q)
<1> HIDE DEF t
<1>4. ASSUME NEW m \in Range(q) PROVE m \in {Head(q)} \cup Range(t)
  <2>1. PICK k \in 1..Len(q) : m = q[k]
    BY <1>3, <1>4 DEF Range
  <2>2. CASE k = 1
    BY <1>1, <2>1, <2>2
  <2>3. CASE k # 1
    <3>1. k - 1 \in 1..Len(q) - 1 /\ (k - 1) + 1 = k
      BY <1>1, <2>3
    <3>2. m = t[k - 1]
      BY <1>1, <2>1, <3>1 DEF t
    <3> QED
      BY <1>3, <3>1, <3>2, Zenon DEF Range, t
  <2> QED
    BY <2>2, <2>3
<1>5. ASSUME NEW m \in {Head(q)} \cup Range(t) PROVE m \in Range(q)
  <2>1. CASE m = Head(q)
    <3>1. 1 \in 1..Len(q)
      BY <1>1
    <3> QED
      BY <1>1, <1>3, <2>1, <3>1 DEF Range
  <2>2. CASE m \in Range(t)
    <3>1. PICK k \in 1..Len(q) - 1 : m = t[k]
      BY <1>3, <2>2 DEF Range, t
    <3>2. k + 1 \in 1..Len(q) /\ m = q[k + 1]
      BY <1>1, <3>1 DEF t
    <3> QED
      BY <1>3, <3>2 DEF Range
  <2> QED
    BY <1>5, <2>1, <2>2
<1> QED
  BY <1>1, <1>2, <1>4, <1>5 DEF t

\* Only a hello that is handled makes an agent one with an answered hello.
LEMMA OnlyHelloAnswers ==
  ASSUME ServerOK, NEW kind, Receives(kind), kind # "AgentHello", agent_map' \subseteq agent_map
  PROVE  \A a \in Agent : Answered(a)' => Answered(a)
<1> SUFFICES ASSUME NEW a \in Agent, Answered(a)' PROVE Answered(a)
  OBVIOUS
<1>1. to_server \in Seq(Upward) /\ to_server # <<>> /\ to_server' = Tail(to_server) /\ Head(to_server).kind = kind
  BY DEF ServerOK, Receives
<1>2. AgentHello(a).kind = "AgentHello"
  BY DEF AgentHello
<1>3. Range(to_server) = {Head(to_server)} \cup Range(to_server')
  BY <1>1, HeadAndTail, Zenon
<1> QED
  BY <1>1, <1>2, <1>3, Zenon DEF Answered

\* A message without states.
LEMMA QuietEffect ==
  ASSUME NEW m \in Downward, to_agents' = Append(to_agents, m), m.kind # "UpdateWorkloadState",
         workload_states_map' = workload_states_map, ServerOK, \A a \in Agent : Answered(a)' => Answered(a)
  PROVE  Effect
<1>1. to_agents' = to_agents \o <<m>> /\ <<m>> \in Seq(Downward)
  BY DEF ServerOK
<1>2. \A i : Told(m, i) = {}
  BY DEF Told
<1>3. Tell(<<m>>)
  BY <1>2, OneMessage DEF Tell
<1>4. Answers(<<m>>)
  BY DEF Answers
<1> QED
  BY <1>1, <1>3, <1>4, Zenon DEF Effect

\* A message of states that become, or are, the server's.
LEMMA StatesEffect ==
  ASSUME NEW S \in SUBSET WorkloadState, to_agents' = Append(to_agents, UpdateWorkloadState(S)),
         ServerOK, \A a \in Agent : Answered(a)' => Answered(a),
         \A i \in Instance : \A s \in S : s[1] = i => workload_states_map'[i] = Stored(s),
         \A i \in Instance : (\A s \in S : s[1] # i) => workload_states_map'[i] = workload_states_map[i]
  PROVE  Effect
<1> DEFINE m == UpdateWorkloadState(S)
<1>1. m \in Downward
  BY MessageTypes, Zenon
<1>2. \A i : Told(m, i) = {Stored(s) : s \in {t \in S : t[1] = i}}
  BY DEF Told, UpdateWorkloadState
<1> HIDE DEF m
<1>3. to_agents' = to_agents \o <<m>> /\ <<m>> \in Seq(Downward)
  BY <1>1 DEF ServerOK, m
<1>4. Tell(<<m>>)
  <2> SUFFICES ASSUME NEW i \in Instance
               PROVE  /\ \A v : Says(<<m>>, i, v) => v = workload_states_map'[i]
                      /\ Silent(<<m>>, i) => workload_states_map'[i] = workload_states_map[i]
    BY Zenon DEF Tell
  <2>1. \A v \in Told(m, i) : v = workload_states_map'[i]
    BY <1>2
  <2>2. Told(m, i) = {} => workload_states_map'[i] = workload_states_map[i]
    <3>1. ASSUME NEW s \in S, s[1] = i PROVE Stored(s) \in Told(m, i)
      BY <1>2, <3>1
    <3> QED
      BY <3>1, Zenon
  <2> QED
    BY <2>1, <2>2, OneMessage
<1>5. Answers(<<m>>)
  BY DEF Answers
<1> QED
  BY <1>3, <1>4, <1>5, Zenon DEF Effect

\* HandleUpdateWorkloadState: what an agent reports goes to the others as it is.
LEMMA ReportStep ==
  ASSUME ServerOK, HandleUpdateWorkloadState
  PROVE  ServerOK' /\ Effect
<1> DEFINE S == Head(to_server).states
           m == UpdateWorkloadState(S)
           map == workload_states_map
<1>1. S \in SUBSET WorkloadState /\ OneEach(S) /\ to_server' \in Seq(Upward)
  BY Received, UpwardParts, Zenon DEF HandleUpdateWorkloadState
<1>2. /\ map' = process_new_states(map, S) /\ to_agents' = Append(to_agents, m)
      /\ UNCHANGED <<rendered_workloads, agent_map>>
      /\ delete_graph' = remove_deleted_workloads_from_delete_graph(delete_graph, S)
  BY Zenon DEF HandleUpdateWorkloadState
<1>3. m \in Downward
  BY <1>1, MessageTypes, Zenon
<1>4. map \in StatesMap /\ delete_graph \in Graph /\ to_agents \in Seq(Downward)
  BY Zenon DEF ServerOK
<1>5. \A a \in Agent : Answered(a)' => Answered(a)
  <2>1. Receives("UpdateWorkloadState") /\ agent_map' \subseteq agent_map
    BY <1>2, Zenon DEF HandleUpdateWorkloadState
  <2> QED
    BY <2>1, OnlyHelloAnswers
<1>6. m.kind = "UpdateWorkloadState" /\ m.states = S
  BY DEF UpdateWorkloadState
<1> HIDE DEF S
<1>7. ServerOK'
  <2>1. map' \in StatesMap /\ delete_graph' \in Graph
    BY <1>1, <1>2, <1>4, MapTypes, GraphTypes, Zenon
  <2>2. to_agents' \in Seq(Downward)
    <3> HIDE DEF m
    <3> QED
      BY <1>2, <1>3, <1>4
  <2> QED
    BY <1>1, <1>2, <2>1, <2>2, Zenon DEF ServerOK
<1>8. ASSUME NEW i \in Instance
      PROVE  /\ \A s \in S : s[1] = i => map'[i] = Stored(s)
             /\ (\A s \in S : s[1] # i) => map'[i] = map[i]
  <2>1. Told(m, i) = {Stored(s) : s \in {t \in S : t[1] = i}}
    BY <1>6 DEF Told
  <2>2. /\ Told(m, i) # {} => map'[i] \in Told(m, i)
        /\ Told(m, i) = {} => map'[i] = map[i]
    <3> HIDE DEF m
    <3> QED
      BY <1>2, <1>6, Stores
  <2> HIDE DEF m
  <2>3. (\A s \in S : s[1] # i) => map'[i] = map[i]
    BY <2>1, <2>2
  <2>4. ASSUME NEW s \in S, s[1] = i PROVE map'[i] = Stored(s)
    <3>1. Stored(s) \in Told(m, i)
      BY <2>1, <2>4
    <3>2. PICK t \in S : t[1] = i /\ map'[i] = Stored(t)
      BY <2>1, <2>2, <3>1
    <3>3. t = s
      BY <1>1, <2>4, <3>2, Zenon DEF OneEach
    <3> QED
      BY <3>2, <3>3
  <2> QED
    BY <2>3, <2>4
<1>9. Effect
  BY <1>1, <1>2, <1>5, <1>8, StatesEffect
<1> QED
  BY <1>7, <1>9

\* The entries of the map are the states it has.
LEMMA EntriesTell ==
  ASSUME NEW map \in StatesMap, NEW I \in SUBSET Instance, NEW i \in Instance
  PROVE  /\ \A s \in Entries(map, I) : s[1] = i => map[i] = Stored(s)
         /\ i \in I /\ (\A s \in Entries(map, I) : s[1] # i) => map[i] = None
         /\ i \notin I => \A s \in Entries(map, I) : s[1] # i
<1>1. map[i] # "Removed"
  BY DependenciesAssumption DEF StatesMap, ExecutionState
<1> DEFINE J == {j \in I : map[j] # None}
           E == {<<j, map[j]>> : j \in J}
<1>2. ASSUME NEW s \in E PROVE \E j \in J : s[1] = j /\ s[2] = map[j]
  BY <1>2
<1>3. ASSUME NEW j \in J PROVE <<j, map[j]>> \in E /\ <<j, map[j]>>[1] = j
  BY <1>3
<1>4. Entries(map, I) = E
  BY Zenon DEF Entries
<1> HIDE DEF E
<1>5. ASSUME NEW s \in E, s[1] = i PROVE map[i] = Stored(s) /\ i \in I
  BY <1>1, <1>2, <1>5 DEF Stored
<1>6. ASSUME i \in I, \A s \in E : s[1] # i PROVE map[i] = None
  BY <1>3, <1>6, Zenon
<1> QED
  BY <1>4, <1>5, <1>6, Zenon

\* HandleAgentGone: the states of the agent's workloads change, and the others are
\* told.
LEMMA GoneStep ==
  ASSUME ServerOK, HandleAgentGone
  PROVE  ServerOK' /\ Effect
<1> DEFINE h == Head(to_server).agent
           map == workload_states_map
           I == {i \in Instance : i.agent = h}
           S == Entries(map', I)
<1>1. h \in Agent /\ to_server' \in Seq(Upward)
  BY Received, UpwardParts, Zenon DEF HandleAgentGone
<1>2. /\ agent_map' = agent_map \ {h} /\ UNCHANGED stateVars
      /\ map' = agent_disconnected(map, h) /\ to_agents' = Append(to_agents, UpdateWorkloadState(S))
  BY Zenon DEF HandleAgentGone, get_workload_state_for_agent
<1>3. map \in StatesMap /\ to_agents \in Seq(Downward)
  BY Zenon DEF ServerOK
<1>4. map' \in StatesMap
  BY <1>2, <1>3, MapTypes, Zenon
<1>5. S \in SUBSET WorkloadState
  BY <1>4, MapTypes
<1>6. \A a \in Agent : Answered(a)' => Answered(a)
  <2>1. Receives("AgentGone") /\ agent_map' \subseteq agent_map
    BY <1>2, Zenon DEF HandleAgentGone
  <2> QED
    BY <2>1, OnlyHelloAnswers
<1>7. ASSUME NEW i \in Instance
      PROVE  /\ \A s \in S : s[1] = i => map'[i] = Stored(s)
             /\ (\A s \in S : s[1] # i) => map'[i] = map[i]
  <2>1. /\ \A s \in S : s[1] = i => map'[i] = Stored(s)
        /\ i \in I /\ (\A s \in S : s[1] # i) => map'[i] = None
    BY <1>4, EntriesTell, ZenonT(30)
  <2>2. map'[i] = IF i.agent = h /\ map[i] # None THEN "AgentDisconnected" ELSE map[i]
    BY <1>2 DEF agent_disconnected
  <2>3. "AgentDisconnected" # None
    BY WorkloadAssumption DEF ExecutionState
  <2> HIDE DEF S, h
  <2> QED
    BY <2>1, <2>2, <2>3
<1> HIDE DEF S, h
<1>8. Effect
  BY <1>2, <1>5, <1>6, <1>7, StatesEffect
<1>9. to_agents' \in Seq(Downward)
  <2>1. UpdateWorkloadState(S) \in Downward
    BY <1>5, MessageTypes, Zenon
  <2> QED
    BY <1>2, <1>3, <2>1
<1>10. ServerOK'
  BY <1>1, <1>2, <1>4, <1>9 DEF ServerOK, stateVars
<1> QED
  BY <1>8, <1>10

\* HandleAgentHello: the states of the workloads of other agents are told.
LEMMA HelloStep ==
  ASSUME ServerOK, HandleAgentHello
  PROVE  ServerOK' /\ Effect
<1> DEFINE h == Head(to_server).agent
           map == workload_states_map
           I == {i \in Instance : i.agent # h}
           S == Entries(map, I)
           W == get_workloads_for_agent(rendered_workloads, h)
           q == StatesMessage(S)
           m == ServerHello(h, W)
<1>1. h \in Agent /\ to_server' \in Seq(Upward)
  BY Received, UpwardParts, Zenon DEF HandleAgentHello
<1>2. /\ agent_map' = agent_map \cup {h} /\ UNCHANGED <<stateVars, map>>
      /\ to_agents' = (to_agents \o q) \o <<m>>
  BY Zenon DEF HandleAgentHello, get_workload_state_excluding_agent
<1>3. map \in StatesMap /\ to_agents \in Seq(Downward)
  BY Zenon DEF ServerOK
<1>4. S \in SUBSET WorkloadState
  BY <1>3, MapTypes
<1>5. q \in Seq(Downward)
  <2> HIDE DEF S
  <2>1. UpdateWorkloadState(S) \in Downward
    BY <1>4, MessageTypes, Zenon
  <2> QED
    BY <2>1 DEF StatesMessage
<1>6. m \in Downward /\ m.kind = "ServerHello"
  <2>1. W \in SUBSET Workload /\ \A w \in W : w.agent = h
    BY DEF ServerOK, get_workloads_for_agent
  <2>2. m.kind = "ServerHello"
    BY DEF ServerHello
  <2> HIDE DEF W
  <2> QED
    BY <1>1, <2>1, <2>2, MessageTypes, Zenon
<1>7. \A i \in Instance : /\ \A s \in S : s[1] = i => map[i] = Stored(s)
                          /\ i.agent # h /\ (\A s \in S : s[1] # i) => map[i] = None
  <2> SUFFICES ASSUME NEW i \in Instance
               PROVE  /\ \A s \in S : s[1] = i => map[i] = Stored(s)
                      /\ i.agent # h /\ (\A s \in S : s[1] # i) => map[i] = None
    OBVIOUS
  <2>1. /\ \A s \in S : s[1] = i => map[i] = Stored(s)
        /\ i \in I /\ (\A s \in S : s[1] # i) => map[i] = None
    BY <1>3, EntriesTell, ZenonT(30)
  <2> QED
    BY <2>1
<1> DEFINE p == q \o <<m>>
<1> HIDE DEF S, q, m
<1>8. p \in Seq(Downward) /\ to_agents' = to_agents \o p /\ to_agents' \in Seq(Downward)
  BY <1>2, <1>3, <1>5, <1>6
<1>9. \A i : Told(m, i) = {}
  BY <1>6 DEF Told
<1>10. ASSUME NEW i PROVE /\ Silent(p, i) => \A s \in S : s[1] # i
                          /\ \A v : Says(p, i, v) => \E s \in S : s[1] = i /\ v = Stored(s)
  <2>1. Silent(<<m>>, i) /\ \A v : ~Says(<<m>>, i, v)
    BY <1>9, OneMessage
  <2>2. <<m>> \in Seq(Downward)
    BY <1>6
  <2>3. /\ Silent(p, i) => Silent(q, i)
        /\ \A v : Says(p, i, v) => Says(q, i, v)
    BY <1>5, <2>1, <2>2, TwoParts, Zenon
  <2> QED
    BY <2>3, MessageOfStates, Zenon DEF q
<1> HIDE DEF p
<1>11. Tell(p)
  BY <1>2, <1>7, <1>10, ZenonT(30) DEF Tell
<1>12. Answers(p)
  <2>1. ASSUME NEW a \in Agent, a # h, Answered(a)' PROVE Answered(a)
    <3>1. a \in agent_map
      BY <1>2, <2>1 DEF Answered
    <3>2. AgentHello(a) # Head(to_server)
      BY <2>1 DEF AgentHello, h
    <3>3. Range(to_server) = {Head(to_server)} \cup Range(to_server')
      BY HeadAndTail, Zenon DEF ServerOK, HandleAgentHello, Receives
    <3> QED
      BY <2>1, <3>1, <3>2, <3>3 DEF Answered
  <2> QED
    BY <1>7, <1>10, <2>1 DEF Answers
<1>13. Effect
  BY <1>8, <1>11, <1>12, Zenon DEF Effect
<1>14. ServerOK'
  BY <1>1, <1>2, <1>8 DEF ServerOK, stateVars
<1> QED
  BY <1>13, <1>14

\* HandleUpdateState: new workloads have an initial state, which is not told; those
\* that go without an agent are told as removed.
LEMMA UpdateStep ==
  ASSUME ServerOK, HandleUpdateState
  PROVE  ServerOK' /\ Effect
<1> DEFINE r == Head(to_server).request
           u == Head(to_server).update
           R == rendered_workloads
           W == generate_new_state(R, u)
           map == workload_states_map
<1>1. R \in SUBSET Workload /\ map \in StatesMap /\ delete_graph \in Graph /\ to_agents \in Seq(Downward)
  BY Zenon DEF ServerOK
<1>2. r \in Sender /\ u \in StateUpdate /\ to_server' \in Seq(Upward) /\ agent_map' = agent_map
  BY Received, UpwardParts, Zenon DEF HandleUpdateState
<1>3. W \in SUBSET Workload
  <2>1. u.new \in SUBSET Workload
    BY <1>2 DEF StateUpdate
  <2> HIDE DEF u
  <2> QED
    BY <1>1, <2>1 DEF generate_new_state
<1>4. \A a \in Agent : Answered(a)' => Answered(a)
  <2>1. Receives("UpdateState") /\ agent_map' \subseteq agent_map
    BY <1>2, Zenon DEF HandleUpdateState
  <2> QED
    BY <2>1, OnlyHelloAnswers
<1>5. CASE W = R
  <2> DEFINE m == UpdateStateSuccess(r, {}, {})
  <2>1. to_agents' = Append(to_agents, m) /\ UNCHANGED <<stateVars, map>>
    BY <1>5 DEF HandleUpdateState
  <2>2. m \in Downward /\ m.kind # "UpdateWorkloadState"
    BY <1>2, MessageTypes, Zenon DEF UpdateStateSuccess
  <2> HIDE DEF m, r, W
  <2>3. Effect
    BY <1>4, <2>1, <2>2, QuietEffect
  <2>4. to_agents' \in Seq(Downward)
    BY <1>1, <2>1, <2>2
  <2> QED
    BY <1>2, <2>1, <2>3, <2>4 DEF ServerOK, stateVars
<1>6. CASE W # R
  <2> DEFINE added == W \ R
             new == initial_state(map, added)
             unstarted == {w \in R \ W : never_started(w, new)}
             I == instance_names(unstarted)
             S == {<<i, "Removed">> : i \in I}
             q == StatesMessage(S)
             deleted == (R \ W) \ unstarted
             m == UpdateWorkload(added, apply_delete_conditions_to(delete_graph', deleted))
             n == UpdateStateSuccess(r, instance_names(added), instance_names(R \ W))
             p == q \o <<m, n>>
  <2>1. /\ rendered_workloads' = W /\ delete_graph' = insert(delete_graph, added)
        /\ map' = remove(new, I) /\ to_agents' = (to_agents \o q) \o <<m, n>>
    BY <1>6, Zenon DEF HandleUpdateState, AcceptUpdate, added_workloads, deleted_workloads
  <2>2. map' \in StatesMap
    BY <1>1, <2>1, MapTypes, Zenon
  <2>3. \A i \in Instance : \/ new[i] = map[i]
                            \/ map[i] = None /\ new[i] \in {"Initial", "NotScheduled"}
    BY DEF initial_state
  <2> HIDE DEF new, W
  <2>4. added \in SUBSET Workload /\ unstarted \in SUBSET Workload /\ deleted \in SUBSET Workload
    BY <1>1, <1>3
  <2>5. S \in SUBSET WorkloadState
    <3>1. I \in SUBSET Instance
      BY <2>4, InstanceNames, Zenon
    <3>2. \A i \in Instance : <<i, "Removed">> \in WorkloadState
      BY DEF WorkloadState
    <3> HIDE DEF I
    <3> QED
      BY <3>1, <3>2
  <2>6. delete_graph' \in Graph
    BY <1>1, <2>1, <2>4, GraphTypes
  <2>7. m \in Downward /\ m.kind = "UpdateWorkload"
    <3>1. apply_delete_conditions_to(delete_graph', deleted) \in SUBSET DeletedWorkload
      BY <2>4, <2>6, GraphTypes, Zenon
    <3>2. m.kind = "UpdateWorkload"
      BY DEF UpdateWorkload
    <3> QED
      BY <2>4, <3>1, <3>2, MessageTypes, Zenon
  <2>8. n \in Downward /\ n.kind = "UpdateStateSuccess"
    <3>1. instance_names(added) \in SUBSET Instance /\ instance_names(R \ W) \in SUBSET Instance
      BY <1>1, <2>4, InstanceNames
    <3>2. n.kind = "UpdateStateSuccess"
      BY DEF UpdateStateSuccess
    <3> QED
      BY <1>2, <3>1, <3>2, MessageTypes, Zenon
  <2>9. q \in Seq(Downward)
    <3> HIDE DEF S
    <3>1. UpdateWorkloadState(S) \in Downward
      BY <2>5, MessageTypes, Zenon
    <3> QED
      BY <3>1 DEF StatesMessage
  <2>10. ASSUME NEW i PROVE /\ Silent(q, i) => i \notin I
                            /\ \A v : Says(q, i, v) => i \in I /\ v = None
    <3> HIDE DEF I
    <3>1. i \in I => <<i, "Removed">> \in S /\ <<i, "Removed">>[1] = i
      OBVIOUS
    <3>2. \A s \in S : s[1] \in I /\ Stored(s) = None
      BY DEF Stored
    <3> HIDE DEF S
    <3>3. /\ Silent(q, i) <=> \A s \in S : s[1] # i
          /\ \A v : Says(q, i, v) <=> \E s \in S : s[1] = i /\ v = Stored(s)
      BY MessageOfStates, Zenon
    <3> QED
      BY <3>1, <3>2, <3>3
  <2>11. \A i \in Instance : map'[i] = IF i \in I THEN None ELSE new[i]
    BY <2>1 DEF remove
  <2> HIDE DEF q, m, n, I
  <2> DEFINE z == <<m, n>>
  <2>12. z \in Seq(Downward) /\ Len(z) = 2 /\ z[1] = m /\ z[2] = n
    BY <2>7, <2>8
  <2>13. p \in Seq(Downward) /\ to_agents' = to_agents \o p /\ to_agents' \in Seq(Downward)
    <3>1. p = q \o z /\ to_agents' = (to_agents \o q) \o z
      BY <2>1
    <3> HIDE DEF p, z
    <3> QED
      BY <1>1, <2>9, <2>12, <3>1
  <2>14. ASSUME NEW i PROVE /\ Silent(p, i) => Silent(q, i)
                            /\ \A v : Says(p, i, v) => Says(q, i, v)
    <3>1. Told(m, i) = {} /\ Told(n, i) = {}
      BY <2>7, <2>8 DEF Told
    <3> HIDE DEF z
    <3>2. \A k \in 1..Len(z) : Told(z[k], i) = {}
      BY <2>12, <3>1
    <3>3. Silent(z, i) /\ \A v : ~Says(z, i, v)
      BY <3>2, Zenon DEF Silent, Says
    <3>4. p = q \o z
      BY DEF z
    <3> HIDE DEF p
    <3> QED
      BY <2>9, <2>12, <3>3, <3>4, TwoParts
  <2> HIDE DEF p
  <2>15. Tell(p)
    <3> SUFFICES ASSUME NEW i \in Instance
                 PROVE  /\ \A v : Says(p, i, v) => v = map'[i]
                        /\ Silent(p, i) => \/ map'[i] = map[i]
                                           \/ map[i] = None /\ map'[i] \in {"Initial", "NotScheduled"}
      BY Zenon DEF Tell
    <3> QED
      BY <2>3, <2>10, <2>11, <2>14
  <2>16. Answers(p)
    BY <1>4, Zenon DEF Answers
  <2>17. Effect
    BY <2>13, <2>15, <2>16, Zenon DEF Effect
  <2>18. ServerOK'
    BY <1>2, <1>3, <2>1, <2>2, <2>6, <2>13, Zenon DEF ServerOK
  <2> QED
    BY <2>17, <2>18
<1> QED
  BY <1>5, <1>6

\* Every handler.
LEMMA ServerEffect ==
  ASSUME ServerOK, ServerNext
  PROVE  ServerOK' /\ Effect
<1>1. CASE HandleAgentHello \/ HandleAgentGone \/ HandleUpdateState \/ HandleUpdateWorkloadState
  BY <1>1, HelloStep, GoneStep, UpdateStep, ReportStep
<1>2. CASE RejectUpdateState
  <2> DEFINE m == Error(Head(to_server).request)
  <2>1. Head(to_server).request \in Sender /\ to_server' \in Seq(Upward)
    BY <1>2, Received, UpwardParts, Zenon DEF RejectUpdateState
  <2>2. m \in Downward /\ m.kind # "UpdateWorkloadState"
    BY <2>1, MessageTypes, Zenon DEF Error
  <2>3. to_agents' = Append(to_agents, m) /\ UNCHANGED serverVars /\ Receives("UpdateState")
    BY <1>2, Zenon DEF RejectUpdateState
  <2> HIDE DEF m
  <2>4. /\ agent_map' \subseteq agent_map /\ workload_states_map' = workload_states_map
        /\ to_agents' \in Seq(Downward)
    BY <2>2, <2>3 DEF serverVars, ServerOK
  <2>5. \A a \in Agent : Answered(a)' => Answered(a)
    BY <2>3, <2>4, OnlyHelloAnswers
  <2>6. Effect
    BY <2>2, <2>3, <2>4, <2>5, QuietEffect
  <2> QED
    BY <2>1, <2>3, <2>4, <2>6 DEF ServerOK, stateVars, serverVars
<1>3. CASE HandleCompleteStateRequest
  <2> DEFINE m == CompleteState(Head(to_server).request, agent_map)
  <2>1. Head(to_server).request \in Sender /\ to_server' \in Seq(Upward)
    BY <1>3, Received, UpwardParts, Zenon DEF HandleCompleteStateRequest
  <2>2. m \in Downward /\ m.kind # "UpdateWorkloadState"
    BY <2>1, MessageTypes, Zenon DEF CompleteState, ServerOK
  <2>3. to_agents' = Append(to_agents, m) /\ UNCHANGED serverVars /\ Receives("CompleteStateRequest")
    BY <1>3, Zenon DEF HandleCompleteStateRequest
  <2> HIDE DEF m
  <2>4. /\ agent_map' \subseteq agent_map /\ workload_states_map' = workload_states_map
        /\ to_agents' \in Seq(Downward)
    BY <2>2, <2>3 DEF serverVars, ServerOK
  <2>5. \A a \in Agent : Answered(a)' => Answered(a)
    BY <2>3, <2>4, OnlyHelloAnswers
  <2>6. Effect
    BY <2>2, <2>3, <2>4, <2>5, QuietEffect
  <2> QED
    BY <2>1, <2>3, <2>4, <2>6 DEF ServerOK, stateVars, serverVars
<1> QED
  BY <1>1, <1>2, <1>3 DEF ServerNext

-----------------------------------------------------------------------------
(* The work of the agents *)

\* Each agent has to do with its own workloads only.
WorkloadsOf(a) == {w \in Workload : w.agent = a}
StartsOf(a) ==
  {s \in [workload : Workload, deps : SUBSET (Name \X AddCondition)] : s.workload.agent = a}
DeletesOf(a) == {d \in DeletedWorkload : d.instance.agent = a}
StatesOf(a) == {s \in WorkloadState : s[1].agent = a}

WorkOK ==
  /\ DOMAIN starts = Agent /\ DOMAIN deletes = Agent /\ DOMAIN running = Agent /\ DOMAIN own_states = Agent
  /\ \A a \in Agent : /\ starts[a] \in SUBSET StartsOf(a) /\ deletes[a] \in SUBSET DeletesOf(a)
                      /\ running[a] \in SUBSET WorkloadsOf(a) /\ own_states[a] \in Seq(StatesOf(a))

LinkOK ==
  /\ workload_state_store \in [Agent -> StatesMap] /\ outlived \in [Agent -> SUBSET Instance]
  /\ unsent \in [Agent -> Seq(Upward)]
  /\ DOMAIN to_agent = Agent /\ \A a \in Agent : to_agent[a] \in Seq(For(a))

\* Reports on instances of an agent.
LEMMA ReportTypes ==
  ASSUME NEW a \in Agent, NEW I \in SUBSET {i \in Instance : i.agent = a},
         NEW state \in ExecutionState \cup {"Removed"}
  PROVE  Reports(I, state) \in Seq(StatesOf(a))
<1> DEFINE n == Cardinality(I)
           order == CHOOSE f \in Bijection(1..n, I) : TRUE
<1>1. I \in SUBSET Instance /\ IsFiniteSet(I)
  BY DependenciesAssumption, FS_Subset
<1>2. n \in Nat /\ Bijection(1..n, I) # {}
  BY <1>1, FS_CardinalityType, Zenon DEF ExistsBijection
<1>3. order \in Bijection(1..n, I)
  BY <1>2, Zenon
<1>4. order \in [1..n -> I]
  BY <1>3 DEF Bijection, Injection
<1>5. Reports(I, state) = [k \in 1..n |-> <<order[k], state>>]
  BY Zenon DEF Reports
<1> HIDE DEF n, order
<1>6. \A k \in 1..n : <<order[k], state>> \in StatesOf(a)
  BY <1>1, <1>4 DEF StatesOf, WorkloadState
<1> QED
  BY <1>2, <1>5, <1>6

\* The queues of operations and the reports about them (scheduler.rs).
LEMMA EnqueueTypes ==
  ASSUME WorkOK, running' = running, NEW a \in Agent, NEW store,
         NEW S \in SUBSET StartsOf(a), NEW D \in SUBSET DeletesOf(a),
         NEW newS \in SUBSET StartsOf(a), NEW newD \in SUBSET DeletesOf(a),
         NEW states \in Seq(StatesOf(a)), Enqueue(a, store, S, D, newS, newD, states)
  PROVE  WorkOK'
<1> DEFINE D1 == ReadyDeletes(D \cup newD, store)
           S1 == ReadyStarts(S \cup newS, D1, store)
           stopping == {d.instance : d \in {e \in D1 \cap newD : e.deps # {}}}
           waiting == {s \in S1 : s.deps # {} /\ ~Replaces(s, D1) /\ (s \in newS \/ Replaces(s, D))}
           starting == {instance_name(s.workload) : s \in waiting}
           Mine == {i \in Instance : i.agent = a}
           q == Reports(stopping, "WaitingToStop")
           r == Reports(starting, "WaitingToStart")
<1>1. /\ deletes' = [deletes EXCEPT ![a] = D1] /\ starts' = [starts EXCEPT ![a] = S1]
      /\ own_states' = [own_states EXCEPT ![a] = (states \o q) \o r]
  BY Zenon DEF Enqueue
<1>2. D1 \in SUBSET DeletesOf(a)
  <2>1. \A d \in DeletesOf(a) : [d EXCEPT !.deps = {}] \in DeletesOf(a)
    BY DEF DeletesOf, DeletedWorkload
  <2> QED
    BY <2>1 DEF ReadyDeletes
<1> HIDE DEF D1
<1>3. S1 \in SUBSET StartsOf(a)
  <2>1. \A s \in StartsOf(a) : [s EXCEPT !.deps = {}] \in StartsOf(a)
    BY DEF StartsOf
  <2> QED
    BY <2>1 DEF ReadyStarts
<1> HIDE DEF S1
<1>4. stopping \in SUBSET Mine
  <2>1. \A d \in DeletesOf(a) : d.instance \in Mine
    BY DEF DeletesOf, DeletedWorkload
  <2> QED
    BY <1>2, <2>1
<1>5. starting \in SUBSET Mine
  <2>1. \A s \in StartsOf(a) : instance_name(s.workload) \in Mine
    BY InstanceNames DEF StartsOf
  <2>2. waiting \in SUBSET StartsOf(a)
    BY <1>3
  <2> HIDE DEF waiting, Mine
  <2> QED
    BY <2>1, <2>2
<1> HIDE DEF stopping, starting
<1>6. q \in Seq(StatesOf(a)) /\ r \in Seq(StatesOf(a))
  <2>1. "WaitingToStop" \in ExecutionState /\ "WaitingToStart" \in ExecutionState
    BY DEF ExecutionState
  <2> QED
    BY <1>4, <1>5, <2>1, ReportTypes
<1> HIDE DEF q, r
<1>7. (states \o q) \o r \in Seq(StatesOf(a))
  BY <1>6
<1> QED
  BY <1>1, <1>2, <1>3, <1>7 DEF WorkOK

\* An agent stores what it is told (workload_states_map.rs).
StoreOf(a, S) ==
  workload_state_store' = [workload_state_store EXCEPT ![a] = process_new_states(@, S)]

\* handle_server_hello and handle_update_workload.
LEMMA WorkloadTypes ==
  ASSUME WorkOK, running' = running, NEW a \in Agent, NEW m \in For(a),
         \/ m.kind = "ServerHello" /\ handle_server_hello(a, m.added)
         \/ m.kind = "UpdateWorkload" /\ handle_update_workload(a, m.added, m.deleted)
  PROVE  WorkOK' /\ workload_state_store' = workload_state_store
<1>1. /\ starts[a] \in SUBSET StartsOf(a) /\ deletes[a] \in SUBSET DeletesOf(a)
      /\ running[a] \in SUBSET WorkloadsOf(a) /\ own_states[a] \in Seq(StatesOf(a))
  BY Zenon DEF WorkOK
<1>2. \A W \in SUBSET WorkloadsOf(a) : Starting(W) \in SUBSET StartsOf(a)
  BY WorkloadAssumption DEF Starting, StartsOf, WorkloadsOf
<1>3. \A w \in WorkloadsOf(a) : instance_name(w) \in Instance /\ instance_name(w).agent = a
  BY InstanceNames DEF WorkloadsOf
<1>4. m.added \in SUBSET WorkloadsOf(a)
  BY DownwardParts DEF For, WorkloadsOf
<1>5. CASE m.kind = "ServerHello"
  <2> DEFINE W == m.added
             resumed == {r \in running[a] : instance_name(r) \in instance_names(W)}
             other == {[instance |-> instance_name(r), deps |-> {}] : r \in running[a] \ resumed}
             new == {w \in W : instance_name(w) \notin instance_names(resumed)}
             kept == {s \in starts[a] : s.workload.name \notin names(W)}
             states == own_states[a] \o Reports(instance_names(resumed), "Running")
  <2>1. /\ Enqueue(a, workload_state_store[a], kept, deletes[a], Starting(new), other, states)
        /\ workload_state_store' = workload_state_store
    BY <1>5, Zenon DEF handle_server_hello
  <2>2. resumed \in SUBSET WorkloadsOf(a) /\ new \in SUBSET WorkloadsOf(a) /\ kept \in SUBSET StartsOf(a)
    BY <1>1, <1>4
  <2>3. other \in SUBSET DeletesOf(a)
    <3>1. ASSUME NEW w \in WorkloadsOf(a) PROVE [instance |-> instance_name(w), deps |-> {}] \in DeletesOf(a)
      BY <1>3 DEF DeletesOf, DeletedWorkload
    <3>2. running[a] \ resumed \in SUBSET WorkloadsOf(a)
      BY <1>1
    <3> HIDE DEF resumed
    <3> QED
      BY <3>1, <3>2
  <2>4. instance_names(resumed) \in SUBSET {i \in Instance : i.agent = a}
    <3> HIDE DEF resumed
    <3> QED
      BY <1>3, <2>2 DEF instance_names
  <2> HIDE DEF resumed, other, new, kept
  <2>5. states \in Seq(StatesOf(a))
    <3>1. Reports(instance_names(resumed), "Running") \in Seq(StatesOf(a))
      <4>1. "Running" \in ExecutionState \cup {"Removed"}
        BY DEF ExecutionState
      <4> QED
        BY <2>4, <4>1, ReportTypes
    <3> QED
      BY <1>1, <3>1
  <2>6. Starting(new) \in SUBSET StartsOf(a)
    BY <1>2, <2>2
  <2> HIDE DEF states
  <2> QED
    BY <1>1, <2>1, <2>2, <2>3, <2>5, <2>6, EnqueueTypes
<1>6. CASE m.kind = "UpdateWorkload"
  <2> DEFINE A == m.added
             D == m.deleted
             touched == names(A) \cup {d.instance.name : d \in D}
             known == names(running[a]) \cup {s.workload.name : s \in starts[a]}
             todo == {d \in D : d.instance.name \in known \/ d.instance.name \notin names(A)}
             kept == {s \in starts[a] : s.workload.name \notin touched}
  <2>1. /\ Enqueue(a, workload_state_store[a], kept, deletes[a], Starting(A), todo, own_states[a])
        /\ workload_state_store' = workload_state_store
    BY <1>6, Zenon DEF handle_update_workload
  <2>2. D \in SUBSET DeletesOf(a)
    BY <1>6, DownwardParts, Zenon DEF For, DeletesOf
  <2>3. kept \in SUBSET StartsOf(a) /\ todo \in SUBSET DeletesOf(a)
    BY <1>1, <2>2
  <2>4. Starting(A) \in SUBSET StartsOf(a)
    BY <1>2, <1>4
  <2> HIDE DEF kept, todo
  <2> QED
    BY <1>1, <2>1, <2>3, <2>4, EnqueueTypes
<1> QED
  BY <1>5, <1>6

\* process_states.
LEMMA StatesTypes ==
  ASSUME WorkOK, running' = running, NEW a \in Agent, NEW S, NEW states \in Seq(StatesOf(a)),
         process_states(a, S, states)
  PROVE  WorkOK' /\ StoreOf(a, S)
<1> DEFINE store == process_new_states(workload_state_store[a], S)
<1>1. /\ workload_state_store' = [workload_state_store EXCEPT ![a] = store]
      /\ Enqueue(a, store, starts[a], deletes[a], {}, {}, states)
  BY Zenon DEF process_states
<1>2. starts[a] \in SUBSET StartsOf(a) /\ deletes[a] \in SUBSET DeletesOf(a)
  BY Zenon DEF WorkOK
<1>3. WorkOK'
  <2> DEFINE e == {}
  <2>1. e \in SUBSET StartsOf(a) /\ e \in SUBSET DeletesOf(a)
    OBVIOUS
  <2>2. Enqueue(a, store, starts[a], deletes[a], e, e, states)
    BY <1>1
  <2> HIDE DEF e, store
  <2> QED
    BY <1>2, <2>1, <2>2, EnqueueTypes
<1> QED
  BY <1>1, <1>3 DEF StoreOf

\* Start and Delete.
LEMMA LoopTypes ==
  ASSUME WorkOK, NEW a \in Agent, Start(a) \/ Delete(a)
  PROVE  WorkOK'
<1>1. /\ starts[a] \in SUBSET StartsOf(a) /\ deletes[a] \in SUBSET DeletesOf(a)
      /\ running[a] \in SUBSET WorkloadsOf(a) /\ own_states[a] \in Seq(StatesOf(a))
  BY Zenon DEF WorkOK
<1>2. CASE Start(a)
  <2>1. PICK s \in starts[a] :
          /\ starts' = [starts EXCEPT ![a] = @ \ {s}]
          /\ running' = [running EXCEPT ![a] = @ \cup {s.workload}]
          /\ own_states' = [own_states EXCEPT ![a] = Append(@, <<instance_name(s.workload), "Running">>)]
    BY <1>2, Zenon DEF Start
  <2>2. deletes' = deletes
    BY <1>2, Zenon DEF Start
  <2>3. s.workload \in WorkloadsOf(a)
    BY <1>1 DEF StartsOf, WorkloadsOf
  <2>4. <<instance_name(s.workload), "Running">> \in StatesOf(a)
    BY <2>3, InstanceNames DEF StatesOf, WorkloadState, WorkloadsOf, ExecutionState
  <2>5. Append(own_states[a], <<instance_name(s.workload), "Running">>) \in Seq(StatesOf(a))
    BY <1>1, <2>4
  <2> QED
    BY <1>1, <2>1, <2>2, <2>3, <2>5 DEF WorkOK
<1>3. CASE Delete(a)
  <2>1. PICK d \in deletes[a] :
          /\ deletes' = [deletes EXCEPT ![a] = @ \ {d}]
          /\ running' = [running EXCEPT ![a] = {w \in @ : instance_name(w) # d.instance}]
          /\ own_states' = [own_states EXCEPT ![a] = Append(@, <<d.instance, "Removed">>)]
    BY <1>3, Zenon DEF Delete
  <2>2. starts' = starts
    BY <1>3, Zenon DEF Delete
  <2>3. <<d.instance, "Removed">> \in StatesOf(a)
    BY <1>1 DEF StatesOf, WorkloadState, DeletesOf, DeletedWorkload
  <2>4. Append(own_states[a], <<d.instance, "Removed">>) \in Seq(StatesOf(a))
    BY <1>1, <2>3
  <2> QED
    BY <1>1, <2>1, <2>2, <2>4 DEF WorkOK
<1> QED
  BY <1>2, <1>3

-----------------------------------------------------------------------------
(* Messages and stores *)

\* The part of a message for agent a tells of the workloads of others what the
\* message tells (from_server_proxy.rs).
LEMMA PartTypes ==
  ASSUME NEW a \in Agent, NEW m \in Downward
  PROVE  /\ ForAgent(m, a) \in Seq(For(a))
         /\ \A i \in Instance : i.agent # a =>
              /\ Silent(ForAgent(m, a), i) <=> Told(m, i) = {}
              /\ \A v : Says(ForAgent(m, a), i, v) <=> v \in Told(m, i)
<1>1. m \in FromServer
  BY DEF Downward
<1>2. CASE m.kind = "UpdateWorkloadState"
  <2> DEFINE S == {s \in m.states : s[1].agent # a}
  <2>1. ForAgent(m, a) = StatesMessage(S)
    BY <1>2 DEF ForAgent
  <2>2. m.states \in SUBSET WorkloadState
    BY <1>1, <1>2, DownwardParts
  <2>3. StatesMessage(S) \in Seq(For(a))
    <3>1. UpdateWorkloadState(S) \in For(a)
      BY <2>2 DEF For, FromServer, UpdateWorkloadState
    <3> HIDE DEF S
    <3> QED
      BY <3>1 DEF StatesMessage
  <2>4. ASSUME NEW i \in Instance, i.agent # a
        PROVE  /\ Silent(StatesMessage(S), i) <=> Told(m, i) = {}
               /\ \A v : Says(StatesMessage(S), i, v) <=> v \in Told(m, i)
    <3>1. {t \in m.states : t[1] = i} = {t \in S : t[1] = i}
      BY <2>4
    <3>2. Told(m, i) = {Stored(s) : s \in {t \in S : t[1] = i}}
      BY <1>2, <3>1 DEF Told
    <3> HIDE DEF S
    <3>3. \A v : v \in Told(m, i) <=> \E s \in S : s[1] = i /\ v = Stored(s)
      BY <3>2
    <3>4. Told(m, i) = {} <=> \A s \in S : s[1] # i
      BY <3>3
    <3> QED
      BY <3>3, <3>4, MessageOfStates
  <2> QED
    BY <2>1, <2>3, <2>4
<1>3. CASE m.kind # "UpdateWorkloadState"
  <2>1. \A i : Told(m, i) = {}
    BY <1>3 DEF Told
  <2>2. ASSUME NEW x, x.kind # "UpdateWorkloadState", NEW i
        PROVE  Silent(<<x>>, i) /\ \A v : ~Says(<<x>>, i, v)
    <3>1. Told(x, i) = {}
      BY <2>2 DEF Told
    <3> QED
      BY <3>1, OneMessage
  <2>3. ForAgent(m, a) = <<>> \/ \E x \in For(a) : x.kind # "UpdateWorkloadState" /\ ForAgent(m, a) = <<x>>
    <3>1. CASE m.kind = "ServerHello"
      <4>1. m.agent = a => m \in For(a)
        BY <1>1, <3>1 DEF Downward, For
      <4>2. ForAgent(m, a) = IF m.agent = a THEN <<m>> ELSE <<>>
        BY <3>1 DEF ForAgent
      <4> QED
        BY <3>1, <4>1, <4>2
    <3>2. CASE m.kind = "UpdateWorkload"
      <4> DEFINE A == {w \in m.added : w.agent = a}
                 D == {d \in m.deleted : d.instance.agent = a}
      <4>1. ForAgent(m, a) = IF A \cup D = {} THEN <<>> ELSE <<UpdateWorkload(A, D)>>
        BY <3>2 DEF ForAgent
      <4>2. m.added \in SUBSET Workload /\ m.deleted \in SUBSET DeletedWorkload
        BY <1>1, <3>2, DownwardParts
      <4>3. UpdateWorkload(A, D) \in For(a) /\ UpdateWorkload(A, D).kind = "UpdateWorkload"
        BY <4>2 DEF For, FromServer, UpdateWorkload
      <4> HIDE DEF A, D
      <4> QED
        BY <4>1, <4>3
    <3>3. CASE m.kind \notin {"ServerHello", "UpdateWorkload"}
      BY <1>3, <3>3 DEF ForAgent
    <3> QED
      BY <3>1, <3>2, <3>3
  <2>4. CASE ForAgent(m, a) = <<>>
    <3>1. <<>> \in Seq(For(a))
      OBVIOUS
    <3> QED
      BY <2>1, <2>4, <3>1, OneMessage, Zenon
  <2>5. CASE ForAgent(m, a) # <<>>
    <3>1. PICK x \in For(a) : x.kind # "UpdateWorkloadState" /\ ForAgent(m, a) = <<x>>
      BY <2>3, <2>5
    <3>2. <<x>> \in Seq(For(a))
      OBVIOUS
    <3> QED
      BY <2>1, <2>2, <3>1, <3>2
  <2> QED
    BY <2>4, <2>5
<1> QED
  BY <1>2, <1>3

\* The states that a message removes.
LEMMA RemovalTypes ==
  ASSUME NEW M \in SUBSET FromServer
  PROVE  /\ Removals(M) \in SUBSET Instance
         /\ \A i, m : m \in M /\ None \in Told(m, i) => i \in Removals(M)
<1>1. \A m \in M : m.kind = "UpdateWorkloadState" => m.states \in SUBSET WorkloadState
  BY DownwardParts
<1>2. Removals(M) \in SUBSET Instance
  BY <1>1 DEF Removals, Removed, WorkloadState
<1>3. ASSUME NEW i, NEW m, m \in M, None \in Told(m, i) PROVE i \in Removals(M)
  <2>1. m.kind = "UpdateWorkloadState"
    BY <1>3 DEF Told
  <2>2. PICK s \in m.states : s[1] = i /\ None = Stored(s)
    BY <1>3, <2>1 DEF Told
  <2>3. s[2] \in ExecutionState \cup {"Removed"}
    BY <1>1, <1>3, <2>1 DEF WorkloadState
  <2>4. s[2] = "Removed"
    BY <2>2, <2>3, WorkloadAssumption DEF Stored
  <2>5. i \in Removed(m.states)
    BY <2>2, <2>4 DEF Removed
  <2> QED
    BY <1>3, <2>1, <2>5 DEF Removals
<1> QED
  BY <1>2, <1>3

-----------------------------------------------------------------------------
(* The stores agree *)

\* State v is that of the server, w, or no agent has reported one yet.
Agree(v, w) == v = w \/ w \in {"Initial", "NotScheduled"}

\* What agent a is told last of instance i is right.  If it is told nothing, then
\* it knows of no instance that is removed, unless the removal did not reach it;
\* and if the server takes it for connected, then its store is right.
Sound(a, i) ==
  /\ \A v : Says(OnTheWay(a), i, v) => Agree(v, workload_states_map[i])
  /\ Silent(OnTheWay(a), i) /\ workload_states_map[i] = None =>
       workload_state_store[a][i] = None \/ i \in outlived[a]
  /\ Silent(OnTheWay(a), i) /\ a \in connected /\ Answered(a) =>
       \/ Agree(workload_state_store[a][i], workload_states_map[i])
       \/ workload_states_map[i] = None /\ i \in outlived[a]

Others(a) == {i \in Instance : i.agent # a}

Types == ServerOK /\ WorkOK /\ LinkOK

\* No message is on its way to an agent without a connection.
Cut == \A a \in Agent \ connected : to_agent[a] = <<>>

Inv == Types /\ Cut /\ \A a \in Agent : \A i \in Others(a) : Sound(a, i)

\* Messages of some kind are messages.
LEMMA WiderType ==
  ASSUME NEW S, NEW T, S \subseteq T, NEW q \in Seq(S)
  PROVE  q \in Seq(T)
OBVIOUS

\* Three sequences one after the other.
LEMMA Regroup ==
  ASSUME NEW S, NEW q \in Seq(S), NEW r \in Seq(S), NEW s \in Seq(S)
  PROVE  (q \o r) \o s = q \o (r \o s)
OBVIOUS

\* The messages on their way to an agent.
LEMMA WayTypes ==
  ASSUME Types, NEW a \in Agent
  PROVE  /\ to_agent[a] \in Seq(FromServer) /\ to_agents \in Seq(FromServer)
         /\ OnTheWay(a) \in Seq(FromServer)
<1>1. For(a) \subseteq FromServer /\ Downward \subseteq FromServer
  BY DEF For, Downward
<1>2. to_agent[a] \in Seq(For(a)) /\ to_agents \in Seq(Downward)
  BY Zenon DEF Types, LinkOK, ServerOK
<1>3. to_agent[a] \in Seq(FromServer) /\ to_agents \in Seq(FromServer)
  BY <1>1, <1>2, WiderType, Zenon
<1> QED
  BY <1>3 DEF OnTheWay

\* Nothing changes for agent a and instance i.
LEMMA Same ==
  ASSUME NEW a \in Agent, NEW i \in Others(a), Sound(a, i),
         to_agent'[a] = to_agent[a], to_agents' = to_agents,
         workload_state_store'[a][i] = workload_state_store[a][i],
         workload_states_map'[i] = workload_states_map[i],
         i \in outlived[a] => i \in outlived'[a],
         a \in connected' /\ Answered(a)' => a \in connected /\ Answered(a)
  PROVE  Sound(a, i)'
BY Zenon DEF Sound, OnTheWay

\* The server handles a message.
LEMMA ServerKeeps ==
  ASSUME Inv, ServerStep
  PROVE  Inv'
<1>1. /\ UNCHANGED <<connected, to_agent, unsent, outlived, workload_state_store>>
      /\ UNCHANGED <<starts, deletes, running, own_states>>
  BY DEF ServerStep, linkVars, workVars
<1>2. ServerOK' /\ Effect
  BY ServerEffect, Zenon DEF ServerStep, Inv, Types
<1>3. WorkOK' /\ LinkOK'
  BY <1>1, Zenon DEF WorkOK, LinkOK, Inv, Types
<1>4. Cut'
  BY <1>1, Zenon DEF Cut, Inv
<1>5. PICK p \in Seq(Downward) : to_agents' = to_agents \o p /\ Tell(p) /\ Answers(p)
  BY <1>2, Zenon DEF Effect
<1>6. p \in Seq(FromServer)
  BY <1>5, WiderType DEF Downward
<1>7. ASSUME NEW a \in Agent, NEW i \in Others(a) PROVE Sound(a, i)'
  <2> DEFINE q == OnTheWay(a)
             w == workload_states_map
             s == workload_state_store[a][i]
  <2>1. q \in Seq(FromServer)
    BY WayTypes DEF Inv
  <2>2. OnTheWay(a)' = q \o p
    <3>1. to_agent[a] \in Seq(FromServer) /\ to_agents \in Seq(FromServer)
      BY WayTypes DEF Inv
    <3>2. OnTheWay(a)' = to_agent[a] \o (to_agents \o p)
      BY <1>1, <1>5, Zenon DEF OnTheWay
    <3> DEFINE x == to_agent[a]
               y == to_agents
    <3> HIDE DEF x, y
    <3>3. (x \o y) \o p = x \o (y \o p)
      <4>1. x \in Seq(FromServer) /\ y \in Seq(FromServer)
        BY <3>1 DEF x, y
      <4> QED
        BY ONLY <1>6, <4>1, Regroup
    <3> QED
      BY <3>2, <3>3 DEF OnTheWay, x, y, q
  <2> HIDE DEF q
  <2>3. /\ Silent(q \o p, i) => Silent(q, i) /\ Silent(p, i)
        /\ \A v : Says(q \o p, i, v) => Says(p, i, v) \/ (Silent(p, i) /\ Says(q, i, v))
    BY <1>6, <2>1, TwoParts
  <2>4. i \in Instance /\ i.agent # a
    BY DEF Others
  <2>5. /\ \A v : Says(p, i, v) => v = w'[i]
        /\ Silent(p, i) => w'[i] = w[i] \/ (w[i] = None /\ w'[i] \in {"Initial", "NotScheduled"})
    BY <1>5, <2>4, Zenon DEF Tell
  <2>6. None \notin {"Initial", "NotScheduled"}
    BY WorkloadAssumption DEF ExecutionState
  <2>7. /\ \A v : Says(q, i, v) => Agree(v, w[i])
        /\ Silent(q, i) /\ w[i] = None => s = None \/ i \in outlived[a]
        /\ Silent(q, i) /\ a \in connected /\ Answered(a) =>
             Agree(s, w[i]) \/ (w[i] = None /\ i \in outlived[a])
    BY DEF Inv, Sound, q
  <2>8. \A v : Says(q \o p, i, v) => Agree(v, w'[i])
    BY <2>3, <2>5, <2>7, Zenon DEF Agree
  <2>9. Silent(q \o p, i) /\ w'[i] = None => s = None \/ i \in outlived[a]
    BY <2>3, <2>5, <2>6, <2>7, Zenon
  <2>10. ASSUME Silent(q \o p, i), a \in connected, Answered(a)'
         PROVE  Agree(s, w'[i]) \/ (w'[i] = None /\ i \in outlived[a])
    <3>1. CASE Answered(a)
      BY <2>3, <2>5, <2>7, <2>10, <3>1, Zenon DEF Agree
    <3>2. CASE ~Answered(a)
      <4>1. w[i] = None
        BY <1>5, <2>3, <2>4, <2>10, <3>2, Zenon DEF Answers
      <4> QED
        BY <2>3, <2>5, <2>7, <2>10, <4>1, Zenon DEF Agree
    <3> QED
      BY <3>1, <3>2
  <2> QED
    BY <1>1, <2>2, <2>8, <2>9, <2>10, Zenon DEF Sound
<1> QED
  BY <1>2, <1>3, <1>4, <1>7, Zenon DEF Inv, Types

\* The messages of two sequences.
LEMMA RangeOf ==
  ASSUME NEW M, NEW q \in Seq(M)
  PROVE  /\ \A r \in Seq(M) : Range(q) \subseteq Range(q \o r) /\ Range(r) \subseteq Range(q \o r)
         /\ \A m \in M : Range(Append(q, m)) = Range(q) \cup {m}
<1>1. ASSUME NEW r \in Seq(M) PROVE Range(q) \subseteq Range(q \o r) /\ Range(r) \subseteq Range(q \o r)
  <2> DEFINE s == q \o r
  <2>1. /\ DOMAIN s = 1..Len(q) + Len(r) /\ DOMAIN q = 1..Len(q) /\ DOMAIN r = 1..Len(r)
        /\ Len(q) \in Nat /\ Len(r) \in Nat
        /\ \A k \in 1..Len(q) : s[k] = q[k]
        /\ \A k \in 1..Len(r) : s[Len(q) + k] = r[k]
    OBVIOUS
  <2> HIDE DEF s
  <2>2. /\ \A k \in 1..Len(q) : k \in 1..Len(q) + Len(r)
        /\ \A k \in 1..Len(r) : Len(q) + k \in 1..Len(q) + Len(r)
    BY <2>1
  <2>3. Range(q) \subseteq Range(s) /\ Range(r) \subseteq Range(s)
    BY <2>1, <2>2, Zenon DEF Range
  <2> QED
    BY <2>3 DEF s
<1>2. ASSUME NEW m \in M PROVE Range(Append(q, m)) = Range(q) \cup {m}
  <2> DEFINE s == Append(q, m)
  <2>1. /\ DOMAIN s = 1..Len(q) + 1 /\ DOMAIN q = 1..Len(q) /\ Len(q) \in Nat
        /\ s[Len(q) + 1] = m /\ \A k \in 1..Len(q) : s[k] = q[k]
    OBVIOUS
  <2> HIDE DEF s
  <2>2. \A k : k \in 1..Len(q) + 1 <=> k \in 1..Len(q) \/ k = Len(q) + 1
    BY <2>1
  <2>3. Range(s) = Range(q) \cup {m}
    BY <2>1, <2>2 DEF Range
  <2> QED
    BY <2>3 DEF s
<1> QED
  BY <1>1, <1>2

\* More messages to the server that are no hello answer none.
LEMMA NothingAnswered ==
  ASSUME ServerOK, agent_map' = agent_map, Range(to_server) \subseteq Range(to_server'), NEW a
  PROVE  Answered(a)' => Answered(a)
BY Zenon DEF Answered

\* An agent connects, and what it has not sent follows its hello.
LEMMA ConnectKeeps ==
  ASSUME Inv, NEW b \in Agent, Connect(b)
  PROVE  Inv'
<1> DEFINE h == AgentHello(b)
           q == Append(to_server, h)
<1>1. /\ connected' = connected \cup {b} /\ to_server' = q \o unsent[b]
      /\ unsent' = [unsent EXCEPT ![b] = <<>>]
      /\ UNCHANGED <<serverVars, to_agents, to_agent, workVars, outlived>>
  BY DEF Connect, historyVars
<1>2. ServerOK /\ WorkOK /\ LinkOK /\ to_server \in Seq(Upward) /\ unsent \in [Agent -> Seq(Upward)]
  BY Zenon DEF Inv, Types, ServerOK, LinkOK
<1>3. h \in Upward
  BY MessageTypes, Zenon
<1> HIDE DEF h
<1>4. q \in Seq(Upward) /\ unsent[b] \in Seq(Upward) /\ to_server' \in Seq(Upward)
  BY <1>1, <1>2, <1>3
<1>5. Range(to_server) \subseteq Range(to_server') /\ h \in Range(to_server')
  <2>1. Range(q) = Range(to_server) \cup {h}
    BY <1>2, <1>3, RangeOf
  <2>2. Range(q) \subseteq Range(to_server')
    <3> HIDE DEF q
    <3> QED
      BY <1>1, <1>4, RangeOf
  <2> QED
    BY <2>1, <2>2
<1>6. /\ UNCHANGED <<rendered_workloads, delete_graph, workload_states_map, agent_map>>
      /\ UNCHANGED <<workload_state_store, starts, deletes, running, own_states>>
  BY <1>1 DEF serverVars, stateVars, workVars
<1>7. ServerOK'
  BY <1>1, <1>2, <1>4, <1>6, Zenon DEF ServerOK
<1>8. WorkOK' /\ LinkOK'
  <2>1. unsent' \in [Agent -> Seq(Upward)]
    BY <1>1, <1>2
  <2>2. WorkOK'
    BY <1>2, <1>6, Zenon DEF WorkOK
  <2> QED
    BY <1>1, <1>2, <1>6, <2>1, <2>2, Zenon DEF LinkOK
<1>9. Cut'
  BY <1>1, Zenon DEF Inv, Cut
<1>10. ASSUME NEW a \in Agent, a \in connected', Answered(a)' PROVE a \in connected /\ Answered(a)
  <2>1. Answered(a)
    BY <1>2, <1>5, <1>6, <1>10, NothingAnswered, Zenon
  <2>2. a # b
    BY <1>5, <1>10, Zenon DEF Answered, h
  <2> QED
    BY <1>1, <1>10, <2>1, <2>2
<1>11. ASSUME NEW a \in Agent, NEW i \in Others(a) PROVE Sound(a, i)'
  <2>1. Sound(a, i)
    BY Zenon DEF Inv
  <2> QED
    BY <1>1, <1>6, <1>10, <2>1, Same, Zenon
<1> QED
  BY <1>7, <1>8, <1>9, <1>11, Zenon DEF Inv, Types

\* A client asks for a change.
LEMMA RequestKeeps ==
  ASSUME Inv, RequestUpdate
  PROVE  Inv'
<1>1. PICK u \in Update : to_server' = Append(to_server, UpdateState("other", u))
  BY Zenon DEF RequestUpdate
<1> DEFINE m == UpdateState("other", u)
<1>2. UNCHANGED <<serverVars, to_agents, linkVars, workVars, outlived>>
  BY DEF RequestUpdate, historyVars
<1>3. ServerOK /\ WorkOK /\ LinkOK /\ to_server \in Seq(Upward)
  BY Zenon DEF Inv, Types, ServerOK
<1>4. m \in Upward
  <2>1. u \in StateUpdate /\ "other" \in Sender
    BY DependenciesAssumption DEF StateUpdate, Sender
  <2> QED
    BY <2>1, MessageTypes, Zenon
<1> HIDE DEF m
<1>5. to_server' \in Seq(Upward) /\ Range(to_server) \subseteq Range(to_server')
  BY <1>1, <1>3, <1>4, RangeOf DEF m
<1>6. /\ UNCHANGED <<rendered_workloads, delete_graph, workload_states_map, agent_map>>
      /\ UNCHANGED <<workload_state_store, starts, deletes, running, own_states>>
      /\ UNCHANGED <<connected, to_agent, unsent, to_agents, outlived>>
  BY <1>2 DEF serverVars, stateVars, workVars, linkVars
<1>7. ServerOK' /\ WorkOK' /\ LinkOK' /\ Cut'
  BY <1>3, <1>5, <1>6, Zenon DEF ServerOK, WorkOK, LinkOK, Inv, Cut
<1>8. ASSUME NEW a \in Agent, NEW i \in Others(a) PROVE Sound(a, i)'
  <2>1. Sound(a, i)
    BY Zenon DEF Inv
  <2>2. Answered(a)' => Answered(a)
    BY <1>3, <1>5, <1>6, NothingAnswered, Zenon
  <2> QED
    BY <1>6, <2>1, <2>2, Same, Zenon
<1> QED
  BY <1>7, <1>8, Zenon DEF Inv, Types

\* A connection breaks, and what was on its way is lost.
LEMMA DropKeeps ==
  ASSUME Inv, NEW b \in Agent, Drop(b), to_agents = <<>>
  PROVE  Inv'
<1> DEFINE m == AgentGone(b)
           R == Removals(Range(to_agent[b]))
<1>1. /\ connected' = connected \ {b} /\ to_server' = Append(to_server, m)
      /\ to_agent' = [to_agent EXCEPT ![b] = <<>>] /\ outlived' = [outlived EXCEPT ![b] = @ \cup R]
      /\ UNCHANGED <<serverVars, to_agents, unsent, workVars>>
  BY DEF Drop
<1>2. ServerOK /\ WorkOK /\ LinkOK /\ to_server \in Seq(Upward) /\ Types
  BY Zenon DEF Inv, Types, ServerOK
<1>3. m \in Upward
  BY MessageTypes, Zenon
<1>4. /\ to_agent[b] \in Seq(FromServer) /\ Range(to_agent[b]) \in SUBSET FromServer
      /\ \A k \in 1..Len(to_agent[b]) : to_agent[b][k] \in Range(to_agent[b])
  <2>1. to_agent[b] \in Seq(FromServer)
    BY <1>2, WayTypes, Zenon
  <2> QED
    BY <2>1 DEF Range
<1>5. /\ R \in SUBSET Instance
      /\ \A i : \A k \in 1..Len(to_agent[b]) : None \in Told(to_agent[b][k], i) => i \in R
  <2>1. R \in SUBSET Instance
    BY <1>4, RemovalTypes, Zenon
  <2>2. \A i, x : x \in Range(to_agent[b]) /\ None \in Told(x, i) => i \in R
    BY <1>4, RemovalTypes, Zenon
  <2> QED
    BY <1>4, <2>1, <2>2, Zenon
<1> HIDE DEF R, m
<1>6. to_server' \in Seq(Upward) /\ Range(to_server) \subseteq Range(to_server')
  BY <1>1, <1>2, <1>3, RangeOf
<1>7. /\ UNCHANGED <<rendered_workloads, delete_graph, workload_states_map, agent_map>>
      /\ UNCHANGED <<workload_state_store, starts, deletes, running, own_states, to_agents, unsent>>
  BY <1>1 DEF serverVars, stateVars, workVars
<1>8. /\ \A a \in Agent \ {b} : to_agent'[a] = to_agent[a] /\ outlived'[a] = outlived[a]
      /\ DOMAIN to_agent' = Agent /\ to_agent'[b] = <<>> /\ outlived'[b] = outlived[b] \cup R
      /\ outlived' \in [Agent -> SUBSET Instance]
  BY <1>1, <1>2, <1>5 DEF LinkOK
<1>9. ServerOK' /\ WorkOK'
  BY <1>2, <1>6, <1>7, Zenon DEF ServerOK, WorkOK
<1>10. LinkOK'
  <2>1. <<>> \in Seq(For(b))
    OBVIOUS
  <2>2. \A a \in Agent : to_agent'[a] \in Seq(For(a))
    BY <1>2, <1>8, <2>1, Zenon DEF LinkOK
  <2> QED
    BY <1>2, <1>7, <1>8, <2>2, Zenon DEF LinkOK
<1>11. Cut'
  <2>1. ASSUME NEW a \in Agent \ connected' PROVE to_agent'[a] = <<>>
    BY <1>1, <1>8, <2>1 DEF Inv, Cut
  <2> QED
    BY <2>1, Zenon DEF Cut
<1>12. ASSUME NEW a \in Agent \ {b}, NEW i \in Others(a) PROVE Sound(a, i)'
  <2>1. Sound(a, i)
    BY Zenon DEF Inv
  <2>2. a \in connected' /\ Answered(a)' => a \in connected /\ Answered(a)
    BY <1>1, <1>2, <1>6, <1>7, NothingAnswered
  <2> QED
    BY <1>7, <1>8, <2>1, <2>2, Same, Zenon
<1>13. ASSUME NEW i \in Others(b) PROVE Sound(b, i)'
  <2> DEFINE w == workload_states_map[i]
             s == workload_state_store[b][i]
             q == to_agent[b]
  <2>1. OnTheWay(b) = q /\ OnTheWay(b)' = <<>>
    <3>1. OnTheWay(b) = q \o <<>> /\ OnTheWay(b)' = <<>> \o <<>>
      BY <1>7, <1>8, Zenon DEF OnTheWay
    <3>2. q \o <<>> = q
      BY <1>4
    <3> QED
      BY <3>1, <3>2
  <2>2. /\ \A v : Says(q, i, v) => Agree(v, w)
        /\ Silent(q, i) /\ w = None => s = None \/ i \in outlived[b]
    BY <2>1 DEF Inv, Sound
  <2>3. w = None => s = None \/ i \in outlived'[b]
    <3>1. CASE Silent(q, i)
      BY <1>8, <2>2, <3>1
    <3>2. CASE ~Silent(q, i) /\ w = None
      <4>1. PICK v : Says(q, i, v)
        BY <1>4, <3>2, SaysSomething
      <4>2. None \notin {"Initial", "NotScheduled"}
        BY WorkloadAssumption DEF ExecutionState
      <4>3. v = None
        BY <2>2, <3>2, <4>1, <4>2 DEF Agree
      <4>4. i \in R
        BY <1>5, <4>1, <4>3, Zenon DEF Says
      <4> QED
        BY <1>8, <4>4
    <3> QED
      BY <3>1, <3>2
  <2>4. \A v : ~Says(<<>>, i, v)
    BY OneMessage, Zenon
  <2>5. b \notin connected'
    BY <1>1
  <2> QED
    BY <1>7, <2>1, <2>3, <2>4, <2>5, Zenon DEF Sound
<1> QED
  BY <1>9, <1>10, <1>11, <1>12, <1>13, Zenon DEF Inv, Types

\* The middleware hands the parts of a message to the agents with a connection.
LEMMA DistributeKeeps ==
  ASSUME Inv, Distribute
  PROVE  Inv'
<1> DEFINE m == Head(to_agents)
           t == Tail(to_agents)
           Part(a) == ForAgent(m, a)
           R(a) == Removals(Range(Part(a)))
<1>1. /\ to_agents # <<>> /\ to_agents' = t
      /\ to_agent' = [a \in Agent |-> IF a \in connected THEN to_agent[a] \o Part(a) ELSE to_agent[a]]
      /\ outlived' = [a \in Agent |-> IF a \in connected THEN outlived[a] ELSE outlived[a] \cup R(a)]
      /\ UNCHANGED <<serverVars, to_server, connected, unsent, workVars>>
  BY Zenon DEF Distribute
<1>2. ServerOK /\ WorkOK /\ LinkOK /\ Types /\ to_agents \in Seq(Downward)
  BY Zenon DEF Inv, Types, ServerOK
<1>3. m \in Downward /\ t \in Seq(Downward) /\ to_agents = <<m>> \o t
  BY <1>1, <1>2, HeadAndTail
<1>4. ASSUME NEW a \in Agent
      PROVE  /\ Part(a) \in Seq(For(a))
             /\ \A i \in Others(a) : /\ Silent(Part(a), i) <=> Told(m, i) = {}
                                     /\ \A v : Says(Part(a), i, v) <=> v \in Told(m, i)
  BY <1>3, PartTypes DEF Others
<1>5. ASSUME NEW a \in Agent
      PROVE  /\ R(a) \in SUBSET Instance
             /\ \A i \in Others(a) : None \in Told(m, i) => i \in R(a)
  <2> DEFINE q == Part(a)
  <2>1. q \in Seq(For(a)) /\ \A i \in Others(a) : \A v : Says(q, i, v) <=> v \in Told(m, i)
    BY <1>4, Zenon
  <2> HIDE DEF q
  <2>2. Range(q) \in SUBSET FromServer /\ \A k \in 1..Len(q) : q[k] \in Range(q)
    BY <2>1 DEF Range, For
  <2>3. /\ Removals(Range(q)) \in SUBSET Instance
        /\ \A i, x : x \in Range(q) /\ None \in Told(x, i) => i \in Removals(Range(q))
    BY <2>2, RemovalTypes, Zenon
  <2>4. ASSUME NEW i \in Others(a), None \in Told(m, i) PROVE i \in Removals(Range(q))
    <3>1. PICK k \in 1..Len(q) : None \in Told(q[k], i)
      BY <2>1, <2>4, Zenon DEF Says
    <3> QED
      BY <2>2, <2>3, <3>1, Zenon
  <2> QED
    BY <2>3, <2>4, Zenon DEF q
<1> HIDE DEF m, t, Part, R
<1>6. \A a \in Agent :
        /\ to_agent'[a] = IF a \in connected THEN to_agent[a] \o Part(a) ELSE to_agent[a]
        /\ outlived'[a] = IF a \in connected THEN outlived[a] ELSE outlived[a] \cup R(a)
  BY <1>1, Zenon
<1>7. /\ UNCHANGED <<rendered_workloads, delete_graph, workload_states_map, agent_map, to_server>>
      /\ UNCHANGED <<workload_state_store, starts, deletes, running, own_states, unsent, connected>>
  BY <1>1 DEF serverVars, stateVars, workVars
<1>8. ServerOK' /\ WorkOK'
  BY <1>1, <1>2, <1>3, <1>7, Zenon DEF ServerOK, WorkOK
<1>9. LinkOK'
  <2>1. \A a \in Agent : to_agent'[a] \in Seq(For(a))
    <3> SUFFICES ASSUME NEW a \in Agent PROVE to_agent'[a] \in Seq(For(a))
      OBVIOUS
    <3>1. Part(a) \in Seq(For(a)) /\ to_agent[a] \in Seq(For(a))
      BY <1>2, <1>4, Zenon DEF LinkOK
    <3>2. to_agent[a] \o Part(a) \in Seq(For(a))
      BY ONLY <3>1
    <3> QED
      BY <1>6, <3>1, <3>2, Zenon
  <2>2. outlived' \in [Agent -> SUBSET Instance] /\ DOMAIN to_agent' = Agent
    BY <1>1, <1>2, <1>5 DEF LinkOK
  <2> QED
    BY <1>2, <1>7, <2>1, <2>2, Zenon DEF LinkOK
<1>10. Cut'
  BY <1>6, <1>7, Zenon DEF Inv, Cut
<1>11. ASSUME NEW a \in Agent, NEW i \in Others(a) PROVE Sound(a, i)'
  <2> DEFINE x == to_agent[a]
             y == <<m>>
             z == Part(a)
             w == workload_states_map[i]
             s == workload_state_store[a][i]
  <2>1. /\ x \in Seq(FromServer) /\ y \in Seq(FromServer) /\ z \in Seq(FromServer) /\ t \in Seq(FromServer)
    <3>1. Part(a) \in Seq(For(a)) /\ For(a) \subseteq FromServer /\ Downward \subseteq FromServer
      BY <1>4 DEF For, Downward
    <3>2. x \in Seq(FromServer)
      BY <1>2, WayTypes, Zenon
    <3>3. z \in Seq(FromServer) /\ t \in Seq(FromServer)
      BY <1>3, <3>1, WiderType, Zenon
    <3>4. y \in Seq(FromServer)
      BY <1>3, <3>1
    <3> QED
      BY <3>2, <3>3, <3>4
  <2>2. /\ Silent(y, i) <=> Told(m, i) = {}
        /\ \A v : Says(y, i, v) <=> v \in Told(m, i)
    BY OneMessage, Zenon
  <2>3. /\ Silent(z, i) <=> Told(m, i) = {}
        /\ \A v : Says(z, i, v) <=> v \in Told(m, i)
    BY <1>4, Zenon
  <2>4. OnTheWay(a) = x \o (y \o t)
    BY <1>3, Zenon DEF OnTheWay
  <2> HIDE DEF x, y, z
  <2>5. /\ Silent(y \o t, i) <=> Silent(y, i) /\ Silent(t, i)
        /\ \A v : Says(y \o t, i, v) <=> Says(t, i, v) \/ (Silent(t, i) /\ Says(y, i, v))
        /\ y \o t \in Seq(FromServer)
    BY <2>1, TwoParts
  <2>6. /\ Silent(x \o (y \o t), i) <=> Silent(x, i) /\ Silent(y \o t, i)
        /\ \A v : Says(x \o (y \o t), i, v) <=>
               Says(y \o t, i, v) \/ (Silent(y \o t, i) /\ Says(x, i, v))
    <3> DEFINE r == y \o t
    <3>1. r \in Seq(FromServer)
      BY <2>5
    <3> HIDE DEF r
    <3>2. /\ Silent(x \o r, i) <=> Silent(x, i) /\ Silent(r, i)
          /\ \A v : Says(x \o r, i, v) <=> Says(r, i, v) \/ (Silent(r, i) /\ Says(x, i, v))
      BY <2>1, <3>1, TwoParts, Zenon
    <3> QED
      BY <3>2 DEF r
  <2>7. Sound(a, i)
    BY Zenon DEF Inv
  <2>8. Answered(a)' <=> Answered(a)
    BY <1>7, Zenon DEF Answered
  <2>9. CASE a \in connected
    <3> DEFINE r == x \o z
    <3>1. OnTheWay(a)' = r \o t
      BY <1>1, <1>6, <2>9, Zenon DEF OnTheWay, x, z
    <3>2. /\ r \in Seq(FromServer)
          /\ Silent(r, i) <=> Silent(x, i) /\ Silent(z, i)
          /\ \A v : Says(r, i, v) <=> Says(z, i, v) \/ (Silent(z, i) /\ Says(x, i, v))
      BY <2>1, TwoParts
    <3> HIDE DEF r
    <3>3. /\ Silent(r \o t, i) <=> Silent(r, i) /\ Silent(t, i)
          /\ \A v : Says(r \o t, i, v) <=> Says(t, i, v) \/ (Silent(t, i) /\ Says(r, i, v))
      BY <2>1, <3>2, TwoParts
    <3>4. /\ Silent(OnTheWay(a)', i) <=> Silent(OnTheWay(a), i)
          /\ \A v : Says(OnTheWay(a)', i, v) <=> Says(OnTheWay(a), i, v)
      BY <2>2, <2>3, <2>4, <2>5, <2>6, <3>1, <3>2, <3>3, Zenon
    <3>5. outlived'[a] = outlived[a]
      BY <1>6, <2>9, Zenon
    <3> QED
      BY <1>7, <2>7, <2>8, <3>4, <3>5, Zenon DEF Sound
  <2>10. CASE a \notin connected
    <3>1. x = <<>>
      BY <2>10 DEF Inv, Cut, x
    <3>2. OnTheWay(a)' = t
      <4>1. OnTheWay(a)' = x \o t
        BY <1>1, <1>6, <2>10, Zenon DEF OnTheWay, x
      <4> QED
        BY <2>1, <3>1, <4>1
    <3>3. Silent(x, i) /\ \A v : ~Says(x, i, v)
      BY <3>1, OneMessage, Zenon
    <3>4. None \notin {"Initial", "NotScheduled"}
      BY WorkloadAssumption DEF ExecutionState
    <3>5. /\ \A v : Says(OnTheWay(a), i, v) => Agree(v, w)
          /\ Silent(OnTheWay(a), i) /\ w = None => s = None \/ i \in outlived[a]
      BY <2>7, Zenon DEF Sound
    <3>6. \A v : Says(t, i, v) => Agree(v, w)
      BY <2>4, <2>5, <2>6, <3>5, Zenon
    <3>7. ASSUME Silent(t, i), w = None PROVE s = None \/ i \in outlived'[a]
      <4>1. CASE Told(m, i) = {}
        <5>1. s = None \/ i \in outlived[a]
          BY <2>2, <2>4, <2>5, <2>6, <3>3, <3>5, <3>7, <4>1, Zenon
        <5> QED
          BY <1>6, <2>10, <5>1, Zenon
      <4>2. CASE Told(m, i) # {}
        <5>1. PICK v : v \in Told(m, i)
          BY <4>2
        <5>2. Agree(v, w)
          BY <2>2, <2>4, <2>5, <2>6, <3>5, <3>7, <5>1, Zenon
        <5>3. v = None
          BY <3>4, <3>7, <5>2 DEF Agree
        <5> QED
          BY <1>5, <1>6, <2>10, <5>1, <5>3, Zenon
      <4> QED
        BY <4>1, <4>2
    <3> QED
      BY <1>7, <2>10, <3>2, <3>6, <3>7, Zenon DEF Sound
  <2> QED
    BY <2>9, <2>10
<1> QED
  BY <1>8, <1>9, <1>10, <1>11, Zenon DEF Inv, Types

\* Agent b handles a message of the server.
LEMMA ExecuteKeeps ==
  ASSUME Inv, NEW b \in Agent, execute_from_server_command(b)
  PROVE  Inv'
<1> DEFINE m == Head(to_agent[b])
           t == Tail(to_agent[b])
           Workloads == /\ \/ m.kind = "ServerHello" /\ handle_server_hello(b, m.added)
                           \/ m.kind = "UpdateWorkload" /\ handle_update_workload(b, m.added, m.deleted)
                        /\ UNCHANGED outlived
           States == /\ m.kind = "UpdateWorkloadState" /\ process_states(b, m.states, own_states[b])
                     /\ outlived' = [outlived EXCEPT ![b] = @ \ {s[1] : s \in m.states}]
<1>1. /\ to_agent[b] # <<>> /\ to_agent' = [to_agent EXCEPT ![b] = t]
      /\ Workloads \/ States
      /\ UNCHANGED <<serverVars, to_server, to_agents, connected, unsent, running>>
  BY Zenon DEF execute_from_server_command
<1>2. ServerOK /\ WorkOK /\ LinkOK /\ Types /\ to_agent[b] \in Seq(For(b)) /\ DOMAIN to_agent = Agent
  BY Zenon DEF Inv, Types, LinkOK
<1>3. m \in For(b) /\ t \in Seq(For(b)) /\ to_agent[b] = <<m>> \o t
  BY <1>1, <1>2, HeadAndTail
<1>4. m \in FromServer /\ For(b) \subseteq FromServer
  BY <1>3 DEF For
<1> HIDE DEF m, t, Workloads, States
<1>5. /\ UNCHANGED <<rendered_workloads, delete_graph, workload_states_map, agent_map, to_server>>
      /\ UNCHANGED <<running, unsent, connected, to_agents>>
  BY <1>1 DEF serverVars, stateVars
<1>6. /\ to_agent'[b] = t /\ DOMAIN to_agent' = Agent
      /\ \A a \in Agent \ {b} : to_agent'[a] = to_agent[a]
  BY <1>1, <1>2
<1>7. \/ Workloads /\ WorkOK' /\ workload_state_store' = workload_state_store /\ outlived' = outlived
      \/ States /\ WorkOK' /\ StoreOf(b, m.states)
  <2>1. CASE Workloads
    BY <1>2, <1>3, <1>5, <2>1, WorkloadTypes, Zenon DEF Workloads
  <2>2. CASE States
    <3>1. own_states[b] \in Seq(StatesOf(b)) /\ process_states(b, m.states, own_states[b])
      BY <1>2, <2>2, Zenon DEF WorkOK, States
    <3> QED
      BY <1>2, <1>5, <2>2, <3>1, StatesTypes, Zenon
  <2> QED
    BY <1>1, <2>1, <2>2, Zenon
<1>8. /\ workload_state_store' \in [Agent -> StatesMap] /\ outlived' \in [Agent -> SUBSET Instance]
      /\ \A a \in Agent \ {b} : /\ workload_state_store'[a] = workload_state_store[a]
                                 /\ outlived'[a] = outlived[a]
      /\ \A i \in Others(b) :
           /\ Told(m, i) # {} => workload_state_store'[b][i] \in Told(m, i)
           /\ Told(m, i) = {} => /\ workload_state_store'[b][i] = workload_state_store[b][i]
                                 /\ i \in outlived[b] => i \in outlived'[b]
  <2>1. CASE Workloads /\ workload_state_store' = workload_state_store /\ outlived' = outlived
    <3>1. \A i : Told(m, i) = {}
      BY <2>1 DEF Workloads, Told
    <3> QED
      BY <1>2, <2>1, <3>1, Zenon DEF LinkOK
  <2>2. CASE States /\ StoreOf(b, m.states)
    <3> DEFINE S == m.states
               store == process_new_states(workload_state_store[b], S)
               I == {s[1] : s \in S}
    <3>1. m.kind = "UpdateWorkloadState" /\ outlived' = [outlived EXCEPT ![b] = @ \ I]
      BY <2>2, Zenon DEF States
    <3>2. S \in SUBSET WorkloadState
      BY <1>4, <3>1, DownwardParts, Zenon
    <3>3. workload_state_store[b] \in StatesMap
      BY <1>2 DEF LinkOK
    <3>4. store \in StatesMap
      BY <3>2, <3>3, MapTypes, Zenon
    <3>5. workload_state_store' = [workload_state_store EXCEPT ![b] = store]
      BY <2>2, Zenon DEF StoreOf
    <3>6. ASSUME NEW i \in Others(b)
          PROVE  /\ Told(m, i) # {} => store[i] \in Told(m, i)
                 /\ Told(m, i) = {} => store[i] = workload_state_store[b][i]
                 /\ Told(m, i) = {} => i \notin I
      <4>1. i \in Instance
        BY DEF Others
      <4>2. Told(m, i) = {} => i \notin I
        BY <3>1, Zenon DEF Told
      <4> QED
        BY <3>1, <4>1, <4>2, Stores, Zenon
    <3> HIDE DEF store, I
    <3>7. /\ workload_state_store'[b] = store /\ outlived'[b] = outlived[b] \ I
          /\ \A a \in Agent \ {b} : /\ workload_state_store'[a] = workload_state_store[a]
                                     /\ outlived'[a] = outlived[a]
      BY <1>2, <3>1, <3>5 DEF LinkOK
    <3>8. workload_state_store' \in [Agent -> StatesMap] /\ outlived' \in [Agent -> SUBSET Instance]
      BY <1>2, <3>1, <3>4, <3>5 DEF LinkOK
    <3>9. ASSUME NEW i \in Others(b), Told(m, i) = {}, i \in outlived[b] PROVE i \in outlived'[b]
      BY <3>6, <3>7, <3>9
    <3> QED
      BY <3>6, <3>7, <3>8, <3>9, Zenon
  <2> QED
    BY <1>7, <2>1, <2>2, Zenon
<1>9. ServerOK' /\ WorkOK'
  BY <1>2, <1>5, <1>7, Zenon DEF ServerOK
<1>10. LinkOK'
  <2>1. \A a \in Agent : to_agent'[a] \in Seq(For(a))
    BY <1>2, <1>3, <1>6, Zenon DEF LinkOK
  <2> QED
    BY <1>2, <1>5, <1>6, <1>8, <2>1, Zenon DEF LinkOK
<1>11. Cut'
  BY <1>1, <1>5, <1>6, Zenon DEF Inv, Cut
<1>12. ASSUME NEW a \in Agent \ {b}, NEW i \in Others(a) PROVE Sound(a, i)'
  <2>1. Sound(a, i)
    BY Zenon DEF Inv
  <2>2. Answered(a)' => Answered(a)
    BY <1>5, Zenon DEF Answered
  <2> QED
    BY <1>5, <1>6, <1>8, <2>1, <2>2, Same, Zenon
<1>13. ASSUME NEW i \in Others(b) PROVE Sound(b, i)'
  <2> DEFINE y == <<m>>
             r == t \o to_agents
             w == workload_states_map[i]
  <2>1. y \in Seq(FromServer) /\ t \in Seq(FromServer) /\ to_agents \in Seq(FromServer)
    <3>1. y \in Seq(FromServer)
      BY <1>4
    <3> QED
      BY <1>2, <1>3, <1>4, <3>1, WiderType, WayTypes, Zenon
  <2>2. /\ Silent(y, i) <=> Told(m, i) = {}
        /\ \A v : Says(y, i, v) <=> v \in Told(m, i)
    BY OneMessage, Zenon
  <2>3. OnTheWay(b) = (y \o t) \o to_agents /\ OnTheWay(b)' = r
    BY <1>3, <1>5, <1>6, Zenon DEF OnTheWay
  <2> HIDE DEF y
  <2>4. OnTheWay(b) = y \o r /\ r \in Seq(FromServer)
    BY <2>1, <2>3, Regroup
  <2> HIDE DEF r
  <2>5. /\ Silent(y \o r, i) <=> Silent(y, i) /\ Silent(r, i)
        /\ \A v : Says(y \o r, i, v) <=> Says(r, i, v) \/ (Silent(r, i) /\ Says(y, i, v))
    BY <2>1, <2>4, TwoParts
  <2>6. Sound(b, i) /\ (Answered(b)' => Answered(b))
    BY <1>5, Zenon DEF Inv, Answered
  <2>7. \A v : Says(r, i, v) => Agree(v, w)
    BY <2>4, <2>5, <2>6, Zenon DEF Sound
  <2>8. CASE Told(m, i) = {}
    BY <1>5, <1>8, <2>2, <2>3, <2>4, <2>5, <2>6, <2>8, Zenon DEF Sound
  <2>9. CASE Told(m, i) # {}
    <3>1. ASSUME Silent(r, i) PROVE Agree(workload_state_store'[b][i], w)
      BY <1>8, <2>2, <2>4, <2>5, <2>6, <2>9, <3>1, Zenon DEF Sound
    <3>2. None \notin {"Initial", "NotScheduled"}
      BY WorkloadAssumption DEF ExecutionState
    <3>3. ASSUME Silent(r, i), w = None PROVE workload_state_store'[b][i] = None
      BY <3>1, <3>2, <3>3 DEF Agree
    <3> QED
      BY <1>5, <2>3, <2>7, <3>1, <3>3, Zenon DEF Sound
  <2> QED
    BY <2>8, <2>9
<1> QED
  BY <1>9, <1>10, <1>11, <1>12, <1>13, Zenon DEF Inv, Types

\* Agent b stores a report of one of its workloads, and sends it to the server.
LEMMA ForwardKeeps ==
  ASSUME Inv, NEW b \in Agent, store_and_forward_own_workload_states(b)
  PROVE  Inv'
<1> DEFINE h == Head(own_states[b])
           t == Tail(own_states[b])
           S == {h}
           m == UpdateWorkloadState(S)
           store == process_new_states(workload_state_store[b], S)
<1>1. /\ own_states[b] # <<>> /\ process_states(b, S, t)
      /\ \/ to_server' = Append(to_server, m) /\ UNCHANGED unsent
         \/ unsent' = [unsent EXCEPT ![b] = Append(@, m)] /\ UNCHANGED to_server
      /\ UNCHANGED <<serverVars, to_agents, connected, to_agent, running, outlived>>
  BY DEF store_and_forward_own_workload_states, historyVars
<1>2. ServerOK /\ WorkOK /\ LinkOK /\ own_states[b] \in Seq(StatesOf(b)) /\ to_server \in Seq(Upward)
  BY Zenon DEF Inv, Types, WorkOK, ServerOK
<1>3. h \in WorkloadState /\ h[1].agent = b /\ t \in Seq(StatesOf(b))
  <2>1. h \in StatesOf(b) /\ t \in Seq(StatesOf(b))
    BY <1>1, <1>2, HeadAndTail, Zenon
  <2> QED
    BY <2>1 DEF StatesOf
<1>4. m \in Upward
  <2>1. S \in SUBSET WorkloadState /\ OneEach(S)
    BY <1>3, Zenon DEF OneEach
  <2> QED
    BY <2>1, MessageTypes, Zenon
<1>5. WorkOK' /\ workload_state_store' = [workload_state_store EXCEPT ![b] = store]
  <2>1. running' = running
    BY <1>1
  <2>2. WorkOK' /\ StoreOf(b, S)
    BY <1>1, <1>2, <1>3, <2>1, StatesTypes, Zenon
  <2> QED
    BY <2>2, Zenon DEF StoreOf
<1>6. store \in StatesMap /\ \A i \in Others(b) : store[i] = workload_state_store[b][i]
  <2>1. workload_state_store[b] \in StatesMap /\ S \in SUBSET WorkloadState
    BY <1>2, <1>3 DEF LinkOK
  <2>2. store \in StatesMap
    BY <2>1, MapTypes, Zenon
  <2>3. m.kind = "UpdateWorkloadState" /\ m.states = S
    BY DEF UpdateWorkloadState
  <2>4. ASSUME NEW i \in Others(b) PROVE store[i] = workload_state_store[b][i]
    <3>1. i \in Instance /\ h[1] # i
      BY <1>3 DEF Others
    <3>2. Told(m, i) = {}
      BY <2>3, <3>1, Zenon DEF Told
    <3> QED
      BY <2>3, <3>1, <3>2, Stores, Zenon
  <2> QED
    BY <2>2, <2>4
<1> HIDE DEF store, m, S
<1>7. /\ workload_state_store' \in [Agent -> StatesMap]
      /\ \A a \in Agent : \A i \in Others(a) : workload_state_store'[a][i] = workload_state_store[a][i]
  BY <1>2, <1>5, <1>6 DEF LinkOK
<1>8. /\ to_server' \in Seq(Upward) /\ Range(to_server) \subseteq Range(to_server')
      /\ unsent' \in [Agent -> Seq(Upward)]
  <2>1. unsent \in [Agent -> Seq(Upward)] /\ Append(unsent[b], m) \in Seq(Upward)
    BY <1>2, <1>4 DEF LinkOK
  <2>2. Append(to_server, m) \in Seq(Upward) /\ Range(to_server) \subseteq Range(Append(to_server, m))
    BY <1>2, <1>4, RangeOf
  <2> HIDE DEF m
  <2> QED
    BY <1>1, <1>2, <2>1, <2>2, Zenon
<1>9. /\ UNCHANGED <<rendered_workloads, delete_graph, workload_states_map, agent_map>>
      /\ UNCHANGED <<connected, to_agent, to_agents, outlived>>
  BY <1>1 DEF serverVars, stateVars
<1>10. ServerOK' /\ LinkOK' /\ Cut'
  BY <1>2, <1>7, <1>8, <1>9, Zenon DEF ServerOK, LinkOK, Inv, Cut
<1>11. ASSUME NEW a \in Agent, NEW i \in Others(a) PROVE Sound(a, i)'
  <2>1. Sound(a, i)
    BY Zenon DEF Inv
  <2>2. Answered(a)' => Answered(a)
    BY <1>2, <1>8, <1>9, NothingAnswered, Zenon
  <2> QED
    BY <1>7, <1>9, <2>1, <2>2, Same, Zenon
<1> QED
  BY <1>5, <1>10, <1>11, Zenon DEF Inv, Types

\* A control loop of agent b creates or deletes a workload.
LEMMA LoopKeeps ==
  ASSUME Inv, NEW b \in Agent, Start(b) \/ Delete(b)
  PROVE  Inv'
<1>1. UNCHANGED <<serverVars, to_server, to_agents, linkVars, workload_state_store, historyVars>>
  BY DEF Start, Delete
<1>2. /\ UNCHANGED <<rendered_workloads, delete_graph, workload_states_map, agent_map, to_server>>
      /\ UNCHANGED <<connected, to_agent, unsent, to_agents, outlived, workload_state_store>>
  BY <1>1 DEF serverVars, stateVars, linkVars, historyVars
<1>3. WorkOK'
  BY LoopTypes, Zenon DEF Inv, Types
<1>4. ServerOK' /\ LinkOK' /\ Cut'
  BY <1>2, Zenon DEF Inv, Types, ServerOK, LinkOK, Cut
<1>5. ASSUME NEW a \in Agent, NEW i \in Others(a) PROVE Sound(a, i)'
  <2>1. Sound(a, i) /\ (Answered(a)' => Answered(a))
    BY <1>2, Zenon DEF Inv, Answered
  <2> QED
    BY <1>2, <2>1, Same, Zenon
<1> QED
  BY <1>3, <1>4, <1>5, Zenon DEF Inv, Types

LEMMA InitInv == Init => Inv
<1> SUFFICES ASSUME Init PROVE Inv
  OBVIOUS
<1> DEFINE W == rendered_workloads
           none == [i \in Instance |-> None]
           edges == [n \in Name |-> {}]
           m == UpdateWorkload(W, {})
<1>1. /\ W \in SUBSET Workload /\ delete_graph = insert(edges, W)
      /\ workload_states_map = initial_state(none, W) /\ agent_map = {}
      /\ to_server = <<>>
      /\ to_agents = <<>> \/ to_agents = <<m>>
  <2>1. Startup \subseteq SUBSET Workload
    BY WorkloadAssumption
  <2> QED
    BY <2>1 DEF Init, ServerInit
<1>2. ServerOK
  <2>1. none \in StatesMap /\ edges \in Graph
    BY DEF StatesMap, Graph
  <2>2. {} \in SUBSET DeletedWorkload
    OBVIOUS
  <2>3. /\ initial_state(none, W) \in StatesMap /\ insert(edges, W) \in Graph /\ m \in Downward
    BY <1>1, <2>1, <2>2, MapTypes, GraphTypes, MessageTypes, Zenon
  <2> HIDE DEF m
  <2>4. to_server \in Seq(Upward)
    BY <1>1
  <2>5. <<>> \in Seq(Downward) /\ <<m>> \in Seq(Downward)
    BY <2>3
  <2>6. to_agents \in Seq(Downward)
    BY <1>1, <2>5, Zenon
  <2> QED
    BY <1>1, <2>3, <2>4, <2>6, Zenon DEF ServerOK
<1>3. WorkOK
  BY DEF Init, WorkOK
<1>4. LinkOK
  BY DEF Init, LinkOK, StatesMap
<1>5. Cut
  BY DEF Init, Cut
<1>6. ASSUME NEW a \in Agent, NEW i \in Others(a) PROVE Sound(a, i)
  <2>1. OnTheWay(a) = <<>> \/ OnTheWay(a) = <<m>>
    <3> HIDE DEF m
    <3> QED
      BY <1>1 DEF Init, OnTheWay
  <2>2. workload_state_store[a][i] = None
    BY DEF Init, Others
  <2>3. ~Answered(a)
    BY <1>1, ZenonT(30) DEF Answered
  <2>4. Told(m, i) = {}
    BY DEF Told, UpdateWorkload
  <2>5. \A v : ~Says(<<>>, i, v) /\ ~Says(<<m>>, i, v)
    BY <2>4, OneMessage, Zenon
  <2> QED
    BY <2>1, <2>2, <2>3, <2>5, Zenon DEF Sound
<1> QED
  BY <1>2, <1>3, <1>4, <1>5, <1>6, Zenon DEF Inv, Types

LEMMA StepKeeps == Inv /\ [Next]_vars => Inv'
<1>1. ASSUME Inv, Next PROVE Inv'
  <2>1. CASE Distribute
    BY <1>1, <2>1, DistributeKeeps, Zenon
  <2>2. CASE to_agents = <<>> /\ (ServerStep \/ RequestUpdate)
    BY <1>1, <2>2, ServerKeeps, RequestKeeps, Zenon
  <2>3. CASE to_agents = <<>> /\ \E a \in Agent : Connect(a) \/ Drop(a) \/ AgentTask(a)
    <3>1. PICK a \in Agent : Connect(a) \/ Drop(a) \/ AgentTask(a)
      BY <2>3, Zenon
    <3> QED
      BY <1>1, <2>3, <3>1, ConnectKeeps, DropKeeps, ExecuteKeeps, ForwardKeeps, LoopKeeps, Zenon DEF AgentTask
  <2> QED
    BY <1>1, <2>1, <2>2, <2>3, Zenon DEF Next
<1>2. ASSUME Inv, UNCHANGED vars PROVE Inv'
  <2>1. UNCHANGED <<serverVars, to_server, to_agents, linkVars, workVars, historyVars>>
    BY <1>2 DEF vars
  <2>2. /\ UNCHANGED <<rendered_workloads, delete_graph, workload_states_map, agent_map, to_server>>
        /\ UNCHANGED <<connected, to_agent, unsent, to_agents, outlived>>
        /\ UNCHANGED <<workload_state_store, starts, deletes, running, own_states>>
    BY <2>1 DEF serverVars, stateVars, linkVars, workVars, historyVars
  <2>3. ServerOK' /\ WorkOK' /\ LinkOK' /\ Cut'
    BY <1>2, <2>2, Zenon DEF Inv, Types, ServerOK, WorkOK, LinkOK, Cut
  <2>4. ASSUME NEW a \in Agent, NEW i \in Others(a) PROVE Sound(a, i)'
    <3>1. Sound(a, i) /\ (Answered(a)' => Answered(a))
      BY <1>2, <2>2, Zenon DEF Inv, Answered
    <3> QED
      BY <2>2, <3>1, Same, Zenon
  <2> QED
    BY <2>3, <2>4, Zenon DEF Inv, Types
<1> QED
  BY <1>1, <1>2, Zenon

\* The state that an agent comes to have in its store is the last one it is told,
\* and the one it has if it is told none.
LEMMA Coming ==
  ASSUME Types, NEW a \in Agent, NEW i \in Instance
  PROVE  \/ Silent(OnTheWay(a), i) /\ ComingState(a, i) = workload_state_store[a][i]
         \/ Says(OnTheWay(a), i, ComingState(a, i))
<1> DEFINE q == OnTheWay(a)
           T == Telling(a, i)
<1>1. q \in Seq(FromServer) /\ DOMAIN q = 1..Len(q) /\ Len(q) \in Nat
  <2>1. q \in Seq(FromServer)
    BY WayTypes, Zenon
  <2> HIDE DEF q
  <2> QED
    BY <2>1
<1>2. \A k \in 1..Len(q) : k \in T <=> Told(q[k], i) # {}
  <2>1. \A m : Tells(m, i) <=> Told(m, i) # {}
    BY Zenon DEF Tells, Told
  <2> QED
    BY <1>1, <2>1, Zenon DEF Telling
<1>3. T \in SUBSET (1..Len(q))
  BY <1>1, Zenon DEF Telling
<1> HIDE DEF q, T
<1>4. CASE Silent(q, i)
  <2>1. T = {}
    BY <1>2, <1>3, <1>4, Zenon DEF Silent
  <2> QED
    BY <1>4, <2>1, Zenon DEF ComingState, T, q
<1>5. CASE ~Silent(q, i)
  <2>1. PICK k \in 1..Len(q) : Told(q[k], i) # {} /\ \A l \in 1..Len(q) : Told(q[l], i) # {} => k >= l
    BY <1>1, <1>5, LastWord, Zenon
  <2>2. k \in T /\ \A l \in T : k >= l
    BY <1>2, <1>3, <2>1, Zenon
  <2> DEFINE n == Max(T)
  <2>3. n \in T /\ \A l \in T : n >= l
    BY <2>2, Zenon DEF Max
  <2> HIDE DEF n
  <2>4. n \in 1..Len(q) /\ Told(q[n], i) # {}
    BY <1>2, <1>3, <2>3, Zenon
  <2>5. ASSUME NEW l \in 1..Len(q), l > n PROVE Told(q[l], i) = {}
    <3>1. l \notin T
      BY <1>1, <2>3, <2>4, <2>5
    <3> QED
      BY <1>2, <3>1, Zenon
  <2>6. q[n].kind = "UpdateWorkloadState"
    BY <2>4 DEF Told
  <2>7. process_new_states(workload_state_store[a], q[n].states)[i] \in Told(q[n], i)
    BY <2>4, <2>6, Stores, Zenon
  <2>8. T # {}
    BY <2>2
  <2>9. ComingState(a, i) = process_new_states(workload_state_store[a], q[n].states)[i]
    BY <2>8, Zenon DEF ComingState, T, q, n
  <2>10. ComingState(a, i) \in Told(q[n], i)
    BY <2>7, <2>9, Zenon
  <2>11. Says(q, i, ComingState(a, i))
    BY <2>4, <2>5, <2>10, Zenon DEF Says
  <2> QED
    BY <2>11, Zenon DEF q
<1> QED
  BY <1>4, <1>5

\* By its last word or by its store, a connected agent that was greeted knows what
\* the server knows.
LEMMA SoundAgrees == Inv => StoresAgree
<1> SUFFICES ASSUME Inv,
                    NEW a \in {b \in connected \cap agent_map : AgentHello(b) \notin Range(to_server)},
                    NEW i \in {k \in Instance : k.agent # a}
             PROVE  \/ ComingState(a, i) = workload_states_map[i]
                    \/ workload_states_map[i] \in {"Initial", "NotScheduled"}
                    \/ workload_states_map[i] = None /\ i \in outlived[a]
  BY Zenon DEF StoresAgree
<1>1. a \in Agent /\ a \in connected /\ Answered(a)
  BY DEF Inv, Types, ServerOK, Answered
<1>2. i \in Instance /\ i \in Others(a)
  BY DEF Others
<1>3. Sound(a, i) /\ Types
  BY <1>1, <1>2, Zenon DEF Inv
<1>4. \/ Silent(OnTheWay(a), i) /\ ComingState(a, i) = workload_state_store[a][i]
      \/ Says(OnTheWay(a), i, ComingState(a, i))
  BY <1>1, <1>2, <1>3, Coming, Zenon
<1>5. Agree(ComingState(a, i), workload_states_map[i]) \/ (workload_states_map[i] = None /\ i \in outlived[a])
  BY <1>1, <1>3, <1>4, Zenon DEF Sound
<1> QED
  BY <1>5, Zenon DEF Agree

\* However connections break and come back, and whatever is asked for meanwhile,
\* the broadcasts of states, the ones a hello is answered with and those of a lost
\* agent bring every store to what the server knows.
THEOREM StoresAlwaysAgree == Spec => []StoresAgree
<1>1. Spec => []Inv
  BY InitInv, StepKeeps, PTL DEF Spec
<1> QED
  BY <1>1, SoundAgrees, PTL

=============================================================================
