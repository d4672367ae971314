------------------------------- MODULE Events -------------------------------
(***************************************************************************)
(* Subscriptions to changes of the state (event_handler.rs) and what the   *)
(* server's handlers do to them (ankaios_server.rs).  A subscriber applies *)
(* the events to the state it got when it subscribed.  Handlers run one    *)
(* after the other and a subscriber's messages keep their order, so an     *)
(* event counts as received when it is sent.                               *)
(* Of workloadStates the levels of instance id, state and substate are one *)
(* leaf per agent and workload.                                            *)
(***************************************************************************)
EXTENDS StateComparator

CONSTANTS
  Agent, Workload,  \* keys
  Tag,              \* values of an agent's tag
  None,
  DesiredState,     \* trees that may be at desiredState; a workload keeps its agent
  Subscriber,       \* request ids: of workloads [agent, workload], of clients [cli]
  FieldMasks,       \* what is subscribed for
  MaxChanges        \* bound on the changes of the state

ASSUME EventsAssumption ==
  /\ None \notin Tag /\ MaxChanges \in Nat
  /\ \A D \in DesiredState : IsTree(D) /\ \A p \in Paths(D) \ {<<>>} : p[1] = "desiredState"

VARIABLES
  state,             \* desired state, workload states and agents, as the answer shows them
  subscriber_store,  \* per subscriber: its masks, or None
  view,              \* per subscriber: the state it knows
  blind,             \* subscribers that were not told of a change
  changes

vars == <<state, subscriber_store, view, blind, changes>>

agent_path(a) == <<"agents", a>>
tag_path(a) == <<"agents", a, "tags", "k">>
state_path(a, w) == <<"workloadStates", a, w>>
connected(a) == agent_path(a) \in Paths(state)

ofWorkload(r) == "workload" \in DOMAIN r

-----------------------------------------------------------------------------
(* Changes of the state *)

\* A tree with value v at p and nothing else.
Single(p, v) == Way(p) \cup {<<p, v>>}

\* An agent without tags is an empty mapping.
insert_agent(T, a, t) ==
  LET U == SetField(RemoveField(T, agent_path(a)), agent_path(a), Single(agent_path(a), Mapping))
  IN IF t = None THEN U ELSE SetField(U, tag_path(a), Single(tag_path(a), Scalar(t)))

set_agent_tags(T, a, t) ==
  IF agent_path(a) \in Paths(T)
  THEN LET p == <<"agents", a, "tags">>
       IN IF t = None THEN RemoveField(T, p) ELSE SetField(T, tag_path(a), Single(tag_path(a), Scalar(t)))
  ELSE T

put_state(T, a, w, s) == SetField(T, state_path(a, w), Single(state_path(a, w), Scalar(s)))

\* WorkloadStatesMap::remove, without empty mappings left.
remove_state(T, a, w) ==
  LET U == RemoveField(T, state_path(a, w))
  IN IF Children(Paths(U), <<"workloadStates", a>>) = {} THEN RemoveField(U, <<"workloadStates", a>>) ELSE U

agent_disconnected(T, a) ==
  {<<x[1], IF \E w \in Workload : x[1] = state_path(a, w) THEN Scalar("AgentDisconnected") ELSE x[2]>> : x \in T}

Assigned(T) ==
  {<<a, w>> \in Agent \X Workload :
     <<<<"desiredState", "workloads", w, "agent">>, Scalar(a)>> \in T}

\* ServerState::update and the states of the workloads that are added, or deleted
\* and were never started.
update_desired_state(T, D) ==
  LET U == SetField(T, <<"desiredState">>, D)
      added == {x \in Assigned(U) \ Assigned(T) : state_path(x[1], x[2]) \notin Paths(T)}
      unstarted == {x \in Assigned(T) \ Assigned(U) :
                      ~connected(x[1]) /\ <<state_path(x[1], x[2]), Scalar("Initial")>> \in T}
      V == FoldSet(LAMBDA x, X : put_state(X, x[1], x[2], "Initial"), U, added)
  IN FoldSet(LAMBDA x, X : remove_state(X, x[1], x[2]), V, unstarted)

-----------------------------------------------------------------------------
(* Events *)

\* What a subscriber makes of an event: of the fields that are there the state in
\* the event has the value.
ApplyEvent(V, fields, X) ==
  LET sent == {x \in X : \E p \in fields : Below(p, x[1])}
  IN {x \in V : \A p \in fields : ~Below(p, x[1])} \cup sent \cup UNION {Way(x[1]) : x \in sent}

Selects(m, p) == Len(m) <= Len(p) /\ Matches(m, SubSeq(p, 1, Len(m)))

\* Changes that a mask selects and no event tells: a mask that names a mapping
\* inside of what is added or removed, a sequence that is filled or emptied, and
\* a field below one that becomes, or was, something else than a mapping.
Unseen(d, m) ==
  \/ \E p \in d.full \ d.first :
       Matches(m, p) /\ Last(m) # Wildcard /\ Children(d.full, p) # {}
  \/ \E p \in d.first \ d.full : Children(d.first, p) = {} /\ Selects(m, p)
UnseenUpdate(D, m) ==
  \E p \in D : Children(D, p) = {} /\ Len(m) > Len(p) /\ Selects(SubSeq(m, 1, Len(p)), p)

\* EventHandler::send_events: of the difference of the present state and U, with
\* fields of the new state X, which is U but for the tags of agents.  R are
\* subscribers that are removed afterwards.
SendEvents(U, X, R) ==
  LET D == state_differences(state, U)
      tags == Paths(U \ X) \cup Paths(X \ U)
      After(masks, V) ==
        LET F == AlteredFields(D.added, masks) \cup AlteredFields(D.removed, masks)
                 \cup AlteredFields(D.updated, masks)
        IN IF F = {} THEN V ELSE ApplyEvent(V, F, get_complete_state_by_field_mask(X, F))
      Misses(masks) ==
        \/ tags # {} /\ (masks = {} \/ \E m \in masks, p \in tags : Selects(m, p))
        \/ \E m \in masks : Unseen(D.added, m) \/ Unseen(D.removed, m) \/ UnseenUpdate(D.updated.full, m)
      left == {r \in Subscriber \ R : subscriber_store[r] # None}
  IN /\ changes < MaxChanges /\ changes' = changes + 1
     /\ state' = X
     /\ view' = [r \in Subscriber |-> IF r \in left THEN After(subscriber_store[r], view[r]) ELSE None]
     /\ blind' = (blind \cap left) \cup {r \in left : Misses(subscriber_store[r])}
     /\ subscriber_store' = [r \in Subscriber |-> IF r \in left THEN subscriber_store[r] ELSE None]

-----------------------------------------------------------------------------
(* The handlers *)

\* An agent that is known, and comes back before its old connection has ended, has
\* its attributes replaced.
HandleAgentHello ==
  \E a \in Agent, t \in Tag \cup {None} :
    LET U == insert_agent(state, a, t) IN SendEvents(U, U, {})

\* An agent that is not known has no status.
HandleAgentLoadStatus ==
  \E a \in Agent, load \in {"low", "high"} :
    /\ connected(a)
    /\ LET p == <<"agents", a, "status">>
           U == SetField(state, p, Single(p, Scalar(load)))
       IN SendEvents(U, U, {})

remove_subscribers_of_agent(a) == {r \in Subscriber : ofWorkload(r) /\ r.agent = a}

\* Mutant: the subscribers of the agent stay.
HandleAgentGoneMutant ==
  \E a \in Agent :
    LET U == agent_disconnected(RemoveField(state, agent_path(a)), a)
    IN connected(a) /\ SendEvents(U, U, {})

HandleAgentGone ==
  \E a \in Agent :
    LET U == agent_disconnected(RemoveField(state, agent_path(a)), a)
    IN connected(a) /\ SendEvents(U, U, remove_subscribers_of_agent(a))

\* The tags are set before the difference is taken, which is without the agents.
HandleUpdateState ==
  \E D \in DesiredState, a \in Agent, t \in Tag \cup {None}, sets \in BOOLEAN :
    LET U == update_desired_state(state, D)
    IN SendEvents(U, IF sets THEN set_agent_tags(U, a, t) ELSE U, {})

remove_workload_subscriber(a, w) ==
  {r \in Subscriber : ofWorkload(r) /\ r.agent = a /\ r.workload = w}

\* A connected agent reports of a workload it was told of.
HandleUpdateWorkloadState ==
  \E a \in Agent, w \in Workload :
    /\ connected(a)
    /\ \/ /\ state_path(a, w) \in Paths(state)
          /\ LET U == put_state(state, a, w, "Running") IN SendEvents(U, U, {})
       \/ /\ state_path(a, w) \in Paths(state) /\ <<a, w>> \notin Assigned(state)
          /\ LET U == remove_state(state, a, w)
             IN SendEvents(U, U, remove_workload_subscriber(a, w))

\* The answer, and the subscription.  A request of the same id replaces the masks.
HandleCompleteStateRequest ==
  \E r \in Subscriber, masks \in FieldMasks :
    /\ ofWorkload(r) => /\ connected(r.agent)
                        /\ <<state_path(r.agent, r.workload), Scalar("Running")>> \in state
    /\ subscriber_store' = [subscriber_store EXCEPT ![r] = masks]
    /\ view' = [view EXCEPT ![r] = get_complete_state_by_field_mask(state, masks)]
    /\ blind' = blind \ {r}
    /\ UNCHANGED <<state, changes>>

\* EventsCancelRequest, and Goodbye of a client.
HandleCancel ==
  \E r \in Subscriber :
    /\ subscriber_store[r] # None
    /\ subscriber_store' = [subscriber_store EXCEPT ![r] = None]
    /\ view' = [view EXCEPT ![r] = None]
    /\ blind' = blind \ {r}
    /\ UNCHANGED <<state, changes>>

Init ==
  /\ \E D \in DesiredState :
       LET T == {<<p, Mapping>> : p \in {<<>>, <<"agents">>, <<"workloadStates">>}}
       IN state = FoldSet(LAMBDA x, X : put_state(X, x[1], x[2], "Initial"),
                          SetField(T, <<"desiredState">>, D), Assigned(D))
  /\ subscriber_store = [r \in Subscriber |-> None] /\ view = [r \in Subscriber |-> None]
  /\ blind = {} /\ changes = 0

Next ==
  \/ HandleAgentHello \/ HandleAgentLoadStatus \/ HandleAgentGone \/ HandleUpdateState
  \/ HandleUpdateWorkloadState \/ HandleCompleteStateRequest \/ HandleCancel

Spec == Init /\ [][Next]_vars

-----------------------------------------------------------------------------
Content(T) == {x \in T : x[2] # Mapping}

\* What a subscriber knows is what the server would answer it now, unless it was
\* not told of a change of the kinds listed with Unseen or of an agent's tags.
ViewIsCurrent ==
  \A r \in Subscriber \ blind :
    subscriber_store[r] # None
    => Content(view[r]) = Content(get_complete_state_by_field_mask(state, subscriber_store[r]))

\* No subscription outlives the connection of its agent or the workload.
NoCorpses ==
  \A r \in Subscriber :
    subscriber_store[r] # None /\ ofWorkload(r)
    => connected(r.agent) /\ state_path(r.agent, r.workload) \in Paths(state)

=============================================================================
