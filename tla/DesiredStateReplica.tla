------------------------- MODULE DesiredStateReplica -------------------------
(***************************************************************************)
(* What the distribution of workloads promises, without messages and       *)
(* connections.  An agent that takes part sees the states the server wants *)
(* of it one after the other, in their order and none left out, and the    *)
(* last one it will see is the present one.  An agent may drop out at any  *)
(* time; whatever it sees then, it joins again only on its way to the      *)
(* present state.                                                          *)
(***************************************************************************)
EXTENDS Sequences, Naturals

CONSTANTS Agent, State

VARIABLES
  desired,  \* per agent: what the server wants of it
  seen,     \* per agent: what it has been told
  coming,   \* per agent: the states it is still to see, oldest first
  synced    \* per agent: it takes part

vars == <<desired, seen, coming, synced>>

Latest(a) == IF coming[a] = <<>> THEN seen[a] ELSE coming[a][Len(coming[a])]

Init ==
  /\ desired \in [Agent -> State] /\ seen \in [Agent -> State]
  /\ coming = [a \in Agent |-> <<>>] /\ synced = [a \in Agent |-> FALSE]

\* The server wants something else; every agent that takes part and is concerned
\* will see it.
Change ==
  /\ desired' \in [Agent -> State]
  /\ coming' = [a \in Agent |-> IF synced[a] /\ desired'[a] # desired[a]
                                THEN Append(coming[a], desired'[a]) ELSE coming[a]]
  /\ UNCHANGED <<seen, synced>>

\* The server tells the agent once more.
Repeat(a) ==
  /\ synced[a]
  /\ coming' = [coming EXCEPT ![a] = Append(@, desired[a])]
  /\ UNCHANGED <<desired, seen, synced>>

Advance(a) ==
  /\ synced[a] /\ coming[a] # <<>>
  /\ seen' = [seen EXCEPT ![a] = Head(coming[a])]
  /\ coming' = [coming EXCEPT ![a] = Tail(@)]
  /\ UNCHANGED <<desired, synced>>

\* Steps of an agent that does not take part, or ceases to.
Outside(a) ==
  /\ \E s \in State : seen' = [seen EXCEPT ![a] = s]
  /\ coming' = [coming EXCEPT ![a] = <<>>]
  /\ synced' = [synced EXCEPT ![a] = FALSE]
  /\ UNCHANGED desired

Join(a) ==
  /\ ~synced[a] /\ synced' = [synced EXCEPT ![a] = TRUE]
  /\ seen' \in [Agent -> State] /\ coming' \in [Agent -> Seq(State)]
  /\ \A b \in Agent \ {a} : seen'[b] = seen[b] /\ coming'[b] = coming[b]
  /\ Latest(a)' = desired[a]
  /\ UNCHANGED desired

Next ==
  \/ Change
  \/ \E a \in Agent : Repeat(a) \/ Advance(a) \/ Outside(a) \/ Join(a)

Spec == Init /\ [][Next]_vars

\* The last state an agent that takes part will see is the present one.
UpToDate == \A a \in Agent : synced[a] => Latest(a) = desired[a]

=============================================================================
