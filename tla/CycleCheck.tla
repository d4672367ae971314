----------------------------- MODULE CycleCheck -----------------------------
(***************************************************************************)
(* The depth-first search for cyclic workload dependencies                 *)
(* (server/src/ankaios_server/cycle_check.rs) and the start nodes that     *)
(* ServerState::update hands to it.  One step is one iteration of the      *)
(* search's inner loop, or the choice of the next start node.              *)
(*                                                                         *)
(* A workload name is a number, and names sort as numbers do.  `deps` may  *)
(* name workloads that are not part of the state.                          *)
(***************************************************************************)
EXTENDS Naturals, FiniteSets, Sequences, Functions, FiniteSetsExt

CONSTANTS
  Workload,     \* workload names
  Dependencies, \* the dependency maps under consideration
  Searching, Acyclic

ASSUME WorkloadAssumption ==
  /\ Workload \subseteq Nat /\ IsFiniteSet(Workload)
  /\ Dependencies \subseteq [Workload -> SUBSET Workload]
  /\ Searching \notin Workload /\ Acyclic \notin Workload \cup {Searching}

VARIABLES
  workloads,           \* the workloads of the new state
  deps,                \* their dependencies
  workloads_to_visit,  \* the start nodes not yet taken up
  stack, visited, path,
  result               \* Searching, Acyclic or the workload to complain about

vars == <<workloads, deps, workloads_to_visit, stack, visited, path, result>>

\* w lies on a cycle of the workloads in W: whatever contains its dependencies
\* and is closed under dependency contains w itself.
OnCycle(w, W) ==
  \A S \in SUBSET W :
    (deps[w] \cap W \subseteq S /\ \A x \in S : deps[x] \cap W \subseteq S) => w \in S

-----------------------------------------------------------------------------

\* The added workloads that have dependencies.
start_nodes(added) == {w \in added : deps[w] # {}}

\* The workloads that are not added were part of the previous state, which had
\* been accepted.
Init ==
  /\ workloads \in SUBSET Workload
  /\ deps \in Dependencies
  /\ \A w \in Workload \ workloads : deps[w] = {}
  /\ \E added \in SUBSET workloads :
       /\ \A w \in workloads \ added : ~OnCycle(w, workloads \ added)
       /\ workloads_to_visit = start_nodes(added)
  /\ stack = <<>> /\ visited = {} /\ path = <<>>
  /\ result = Searching

\* The start nodes are taken in the order of their names; one that has been
\* visited is passed over.
NextStart ==
  /\ result = Searching /\ stack = <<>> /\ workloads_to_visit # {}
  /\ LET w == Min(workloads_to_visit)
     IN /\ workloads_to_visit' = workloads_to_visit \ {w}
        /\ stack' = IF w \in visited THEN <<>> ELSE <<w>>
  /\ UNCHANGED <<workloads, deps, visited, path, result>>

\* No start node is left.
Finish ==
  /\ result = Searching /\ stack = <<>> /\ workloads_to_visit = {}
  /\ result' = Acyclic
  /\ UNCHANGED <<workloads, deps, workloads_to_visit, stack, visited, path>>

\* s enumerates S from the greatest to the smallest name: what pushing the
\* sorted names one by one to the front leaves there.
Pushed(s, S) ==
  /\ Range(s) = S
  /\ \A i, j \in DOMAIN s : i < j => s[i] > s[j]

\* Mutant: a visited dependency is taken for a cycle, on the path or not.
ScanMutant(w, rest) ==
  LET onPath == deps[w] \cap visited'
      open == deps[w] \ visited'
  IN IF onPath # {}
     THEN result' = Min(onPath) /\ stack' = rest
     ELSE /\ \E s \in [1..Cardinality(open) -> open] : Pushed(s, open) /\ stack' = s \o rest
          /\ UNCHANGED result

\* Mutant: the dependencies of a workload are pushed only if none is visited.
ScanSkips(w, rest) ==
  LET onPath == deps[w] \cap visited' \cap Range(path')
      open == IF deps[w] \cap visited' = {} THEN deps[w] ELSE {}
  IN IF onPath # {}
     THEN result' = Min(onPath) /\ stack' = rest
     ELSE /\ \E s \in [1..Cardinality(open) -> open] : Pushed(s, open) /\ stack' = s \o rest
          /\ UNCHANGED result

\* The dependencies in the order of their names: one on the path ends the
\* search, one that is not visited goes on the stack.
Scan(w, rest) ==
  LET onPath == deps[w] \cap visited' \cap Range(path')
      open == deps[w] \ visited'
  IN IF onPath # {}
     THEN result' = Min(onPath) /\ stack' = rest
     ELSE /\ \E s \in [1..Cardinality(open) -> open] : Pushed(s, open) /\ stack' = s \o rest
          /\ UNCHANGED result

\* Mutant: the workload is not put on the path.
VisitMutant ==
  /\ result = Searching /\ stack # <<>>
  /\ LET head == Head(stack)
     IN /\ head \in workloads /\ head \notin visited
        /\ visited' = visited \cup {head}
        /\ path' = path
        /\ Scan(head, stack)
  /\ UNCHANGED <<workloads, deps, workloads_to_visit>>

Visit ==
  /\ result = Searching /\ stack # <<>>
  /\ LET head == Head(stack)
     IN /\ head \in workloads /\ head \notin visited
        /\ visited' = visited \cup {head}
        /\ path' = Append(path, head)
        /\ Scan(head, stack)
  /\ UNCHANGED <<workloads, deps, workloads_to_visit>>

\* Mutant: the workload is not taken off the stack.
LeaveMutant ==
  /\ result = Searching /\ stack # <<>>
  /\ UNCHANGED <<workloads, deps, workloads_to_visit, visited>>
  /\ LET head == Head(stack)
     IN /\ head \in workloads /\ head \in visited
        /\ path' = SubSeq(path, 1, Len(path) - 1)
        /\ Scan(head, stack)

\* A workload that is met again is left: the end of the path goes, whichever
\* workload it is, and the dependencies are looked at once more.
Leave ==
  /\ result = Searching /\ stack # <<>>
  /\ UNCHANGED <<workloads, deps, workloads_to_visit, visited>>
  /\ LET head == Head(stack)
     IN /\ head \in workloads /\ head \in visited
        /\ path' = SubSeq(path, 1, Len(path) - 1)
        /\ Scan(head, Tail(stack))

SkipMissing ==
  /\ result = Searching /\ stack # <<>>
  /\ Head(stack) \notin workloads
  /\ stack' = Tail(stack)
  /\ UNCHANGED <<workloads, deps, workloads_to_visit, visited, path, result>>

Next == NextStart \/ Finish \/ Visit \/ Leave \/ SkipMissing

Spec == Init /\ [][Next]_vars

\* The search is one uninterrupted call.
FairSpec == Spec /\ WF_vars(Next)

-----------------------------------------------------------------------------
(* Properties *)

\* Types: the search visits only workloads that are part of the state.
TypeOK ==
  /\ workloads \subseteq Workload
  /\ deps \in [Workload -> SUBSET Workload]
  /\ workloads_to_visit \subseteq Workload
  /\ stack \in Seq(Workload) /\ path \in Seq(Workload)
  /\ visited \subseteq workloads
  /\ result \in Workload \cup {Searching, Acyclic}

\* No state without a cycle is rejected: the workload the search complains
\* about depends on itself, directly or through others.
ReportedIsOnCycle == result \in Workload => result \in workloads /\ OnCycle(result, workloads)

\* What the search has not looked at is still on the stack, so an accepted
\* state has been searched completely from its start nodes.
NothingSkipped ==
  result \notin Workload =>
    \A w \in visited : deps[w] \cap workloads \subseteq visited \cup Range(stack)

\* A workload that depends on itself is rejected whenever it is reached.
SelfDependencyFound ==
  result = Acyclic => \A w \in visited : w \notin deps[w]

\* The search ends: a workload that is on the stack several times, or in
\* several searches, is not visited again and again.
Terminates == <>(result # Searching)

\* server/doc/swdesign, server-state-rejects-state-with-cyclic-dependencies: a
\* state with a cycle is rejected.
CyclesAreRejected ==
  result = Acyclic => \A w \in workloads : ~OnCycle(w, workloads)

=============================================================================
