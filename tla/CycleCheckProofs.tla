-------------------------- MODULE CycleCheckProofs --------------------------
(* Proofs about CycleCheck, for every finite set of workloads and every       *)
(* dependency map.                                                            *)
EXTENDS CycleCheck, WellFoundedInduction, FiniteSetTheorems, TLAPS

\* The least of some workload names is one of them.
LEMMA MinIsMember ==
  ASSUME NEW S, S \subseteq Nat, S # {}
  PROVE  Min(S) \in S
<1>1. PICK x \in S : \A y \in S : ~(<<y, x>> \in OpToRel(<, Nat))
  BY NatLessThanWellFounded, WFMin
<1>2. OpToRel(<, Nat) = {p \in Nat \X Nat : p[1] < p[2]}
  BY DEF OpToRel
<1>3. \A y \in S : x =< y
  <2> SUFFICES ASSUME NEW y \in S
               PROVE  x =< y
    OBVIOUS
  <2>1. x \in Nat /\ y \in Nat
    OBVIOUS
  <2>2. y < x => <<y, x>> \in {p \in Nat \X Nat : p[1] < p[2]}
    BY <2>1
  <2>3. ~(y < x)
    BY <1>1, <1>2, <2>2
  <2>4. QED
    BY <2>1, <2>3
<1>4. QED
  BY <1>3 DEF Min

\* What a sequence holds after a concatenation, an append and a removal.
LEMMA RangeFacts ==
  ASSUME NEW S, NEW s \in Seq(S), NEW t \in Seq(S)
  PROVE  /\ s \o t \in Seq(S) /\ Range(s \o t) = Range(s) \cup Range(t)
         /\ \A x \in S : Append(s, x) \in Seq(S) /\ x \in Range(Append(s, x))
         /\ s # <<>> => /\ Head(s) \in S /\ Tail(s) \in Seq(S)
                        /\ Range(s) \subseteq {Head(s)} \cup Range(Tail(s))
         /\ SubSeq(s, 1, Len(s) - 1) \in Seq(S)
<1>1. s \o t \in Seq(S) /\ Range(s \o t) = Range(s) \cup Range(t)
  <2>1. /\ s \o t \in Seq(S) /\ Len(s \o t) = Len(s) + Len(t)
        /\ \A i \in 1..(Len(s) + Len(t)) :
             (s \o t)[i] = IF i <= Len(s) THEN s[i] ELSE t[i - Len(s)]
    OBVIOUS
  <2>2. ASSUME NEW i \in DOMAIN t
        PROVE  t[i] \in Range(s \o t)
    <3>1. i + Len(s) \in DOMAIN (s \o t) /\ (s \o t)[i + Len(s)] = t[i]
      BY <2>1
    <3>2. QED
      BY <3>1 DEF Range
  <2>3. ASSUME NEW i \in DOMAIN s
        PROVE  s[i] \in Range(s \o t)
    <3>1. i \in DOMAIN (s \o t) /\ (s \o t)[i] = s[i]
      BY <2>1
    <3>2. QED
      BY <3>1 DEF Range
  <2>4. ASSUME NEW i \in DOMAIN (s \o t)
        PROVE  (s \o t)[i] \in Range(s) \cup Range(t)
    BY <2>1 DEF Range
  <2>5. QED
    BY <2>1, <2>2, <2>3, <2>4 DEF Range
<1>2. ASSUME NEW x \in S
      PROVE  Append(s, x) \in Seq(S) /\ x \in Range(Append(s, x))
  <2>1. /\ Append(s, x) \in Seq(S) /\ Len(s) + 1 \in DOMAIN Append(s, x)
        /\ Append(s, x)[Len(s) + 1] = x
    OBVIOUS
  <2>2. QED
    BY <2>1 DEF Range
<1>3. ASSUME s # <<>>
      PROVE  /\ Head(s) \in S /\ Tail(s) \in Seq(S)
             /\ Range(s) \subseteq {Head(s)} \cup Range(Tail(s))
  <2>1. /\ Head(s) \in S /\ Tail(s) \in Seq(S) /\ Head(s) = s[1]
        /\ \A i \in DOMAIN s : i # 1 => i - 1 \in DOMAIN Tail(s) /\ Tail(s)[i - 1] = s[i]
    BY <1>3
  <2>2. QED
    BY <2>1 DEF Range
<1>4. SubSeq(s, 1, Len(s) - 1) \in Seq(S)
  OBVIOUS
<1>5. QED
  BY <1>1, <1>2, <1>3, <1>4

\* Scanning the dependencies of a visited workload either rejects the state
\* with one of them or leaves the unvisited ones on the stack.
LEMMA ScanFacts ==
  ASSUME TypeOK, NEW w \in workloads, NEW rest \in Seq(Workload), Scan(w, rest),
         visited' \subseteq Workload
  PROVE  /\ stack' \in Seq(Workload)
         /\ Range(rest) \subseteq Range(stack')
         /\ \/ result' \in deps[w] /\ result' \in visited' /\ result' \in Range(path')
            \/ /\ UNCHANGED result
               /\ deps[w] \subseteq visited' \cup Range(stack')
               /\ deps[w] \cap visited' \cap Range(path') = {}
               /\ \E s \in Seq(Workload) : Range(s) \subseteq deps[w] /\ stack' = s \o rest
<1> DEFINE onPath == deps[w] \cap visited' \cap Range(path')
           open == deps[w] \ visited'
<1>1. deps[w] \subseteq Workload /\ Workload \subseteq Nat
  BY WorkloadAssumption DEF TypeOK
<1>2. CASE onPath # {}
  <2>1. Min(onPath) \in onPath
    BY <1>1, <1>2, MinIsMember
  <2>2. result' = Min(onPath) /\ stack' = rest
    BY <1>2 DEF Scan
  <2>3. QED
    BY <2>1, <2>2
<1>3. CASE onPath = {}
  <2>1. PICK s \in [1..Cardinality(open) -> open] :
          Range(s) = open /\ stack' = s \o rest /\ UNCHANGED result
    BY <1>3 DEF Scan, Pushed
  <2>2. s \in Seq(Workload)
    <3>1. IsFiniteSet(Workload) /\ open \in SUBSET Workload
      BY <1>1, WorkloadAssumption
    <3>2. IsFiniteSet(open)
      BY <3>1, FS_Subset
    <3>3. Cardinality(open) \in Nat
      BY <3>2, FS_CardinalityType
    <3> HIDE DEF open
    <3>4. QED
      BY <3>1, <3>3
  <2>3. stack' \in Seq(Workload) /\ Range(stack') = Range(s) \cup Range(rest)
    BY <2>1, <2>2, RangeFacts
  <2>4. \E r \in Seq(Workload) : Range(r) \subseteq deps[w] /\ stack' = r \o rest
    BY <2>1, <2>2
  <2>5. QED
    BY <1>3, <2>1, <2>3, <2>4
<1>4. QED
  BY <1>2, <1>3

\* While the search goes on, no visited workload depends on itself.
NoLoopYet == result \notin Workload => \A w \in visited : w \notin deps[w]

Inv == TypeOK /\ NothingSkipped /\ NoLoopYet

\* Every step of the search (dfs) keeps the invariant.
LEMMA InvStep == Inv /\ [Next]_vars => Inv'
<1> SUFFICES ASSUME Inv, [Next]_vars
             PROVE  Inv'
  OBVIOUS
<1>a. /\ TypeOK /\ stack \in Seq(Workload) /\ path \in Seq(Workload)
      /\ Searching \notin Workload /\ Acyclic \notin Workload /\ Workload \subseteq Nat
  BY WorkloadAssumption DEF Inv, TypeOK
<1>1. CASE NextStart
  <2>1. Min(workloads_to_visit) \in Workload
    BY <1>a, <1>1, MinIsMember DEF NextStart, TypeOK
  <2>2. stack' \in Seq(Workload)
    BY <1>1, <2>1 DEF NextStart
  <2>3. TypeOK'
    BY <1>1, <1>a, <2>2 DEF NextStart, TypeOK
  <2>4. Range(stack) = {}
    BY <1>1 DEF NextStart, Range
  <2>5. QED
    BY <1>1, <2>3, <2>4 DEF NextStart, Inv, NothingSkipped, NoLoopYet
<1>2. CASE Finish
  BY <1>2, <1>a DEF Finish, Inv, TypeOK, NothingSkipped, NoLoopYet
<1>3. CASE Visit
  <2> DEFINE head == Head(stack)
  <2>1. /\ head \in workloads /\ visited' = visited \cup {head} /\ path' = Append(path, head)
        /\ Scan(head, stack) /\ result = Searching
        /\ UNCHANGED <<workloads, deps, workloads_to_visit>>
    BY <1>3 DEF Visit
  <2>2. visited' \subseteq workloads /\ workloads \subseteq Workload /\ head \in Workload
    BY <1>a, <2>1 DEF TypeOK
  <2>3. path' \in Seq(Workload) /\ head \in Range(path')
    BY <1>a, <2>1, <2>2, RangeFacts
  <2> HIDE DEF head
  <2>4. /\ stack' \in Seq(Workload) /\ Range(stack) \subseteq Range(stack')
        /\ \/ result' \in deps[head]
           \/ /\ UNCHANGED result /\ deps[head] \subseteq visited' \cup Range(stack')
              /\ deps[head] \cap visited' \cap Range(path') = {}
    BY <1>a, <2>1, <2>2, ScanFacts
  <2>5. deps[head] \subseteq Workload
    BY <1>a, <2>2 DEF TypeOK
  <2>6. TypeOK'
    BY <1>a, <2>1, <2>2, <2>3, <2>4, <2>5 DEF TypeOK
  <2>7. NothingSkipped'
    BY <1>a, <2>1, <2>4, <2>5 DEF Inv, NothingSkipped
  <2>8. NoLoopYet'
    BY <1>a, <2>1, <2>3, <2>4, <2>5 DEF Inv, NoLoopYet
  <2>9. QED
    BY <2>6, <2>7, <2>8 DEF Inv
<1>4. CASE Leave
  <2> DEFINE head == Head(stack)
  <2>1. /\ stack # <<>> /\ head \in workloads /\ head \in visited
        /\ path' = SubSeq(path, 1, Len(path) - 1)
        /\ Scan(head, Tail(stack)) /\ result = Searching
        /\ UNCHANGED <<workloads, deps, workloads_to_visit, visited>>
    BY <1>4 DEF Leave
  <2>2. /\ Tail(stack) \in Seq(Workload) /\ path' \in Seq(Workload)
        /\ Range(stack) \subseteq {head} \cup Range(Tail(stack))
    BY <1>a, <2>1, RangeFacts
  <2> HIDE DEF head
  <2>3. visited' \subseteq Workload
    BY <1>a, <2>1 DEF TypeOK
  <2>4. /\ stack' \in Seq(Workload) /\ Range(Tail(stack)) \subseteq Range(stack')
        /\ result' \in deps[head] \/ UNCHANGED result
    BY <1>a, <2>1, <2>2, <2>3, ScanFacts
  <2>5. deps[head] \subseteq Workload
    BY <1>a, <2>1 DEF TypeOK
  <2>6. TypeOK'
    BY <1>a, <2>1, <2>2, <2>4, <2>5 DEF TypeOK
  <2>7. NothingSkipped' /\ NoLoopYet'
    BY <1>a, <2>1, <2>2, <2>4, <2>5 DEF Inv, NothingSkipped, NoLoopYet
  <2>8. QED
    BY <2>6, <2>7 DEF Inv
<1>5. CASE SkipMissing
  <2>1. /\ stack # <<>> /\ stack' = Tail(stack) /\ Head(stack) \notin workloads
        /\ UNCHANGED <<workloads, deps, workloads_to_visit, visited, path, result>>
    BY <1>5 DEF SkipMissing
  <2>2. /\ Tail(stack) \in Seq(Workload)
        /\ Range(stack) \subseteq {Head(stack)} \cup Range(Tail(stack))
    BY <1>a, <2>1, RangeFacts
  <2>3. TypeOK'
    BY <1>a, <2>1, <2>2 DEF TypeOK
  <2>4. NothingSkipped' /\ NoLoopYet'
    BY <2>1, <2>2 DEF Inv, NothingSkipped, NoLoopYet
  <2>5. QED
    BY <2>3, <2>4 DEF Inv
<1>6. CASE UNCHANGED vars
  BY <1>6 DEF vars, Inv, TypeOK, NothingSkipped, NoLoopYet
<1>7. QED
  BY <1>1, <1>2, <1>3, <1>4, <1>5, <1>6 DEF Next

\* The invariant holds when the search starts.
LEMMA InitInv == Init => Inv
<1> SUFFICES ASSUME Init
             PROVE  Inv
  OBVIOUS
<1>1. workloads_to_visit \subseteq Workload
  BY DEF Init, start_nodes
<1>2. <<>> \in Seq(Workload)
  OBVIOUS
<1>3. deps \in [Workload -> SUBSET Workload]
  BY WorkloadAssumption DEF Init
<1>4. QED
  BY <1>1, <1>2, <1>3 DEF Init, Inv, TypeOK, NothingSkipped, NoLoopYet

\* The invariant behind both theorems holds throughout the search.
LEMMA Invariance == Spec => []Inv
  BY InitInv, InvStep, PTL DEF Spec

-----------------------------------------------------------------------------
(* What the search complains about *)

\* y depends on x's dependencies, directly or through others: it is in every set that
\* contains them and is closed under dependency.
Reaches(x, y) ==
  \A S \in SUBSET workloads :
    (deps[x] \cap workloads \subseteq S /\ \A z \in S : deps[z] \cap workloads \subseteq S) => y \in S

\* The workloads of the path p are on the stack s, in this order, each below workloads
\* that it reaches.  The path may lack some of those that are being visited.
Below(f, p, s) ==
  /\ f \in [1..Len(p) -> 1..Len(s)]
  /\ \A i, j \in 1..Len(p) : i < j => f[j] < f[i]
  /\ \A i \in 1..Len(p) : s[f[i]] = p[i]
  /\ \A i \in 1..Len(p) : \A k \in 1..Len(s) :
       k < f[i] /\ s[k] \in workloads => Reaches(p[i], s[k])
Frames(p, s) == \E f : Below(f, p, s)

\* The invariant of the search.
OnTrack == result = Searching => Range(path) \subseteq visited /\ Frames(path, stack)

\* A workload reaches what a workload it reaches depends on.
LEMMA ReachesOn ==
  ASSUME NEW x, NEW h \in workloads, x = h \/ Reaches(x, h), NEW y \in deps[h] \cap workloads
  PROVE  Reaches(x, y)
BY DEF Reaches

\* The dependencies t of h are put on the stack.
LEMMA Pushing ==
  ASSUME NEW h \in workloads, NEW p \in Seq(Workload), NEW s \in Seq(Workload), NEW t \in Seq(Workload),
         Range(t) \subseteq deps[h], Frames(p, s),
         \A i \in 1..Len(p) : p[i] = h \/ Reaches(p[i], h)
  PROVE  Frames(p, t \o s)
<1>1. PICK f : Below(f, p, s)
  BY DEF Frames
<1> DEFINE g == [i \in 1..Len(p) |-> f[i] + Len(t)]
           u == t \o s
<1>2. /\ Len(u) = Len(t) + Len(s) /\ Len(t) \in Nat /\ Len(s) \in Nat /\ Len(p) \in Nat
      /\ \A k \in 1..Len(t) : u[k] = t[k]
      /\ \A k \in 1..Len(s) : u[k + Len(t)] = s[k]
  OBVIOUS
<1>3. \A k \in 1..Len(t) : t[k] \in deps[h]
  BY DEF Range
<1>4. f \in [1..Len(p) -> 1..Len(s)]
  BY <1>1 DEF Below
<1> HIDE DEF u
<1>5. g \in [1..Len(p) -> 1..Len(u)]
  BY <1>2, <1>4
<1>6. \A i, j \in 1..Len(p) : i < j => g[j] < g[i]
  <2>1. \A i, j \in 1..Len(p) : i < j => f[j] < f[i]
    BY <1>1 DEF Below
  <2>2. \A i \in 1..Len(p) : g[i] = f[i] + Len(t) /\ f[i] \in Nat
    BY <1>2, <1>4
  <2> HIDE DEF g
  <2> QED
    BY <1>2, <2>1, <2>2
<1>7. \A i \in 1..Len(p) : u[g[i]] = p[i]
  BY <1>1, <1>2, <1>4 DEF Below
<1>8. ASSUME NEW i \in 1..Len(p), NEW k \in 1..Len(u), k < g[i], u[k] \in workloads
      PROVE  Reaches(p[i], u[k])
  <2>1. CASE k \in 1..Len(t)
    BY <1>2, <1>3, <1>8, <2>1, ReachesOn
  <2>2. CASE k \notin 1..Len(t)
    <3>1. k - Len(t) \in 1..Len(s) /\ k - Len(t) < f[i] /\ u[k] = s[k - Len(t)]
      BY <1>2, <1>4, <1>8, <2>2
    <3> QED
      BY <1>1, <1>8, <3>1 DEF Below
  <2> QED
    BY <2>1, <2>2
<1>9. Below(g, p, u)
  BY <1>5, <1>6, <1>7, <1>8 DEF Below
<1> QED
  BY <1>9 DEF Frames, u

\* The first workload of the stack goes, without being on the path.
LEMMA Skipping ==
  ASSUME NEW p \in Seq(Workload), NEW s \in Seq(Workload), s # <<>>, NEW f, Below(f, p, s),
         \A i \in 1..Len(p) : f[i] # 1
  PROVE  Frames(p, Tail(s)) /\ \A i \in 1..Len(p) : Head(s) \in workloads => Reaches(p[i], Head(s))
<1> DEFINE g == [i \in 1..Len(p) |-> f[i] - 1]
           u == Tail(s)
<1>2. /\ Len(u) = Len(s) - 1 /\ Len(s) \in Nat /\ Len(p) \in Nat /\ 1 \in 1..Len(s) /\ Head(s) = s[1]
      /\ \A k \in 1..Len(u) : u[k] = s[k + 1]
  OBVIOUS
<1>3. f \in [1..Len(p) -> 1..Len(s)]
  BY DEF Below
<1>4. \A i \in 1..Len(p) : f[i] \in 2..Len(s)
  BY <1>2, <1>3
<1> HIDE DEF u
<1>5. g \in [1..Len(p) -> 1..Len(u)]
  BY <1>2, <1>3, <1>4
<1>6. \A i, j \in 1..Len(p) : i < j => g[j] < g[i]
  BY <1>2, <1>3, <1>4 DEF Below
<1>7. \A i \in 1..Len(p) : u[g[i]] = p[i]
  BY <1>2, <1>3, <1>4 DEF Below
<1>8. ASSUME NEW i \in 1..Len(p), NEW k \in 1..Len(u), k < g[i], u[k] \in workloads
      PROVE  Reaches(p[i], u[k])
  <2>1. k + 1 \in 1..Len(s) /\ k + 1 < f[i] /\ u[k] = s[k + 1]
    BY <1>2, <1>3, <1>4, <1>8
  <2> QED
    BY <1>8, <2>1 DEF Below
<1>9. Below(g, p, u)
  BY <1>5, <1>6, <1>7, <1>8 DEF Below
<1>10. \A i \in 1..Len(p) : Head(s) \in workloads => Reaches(p[i], Head(s))
  BY <1>2, <1>3, <1>4 DEF Below
<1> QED
  BY <1>9, <1>10 DEF Frames, u

\* The end of the path and the first workload of the stack go together.
LEMMA Leaving ==
  ASSUME NEW p \in Seq(Workload), NEW s \in Seq(Workload), s # <<>>, Frames(p, s)
  PROVE  LET q == SubSeq(p, 1, Len(p) - 1)
         IN /\ q \in Seq(Workload) /\ Range(q) \subseteq Range(p) /\ Frames(q, Tail(s))
            /\ \A i \in 1..Len(q) : Head(s) \in workloads => Reaches(q[i], Head(s))
<1> DEFINE q == SubSeq(p, 1, Len(p) - 1)
<1>1. PICK f : Below(f, p, s)
  BY DEF Frames
<1>2. q \in Seq(Workload) /\ Len(p) \in Nat /\ \A i \in 1..Len(q) :
        i \in 1..Len(p) /\ i + 1 \in 1..Len(p) /\ i < i + 1 /\ q[i] = p[i]
  OBVIOUS
<1> DEFINE g == [i \in 1..Len(q) |-> f[i]]
<1> HIDE DEF q
<1>3. f \in [1..Len(p) -> 1..Len(s)] /\ Len(s) \in Nat
  BY <1>1 DEF Below
<1>4. \A i \in 1..Len(q) : g[i] # 1
  <2>1. \A i, j \in 1..Len(p) : i < j => f[j] < f[i]
    BY <1>1 DEF Below
  <2>2. \A i \in 1..Len(q) : f[i + 1] < f[i] /\ f[i] \in Nat /\ f[i + 1] \in Nat /\ f[i + 1] # 0
    BY <1>2, <1>3, <2>1
  <2> QED
    BY <2>2
<1>5. Below(g, q, s)
  BY <1>1, <1>2, <1>3 DEF Below
<1>6. Frames(q, Tail(s)) /\ \A i \in 1..Len(q) : Head(s) \in workloads => Reaches(q[i], Head(s))
  <2> HIDE DEF g
  <2> QED
    BY <1>2, <1>4, <1>5, Skipping
<1>7. Range(q) \subseteq Range(p)
  BY <1>2 DEF Range
<1> QED
  BY <1>2, <1>6, <1>7 DEF q

\* The first workload of the stack is put on the path.
LEMMA Visiting ==
  ASSUME NEW p \in Seq(Workload), NEW s \in Seq(Workload), s # <<>>, Frames(p, s),
         Head(s) \in workloads, Head(s) \notin Range(p)
  PROVE  /\ Frames(Append(p, Head(s)), s)
         /\ \A i \in 1..Len(p) : Reaches(p[i], Head(s))
<1> DEFINE q == Append(p, Head(s))
<1>1. PICK f : Below(f, p, s)
  BY DEF Frames
<1>2. /\ Len(p) \in Nat /\ Len(q) = Len(p) + 1 /\ Len(s) \in Nat /\ 1 \in 1..Len(s) /\ Head(s) = s[1]
      /\ \A i \in 1..Len(p) : q[i] = p[i]
      /\ q[Len(p) + 1] = Head(s)
  OBVIOUS
<1>3. f \in [1..Len(p) -> 1..Len(s)]
  BY <1>1 DEF Below
<1>4. \A i \in 1..Len(p) : f[i] # 1
  <2>1. \A i \in 1..Len(p) : p[i] # Head(s)
    BY DEF Range
  <2> QED
    BY <1>1, <1>2, <2>1 DEF Below
<1> DEFINE g == [i \in 1..Len(q) |-> IF i = Len(q) THEN 1 ELSE f[i]]
<1> HIDE DEF q
<1>5. \A i \in 1..Len(q) : i = Len(q) \/ (i \in 1..Len(p) /\ i # Len(q))
  BY <1>2
<1>6. \A i \in 1..Len(p) : f[i] \in 2..Len(s) /\ i \in 1..Len(q) /\ i # Len(q)
  BY <1>2, <1>3, <1>4
<1>7. /\ g \in [1..Len(q) -> 1..Len(s)] /\ g[Len(q)] = 1
      /\ \A i \in 1..Len(p) : g[i] = f[i]
  BY <1>2, <1>5, <1>6
<1> HIDE DEF g
<1>8. ASSUME NEW i \in 1..Len(q), NEW j \in 1..Len(q), i < j PROVE g[j] < g[i]
  <2>1. i \in 1..Len(p)
    BY <1>2, <1>8
  <2>2. CASE j = Len(q)
    BY <1>6, <1>7, <2>1, <2>2
  <2>3. CASE j \in 1..Len(p)
    BY <1>1, <1>7, <1>8, <2>1, <2>3 DEF Below
  <2> QED
    BY <1>5, <2>2, <2>3
<1>9. \A i \in 1..Len(q) : s[g[i]] = q[i]
  BY <1>1, <1>2, <1>5, <1>7 DEF Below
<1>10. \A i \in 1..Len(p) : Reaches(p[i], Head(s))
  BY <1>1, <1>2, <1>6 DEF Below
<1>11. ASSUME NEW i \in 1..Len(q), NEW k \in 1..Len(s), k < g[i], s[k] \in workloads
       PROVE  Reaches(q[i], s[k])
  <2>1. i \in 1..Len(p)
    BY <1>2, <1>5, <1>7, <1>11
  <2> QED
    BY <1>1, <1>2, <1>7, <1>11, <2>1 DEF Below
<1>12. Below(g, q, s)
  BY <1>7, <1>8, <1>9, <1>11 DEF Below
<1> QED
  BY <1>10, <1>12 DEF Frames, q

\* A dependency of h that reaches h is on a cycle.
LEMMA ClosesCycle ==
  ASSUME NEW h \in workloads, NEW x \in deps[h] \cap workloads, x = h \/ Reaches(x, h)
  PROVE  OnCycle(x, workloads)
BY DEF Reaches, OnCycle

\* Every step of the search keeps to the track, and complains only about a cycle.
LEMMA TrackStep == Inv /\ OnTrack /\ ReportedIsOnCycle /\ [Next]_vars => OnTrack' /\ ReportedIsOnCycle'
<1> SUFFICES ASSUME Inv, OnTrack, ReportedIsOnCycle, [Next]_vars
             PROVE  OnTrack' /\ ReportedIsOnCycle'
  BY Zenon
<1>a. /\ TypeOK /\ stack \in Seq(Workload) /\ path \in Seq(Workload) /\ visited \subseteq workloads
      /\ Searching \notin Workload /\ Acyclic \notin Workload /\ workloads \subseteq Workload
  BY WorkloadAssumption DEF Inv, TypeOK
<1>b. ASSUME UNCHANGED <<workloads, deps>>, Range(path') \subseteq visited', Frames(path', stack')
      PROVE  OnTrack'
  <2>1. PICK f : Below(f, path', stack')
    BY <1>b DEF Frames
  <2>2. \A x, y : Reaches(x, y)' = Reaches(x, y)
    BY <1>b DEF Reaches
  <2>3. Below(f, path, stack)'
    BY <1>b, <2>1, <2>2, Zenon DEF Below
  <2> QED
    BY <1>b, <2>3 DEF OnTrack, Frames
<1>c. ASSUME UNCHANGED <<workloads, deps>>, result' \in workloads, OnCycle(result', workloads)
      PROVE  ReportedIsOnCycle' /\ OnTrack'
  BY <1>a, <1>c DEF ReportedIsOnCycle, OnCycle, OnTrack
<1>d. ASSUME UNCHANGED <<workloads, deps>>, UNCHANGED result \/ result' = Acyclic, result = Searching
      PROVE  ReportedIsOnCycle'
  BY <1>a, <1>d DEF ReportedIsOnCycle
<1>1. CASE NextStart
  <2>1. stack = <<>> /\ result = Searching /\ UNCHANGED <<workloads, deps, visited, path, result>>
    BY <1>1 DEF NextStart
  <2>2. path = <<>>
    <3>1. PICK f : Below(f, path, stack)
      BY <2>1 DEF OnTrack, Frames
    <3>2. f \in [1..Len(path) -> {}]
      BY <2>1, <3>1 DEF Below
    <3>3. 1 \notin 1..Len(path)
      BY <3>2
    <3> QED
      BY <1>a, <3>3
  <2>3. Below(<<>>, path', stack')
    BY <2>1, <2>2 DEF Below
  <2>4. OnTrack'
    BY <1>b, <2>1, <2>3 DEF Frames, OnTrack
  <2> QED
    BY <1>d, <2>1, <2>4
<1>2. CASE Finish
  BY <1>2, <1>d, WorkloadAssumption DEF Finish, OnTrack
<1>3. CASE Visit
  <2> DEFINE h == Head(stack)
  <2>1. /\ h \in workloads /\ h \notin visited /\ visited' = visited \cup {h} /\ path' = Append(path, h)
        /\ Scan(h, stack) /\ result = Searching /\ stack # <<>>
        /\ UNCHANGED <<workloads, deps>>
    BY <1>3 DEF Visit
  <2>2. Range(path) \subseteq visited /\ Frames(path, stack)
    BY <2>1 DEF OnTrack
  <2>3. Frames(path', stack) /\ \A i \in 1..Len(path) : Reaches(path[i], h)
    BY <1>a, <2>1, <2>2, Visiting
  <2>4. /\ path' \in Seq(Workload) /\ \A i \in 1..Len(path') : path'[i] = h \/ Reaches(path'[i], h)
        /\ Range(path') \subseteq visited'
    <3>1. /\ path' \in Seq(Workload) /\ Len(path) \in Nat /\ Len(path') = Len(path) + 1
          /\ path'[Len(path) + 1] = h /\ \A i \in 1..Len(path) : path'[i] = path[i]
      BY <1>a, <2>1
    <3>2. \A i \in 1..Len(path') : i = Len(path) + 1 \/ i \in 1..Len(path)
      BY <3>1
    <3>3. DOMAIN path' = 1..Len(path') /\ DOMAIN path = 1..Len(path)
      BY <1>a, <3>1
    <3> QED
      BY <2>1, <2>2, <2>3, <3>1, <3>2, <3>3 DEF Range
  <2>5. visited' \subseteq workloads
    BY <1>a, <2>1
  <2> HIDE DEF h
  <2>6. \/ result' \in deps[h] /\ result' \in visited' /\ result' \in Range(path')
        \/ UNCHANGED result /\ \E s \in Seq(Workload) : Range(s) \subseteq deps[h] /\ stack' = s \o stack
    BY <1>a, <2>1, <2>5, ScanFacts
  <2>7. CASE result' \in deps[h] /\ result' \in visited' /\ result' \in Range(path')
    <3>1. PICK i \in 1..Len(path') : path'[i] = result'
      BY <2>4, <2>7 DEF Range
    <3>2. OnCycle(result', workloads)
      BY <2>1, <2>4, <2>5, <2>7, <3>1, ClosesCycle
    <3> QED
      BY <1>c, <2>1, <2>5, <2>7, <3>2
  <2>8. CASE UNCHANGED result /\ \E s \in Seq(Workload) : Range(s) \subseteq deps[h] /\ stack' = s \o stack
    <3>1. Frames(path', stack')
      BY <1>a, <2>1, <2>3, <2>4, <2>8, Pushing
    <3> QED
      BY <1>b, <1>d, <2>1, <2>4, <2>8, <3>1
  <2> QED
    BY <2>6, <2>7, <2>8
<1>4. CASE Leave
  <2> DEFINE h == Head(stack)
  <2>1. /\ h \in workloads /\ h \in visited /\ path' = SubSeq(path, 1, Len(path) - 1)
        /\ Scan(h, Tail(stack)) /\ result = Searching /\ stack # <<>>
        /\ UNCHANGED <<workloads, deps, visited>>
    BY <1>4 DEF Leave
  <2>2. Range(path) \subseteq visited /\ Frames(path, stack)
    BY <2>1 DEF OnTrack
  <2>3. /\ path' \in Seq(Workload) /\ Range(path') \subseteq visited' /\ Frames(path', Tail(stack))
        /\ \A i \in 1..Len(path') : Reaches(path'[i], h)
    BY <1>a, <2>1, <2>2, Leaving
  <2>4. Tail(stack) \in Seq(Workload) /\ visited' \subseteq workloads
    BY <1>a, <2>1
  <2> HIDE DEF h
  <2>6. \/ result' \in deps[h] /\ result' \in visited' /\ result' \in Range(path')
        \/ UNCHANGED result /\ \E s \in Seq(Workload) : Range(s) \subseteq deps[h] /\ stack' = s \o Tail(stack)
    BY <1>a, <2>1, <2>4, ScanFacts
  <2>7. CASE result' \in deps[h] /\ result' \in visited' /\ result' \in Range(path')
    <3>1. PICK i \in 1..Len(path') : path'[i] = result'
      BY <2>3, <2>7 DEF Range
    <3>2. OnCycle(result', workloads)
      BY <2>1, <2>3, <2>4, <2>7, <3>1, ClosesCycle
    <3> QED
      BY <1>c, <2>1, <2>4, <2>7, <3>2
  <2>8. CASE UNCHANGED result /\ \E s \in Seq(Workload) : Range(s) \subseteq deps[h] /\ stack' = s \o Tail(stack)
    <3>1. Frames(path', stack')
      BY <1>a, <2>1, <2>3, <2>4, <2>8, Pushing
    <3> QED
      BY <1>b, <1>d, <2>1, <2>3, <2>8, <3>1
  <2> QED
    BY <2>6, <2>7, <2>8
<1>5. CASE SkipMissing
  <2>1. /\ Head(stack) \notin workloads /\ result = Searching /\ stack # <<>> /\ stack' = Tail(stack)
        /\ UNCHANGED <<workloads, deps, visited, path, result>>
    BY <1>5 DEF SkipMissing
  <2>2. PICK f : Below(f, path, stack)
    BY <2>1 DEF OnTrack, Frames
  <2>3. \A i \in 1..Len(path) : f[i] # 1
    <3>1. \A i \in 1..Len(path) : path[i] # stack[1]
      BY <1>a, <2>1 DEF OnTrack, Range
    <3> QED
      BY <2>2, <3>1 DEF Below
  <2>4. Frames(path', stack')
    BY <1>a, <2>1, <2>2, <2>3, Skipping
  <2> QED
    BY <1>b, <1>d, <2>1, <2>4 DEF OnTrack
<1>6. CASE UNCHANGED vars
  BY <1>6 DEF vars, OnTrack, ReportedIsOnCycle, OnCycle, Frames, Below, Reaches
<1> QED
  BY <1>1, <1>2, <1>3, <1>4, <1>5, <1>6 DEF Next

\* Whatever the graph and the order of the search, the workload that a state is rejected
\* with depends on itself, although the path loses workloads before they are left.
THEOREM RejectedIsCyclic == Spec => []ReportedIsOnCycle
<1>1. Init => OnTrack /\ ReportedIsOnCycle
  <2> SUFFICES ASSUME Init PROVE OnTrack /\ ReportedIsOnCycle
    OBVIOUS
  <2>1. Below(<<>>, path, stack)
    BY DEF Init, Below
  <2> QED
    BY <2>1, WorkloadAssumption DEF Init, OnTrack, Frames, ReportedIsOnCycle, Range
<1> QED
  BY <1>1, Invariance, TrackStep, PTL DEF Spec

\* The search never loses sight of a dependency: whatever a visited workload
\* depends on has been visited or waits on the stack.
THEOREM SearchIsExhaustive == Spec => []NothingSkipped
<1>1. Inv => NothingSkipped
  BY DEF Inv
<1>2. QED
  BY <1>1, Invariance, PTL

\* No state that is accepted contains a visited workload that depends on itself.
THEOREM LoopsAreFound == Spec => []SelfDependencyFound
<1>1. Inv => SelfDependencyFound
  BY WorkloadAssumption DEF Inv, NoLoopYet, SelfDependencyFound
<1>2. QED
  BY <1>1, Invariance, PTL

=============================================================================
