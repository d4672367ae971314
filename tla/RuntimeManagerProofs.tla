------------------------ MODULE RuntimeManagerProofs ------------------------
(***************************************************************************)
(* The scheduler never lets an operation wait whose dependencies are       *)
(* fulfilled, and the operations on their way through the runtime manager  *)
(* stay well formed, for all configurations, dependencies and bounds. What *)
(* the server asked for last under a name is kept until it is carried out, *)
(* and then the agent runs it, unless it was overtaken.                    *)
(***************************************************************************)
EXTENDS RuntimeManager, FiniteSetTheorems, TLAPS

\* The inductive invariant: the list of deleted workloads is finite as well.
Inv == TypeOK /\ IsFiniteSet(deleted) /\ NothingReadyWaits

-----------------------------------------------------------------------------
(* Finite sets and sequences *)

\* The values of a function with a finite domain are finitely many.
LEMMA FiniteValues ==
  ASSUME NEW S, IsFiniteSet(S), NEW f, DOMAIN f = S
  PROVE  IsFiniteSet({f[x] : x \in S})
<1> DEFINE T == {f[x] : x \in S}
           g == [x \in S |-> f[x]]
<1>1. g \in Surjection(S, T)
  BY DEF Surjection
<1>2. IsFiniteSet(T)
  BY <1>1, FS_Surjection
<1> QED
  BY <1>2

\* The orders of a finite set are sequences over it.
LEMMA SeqsOfSet ==
  ASSUME NEW S, IsFiniteSet(S), NEW s \in Orders(S)
  PROVE  s \in Seq(S)
<1>1. Cardinality(S) \in Nat
  BY FS_CardinalityType
<1>2. s \in [1..Cardinality(S) -> S]
  BY DEF Orders, Injection
<1> QED
  BY <1>1, <1>2

\* They have every element of the set, and have it once.
LEMMA OrdersAreOnto ==
  ASSUME NEW S, IsFiniteSet(S), NEW s \in Orders(S)
  PROVE  /\ \A x \in S : \E i \in 1..Len(s) : s[i] = x
         /\ \A i, j \in 1..Len(s) : s[i] = s[j] => i = j
<1> DEFINE n == Cardinality(S)
           T == {s[i] : i \in 1..n}
<1>1. n \in Nat
  BY FS_CardinalityType
<1>2. s \in [1..n -> S] /\ \A i, j \in 1..n : s[i] = s[j] => i = j
  BY DEF Orders, Injection, IsInjective
<1>3. Len(s) = n
  <2> HIDE DEF n
  <2> QED
    BY <1>1, <1>2
<1>4. s \in Bijection(1..n, T)
  BY <1>2 DEF Bijection, Injection, Surjection, IsInjective
<1>5. IsFiniteSet(1..n) /\ Cardinality(1..n) = n
  <2> HIDE DEF n
  <2>1. 1 \in Int /\ n \in Int
    BY <1>1
  <2>2. IsFiniteSet(1..n) /\ Cardinality(1..n) = IF 1 > n THEN 0 ELSE n - 1 + 1
    BY <2>1, FS_Interval
  <2> QED
    BY <1>1, <2>2
<1>6. T = S
  <2>1. T \subseteq S
    BY <1>2
  <2>2. IsFiniteSet(T) /\ Cardinality(T) = n
    <3> HIDE DEF n, T
    <3>1. ExistsBijection(1..n, T)
      BY <1>4 DEF ExistsBijection
    <3> QED
      BY <1>5, <3>1, FS_Bijection
  <2> HIDE DEF T
  <2> QED
    BY <2>1, <2>2, FS_Subset
<1> QED
  BY <1>2, <1>3, <1>6

\* A sequence over a set is one over any larger set.
LEMMA SeqWidens ==
  ASSUME NEW S, NEW T, S \subseteq T, NEW s \in Seq(S)
  PROVE  s \in Seq(T)
  OBVIOUS

\* The names of the agent's workloads are finitely many.
LEMMA NamesAreFinite == IsFiniteSet(LocalName)
<1> DEFINE f == [c \in Local |-> NameOf[c]]
<1>1. IsFiniteSet(Local)
  BY ConfigAssumption
<1>2. IsFiniteSet({f[c] : c \in Local})
  BY <1>1, FiniteValues, Zenon
<1>3. {f[c] : c \in Local} = LocalName
  BY DEF LocalName
<1> QED
  BY <1>2, <1>3

-----------------------------------------------------------------------------
(* Operations *)

\* What an operation of some kind is about.
LEMMA EntryFacts ==
  ASSUME NEW kinds, NEW o \in Entries(kinds)
  PROVE  /\ o.op \in kinds /\ o.deps \in DelDeps
         /\ o.new \in Local \cup {None} /\ o.old \in Local \cup {None}
         /\ o.op # "Delete" => o.new \in Local
         /\ o.op # "Create" => o.old \in Local
         /\ o.op = "Delete" => o.new = None
         /\ WorkloadName(o) \in LocalName
<1>1. /\ o.op \in kinds /\ o.deps \in DelDeps
      /\ o.new \in Local \cup {None} /\ o.old \in Local \cup {None}
      /\ o.op # "Delete" => o.new \in Local
      /\ o.op # "Create" => o.old \in Local
      /\ o.op = "Delete" => o.new = None
  BY DEF Entries
<1>2. o.new # None \/ o.old \in Local
  <2>1. None \notin Local
    BY ConfigAssumption
  <2> QED
    BY <1>1, <2>1
<1>3. WorkloadName(o) \in LocalName
  BY <1>1, <1>2 DEF WorkloadName, LocalName
<1> QED
  BY <1>1, <1>3

\* An operation whose kind is among other kinds as well.
LEMMA Rekind ==
  ASSUME NEW kinds, NEW o \in Entries(kinds), NEW others, o.op \in others
  PROVE  o \in Entries(others)
  BY DEF Entries

\* What waits in the queue may be filtered again.
LEMMA PendingIsNew == PendingEntry \subseteq NewEntry /\ None \notin PendingEntry
<1>1. ASSUME NEW o \in PendingEntry PROVE o \in NewEntry
  <2>1. o.op \in {"Create", "Delete", "UpdateCreate", "UpdateDelete"}
    BY EntryFacts DEF PendingEntry
  <2> QED
    BY <2>1, Rekind DEF PendingEntry, NewEntry
<1> QED
  BY <1>1, NoneAssumption

\* An update that changes its kind, but not into a create or a delete.
LEMMA Relabel ==
  ASSUME NEW kinds, NEW o \in Entries(kinds), o.op \notin {"Create", "Delete"},
         NEW others, NEW k \in others, k \notin {"Create", "Delete"}
  PROVE  /\ [o EXCEPT !.op = k] \in Entries(others)
         /\ [o EXCEPT !.op = k].op = k
         /\ [o EXCEPT !.op = k].new = o.new /\ [o EXCEPT !.op = k].deps = o.deps
         /\ WorkloadName([o EXCEPT !.op = k]) = WorkloadName(o)
  BY DEF Entries, WorkloadName

\* The kinds of operations that are made up from the server's messages.
LEMMA MadeUp ==
  /\ \A c \in Local : Create(c) \in NewEntry
  /\ \A c \in Local, deps \in DelDeps : Delete(c, deps) \in NewEntry
  /\ \A c, d \in Local, deps \in DelDeps :
       NameOf[c] = NameOf[d] => Operation("Update", c, d, deps) \in NewEntry
<1>1. {} \in DelDeps /\ None \notin Local
  BY ConfigAssumption
<1> QED
  BY <1>1 DEF Create, Delete, Operation, NewEntry, Entries

\* The operations for added and deleted workloads are finitely many and well formed.
LEMMA Transforms ==
  ASSUME NEW A \in SUBSET Local, NEW D \in SUBSET (Local \X DelDeps), IsFiniteSet(D)
  PROVE  /\ IsFiniteSet(ForDeleted(A, D)) /\ ForDeleted(A, D) \subseteq NewEntry
         /\ IsFiniteSet(ForAdded(A, D)) /\ ForAdded(A, D) \subseteq NewEntry
<1> DEFINE Gone == {x \in D : Renewed(A, x) = {}}
           Left == A \ UNION {Renewed(A, d) : d \in D}
           del == [d \in Gone |-> Delete(d[1], d[2])]
           upd(d) == [a \in Renewed(A, d) |-> Operation("Update", a, d[1], d[2])]
           upds == [d \in D |-> {Operation("Update", a, d[1], d[2]) : a \in Renewed(A, d)}]
           add == [a \in Left |-> IF workloads[NameOf[a]] # None
                                   THEN Operation("Update", a, a, {}) ELSE Create(a)]
<1>1. IsFiniteSet(A) /\ IsFiniteSet(Gone) /\ IsFiniteSet(Left)
  <2>1. IsFiniteSet(A)
    BY ConfigAssumption, FS_Subset
  <2> QED
    BY <2>1, FS_Subset
<1>2. IsFiniteSet({Delete(d[1], d[2]) : d \in Gone})
  <2>1. IsFiniteSet({del[d] : d \in Gone})
    <3>1. IsFiniteSet(Gone)
      BY <1>1
    <3> HIDE DEF Gone
    <3>2. DOMAIN del = Gone
      OBVIOUS
    <3> HIDE DEF del
    <3> QED
      BY <3>1, <3>2, FiniteValues
  <2>2. {del[d] : d \in Gone} = {Delete(d[1], d[2]) : d \in Gone}
    BY Zenon
  <2> QED
    BY <2>1, <2>2, Zenon
<1>3. IsFiniteSet({{Operation("Update", a, d[1], d[2]) : a \in Renewed(A, d)} : d \in D})
  <2>1. IsFiniteSet({upds[d] : d \in D})
    BY FiniteValues, Zenon
  <2>2. {upds[d] : d \in D} = {{Operation("Update", a, d[1], d[2]) : a \in Renewed(A, d)} : d \in D}
    OBVIOUS
  <2> QED
    BY <2>1, <2>2, Zenon
<1>4. ASSUME NEW d \in D
      PROVE  IsFiniteSet({Operation("Update", a, d[1], d[2]) : a \in Renewed(A, d)})
  <2>1. IsFiniteSet(Renewed(A, d))
    BY <1>1, FS_Subset DEF Renewed
  <2>2. IsFiniteSet({upd(d)[a] : a \in Renewed(A, d)})
    BY <2>1, FiniteValues, Zenon
  <2>3. {upd(d)[a] : a \in Renewed(A, d)} = {Operation("Update", a, d[1], d[2]) : a \in Renewed(A, d)}
    OBVIOUS
  <2> QED
    BY <2>2, <2>3
<1>5. IsFiniteSet(ForDeleted(A, D))
  <2> DEFINE U == {{Operation("Update", a, d[1], d[2]) : a \in Renewed(A, d)} : d \in D}
  <2>1. \A T \in U : IsFiniteSet(T)
    BY <1>4
  <2>2. IsFiniteSet(UNION U)
    <3> HIDE DEF U
    <3> QED
      BY <1>3, <2>1, FS_UNION, Zenon DEF U
  <2> QED
    BY <1>2, <2>2, FS_Union, Zenon DEF ForDeleted
<1>6. IsFiniteSet(ForAdded(A, D))
  <2>1. IsFiniteSet({add[a] : a \in Left})
    <3>1. IsFiniteSet(Left)
      BY <1>1
    <3> HIDE DEF Left
    <3>2. DOMAIN add = Left
      OBVIOUS
    <3> HIDE DEF add
    <3> QED
      BY <3>1, <3>2, FiniteValues
  <2>2. {add[a] : a \in Left} = ForAdded(A, D)
    BY DEF ForAdded
  <2> QED
    BY <2>1, <2>2
<1>7. ForDeleted(A, D) \subseteq NewEntry
  BY MadeUp DEF ForDeleted, Renewed
<1>8. ForAdded(A, D) \subseteq NewEntry
  <2>1. {} \in DelDeps
    BY ConfigAssumption
  <2> QED
    BY <2>1, MadeUp DEF ForAdded
<1> QED
  BY <1>5, <1>6, <1>7, <1>8

\* They come in some order.
LEMMA TransformType ==
  ASSUME NEW A \in SUBSET Local, NEW D \in SUBSET (Local \X DelDeps), IsFiniteSet(D),
         NEW s \in transform_into_workload_operations(A, D)
  PROVE  s \in Seq(NewEntry)
<1>1. PICK t \in Orders(ForDeleted(A, D)), u \in Orders(ForAdded(A, D)) : s = t \o u
  BY DEF transform_into_workload_operations
<1>2. t \in Seq(NewEntry) /\ u \in Seq(NewEntry)
  BY Transforms, SeqsOfSet, SeqWidens
<1> QED
  BY <1>1, <1>2

\* Every name has one workload at most.
OnePerName(A) == \A a, b \in A : NameOf[a] = NameOf[b] => a = b

\* With one workload of a name to add and one to delete, the name has one operation:
\* the newest, to create what is added, or else to delete.
LEMMA Transformed ==
  ASSUME NEW A \in SUBSET Local, NEW D \in SUBSET (Local \X DelDeps), IsFiniteSet(D),
         OnePerName(A), \A d, e \in D : NameOf[d[1]] = NameOf[e[1]] => d = e,
         NEW s \in transform_into_workload_operations(A, D)
  PROVE  /\ \A i, j \in 1..Len(s) : WorkloadName(s[i]) = WorkloadName(s[j]) => i = j
         /\ \A i \in 1..Len(s) :
              \/ s[i].new \in A /\ NameOf[s[i].new] = WorkloadName(s[i])
              \/ /\ s[i].new = None /\ \A a \in A : NameOf[a] # WorkloadName(s[i])
                 /\ \E d \in D : WorkloadName(s[i]) = NameOf[d[1]]
         /\ \A a \in A : \E i \in 1..Len(s) : WorkloadName(s[i]) = NameOf[a]
         /\ \A d \in D : \E i \in 1..Len(s) : WorkloadName(s[i]) = NameOf[d[1]]
<1> DEFINE F == ForDeleted(A, D)
           G == ForAdded(A, D)
           Fits(o) == \/ o.new \in A /\ NameOf[o.new] = WorkloadName(o)
                      \/ /\ o.new = None /\ \A a \in A : NameOf[a] # WorkloadName(o)
                         /\ \E d \in D : WorkloadName(o) = NameOf[d[1]]
<1>1. None \notin Local /\ \A a \in A : a # None
  BY ConfigAssumption
<1>2. \A o \in F : /\ Fits(o)
                   /\ \E d \in D : WorkloadName(o) = NameOf[d[1]]
  <2>1. ASSUME NEW d \in D, Renewed(A, d) = {} PROVE Fits(Delete(d[1], d[2])) /\ WorkloadName(Delete(d[1], d[2])) = NameOf[d[1]]
    BY <1>1, <2>1 DEF Delete, Operation, WorkloadName, Renewed
  <2>2. ASSUME NEW d \in D, NEW a \in Renewed(A, d)
        PROVE  /\ Fits(Operation("Update", a, d[1], d[2]))
               /\ WorkloadName(Operation("Update", a, d[1], d[2])) = NameOf[d[1]]
    BY <1>1 DEF Operation, WorkloadName, Renewed
  <2> HIDE DEF Fits
  <2> QED
    BY <2>1, <2>2 DEF ForDeleted
<1>3. \A o \in G : Fits(o) /\ \A d \in D : WorkloadName(o) # NameOf[d[1]]
  <2> SUFFICES ASSUME NEW a \in A \ UNION {Renewed(A, d) : d \in D},
                      NEW o \in {Operation("Update", a, a, {}), Create(a)}
               PROVE  Fits(o) /\ \A d \in D : WorkloadName(o) # NameOf[d[1]]
    BY DEF ForAdded
  <2>1. o.new = a /\ WorkloadName(o) = NameOf[a]
    BY <1>1 DEF Create, Operation, WorkloadName
  <2> QED
    BY <2>1 DEF Renewed
<1>4. \A o, p \in F : WorkloadName(o) = WorkloadName(p) => o = p
  <2> DEFINE IsFor(o, d) == \/ Renewed(A, d) = {} /\ o = Delete(d[1], d[2])
                            \/ \E a \in Renewed(A, d) : o = Operation("Update", a, d[1], d[2])
  <2>1. \A o \in F : \E d \in D : IsFor(o, d)
    BY DEF ForDeleted
  <2>2. \A o, d : d \in D /\ IsFor(o, d) => WorkloadName(o) = NameOf[d[1]]
    BY <1>1 DEF Delete, Operation, WorkloadName, Renewed
  <2>3. \A d \in D : \A o, p : IsFor(o, d) /\ IsFor(p, d) => o = p
    <3>1. \A d \in D : \A a, b \in Renewed(A, d) : a = b
      BY DEF Renewed, OnePerName
    <3> QED
      BY <3>1
  <2> HIDE DEF IsFor, F
  <2> QED
    BY <2>1, <2>2, <2>3
<1>5. \A o, p \in G : WorkloadName(o) = WorkloadName(p) => o = p
  <2> DEFINE op(a) == IF workloads[NameOf[a]] # None THEN Operation("Update", a, a, {}) ELSE Create(a)
  <2>1. \A o \in G : \E a \in A : o = op(a)
    BY DEF ForAdded
  <2>2. \A a \in A : WorkloadName(op(a)) = NameOf[a]
    BY <1>1 DEF Create, Operation, WorkloadName
  <2> HIDE DEF op, G
  <2> QED
    BY <2>1, <2>2 DEF OnePerName
<1>6. \A d \in D : \E o \in F : WorkloadName(o) = NameOf[d[1]]
  <2> SUFFICES ASSUME NEW d \in D PROVE \E o \in F : WorkloadName(o) = NameOf[d[1]]
    OBVIOUS
  <2>1. CASE Renewed(A, d) = {}
    <3>1. Delete(d[1], d[2]) \in F
      BY <2>1 DEF ForDeleted
    <3>2. WorkloadName(Delete(d[1], d[2])) = NameOf[d[1]]
      BY DEF Delete, Operation, WorkloadName
    <3> QED
      BY <3>1, <3>2
  <2>2. CASE Renewed(A, d) # {}
    <3>1. PICK a \in Renewed(A, d) : TRUE
      BY <2>2
    <3>2. Operation("Update", a, d[1], d[2]) \in F
      BY DEF ForDeleted
    <3>3. WorkloadName(Operation("Update", a, d[1], d[2])) = NameOf[d[1]]
      BY <1>1 DEF Operation, WorkloadName, Renewed
    <3> QED
      BY <3>2, <3>3
  <2> QED
    BY <2>1, <2>2
<1>7. \A a \in A : \E o \in F \cup G : WorkloadName(o) = NameOf[a]
  <2> SUFFICES ASSUME NEW a \in A PROVE \E o \in F \cup G : WorkloadName(o) = NameOf[a]
    OBVIOUS
  <2>1. CASE \E d \in D : a \in Renewed(A, d)
    BY <1>6, <2>1 DEF Renewed
  <2>2. CASE ~\E d \in D : a \in Renewed(A, d)
    <3> DEFINE o == IF workloads[NameOf[a]] # None THEN Operation("Update", a, a, {}) ELSE Create(a)
    <3>1. o \in G
      BY <2>2 DEF ForAdded
    <3>2. WorkloadName(o) = NameOf[a]
      BY <1>1 DEF Create, Operation, WorkloadName
    <3> QED
      BY <3>1, <3>2
  <2> QED
    BY <2>1, <2>2
<1>8. IsFiniteSet(F) /\ IsFiniteSet(G)
  BY Transforms
<1>9. PICK t \in Orders(F), u \in Orders(G) : s = t \o u
  BY DEF transform_into_workload_operations
<1> HIDE DEF F, G
<1>10. t \in Seq(F) /\ u \in Seq(G)
  BY <1>8, SeqsOfSet
<1>11. /\ \A x \in F : \E i \in 1..Len(t) : t[i] = x
       /\ \A i, j \in 1..Len(t) : t[i] = t[j] => i = j
       /\ \A x \in G : \E i \in 1..Len(u) : u[i] = x
       /\ \A i, j \in 1..Len(u) : u[i] = u[j] => i = j
  BY <1>8, OrdersAreOnto
<1>12. /\ Len(s) = Len(t) + Len(u)
       /\ \A i \in 1..Len(t) : s[i] = t[i] /\ t[i] \in F
       /\ \A i \in 1..Len(u) : s[Len(t) + i] = u[i] /\ u[i] \in G
       /\ \A i \in 1..Len(s) : i \in 1..Len(t) \/ i - Len(t) \in 1..Len(u)
  BY <1>9, <1>10
<1>13. \A i \in 1..Len(s) : s[i] \in F \cup G /\ (s[i] \in F <=> i \in 1..Len(t))
  <2>1. \A o \in F : o \notin G
    BY <1>2, <1>3
  <2>2. \A i \in 1..Len(s) : i \notin 1..Len(t) => s[i] = u[i - Len(t)] /\ u[i - Len(t)] \in G
    BY <1>10, <1>12
  <2> QED
    BY <1>12, <2>1, <2>2
<1>14. \A i \in 1..Len(s) : Fits(s[i])
  <2> HIDE DEF Fits
  <2> QED
    BY <1>2, <1>3, <1>13
<1>15. \A x \in F \cup G : \E i \in 1..Len(s) : s[i] = x
  <2>1. \A i \in 1..Len(t) : i \in 1..Len(s)
    BY <1>10, <1>12
  <2>2. \A i \in 1..Len(u) : Len(t) + i \in 1..Len(s)
    BY <1>10, <1>12
  <2>3. ASSUME NEW x \in F PROVE \E i \in 1..Len(s) : s[i] = x
    BY <1>11, <1>12, <2>1
  <2>4. ASSUME NEW x \in G PROVE \E i \in 1..Len(s) : s[i] = x
    <3>1. PICK k \in 1..Len(u) : u[k] = x
      BY <1>11
    <3>2. Len(t) + k \in 1..Len(s) /\ s[Len(t) + k] = x
      BY <1>12, <2>2, <3>1
    <3> QED
      BY <3>2
  <2> QED
    BY <2>3, <2>4
<1>16. \A i, j \in 1..Len(s) : WorkloadName(s[i]) = WorkloadName(s[j]) => i = j
  <2> SUFFICES ASSUME NEW i \in 1..Len(s), NEW j \in 1..Len(s), WorkloadName(s[i]) = WorkloadName(s[j])
               PROVE  i = j
    OBVIOUS
  <2>1. s[i] \in F <=> s[j] \in F
    BY <1>2, <1>3, <1>13
  <2>2. s[i] = s[j]
    BY <1>4, <1>5, <1>13, <2>1
  <2>3. CASE i \in 1..Len(t)
    BY <1>11, <1>12, <1>13, <2>1, <2>2, <2>3
  <2>4. CASE i \notin 1..Len(t)
    <3>1. j \notin 1..Len(t)
      BY <1>13, <2>1, <2>4
    <3>2. /\ i - Len(t) \in 1..Len(u) /\ j - Len(t) \in 1..Len(u)
          /\ s[i] = u[i - Len(t)] /\ s[j] = u[j - Len(t)]
      <4>1. ASSUME NEW k \in 1..Len(s), k \notin 1..Len(t)
            PROVE  k - Len(t) \in 1..Len(u) /\ s[k] = u[k - Len(t)]
        <5>1. k - Len(t) \in 1..Len(u)
          BY <1>12, <4>1
        <5>2. Len(t) + (k - Len(t)) = k
          BY <1>10
        <5> QED
          BY <1>12, <5>1, <5>2
      <4> QED
        BY <2>4, <3>1, <4>1
    <3>3. i - Len(t) = j - Len(t)
      BY <1>11, <2>2, <3>2, Zenon
    <3> QED
      BY <1>10, <3>3
  <2> QED
    BY <2>3, <2>4
<1> QED
  BY <1>6, <1>7, <1>14, <1>15, <1>16

-----------------------------------------------------------------------------
(* The queue *)

\* The part of the type invariant that is about the queue.
QueueOK ==
  /\ queue \in [LocalName -> PendingEntry \cup {None}]
  /\ \A n \in LocalName : queue[n] # None => WorkloadName(queue[n]) = n

\* A step that leaves the queue and the store alone.
LEMMA QueueKept ==
  ASSUME QueueOK, NothingReadyWaits, UNCHANGED <<queue, workload_state_store>>
  PROVE  QueueOK' /\ NothingReadyWaits'
  BY DEF QueueOK, NothingReadyWaits

\* An operation that is not fulfilled is put on the queue.
LEMMA Put ==
  ASSUME QueueOK, NothingReadyWaits, UNCHANGED workload_state_store,
         NEW o \in PendingEntry, put_on_queue(o), ~Fulfilled(o, workload_state_store)
  PROVE  QueueOK' /\ NothingReadyWaits'
<1>1. WorkloadName(o) \in LocalName
  BY EntryFacts DEF PendingEntry
<1>2. \A n \in LocalName : queue'[n] = IF n = WorkloadName(o) THEN o ELSE queue[n]
  BY <1>1 DEF put_on_queue, QueueOK
<1>3. queue' \in [LocalName -> PendingEntry \cup {None}]
  BY <1>1 DEF put_on_queue, QueueOK
<1>4. QueueOK'
  BY <1>2, <1>3 DEF QueueOK
<1>5. NothingReadyWaits'
  BY <1>2 DEF NothingReadyWaits
<1> QED
  BY <1>4, <1>5

\* The queue is drained: nothing waits, and its operations are to be filtered.
LEMMA Drained ==
  ASSUME QueueOK, DrainQueue
  PROVE  QueueOK' /\ NothingReadyWaits' /\ ops' \in Seq(NewEntry) /\ phase' = "next"
<1> DEFINE Q == {queue[n] : n \in LocalName}
<1>1. IsFiniteSet(Q)
  <2>1. DOMAIN queue = LocalName
    BY DEF QueueOK
  <2> QED
    BY <2>1, NamesAreFinite, FiniteValues
<1>2. IsFiniteSet(Q \ {None})
  BY <1>1, FS_Subset
<1>3. PendingEntry \subseteq NewEntry
  BY PendingIsNew
<1>4. Q \ {None} \subseteq NewEntry
  BY <1>3 DEF QueueOK
<1>5. ops' \in Seq(NewEntry)
  <2>1. ops' \in Orders(Q \ {None})
    BY DEF DrainQueue
  <2> HIDE DEF Q
  <2> QED
    BY <1>2, <1>4, <2>1, SeqsOfSet, SeqWidens
<1>6. QueueOK' /\ NothingReadyWaits'
  BY DEF DrainQueue, QueueOK, NothingReadyWaits
<1> QED
  BY <1>5, <1>6 DEF DrainQueue

-----------------------------------------------------------------------------
(* The invariant by parts *)

MainOK ==
  /\ phase \in {"select", "hello", "enqueue", "next"}
  /\ desired \in [LocalName -> Local \cup {None}]
  /\ workload_state_store \in [Config -> State \cup {None}]

HelloOK ==
  /\ existing \subseteq Local /\ added \subseteq Local /\ new_added \subseteq Local
  /\ deleted \subseteq Local \X DelDeps /\ leftovers \subseteq Local
  /\ IsFiniteSet(deleted)

LoopOK ==
  /\ workloads \in [LocalName -> [config : Local, stopped : BOOLEAN] \cup {None}]
  /\ dropped \subseteq Local /\ leaving \subseteq Local \X {"update", "delete"}

ChannelOK ==
  /\ workload_states \in Seq(Local \X (State \cup {"Removed"}))
  /\ Len(workload_states) <= BUFFER_SIZE

HistoryOK ==
  executed \in [LocalName -> SUBSET (Local \cup {None})] /\ overtaken \subseteq LocalName

OpsOK == ops \in Seq(NewEntry) /\ ready \in Seq(ReadyEntry)

WaitOK == QueueOK /\ NothingReadyWaits

\* The parts make up the invariant.
LEMMA Parts ==
  Inv <=> MainOK /\ HelloOK /\ LoopOK /\ ChannelOK /\ HistoryOK /\ OpsOK /\ WaitOK
  BY DEF Inv, TypeOK, MainOK, HelloOK, LoopOK, ChannelOK, HistoryOK, OpsOK, WaitOK, QueueOK

\* They do so in the next state.
LEMMA PartsNext ==
  Inv' <=> MainOK' /\ HelloOK' /\ LoopOK' /\ ChannelOK' /\ HistoryOK' /\ OpsOK' /\ WaitOK'
  BY DEF Inv, TypeOK, MainOK, HelloOK, LoopOK, ChannelOK, HistoryOK, OpsOK, WaitOK, QueueOK

\* Parts that a step leaves alone.
LEMMA Kept ==
  /\ HelloOK /\ UNCHANGED helloVars => HelloOK'
  /\ LoopOK /\ UNCHANGED loopVars => LoopOK'
  /\ ChannelOK /\ UNCHANGED workload_states => ChannelOK'
  /\ HistoryOK /\ UNCHANGED <<executed, overtaken>> => HistoryOK'
  /\ OpsOK /\ UNCHANGED <<ops, ready>> => OpsOK'
  /\ WaitOK /\ UNCHANGED <<queue, workload_state_store>> => WaitOK'
  /\ MainOK /\ UNCHANGED <<phase, desired, workload_state_store>> => MainOK'
<1>1. WaitOK /\ UNCHANGED <<queue, workload_state_store>> => WaitOK'
  BY QueueKept DEF WaitOK
<1> QED
  BY <1>1 DEF HelloOK, LoopOK, ChannelOK, HistoryOK, OpsOK, MainOK, helloVars, loopVars

\* A state is sent.
LEMMA Sent ==
  ASSUME ChannelOK, NEW c \in Local, NEW s \in State \cup {"Removed"}, Report(c, s)
  PROVE  ChannelOK'
<1> DEFINE M == Local \X (State \cup {"Removed"})
<1>1. workload_states \in Seq(M) /\ <<c, s>> \in M /\ BUFFER_SIZE \in Nat
  BY BoundAssumption DEF ChannelOK
<1>2. workload_states' = Append(workload_states, <<c, s>>) /\ Len(workload_states) < BUFFER_SIZE
  BY DEF Report
<1> HIDE DEF M
<1>3. workload_states' \in Seq(M) /\ Len(workload_states') <= BUFFER_SIZE
  BY <1>1, <1>2
<1> QED
  BY <1>3 DEF ChannelOK, M

-----------------------------------------------------------------------------
(* The scheduler's steps *)

\* The first of the operations to be filtered.
LEMMA Taken ==
  ASSUME OpsOK, ops # <<>>
  PROVE  /\ Head(ops) \in NewEntry /\ Tail(ops) \in Seq(NewEntry)
         /\ WorkloadName(Head(ops)) \in LocalName
<1>1. Head(ops) \in NewEntry /\ Tail(ops) \in Seq(NewEntry)
  BY DEF OpsOK
<1> QED
  BY <1>1, EntryFacts DEF NewEntry

\* An operation is made ready.
LEMMA MadeReady ==
  ASSUME HistoryOK, OpsOK, UNCHANGED executed, NEW o \in ReadyEntry, MakeReady(o)
  PROVE  ready' \in Seq(ReadyEntry) /\ HistoryOK'
<1>1. WorkloadName(o) \in LocalName
  BY EntryFacts DEF ReadyEntry
<1>2. ready' \in Seq(ReadyEntry)
  BY DEF OpsOK, MakeReady
<1>3. HistoryOK'
  BY <1>1 DEF HistoryOK, MakeReady
<1> QED
  BY <1>2, <1>3

\* The two waiting states are states.
LEMMA WaitingStates == "WaitingToStart" \in State /\ "WaitingToStop" \in State
  BY DEF State, Pending, Stopping

\* A new entry is reported, a retained one is not.
LEMMA SentNew ==
  ASSUME ChannelOK, NEW c \in Local, NEW s \in State, ReportNew(c, s)
  PROVE  ChannelOK'
<1>1. CASE phase = "enqueue"
  BY <1>1, Sent DEF ReportNew
<1>2. CASE phase # "enqueue"
  BY <1>2, Kept DEF ReportNew
<1> QED
  BY <1>1, <1>2

\* A create is made ready or waits.
LEMMA CreateStep ==
  ASSUME Inv, enqueue_pending_create
  PROVE  Inv'
<1> DEFINE o == Head(ops)
<1> USE Parts
<1>1. o \in NewEntry /\ ops' \in Seq(NewEntry) /\ o.op = "Create"
  BY Taken DEF enqueue_pending_create
<1>2. o \in ReadyEntry /\ o \in PendingEntry /\ o.new \in Local
  BY <1>1, Rekind, EntryFacts DEF NewEntry, ReadyEntry, PendingEntry
<1>3. EnqueueOther
  BY DEF enqueue_pending_create
<1>4. MainOK' /\ HelloOK' /\ LoopOK'
  BY <1>3, Kept DEF EnqueueOther
<1>5. CASE CanCreate(o) /\ MakeReady(o) /\ UNCHANGED <<queue, workload_states>>
  <2>1. ready' \in Seq(ReadyEntry) /\ HistoryOK'
    BY <1>2, <1>3, <1>5, MadeReady DEF EnqueueOther
  <2>2. ChannelOK' /\ WaitOK'
    BY <1>3, <1>5, Kept DEF EnqueueOther
  <2> QED
    BY <1>1, <1>4, <2>1, <2>2, PartsNext DEF OpsOK
<1>6. CASE /\ ~CanCreate(o) /\ ReportNew(o.new, "WaitingToStart")
           /\ put_on_queue(o) /\ UNCHANGED <<ready, overtaken>>
  <2>1. ~Fulfilled(o, workload_state_store)
    BY <1>1, <1>6, Zenon DEF Fulfilled, CanCreate
  <2>2. WaitOK'
    BY <1>2, <1>3, <1>6, <2>1, Put DEF WaitOK, EnqueueOther
  <2>3. ChannelOK'
    BY <1>2, <1>6, SentNew, WaitingStates
  <2>4. HistoryOK' /\ OpsOK'
    BY <1>1, <1>3, <1>6, Kept DEF EnqueueOther, OpsOK
  <2> QED
    BY <1>4, <2>2, <2>3, <2>4, PartsNext
<1> QED
  BY <1>5, <1>6 DEF enqueue_pending_create

\* A delete is made ready or waits.
LEMMA DeleteStep ==
  ASSUME Inv, enqueue_pending_delete
  PROVE  Inv'
<1> DEFINE o == Head(ops)
<1> USE Parts
<1>1. o \in NewEntry /\ ops' \in Seq(NewEntry) /\ o.op = "Delete"
  BY Taken DEF enqueue_pending_delete
<1>2. o \in ReadyEntry /\ o \in PendingEntry /\ o.old \in Local
  BY <1>1, Rekind, EntryFacts DEF NewEntry, ReadyEntry, PendingEntry
<1>3. EnqueueOther
  BY DEF enqueue_pending_delete
<1>4. MainOK' /\ HelloOK' /\ LoopOK'
  BY <1>3, Kept DEF EnqueueOther
<1>5. CASE CanDelete(o) /\ MakeReady(o) /\ UNCHANGED <<queue, workload_states>>
  <2>1. ready' \in Seq(ReadyEntry) /\ HistoryOK'
    BY <1>2, <1>3, <1>5, MadeReady DEF EnqueueOther
  <2>2. ChannelOK' /\ WaitOK'
    BY <1>3, <1>5, Kept DEF EnqueueOther
  <2> QED
    BY <1>1, <1>4, <2>1, <2>2, PartsNext DEF OpsOK
<1>6. CASE /\ ~CanDelete(o) /\ ReportNew(o.old, "WaitingToStop")
           /\ put_on_queue(o) /\ UNCHANGED <<ready, overtaken>>
  <2>1. ~Fulfilled(o, workload_state_store)
    BY <1>1, <1>6, Zenon DEF Fulfilled, CanDelete
  <2>2. WaitOK'
    BY <1>2, <1>3, <1>6, <2>1, Put DEF WaitOK, EnqueueOther
  <2>3. ChannelOK'
    BY <1>2, <1>6, SentNew, WaitingStates
  <2>4. HistoryOK' /\ OpsOK'
    BY <1>1, <1>3, <1>6, Kept DEF EnqueueOther, OpsOK
  <2> QED
    BY <1>4, <2>2, <2>3, <2>4, PartsNext
<1> QED
  BY <1>5, <1>6 DEF enqueue_pending_delete

\* An update is made ready, stops the old workload, or waits as a whole.
LEMMA UpdateStep ==
  ASSUME Inv, enqueue_pending_update
  PROVE  Inv'
<1> DEFINE o == Head(ops)
           u == [o EXCEPT !.op = "Update"]
           uc == [o EXCEPT !.op = "UpdateCreate"]
           ud == [o EXCEPT !.op = "UpdateDelete"]
           only == [o EXCEPT !.op = "UpdateDeleteOnly"]
<1> USE Parts
<1>1. o \in NewEntry /\ ops' \in Seq(NewEntry) /\ o.op \in {"Update", "UpdateDelete"}
  BY Taken DEF enqueue_pending_update
<1>2. o.new \in Local /\ o.old \in Local
  BY <1>1, EntryFacts DEF NewEntry
<1>3. u \in ReadyEntry /\ only \in ReadyEntry
  BY <1>1, Relabel, Zenon DEF NewEntry, ReadyEntry
<1>4. /\ uc \in PendingEntry /\ uc.op = "UpdateCreate" /\ uc.new = o.new
      /\ ud \in PendingEntry /\ ud.op = "UpdateDelete" /\ ud.deps = o.deps
  BY <1>1, Relabel, Zenon DEF NewEntry, PendingEntry
<1> HIDE DEF u, uc, ud, only
<1>5. EnqueueOther
  BY DEF enqueue_pending_update
<1>6. MainOK' /\ HelloOK' /\ LoopOK'
  BY <1>5, Kept DEF EnqueueOther
<1>7. CASE MakeReady(u) /\ UNCHANGED <<queue, workload_states>>
  <2>1. ready' \in Seq(ReadyEntry) /\ HistoryOK'
    BY <1>3, <1>5, <1>7, MadeReady DEF EnqueueOther
  <2>2. ChannelOK' /\ WaitOK'
    BY <1>5, <1>7, Kept DEF EnqueueOther
  <2> QED
    BY <1>1, <1>6, <2>1, <2>2, PartsNext DEF OpsOK
<1>8. CASE /\ ~CanCreate(o) /\ Report(o.new, "WaitingToStart") /\ put_on_queue(uc)
           /\ ready' = Append(ready, only) /\ UNCHANGED overtaken
  <2>1. ~Fulfilled(uc, workload_state_store)
    BY <1>4, <1>8 DEF Fulfilled, CanCreate
  <2>2. WaitOK'
    BY <1>4, <1>5, <1>8, <2>1, Put DEF WaitOK, EnqueueOther
  <2>3. ChannelOK'
    BY <1>2, <1>8, Sent, WaitingStates
  <2>4. HistoryOK'
    BY <1>5, <1>8, Kept DEF EnqueueOther
  <2>5. OpsOK'
    BY <1>1, <1>3, <1>8 DEF OpsOK
  <2> QED
    BY <1>6, <2>2, <2>3, <2>4, <2>5, PartsNext
<1>9. CASE /\ ~CanDelete(o) /\ ReportNew(o.old, "WaitingToStop") /\ put_on_queue(ud)
           /\ UNCHANGED <<ready, overtaken>>
  <2>1. ~Fulfilled(ud, workload_state_store)
    BY <1>4, <1>9 DEF Fulfilled, CanDelete
  <2>2. WaitOK'
    BY <1>4, <1>5, <1>9, <2>1, Put DEF WaitOK, EnqueueOther
  <2>3. ChannelOK'
    BY <1>2, <1>9, SentNew, WaitingStates
  <2>4. HistoryOK' /\ OpsOK'
    BY <1>1, <1>5, <1>9, Kept DEF EnqueueOther, OpsOK
  <2> QED
    BY <1>6, <2>2, <2>3, <2>4, PartsNext
<1> QED
  BY <1>7, <1>8, <1>9 DEF enqueue_pending_update, u, uc, ud, only

\* The second half of an update is made ready or keeps waiting.
LEMMA UpdateCreateStep ==
  ASSUME Inv, next_update_create
  PROVE  Inv'
<1> DEFINE o == Head(ops)
           u == [o EXCEPT !.op = "Update"]
<1> USE Parts
<1>1. o \in NewEntry /\ ops' \in Seq(NewEntry) /\ o.op = "UpdateCreate"
  BY Taken DEF next_update_create
<1>2. o \in PendingEntry
  BY <1>1, Rekind DEF NewEntry, PendingEntry
<1>3. u \in ReadyEntry
  BY <1>1, Relabel, Zenon DEF NewEntry, ReadyEntry
<1> HIDE DEF u
<1>4. EnqueueOther /\ UNCHANGED workload_states
  BY DEF next_update_create
<1>5. MainOK' /\ HelloOK' /\ LoopOK' /\ ChannelOK'
  BY <1>4, Kept DEF EnqueueOther
<1>6. CASE MakeReady(u) /\ UNCHANGED queue
  <2>1. ready' \in Seq(ReadyEntry) /\ HistoryOK'
    BY <1>3, <1>4, <1>6, MadeReady DEF EnqueueOther
  <2>2. WaitOK'
    BY <1>4, <1>6, Kept DEF EnqueueOther
  <2> QED
    BY <1>1, <1>5, <2>1, <2>2, PartsNext DEF OpsOK
<1>7. CASE ~CanCreate(o) /\ put_on_queue(o) /\ UNCHANGED <<ready, overtaken>>
  <2>1. ~Fulfilled(o, workload_state_store)
    BY <1>1, <1>7, Zenon DEF Fulfilled, CanCreate
  <2>2. WaitOK'
    BY <1>2, <1>4, <1>7, <2>1, Put DEF WaitOK, EnqueueOther
  <2>3. HistoryOK' /\ OpsOK'
    BY <1>1, <1>4, <1>7, Kept DEF EnqueueOther, OpsOK
  <2> QED
    BY <1>5, <2>2, <2>3, PartsNext
<1> QED
  BY <1>6, <1>7 DEF next_update_create, u

\* The queue is filtered after the new operations.
LEMMA DrainStep ==
  ASSUME Inv, next_workload_operations
  PROVE  Inv'
<1> USE Parts
<1>1. QueueOK' /\ NothingReadyWaits' /\ ops' \in Seq(NewEntry) /\ phase' = "next"
  BY Drained DEF WaitOK, next_workload_operations
<1>2. HelloOK' /\ LoopOK' /\ ChannelOK' /\ HistoryOK'
  BY Kept DEF next_workload_operations
<1>3. MainOK' /\ OpsOK'
  BY <1>1 DEF MainOK, OpsOK, next_workload_operations
<1> QED
  BY <1>1, <1>2, <1>3, PartsNext DEF WaitOK

-----------------------------------------------------------------------------
(* Messages of the server and states of the workloads *)

\* An update of the desired state.
LEMMA UpdateMessageStep ==
  ASSUME Inv, handle_update_workload
  PROVE  Inv'
<1> USE Parts
<1>1. PICK w \in Wanted, deps \in DelDeps :
        LET changed == {n \in LocalName : w[n] # desired[n]}
        IN /\ desired' = w
           /\ executed' = [n \in LocalName |-> IF n \in changed THEN {} ELSE executed[n]]
           /\ ops' \in transform_into_workload_operations(
                         {w[n] : n \in changed} \ {None},
                         {<<desired[n], deps>> : n \in {m \in changed : desired[m] # None}})
  BY Zenon DEF handle_update_workload
<1> DEFINE changed == {n \in LocalName : w[n] # desired[n]}
           old == {m \in changed : desired[m] # None}
           A == {w[n] : n \in changed} \ {None}
           D == {<<desired[n], deps>> : n \in old}
           f == [n \in old |-> <<desired[n], deps>>]
<1>2. w \in [LocalName -> Local \cup {None}]
  BY DEF Wanted
<1>3. A \in SUBSET Local /\ D \in SUBSET (Local \X DelDeps)
  BY <1>2 DEF MainOK
<1>4. IsFiniteSet(D)
  <2>1. IsFiniteSet(old)
    BY NamesAreFinite, FS_Subset
  <2>2. IsFiniteSet({f[n] : n \in old})
    <3> HIDE DEF old
    <3>1. DOMAIN f = old
      OBVIOUS
    <3> HIDE DEF f
    <3> QED
      BY <2>1, <3>1, FiniteValues
  <2>3. {f[n] : n \in old} = D
    BY Zenon
  <2> QED
    BY <2>2, <2>3, Zenon
<1>5. ops' \in Seq(NewEntry)
  <2>1. ops' \in transform_into_workload_operations(A, D)
    BY <1>1
  <2> HIDE DEF A, D
  <2> QED
    BY <1>3, <1>4, <2>1, TransformType
<1>6. MainOK' /\ OpsOK'
  BY <1>1, <1>2, <1>5 DEF MainOK, OpsOK, handle_update_workload
<1>7. HistoryOK'
  BY <1>1 DEF HistoryOK, handle_update_workload
<1>8. HelloOK' /\ LoopOK' /\ ChannelOK' /\ WaitOK'
  BY Kept DEF handle_update_workload
<1> QED
  BY <1>6, <1>7, <1>8, PartsNext

\* Whatever runs or is told to stop is one of the agent's workloads.
LEMMA ContainersAreLocal ==
  ASSUME HelloOK, LoopOK
  PROVE  Containers \subseteq Local
<1>1. {l[1] : l \in leaving} \subseteq Local
  BY DEF LoopOK
<1>2. \A n \in LocalName : workloads[n] # None => workloads[n].config \in Local
  BY DEF LoopOK
<1> QED
  BY <1>1, <1>2 DEF HelloOK, LoopOK, Containers

\* The hello of the server.
LEMMA HelloMessageStep ==
  ASSUME Inv, handle_server_hello
  PROVE  Inv'
<1> USE Parts
<1>1. PICK w \in Wanted, found \in SUBSET Containers :
        /\ desired' = w
        /\ executed' = [n \in LocalName |-> IF w[n] = None THEN {None} ELSE {}]
        /\ added' = {w[n] : n \in LocalName} \ {None}
        /\ existing' = found
  BY DEF handle_server_hello
<1>2. w \in [LocalName -> Local \cup {None}]
  BY DEF Wanted
<1>3. MainOK'
  BY <1>1, <1>2 DEF MainOK, handle_server_hello
<1>4. HelloOK'
  <2>1. found \subseteq Local /\ {w[n] : n \in LocalName} \ {None} \subseteq Local
    BY <1>2, ContainersAreLocal
  <2>2. IsFiniteSet({})
    BY FS_EmptySet
  <2> QED
    BY <1>1, <2>1, <2>2 DEF HelloOK, handle_server_hello
<1>5. HistoryOK'
  BY <1>1 DEF HistoryOK, handle_server_hello
<1>6. LoopOK' /\ ChannelOK' /\ OpsOK' /\ WaitOK'
  BY Kept DEF handle_server_hello
<1> QED
  BY <1>3, <1>4, <1>5, <1>6, PartsNext

\* Removed takes an entry of the store away, another state replaces it.
LEMMA Stored ==
  ASSUME MainOK, NEW c \in Config, NEW s \in State \cup {"Removed"},
         workload_state_store' = process_new_state(c, s), UNCHANGED desired, phase' = "next"
  PROVE  MainOK'
  BY DEF MainOK, process_new_state

\* A state of another agent's workload.
LEMMA ForeignStateStep ==
  ASSUME Inv, update_workload_state
  PROVE  Inv'
<1> USE Parts
<1>1. QueueOK' /\ NothingReadyWaits' /\ ops' \in Seq(NewEntry) /\ phase' = "next"
  BY Drained DEF WaitOK, update_workload_state
<1>2. PICK c \in Config, s \in State \cup {"Removed"} :
        workload_state_store' = process_new_state(c, s)
  BY StateAssumption DEF update_workload_state
<1>3. MainOK'
  BY <1>1, <1>2, Stored DEF update_workload_state
<1>4. HelloOK' /\ LoopOK' /\ ChannelOK' /\ HistoryOK'
  BY Kept DEF update_workload_state
<1>5. OpsOK'
  BY <1>1 DEF OpsOK, update_workload_state
<1> QED
  BY <1>1, <1>3, <1>4, <1>5, PartsNext DEF WaitOK

\* A state of one of the agent's own workloads.
LEMMA OwnStateStep ==
  ASSUME Inv, store_and_forward_own_workload_states
  PROVE  Inv'
<1> DEFINE m == Head(workload_states)
           old == workload_state_store[m[1]]
           s == IF old # None THEN transition(old, m[2]) ELSE m[2]
<1> USE Parts
<1>1. QueueOK' /\ NothingReadyWaits' /\ ops' \in Seq(NewEntry) /\ phase' = "next"
  BY Drained DEF WaitOK, store_and_forward_own_workload_states
<1>2. m \in Local \X (State \cup {"Removed"})
  BY DEF ChannelOK, store_and_forward_own_workload_states
<1>3. m[1] \in Config /\ m[2] \in State \cup {"Removed"}
  BY <1>2, ConfigAssumption
<1>4. s \in State \cup {"Removed"}
  BY <1>3 DEF MainOK, transition
<1>5. MainOK'
  <2>1. workload_state_store' = process_new_state(m[1], s) /\ UNCHANGED desired
    BY DEF store_and_forward_own_workload_states
  <2> HIDE DEF m, s
  <2> QED
    BY <1>1, <1>3, <1>4, <2>1, Stored
<1>6. ChannelOK'
  BY BoundAssumption DEF ChannelOK, store_and_forward_own_workload_states
<1>7. HelloOK' /\ LoopOK' /\ HistoryOK'
  BY Kept DEF store_and_forward_own_workload_states
<1>8. OpsOK'
  BY <1>1 DEF OpsOK, store_and_forward_own_workload_states
<1> QED
  BY <1>1, <1>5, <1>6, <1>7, <1>8, PartsNext DEF WaitOK

-----------------------------------------------------------------------------
(* Workload objects and their control loops *)

\* A Workload object is created, in place of another or not.
LEMMA Inserted ==
  ASSUME LoopOK, NEW c \in Local, InsertWorkload(c)
  PROVE  LoopOK'
<1>1. Workload(c) \in [config : Local, stopped : BOOLEAN]
  BY DEF Workload
<1>2. Released(NameOf[c]) \subseteq Local \X {"update", "delete"}
  BY DEF LoopOK, Released
<1>3. workloads' \in [LocalName -> [config : Local, stopped : BOOLEAN] \cup {None}]
  BY <1>1, Zenon DEF LoopOK, InsertWorkload
<1> QED
  BY <1>2, <1>3 DEF LoopOK, InsertWorkload

\* A Workload object is told to delete its workload, and is given up.
LEMMA GivenUp ==
  ASSUME LoopOK, NEW n \in LocalName, workloads[n] # None, DeleteWorkload(n)
  PROVE  LoopOK'
<1>1. Released(n) \subseteq Local \X {"update", "delete"}
  BY DEF LoopOK, Released
<1>2. workloads[n].config \in Local
  BY DEF LoopOK
<1> QED
  BY <1>1, <1>2 DEF LoopOK, DeleteWorkload

\* A Workload object is told to replace its workload.
LEMMA Updated ==
  ASSUME LoopOK, NEW n \in LocalName, workloads[n] # None,
         NEW c \in Local, NEW b \in BOOLEAN, SendUpdate(n, c, b)
  PROVE  LoopOK'
<1>1. workloads[n].config \in Local
  BY Zenon DEF LoopOK
<1> QED
  BY <1>1 DEF LoopOK, SendUpdate

\* One container found after a hello is dealt with.
LEMMA ResumeStep ==
  ASSUME Inv, resume_and_remove_from_added_workloads
  PROVE  Inv'
<1> USE Parts
<1>1. PICK c \in existing :
       LET n == NameOf[c]
           new == {a \in added : NameOf[a] = n}
       IN /\ existing' = existing \ {c} /\ leftovers' = leftovers \ {c}
          /\ added' = added \ new
          /\ \/ /\ InsertWorkload(c)
                /\ executed' = [executed EXCEPT ![n] = @ \cup {c}]
                /\ UNCHANGED <<new_added, deleted>>
             \/ /\ new_added' = new_added \cup new
                /\ UNCHANGED <<deleted, loopVars, executed>>
             \/ /\ new_added' = new_added \cup new
                /\ deleted' = deleted \cup {<<c, {}>>}
                /\ IF workloads[n] = None THEN InsertWorkload(c) ELSE UNCHANGED loopVars
                /\ UNCHANGED executed
             \/ /\ IF workloads[n] # None
                   THEN DeleteWorkload(n)
                   ELSE leaving' = leaving \cup {<<c, "delete">>} /\ UNCHANGED <<workloads, dropped>>
                /\ UNCHANGED <<new_added, deleted, executed>>
  BY DEF resume_and_remove_from_added_workloads
<1> DEFINE n == NameOf[c]
           new == {a \in added : NameOf[a] = n}
<1>2. c \in Local /\ n \in LocalName
  BY DEF HelloOK, LocalName
<1>3. UNCHANGED <<phase, desired, ops, ready, queue, workload_state_store, workload_states,
                  overtaken>>
  BY DEF resume_and_remove_from_added_workloads
<1>4. MainOK' /\ ChannelOK' /\ OpsOK' /\ WaitOK'
  BY <1>3, Kept, Zenon
<1>5. existing' \subseteq Local /\ leftovers' \subseteq Local /\ added' \subseteq Local
  BY <1>1 DEF HelloOK
<1>6. new \subseteq Local /\ <<c, {}>> \in Local \X DelDeps
  BY <1>2, ConfigAssumption, Zenon DEF HelloOK
<1>7. IsFiniteSet(deleted \cup {<<c, {}>>})
  BY FS_AddElement, Zenon DEF HelloOK
<1>8. CASE /\ InsertWorkload(c)
           /\ executed' = [executed EXCEPT ![n] = @ \cup {c}]
           /\ UNCHANGED <<new_added, deleted>>
  <2>1. LoopOK'
    BY <1>2, <1>8, Inserted
  <2>2. HelloOK' /\ HistoryOK'
    BY <1>2, <1>3, <1>5, <1>8 DEF HelloOK, HistoryOK
  <2> QED
    BY <1>4, <2>1, <2>2, PartsNext
<1>9. CASE new_added' = new_added \cup new /\ UNCHANGED <<deleted, loopVars, executed>>
  <2>1. LoopOK' /\ HistoryOK'
    BY <1>3, <1>9, Kept
  <2>2. HelloOK'
    BY <1>5, <1>6, <1>9 DEF HelloOK
  <2> QED
    BY <1>4, <2>1, <2>2, PartsNext
<1>10. CASE /\ new_added' = new_added \cup new
            /\ deleted' = deleted \cup {<<c, {}>>}
            /\ IF workloads[n] = None THEN InsertWorkload(c) ELSE UNCHANGED loopVars
            /\ UNCHANGED executed
  <2>1. LoopOK'
    BY <1>2, <1>10, Inserted, Kept
  <2>2. HistoryOK'
    BY <1>3, <1>10, Kept
  <2>3. HelloOK'
    BY <1>5, <1>6, <1>7, <1>10, Zenon DEF HelloOK
  <2> QED
    BY <1>4, <2>1, <2>2, <2>3, PartsNext
<1>11. CASE /\ IF workloads[n] # None
                THEN DeleteWorkload(n)
                ELSE leaving' = leaving \cup {<<c, "delete">>} /\ UNCHANGED <<workloads, dropped>>
            /\ UNCHANGED <<new_added, deleted, executed>>
  <2>1. LoopOK'
    <3>1. CASE workloads[n] # None
      BY <1>2, <1>11, <3>1, GivenUp
    <3>2. CASE workloads[n] = None
      BY <1>2, <1>11, <3>2, SMTT(30) DEF LoopOK
    <3> QED
      BY <3>1, <3>2
  <2>2. HelloOK' /\ HistoryOK'
    BY <1>3, <1>5, <1>11 DEF HelloOK, HistoryOK
  <2> QED
    BY <1>4, <2>1, <2>2, PartsNext
<1> QED
  BY <1>1, <1>8, <1>9, <1>10, <1>11, ZenonT(30)

\* The hello's workloads are handed to the scheduler.
LEMMA HelloDoneStep ==
  ASSUME Inv, execute_hello
  PROVE  Inv'
<1> USE Parts
<1>1. ops' \in Seq(NewEntry)
  <2>1. ops' \in transform_into_workload_operations(new_added \cup added, deleted)
    BY DEF execute_hello
  <2>2. new_added \cup added \in SUBSET Local
    BY DEF HelloOK
  <2> QED
    BY <2>1, <2>2, TransformType DEF HelloOK
<1>2. HelloOK'
  BY FS_EmptySet DEF HelloOK, execute_hello
<1>3. MainOK' /\ OpsOK'
  BY <1>1 DEF MainOK, OpsOK, execute_hello
<1>4. LoopOK' /\ ChannelOK' /\ WaitOK'
  BY Kept DEF execute_hello
<1>5. HistoryOK'
  <2>1. overtaken' = overtaken \cup PassedByHello(ops') /\ UNCHANGED executed
    BY DEF execute_hello
  <2>2. PassedByHello(ops') \subseteq LocalName
    BY DEF PassedByHello
  <2> QED
    BY <2>1, <2>2 DEF HistoryOK
<1> QED
  BY <1>2, <1>3, <1>4, <1>5, PartsNext

-----------------------------------------------------------------------------
(* Execution of the ready operations *)

\* What the execution of an operation leaves alone, and what it is about.
LEMMA Executed ==
  ASSUME Inv, NEW k, Executes(k)
  PROVE  /\ MainOK' /\ HelloOK' /\ OpsOK' /\ WaitOK' /\ UNCHANGED overtaken
         /\ Head(ready).op = k
         /\ Head(ready).new \in Local \cup {None}
         /\ k # "Delete" => Head(ready).new \in Local
         /\ k # "Create" => Head(ready).old \in Local
         /\ WorkloadName(Head(ready)) \in LocalName
<1> USE Parts
<1>1. Head(ready) \in ReadyEntry /\ Tail(ready) \in Seq(ReadyEntry)
  BY DEF OpsOK, Executes
<1>2. OpsOK'
  BY <1>1 DEF OpsOK, Executes
<1>3. MainOK' /\ HelloOK' /\ WaitOK'
  BY Kept DEF Executes
<1>4. Head(ready).op = k /\ UNCHANGED overtaken
  BY DEF Executes
<1> QED
  BY <1>1, <1>2, <1>3, <1>4, EntryFacts DEF ReadyEntry

\* An executed operation is noted.
LEMMA Noted ==
  ASSUME HistoryOK, NEW o, o.new \in Local \cup {None}, WorkloadName(o) \in LocalName,
         Done(o), UNCHANGED overtaken
  PROVE  HistoryOK'
  BY DEF HistoryOK, Done

\* Every execution of an operation preserves the invariant.
LEMMA ExecuteStep ==
  ASSUME Inv, add_workload \/ update_workload \/ update_delete_only \/ delete_workload
  PROVE  Inv'
<1> DEFINE o == Head(ready)
           n == WorkloadName(o)
<1> USE Parts
<1>1. CASE add_workload
  <2>1. Executes("Create") /\ InsertWorkload(o.new) /\ Done(o) /\ UNCHANGED workload_states
    BY <1>1 DEF add_workload
  <2>2. LoopOK' /\ HistoryOK' /\ ChannelOK'
    BY <2>1, Executed, Inserted, Noted, Kept
  <2> QED
    BY <2>1, <2>2, Executed, PartsNext
<1>2. CASE update_workload
  <2>1. /\ Executes("Update") /\ Done(o) /\ UNCHANGED workload_states
        /\ IF workloads[n] # None THEN SendUpdate(n, o.new, FALSE) ELSE InsertWorkload(o.new)
    BY <1>2, Zenon DEF update_workload
  <2>2. o.new \in Local /\ n \in LocalName
    BY <2>1, Executed
  <2>3. LoopOK'
    BY <2>1, <2>2, Updated, Inserted, Zenon
  <2>4. HistoryOK' /\ ChannelOK'
    BY <2>1, Executed, Noted, Kept, Zenon
  <2> QED
    BY <2>1, <2>3, <2>4, Executed, PartsNext
<1>3. CASE update_delete_only
  <2>1. /\ Executes("UpdateDeleteOnly") /\ UNCHANGED <<executed, workload_states>>
        /\ IF workloads[n] # None THEN SendUpdate(n, workloads[n].config, TRUE)
                                  ELSE UNCHANGED loopVars
    BY <1>3, Zenon DEF update_delete_only
  <2>2. n \in LocalName /\ (workloads[n] # None => workloads[n].config \in Local)
    BY <2>1, Executed DEF LoopOK
  <2>3. LoopOK'
    BY <2>1, <2>2, Updated, Kept, Zenon
  <2>4. HistoryOK' /\ ChannelOK'
    BY <2>1, Executed, Kept
  <2> QED
    BY <2>1, <2>3, <2>4, Executed, PartsNext
<1>4. CASE delete_workload
  <2>1. /\ Executes("Delete") /\ Done(o)
        /\ IF workloads[n] # None
           THEN DeleteWorkload(n) /\ UNCHANGED workload_states
           ELSE Report(o.old, "Removed") /\ UNCHANGED loopVars
    BY <1>4 DEF delete_workload
  <2>2. o.old \in Local /\ n \in LocalName
    BY <2>1, Executed, SMTT(30)
  <2>3. LoopOK' /\ ChannelOK'
    BY <2>1, <2>2, GivenUp, Sent, Kept
  <2>4. HistoryOK'
    BY <2>1, Executed, Noted
  <2> QED
    BY <2>1, <2>3, <2>4, Executed, PartsNext, Zenon
<1> QED
  BY <1>1, <1>2, <1>3, <1>4

\* A control loop sends a state.
LEMMA ReportStep ==
  ASSUME Inv, send_workload_state_to_agent
  PROVE  Inv'
<1> USE Parts
<1>1. MainOK' /\ HelloOK' /\ HistoryOK' /\ OpsOK' /\ WaitOK'
  BY Kept DEF send_workload_state_to_agent
<1>2. UNCHANGED <<workloads, dropped>> /\ leaving' \subseteq leaving
  BY DEF send_workload_state_to_agent
<1>3. LoopOK'
  BY <1>2 DEF LoopOK
<1>4. PICK c \in Local, s \in State \cup {"Removed"} : Report(c, s)
  <2>1. CASE \E c \in Local, s \in Exited \cup {"Starting", "Running"} : Report(c, s)
    BY <2>1 DEF State, Pending, Exited
  <2>2. CASE \E l \in leaving : Report(l[1], "RequestedAtRuntime") \/ Report(l[1], "Removed")
    <3>1. \A l \in leaving : l[1] \in Local
      BY DEF LoopOK
    <3> QED
      BY <2>2, <3>1 DEF State, Stopping
  <2> QED
    BY <2>1, <2>2 DEF send_workload_state_to_agent
<1>5. ChannelOK'
  BY <1>4, Sent
<1> QED
  BY <1>1, <1>3, <1>5, PartsNext

-----------------------------------------------------------------------------
(* The invariant and what follows from it *)

\* The agent starts with nothing to do.
LEMMA InitInv == Init => Inv
<1> SUFFICES ASSUME Init PROVE Inv
  BY Zenon
<1>1. MainOK /\ LoopOK /\ HistoryOK /\ OpsOK /\ WaitOK
  BY SMTT(30) DEF Init, MainOK, LoopOK, HistoryOK, OpsOK, WaitOK, QueueOK, NothingReadyWaits
<1>2. HelloOK
  BY FS_EmptySet, ConfigAssumption DEF Init, HelloOK
<1>3. ChannelOK
  BY BoundAssumption DEF Init, ChannelOK
<1> QED
  BY <1>1, <1>2, <1>3, Parts

\* Every step of the agent and of its control loops preserves the invariant.
LEMMA InvStep == Inv /\ [Next]_vars => Inv'
<1> SUFFICES ASSUME Inv, [Next]_vars PROVE Inv'
  OBVIOUS
<1>1. CASE Return
  <2>1. HelloOK' /\ LoopOK' /\ ChannelOK' /\ HistoryOK' /\ OpsOK' /\ WaitOK'
    BY <1>1, Parts, Kept DEF Return
  <2>2. MainOK'
    BY <1>1, Parts DEF Return, MainOK
  <2> QED
    BY <2>1, <2>2, PartsNext
<1>2. CASE UNCHANGED vars
  BY <1>2, Parts, PartsNext, Kept DEF vars
<1>3. CASE Handler /\ ~Return
  BY <1>3, CreateStep, DeleteStep, UpdateStep, UpdateCreateStep, DrainStep, ResumeStep,
     HelloDoneStep, ExecuteStep DEF Handler
<1> QED
  BY <1>1, <1>2, <1>3, UpdateMessageStep, HelloMessageStep, ForeignStateStep, OwnStateStep,
     ReportStep DEF Next, Handler

\* The invariant holds throughout.
LEMMA Invariance == Spec => []Inv
  BY InitInv, InvStep, PTL DEF Spec

\* Operations on their way through the runtime manager and the scheduler are
\* well formed: each has the workload to create or to delete, both belong to
\* one name, and the queue never holds an UpdateDeleteOnly or a whole update.
THEOREM OperationsAreWellFormed == Spec => []TypeOK
<1>1. Inv => TypeOK
  BY DEF Inv
<1> QED
  BY <1>1, Invariance, PTL

\* Whatever the dependencies, the messages and the order of states, no
\* operation waits in the queue whose conditions the store fulfils.
THEOREM SchedulerWakesUp == Spec => []NothingReadyWaits
<1>1. Inv => NothingReadyWaits
  BY Zenon DEF Inv
<1> QED
  BY <1>1, Invariance, PTL

-----------------------------------------------------------------------------
(* The order of the operations on a name *)

\* Where the operations on the name n are in s, and which they are.
Mine(s, n) == {i \in 1..Len(s) : WorkloadName(s[i]) = n}
Of(s, n) == {s[i] : i \in Mine(s, n)}

\* Operations on different names.
Distinct(s) == \A i, j \in 1..Len(s) : WorkloadName(s[i]) = WorkloadName(s[j]) => i = j

\* What may be deleted in one request: finitely many workloads, one of a name.
Deletable(D) == /\ D \in SUBSET (Local \X DelDeps) /\ IsFiniteSet(D)
                /\ \A d, e \in D : NameOf[d[1]] = NameOf[e[1]] => d = e

\* The operations s add what A has, delete what only D has, and cover the names of both.
Yields(A, D, s) ==
  /\ Distinct(s)
  /\ \A i \in 1..Len(s) :
       \/ s[i].new \in A /\ NameOf[s[i].new] = WorkloadName(s[i])
       \/ /\ s[i].new = None /\ \A a \in A : NameOf[a] # WorkloadName(s[i])
          /\ \E d \in D : WorkloadName(s[i]) = NameOf[d[1]]
  /\ \A a \in A : \E i \in 1..Len(s) : WorkloadName(s[i]) = NameOf[a]
  /\ \A d \in D : \E i \in 1..Len(s) : WorkloadName(s[i]) = NameOf[d[1]]

\* They are what transform_into_workload_operations yields.
LEMMA TransformYields ==
  ASSUME NEW A, NEW D, NEW s, A \in SUBSET Local, OnePerName(A), Deletable(D),
         s \in transform_into_workload_operations(A, D)
  PROVE  Yields(A, D, s)
<1>1. /\ D \in SUBSET (Local \X DelDeps) /\ IsFiniteSet(D)
      /\ \A d, e \in D : NameOf[d[1]] = NameOf[e[1]] => d = e
  BY Zenon DEF Deletable
<1> QED
  BY <1>1, Transformed, ZenonT(30) DEF Yields, Distinct

\* The first half of an update, which leaves the second in the queue.
Only(o) == o.op = "UpdateDeleteOnly"

\* The operations to be filtered are about different names; new ones are what the
\* server wants, and the ones that were drained have left the queue.
Filtering ==
  /\ desired \in Wanted /\ Distinct(ops)
  /\ phase \in {"select", "hello"} => ops = <<>> /\ ready = <<>>
  /\ phase = "enqueue" => \A i \in 1..Len(ops) : ops[i].new = desired[WorkloadName(ops[i])]
  /\ phase = "next" => \A i \in 1..Len(ops) : queue[WorkloadName(ops[i])] = None

\* What a hello asks for runs already, or is still to be handed on, and only what
\* has a new workload is updated.
Greeting ==
  phase = "hello" =>
    /\ \A c \in added \cup new_added : c = desired[NameOf[c]]
    /\ \A n \in LocalName : desired[n] \in executed[n] \cup added \cup new_added
    /\ \A d \in deleted : desired[NameOf[d[1]]] \in new_added \ added
    /\ \A d, e \in deleted : NameOf[d[1]] = NameOf[e[1]] => d = e

\* The operations on a name that have not been judged ready.
Held(n) == ({queue[n]} \ {None}) \cup Of(ops, n)

\* The newest operation on a name is kept.
Newest(n) ==
  phase # "hello" =>
    \/ desired[n] \in executed[n]
    \/ \E o \in Held(n) : o.new = desired[n]
    \/ \E i \in Mine(ready, n) : ~Only(ready[i]) /\ ready[i].new = desired[n]

\* The ready operations on a name: first halves, of which the second is still held or
\* follows, and then at most one other, which is the newest and leaves none behind.
InLine(n) ==
  /\ \A i \in Mine(ready, n) : ~Only(ready[i]) => ready[i].new = desired[n] /\ Held(n) = {}
  /\ \A i, j \in Mine(ready, n) : i < j => Only(ready[i])
  /\ \A i \in Mine(ready, n) : Only(ready[i]) =>
       Held(n) # {} \/ \E j \in Mine(ready, n) : i < j /\ ~Only(ready[j])

\* The newest operation on a name has been looked at.
IsJudged(n) == phase # "hello" /\ (phase = "enqueue" => Of(ops, n) = {})

\* From then on the operation that is held is the newest, a second half is held with
\* the workload stopped or about to be, and with no operation left the agent runs
\* what is desired.
Judged(n) ==
  IsJudged(n) =>
    /\ \A o \in Held(n) : o.new = desired[n]
    /\ (\E o \in Held(n) : o.op = "UpdateCreate") /\ (\A i \in Mine(ready, n) : ~Only(ready[i])) =>
         workloads[n] = None \/ workloads[n].stopped
    /\ Held(n) = {} /\ Mine(ready, n) = {} => RunsDesired(n)

\* All of it, for a name.
NameOK(n) == Newest(n) /\ (n \notin overtaken => InLine(n) /\ Judged(n))

\* The inductive invariant, on top of the types.
Order == Filtering /\ Greeting /\ \A n \in LocalName : NameOK(n)

\* The first operation is taken out of a list of operations on different names.
LEMMA OfTail ==
  ASSUME NEW X, NEW s \in Seq(X), s # <<>>, Distinct(s)
  PROVE  /\ Distinct(Tail(s)) /\ Of(Tail(s), WorkloadName(Head(s))) = {}
         /\ Head(s) \in Of(s, WorkloadName(Head(s)))
         /\ \A o \in Of(s, WorkloadName(Head(s))) : o = Head(s)
         /\ \A n : n # WorkloadName(Head(s)) => Of(Tail(s), n) = Of(s, n)
         /\ \A i \in 1..Len(Tail(s)) : /\ i + 1 \in 1..Len(s) /\ Tail(s)[i] = s[i + 1]
                                       /\ WorkloadName(Tail(s)[i]) # WorkloadName(Head(s))
<1>1. /\ Len(s) \in Nat /\ Len(Tail(s)) = Len(s) - 1 /\ 1 \in 1..Len(s) /\ s[1] = Head(s)
      /\ \A i \in 1..Len(Tail(s)) : i + 1 \in 1..Len(s) /\ Tail(s)[i] = s[i + 1]
  OBVIOUS
<1>2. \A i \in 1..Len(s) : i # 1 => i - 1 \in 1..Len(Tail(s)) /\ Tail(s)[i - 1] = s[i]
  OBVIOUS
<1> DEFINE t == Tail(s)
<1> HIDE DEF t
<1>3. /\ Len(t) = Len(s) - 1
      /\ \A i \in 1..Len(t) : i + 1 \in 1..Len(s) /\ t[i] = s[i + 1]
      /\ \A i \in 1..Len(s) : i # 1 => i - 1 \in 1..Len(t) /\ t[i - 1] = s[i]
  BY <1>1, <1>2 DEF t
<1>4. \A i \in 1..Len(t) : WorkloadName(t[i]) # WorkloadName(s[1])
  <2> SUFFICES ASSUME NEW i \in 1..Len(t), WorkloadName(t[i]) = WorkloadName(s[1]) PROVE FALSE
    OBVIOUS
  <2>1. i + 1 \in 1..Len(s) /\ WorkloadName(s[i + 1]) = WorkloadName(s[1])
    BY <1>3
  <2>2. i + 1 = 1
    BY <1>1, <2>1 DEF Distinct
  <2> QED
    BY <1>1, <1>3, <2>2
<1>5. Distinct(t)
  <2> SUFFICES ASSUME NEW i \in 1..Len(t), NEW j \in 1..Len(t), WorkloadName(t[i]) = WorkloadName(t[j])
               PROVE  i = j
    BY DEF Distinct
  <2>1. i + 1 \in 1..Len(s) /\ j + 1 \in 1..Len(s) /\ WorkloadName(s[i + 1]) = WorkloadName(s[j + 1])
    BY <1>3
  <2>2. i + 1 = j + 1
    BY <2>1 DEF Distinct
  <2> QED
    BY <1>1, <1>3, <2>2
<1>6. Of(t, WorkloadName(s[1])) = {}
  BY <1>4 DEF Of, Mine
<1>7. s[1] \in Of(s, WorkloadName(s[1])) /\ \A o \in Of(s, WorkloadName(s[1])) : o = s[1]
  BY <1>1 DEF Of, Mine, Distinct
<1>8. ASSUME NEW n, n # WorkloadName(s[1]) PROVE Of(t, n) = Of(s, n)
  <2>1. ASSUME NEW o \in Of(t, n) PROVE o \in Of(s, n)
    BY <1>3 DEF Of, Mine
  <2>2. ASSUME NEW o \in Of(s, n) PROVE o \in Of(t, n)
    <3>1. PICK i \in 1..Len(s) : WorkloadName(s[i]) = n /\ o = s[i]
      BY DEF Of, Mine
    <3>2. i # 1
      BY <1>8, <3>1
    <3>3. i - 1 \in Mine(t, n) /\ t[i - 1] = o
      BY <1>3, <3>1, <3>2 DEF Mine
    <3> QED
      BY <3>3 DEF Of
  <2> QED
    BY <2>1, <2>2, Zenon
<1> QED
  BY <1>1, <1>3, <1>4, <1>5, <1>6, <1>7, <1>8 DEF t

\* The ready operations on n are as before, k places further ahead.
Ahead(n, k) ==
  /\ \A i \in Nat : i \in Mine(ready', n) <=> i + k \in Mine(ready, n)
  /\ \A i \in Mine(ready', n) : ready'[i] = ready[i + k]

\* Another name's operation is made ready, ...
LEMMA AfterAppend ==
  ASSUME NEW X, ready \in Seq(X), NEW o, ready' = Append(ready, o),
         NEW n, n # WorkloadName(o)
  PROVE  Ahead(n, 0)
<1>1. /\ Len(ready') = Len(ready) + 1 /\ Len(ready) \in Nat /\ ready'[Len(ready) + 1] = o
      /\ \A i \in 1..Len(ready) : ready'[i] = ready[i]
  OBVIOUS
<1>2. \A i \in 1..Len(ready') : i \in 1..Len(ready) \/ i = Len(ready) + 1
  BY <1>1
<1>3. \A i \in 1..Len(ready) : i \in 1..Len(ready')
  BY <1>1
<1>4. \A i : i \in Mine(ready', n) <=> i \in Mine(ready, n)
  BY <1>1, <1>2, <1>3 DEF Mine
<1>5. \A i \in Mine(ready, n) : i \in Nat /\ ready'[i] = ready[i]
  BY <1>1 DEF Mine
<1>6. \A i \in Nat : i \in Mine(ready', n) <=> i + 0 \in Mine(ready, n)
  BY <1>4
<1>7. \A i \in Mine(ready', n) : ready'[i] = ready[i + 0]
  <2> SUFFICES ASSUME NEW i \in Mine(ready', n) PROVE ready'[i] = ready[i + 0]
    BY Zenon
  <2>1. i \in Nat /\ ready'[i] = ready[i]
    BY <1>4, <1>5, Zenon
  <2>2. i + 0 = i
    BY <2>1
  <2> QED
    BY <2>1, <2>2
<1> QED
  BY <1>6, <1>7, Zenon DEF Ahead

\* ... or executed, ...
LEMMA AfterTail ==
  ASSUME NEW X, ready \in Seq(X), ready # <<>>, ready' = Tail(ready),
         NEW n, n # WorkloadName(Head(ready))
  PROVE  Ahead(n, 1)
<1>1. /\ Len(ready') = Len(ready) - 1 /\ Len(ready) \in Nat /\ ready[1] = Head(ready)
      /\ \A i \in 1..Len(ready') : i + 1 \in 1..Len(ready) /\ ready'[i] = ready[i + 1]
  OBVIOUS
<1>2. \A i \in Nat : i + 1 \in 1..Len(ready) => i = 0 \/ i \in 1..Len(ready')
  BY <1>1
<1>3. 0 + 1 = 1 /\ 0 \notin 1..Len(ready')
  OBVIOUS
<1> QED
  BY <1>1, <1>2, <1>3 DEF Ahead, Mine

\* ... or none.
LEMMA AfterNone == ASSUME ready' = ready, NEW X, ready \in Seq(X), NEW n PROVE Ahead(n, 0)
<1>1. Len(ready) \in Nat
  BY SMTT(30)
<1> QED
  BY <1>1 DEF Ahead, Mine

\* Nothing changes for the name n, except that it may be overtaken.
LEMMA SameName ==
  ASSUME NEW n, NEW k \in {0, 1}, NameOK(n), Ahead(n, k), Held(n)' = Held(n),
         desired'[n] = desired[n], executed[n] \subseteq executed'[n], workloads'[n] = workloads[n],
         phase' # "hello" => phase # "hello", IsJudged(n)' => IsJudged(n),
         n \in overtaken => n \in overtaken'
  PROVE  NameOK(n)'
<1> DEFINE M == Mine(ready, n)
           N == Mine(ready', n)
<1>1. /\ \A i \in N : i + k \in M /\ i \in Nat /\ ready'[i] = ready[i + k]
      /\ \A i \in M : i \in Nat /\ i - k \in N /\ ready'[i - k] = ready[i]
  <2>1. /\ \A i \in N : i \in Nat
        /\ \A i \in M : i \in Nat /\ i # 0
    BY SMTT(30) DEF Mine
  <2>2. \A i \in M : i - k \in Nat /\ (i - k) + k = i
    BY <2>1, SMTT(30)
  <2>3. \A i \in N : i + k \in M /\ ready'[i] = ready[i + k]
    BY <2>1, Zenon DEF Ahead
  <2>4. \A i \in M : i - k \in N
    BY <2>1, <2>2 DEF Ahead
  <2> QED
    BY <2>1, <2>2, <2>3, <2>4, Zenon
<1>2. k \in Nat
  BY SMTT(30)
<1>3. Newest(n)'
  <2>1. ASSUME NEW i \in M, ~Only(ready[i]), ready[i].new = desired[n]
        PROVE  \E j \in N : ~Only(ready'[j]) /\ ready'[j].new = desired'[n]
    BY <1>1, <2>1
  <2> QED
    BY <2>1, ZenonT(30) DEF NameOK, Newest
<1>4. ASSUME n \notin overtaken' PROVE InLine(n)'
  <2>0. InLine(n)
    BY <1>4, ZenonT(30) DEF NameOK
  <2>1. \A i \in N : ~Only(ready'[i]) => ready'[i].new = desired'[n] /\ Held(n)' = {}
    BY <1>1, <2>0 DEF InLine
  <2>2. \A i, j \in N : i < j => Only(ready'[i])
    <3> SUFFICES ASSUME NEW i \in N, NEW j \in N, i < j PROVE Only(ready'[i])
      BY Zenon
    <3>1. i + k \in M /\ j + k \in M /\ i + k < j + k
      BY <1>1, <1>2, SMTT(30)
    <3> QED
      BY <1>1, <2>0, <3>1, Zenon DEF InLine
  <2>3. \A i \in N : Only(ready'[i]) => Held(n)' # {} \/ \E j \in N : i < j /\ ~Only(ready'[j])
    <3> SUFFICES ASSUME NEW i \in N, Only(ready'[i]), Held(n) = {}
                 PROVE  \E j \in N : i < j /\ ~Only(ready'[j])
      OBVIOUS
    <3>1. PICK j \in M : i + k < j /\ ~Only(ready[j])
      BY <1>1, <2>0, Zenon DEF InLine
    <3>2. j - k \in N /\ ready'[j - k] = ready[j]
      BY <1>1, Zenon
    <3>3. i < j - k
      <4>1. i \in Nat /\ j \in Nat
        BY <1>1, Zenon
      <4> QED
        BY ONLY <1>2, <3>1, <4>1
    <3> QED
      BY <3>1, <3>2, <3>3, ZenonT(30)
  <2> QED
    BY <2>1, <2>2, <2>3, Zenon DEF InLine
<1>5. ASSUME n \notin overtaken' PROVE Judged(n)'
  <2> SUFFICES ASSUME IsJudged(n)'
               PROVE  /\ \A o \in Held(n)' : o.new = desired'[n]
                      /\ (\E o \in Held(n)' : o.op = "UpdateCreate") /\ (\A i \in N : ~Only(ready'[i])) =>
                            workloads'[n] = None \/ workloads'[n].stopped
                      /\ Held(n)' = {} /\ N = {} => RunsDesired(n)'
    BY Zenon DEF Judged
  <2>1. IsJudged(n) /\ Judged(n)
    BY <1>5, Zenon DEF NameOK
  <2>2. (\A i \in N : ~Only(ready'[i])) => \A i \in M : ~Only(ready[i])
    BY <1>1, Zenon
  <2>3. N = {} => M = {}
    BY <1>1, Zenon
  <2>4. RunsDesired(n) => RunsDesired(n)'
    BY DEF RunsDesired
  <2> QED
    BY <2>1, <2>2, <2>3, <2>4, Zenon DEF Judged
<1> QED
  BY <1>3, <1>4, <1>5, Zenon DEF NameOK

-----------------------------------------------------------------------------
(* The scheduler's steps keep the order *)

\* The first operation is filtered: it is o from then on.
Filters(o) ==
  /\ phase \in {"enqueue", "next"} /\ ops # <<>> /\ ops' = Tail(ops) /\ EnqueueOther
  /\ o.new = Head(ops).new /\ WorkloadName(o) = WorkloadName(Head(ops)) /\ ~Only(o)

\* It is ready ...
FiltersOut(o) == Filters(o) /\ MakeReady(o) /\ UNCHANGED queue

\* ... or has to wait.  An update that has to wait for its new workload only is
\* halved, unless it is one already.
Retains(o) ==
  /\ Filters(o) /\ o \in PendingEntry /\ put_on_queue(o) /\ UNCHANGED overtaken
  /\ \/ /\ UNCHANGED ready
        /\ o.op = "UpdateCreate" => phase = "next" /\ Head(ops).op = "UpdateCreate"
     \/ \E only \in ReadyEntry : /\ Only(only) /\ WorkloadName(only) = WorkloadName(o)
                                 /\ ready' = Append(ready, only)

\* What these steps have in common.
LEMMA Filtered ==
  ASSUME Inv, Order, NEW o, FiltersOut(o) \/ Retains(o)
  PROVE  /\ WorkloadName(o) \in LocalName /\ Filtering' /\ Greeting'
         /\ Of(ops', WorkloadName(o)) = {} /\ Head(ops) \in Held(WorkloadName(o))
         /\ Held(WorkloadName(o)) = ({queue[WorkloadName(o)]} \ {None}) \cup {Head(ops)}
         /\ phase = "enqueue" => o.new = desired[WorkloadName(o)]
         /\ phase = "next" => queue[WorkloadName(o)] = None /\ IsJudged(WorkloadName(o))
         /\ UNCHANGED <<phase, desired, executed, workloads>>
         /\ \A n \in LocalName \ {WorkloadName(o)} : NameOK(n)'
<1> DEFINE m == WorkloadName(o)
<1> USE Parts
<1>0. /\ UNCHANGED <<phase, desired, executed, workloads, added, new_added, deleted>>
      /\ phase \in {"enqueue", "next"} /\ ops # <<>> /\ ops' = Tail(ops)
      /\ m = WorkloadName(Head(ops)) /\ o.new = Head(ops).new
  BY Zenon DEF FiltersOut, Retains, Filters, EnqueueOther, helloVars, loopVars
<1>1. ops \in Seq(NewEntry) /\ Distinct(ops) /\ ready \in Seq(ReadyEntry) /\ queue \in [LocalName -> PendingEntry \cup {None}]
  BY Zenon DEF OpsOK, Order, Filtering, WaitOK, QueueOK
<1>2. m \in LocalName
  BY <1>0, Taken
<1>3. /\ Distinct(ops') /\ Of(ops', m) = {} /\ Head(ops) \in Of(ops, m)
      /\ \A p \in Of(ops, m) : p = Head(ops)
      /\ \A n : n # m => Of(ops', n) = Of(ops, n)
      /\ \A i \in 1..Len(ops') : /\ i + 1 \in 1..Len(ops) /\ ops'[i] = ops[i + 1]
                                 /\ WorkloadName(ops'[i]) # m
  BY <1>0, <1>1, OfTail, Zenon
<1>4. Held(m) = ({queue[m]} \ {None}) \cup {Head(ops)}
  BY <1>3 DEF Held
<1>5. /\ phase = "enqueue" => o.new = desired[m]
      /\ phase = "next" => queue[m] = None /\ IsJudged(m)
  <2>0. ops \in Seq(NewEntry) /\ ops # <<>>
    BY <1>0, <1>1, Zenon
  <2>1. 1 \in 1..Len(ops) /\ ops[1] = Head(ops)
    BY ONLY <2>0
  <2> QED
    BY <1>0, <2>1, Zenon DEF Order, Filtering, IsJudged
<1>6. \A n \in LocalName : n # m => queue'[n] = queue[n]
  BY <1>1 DEF FiltersOut, Retains, put_on_queue
<1>7. Filtering'
  <2>1. \A i \in 1..Len(ops') : WorkloadName(ops'[i]) \in LocalName
    <3>1. ops' \in Seq(NewEntry)
      BY <1>0, Taken, Zenon
    <3> QED
      BY <3>1, EntryFacts DEF NewEntry
  <2>2. phase' = "enqueue" => \A i \in 1..Len(ops') : ops'[i].new = desired'[WorkloadName(ops'[i])]
    BY <1>0, <1>3, ZenonT(30) DEF Order, Filtering
  <2>3. phase' = "next" => \A i \in 1..Len(ops') : queue'[WorkloadName(ops'[i])] = None
    BY <1>0, <1>3, <1>6, <2>1, SMTT(30) DEF Order, Filtering
  <2> QED
    BY <1>0, <1>3, <2>2, <2>3, Zenon DEF Order, Filtering
<1>8. Greeting'
  BY <1>0, ZenonT(30) DEF Greeting
<1>9. ASSUME NEW n \in LocalName \ {m} PROVE NameOK(n)'
  <2>1. Ahead(n, 0)
    <3>1. CASE UNCHANGED ready
      BY <1>1, <3>1, AfterNone
    <3>2. ASSUME NEW r, WorkloadName(r) = m, ready' = Append(ready, r) PROVE Ahead(n, 0)
      BY <1>1, <3>2, AfterAppend, Zenon
    <3> QED
      BY <3>1, <3>2 DEF FiltersOut, Retains, MakeReady
  <2>2. Held(n)' = Held(n)
    BY <1>3, <1>6, Zenon DEF Held
  <2>3. IsJudged(n)' => IsJudged(n)
    BY <1>0, <1>3 DEF IsJudged
  <2>4. overtaken \subseteq overtaken'
    BY DEF FiltersOut, Retains, MakeReady
  <2>5. NameOK(n) /\ executed[n] \subseteq executed'[n]
    BY <1>0, Zenon DEF Order
  <2> QED
    BY <1>0, <2>1, <2>2, <2>3, <2>4, <2>5, SameName
<1> QED
  BY <1>0, <1>2, <1>3, <1>4, <1>5, <1>7, <1>8, <1>9, Zenon

\* One more ready operation.
LEMMA OneMore ==
  ASSUME NEW X, ready \in Seq(X), NEW o, ready' = Append(ready, o)
  PROVE  LET n == WorkloadName(o)
             e == Len(ready) + 1
         IN /\ e \in Mine(ready', n) /\ ready'[e] = o
            /\ \A i \in Mine(ready, n) : i \in Mine(ready', n) /\ ready'[i] = ready[i]
            /\ \A i \in Mine(ready', n) : i = e \/ (i \in Mine(ready, n) /\ i < e /\ ready'[i] = ready[i])
<1>1. /\ Len(ready') = Len(ready) + 1 /\ Len(ready) \in Nat /\ ready'[Len(ready) + 1] = o
      /\ \A i \in 1..Len(ready) : ready'[i] = ready[i]
  OBVIOUS
<1>2. \A i \in 1..Len(ready') : i = Len(ready) + 1 \/ (i \in 1..Len(ready) /\ i < Len(ready) + 1)
  BY <1>1
<1>3. (\A i \in 1..Len(ready) : i \in 1..Len(ready')) /\ Len(ready) + 1 \in 1..Len(ready')
  BY <1>1
<1> QED
  BY <1>1, <1>2, <1>3 DEF Mine

\* An operation is ready.
LEMMA OutKeepsOrder ==
  ASSUME Inv, Order, NEW o, FiltersOut(o)
  PROVE  Order'
<1> DEFINE n == WorkloadName(o)
           e == Len(ready) + 1
<1> USE Parts
<1>1. /\ n \in LocalName /\ Filtering' /\ Greeting'
      /\ Of(ops', n) = {} /\ Head(ops) \in Held(n)
      /\ Held(n) = ({queue[n]} \ {None}) \cup {Head(ops)}
      /\ phase = "enqueue" => o.new = desired[n]
      /\ phase = "next" => queue[n] = None /\ IsJudged(n)
      /\ UNCHANGED <<phase, desired, executed, workloads>>
      /\ \A m \in LocalName \ {n} : NameOK(m)'
  BY Filtered, Zenon
<1>2. /\ ready' = Append(ready, o) /\ ready \in Seq(ReadyEntry) /\ queue' = queue
      /\ n \notin overtaken' => n \notin overtaken /\ queue[n] = None
      /\ ~Only(o) /\ o.new = Head(ops).new /\ phase \in {"enqueue", "next"}
  BY DEF FiltersOut, Filters, MakeReady, OpsOK
<1>3. /\ e \in Mine(ready', n) /\ ready'[e] = o
      /\ \A i \in Mine(ready, n) : i \in Mine(ready', n) /\ ready'[i] = ready[i]
      /\ \A i \in Mine(ready', n) : i = e \/ (i \in Mine(ready, n) /\ i < e /\ ready'[i] = ready[i])
  BY <1>2, OneMore, ZenonT(30)
<1>4. Held(n)' = {queue[n]} \ {None}
  BY <1>1, <1>2 DEF Held
<1>5. NameOK(n)
  BY <1>1, Zenon DEF Order
<1> HIDE DEF n, e
<1>6. Newest(n)'
  BY <1>1, <1>2, <1>3, <1>4, <1>5, Zenon DEF NameOK, Newest
<1>7. ASSUME n \notin overtaken' PROVE InLine(n)' /\ Judged(n)'
  <2>1. InLine(n) /\ Judged(n) /\ Held(n) # {} /\ Held(n)' = {}
    BY <1>1, <1>2, <1>4, <1>5, <1>7, ZenonT(30) DEF NameOK
  <2>2. \A i \in Mine(ready, n) : Only(ready[i])
    BY <2>1 DEF InLine
  <2>3. o.new = desired'[n]
    BY <1>1, <1>2, <2>1, ZenonT(30) DEF Judged
  <2>4. \A i \in Mine(ready', n) : ~Only(ready'[i]) => ready'[i].new = desired'[n] /\ Held(n)' = {}
    BY <1>3, <2>1, <2>2, <2>3
  <2>5. \A i, j \in Mine(ready', n) : i < j => Only(ready'[i])
    <3>1. e \in Nat /\ \A j \in Mine(ready', n) : ~(e < j)
      <4>1. e \in Nat
        BY <1>2 DEF e
      <4>2. \A j \in Mine(ready', n) : j \in Nat
        BY DEF Mine
      <4> QED
        BY <1>3, <4>1, <4>2
    <3> QED
      BY <1>3, <2>2, <3>1
  <2>6. \A i \in Mine(ready', n) : Only(ready'[i]) => i < e
    BY <1>2, <1>3, Zenon
  <2> QED
    BY <1>2, <1>3, <2>1, <2>4, <2>5, <2>6, Zenon DEF InLine, Judged
<1> QED
  BY <1>1, <1>6, <1>7, Zenon DEF Order, NameOK, n

\* An operation has to wait.
LEMMA RetainedKeepsOrder ==
  ASSUME Inv, Order, NEW o, Retains(o)
  PROVE  Order'
<1> DEFINE n == WorkloadName(o)
<1> USE Parts
<1>1. /\ n \in LocalName /\ Filtering' /\ Greeting'
      /\ Of(ops', n) = {} /\ Head(ops) \in Held(n)
      /\ Held(n) = ({queue[n]} \ {None}) \cup {Head(ops)}
      /\ phase = "enqueue" => o.new = desired[n]
      /\ phase = "next" => queue[n] = None /\ IsJudged(n)
      /\ UNCHANGED <<phase, desired, executed, workloads>>
      /\ \A m \in LocalName \ {n} : NameOK(m)'
  BY Filtered, Zenon
<1>2. /\ ready \in Seq(ReadyEntry) /\ overtaken' = overtaken
      /\ ~Only(o) /\ o.new = Head(ops).new /\ phase \in {"enqueue", "next"}
  BY Zenon DEF Retains, Filters, OpsOK
<1>3. Held(n)' = {o}
  <2>2. queue'[n] = o
    BY <1>1 DEF Retains, put_on_queue, WaitOK, QueueOK
  <2>3. o # None
    BY PendingIsNew DEF Retains
  <2> QED
    BY <1>1, <2>2, <2>3, ZenonT(30) DEF Held
<1>4. NameOK(n)
  BY <1>1, Zenon DEF Order
<1> HIDE DEF n
<1>5. Newest(n)'
  <2>1. \A i \in Mine(ready, n) : i \in Mine(ready', n) /\ ready'[i] = ready[i]
    <3>1. CASE UNCHANGED ready
      BY <3>1
    <3>2. ASSUME NEW r, WorkloadName(r) = n, ready' = Append(ready, r)
          PROVE  \A i \in Mine(ready, n) : i \in Mine(ready', n) /\ ready'[i] = ready[i]
      BY <1>2, <3>2, OneMore, Zenon
    <3> QED
      BY <3>1, <3>2 DEF Retains, n
  <2>2. (\E p \in Held(n) : p.new = desired[n]) => o.new = desired[n]
    BY <1>1, <1>2, Zenon
  <2> QED
    BY <1>1, <1>2, <1>3, <1>4, <2>1, <2>2, Zenon DEF NameOK, Newest
<1>6. ASSUME n \notin overtaken' PROVE InLine(n)' /\ Judged(n)'
  <2>1. InLine(n) /\ Judged(n) /\ Held(n) # {} /\ Held(n)' # {}
    BY <1>1, <1>2, <1>3, <1>4, <1>6, ZenonT(30) DEF NameOK
  <2>2. \A i \in Mine(ready, n) : Only(ready[i])
    BY <2>1 DEF InLine
  <2>3. o.new = desired'[n]
    BY <1>1, <1>2, <2>1, Zenon DEF Judged
  <2>4. \A i \in Mine(ready', n) : Only(ready'[i])
    <3>1. CASE UNCHANGED ready
      BY <2>2, <3>1
    <3>2. ASSUME NEW r, Only(r), WorkloadName(r) = n, ready' = Append(ready, r)
          PROVE  \A i \in Mine(ready', n) : Only(ready'[i])
      BY <1>2, <2>2, <3>2, OneMore, ZenonT(30)
    <3> QED
      BY <3>1, <3>2 DEF Retains, n
  <2>5. InLine(n)'
    BY <2>1, <2>4, Zenon DEF InLine
  <2>6. CASE UNCHANGED ready
    <3>1. o.op = "UpdateCreate" => phase = "next" /\ Head(ops).op = "UpdateCreate"
      <4>1. \A r \in ReadyEntry : ready # Append(ready, r)
        BY <1>2
      <4> QED
        BY <2>6, <4>1 DEF Retains
    <3>2. /\ o.op = "UpdateCreate" /\ (\A i \in Mine(ready', n) : ~Only(ready'[i])) =>
               workloads'[n] = None \/ workloads'[n].stopped
      BY <1>1, <2>1, <2>6, <3>1, Zenon DEF Judged
    <3> QED
      BY <1>3, <2>1, <2>3, <2>5, <3>2, Zenon DEF Judged
  <2>7. CASE Mine(ready', n) # {}
    BY <1>3, <2>1, <2>3, <2>4, <2>5, <2>7, Zenon DEF Judged
  <2>8. ASSUME NEW r, WorkloadName(r) = n, ready' = Append(ready, r) PROVE Mine(ready', n) # {}
    BY <1>2, <2>8, OneMore
  <2> QED
    BY <2>6, <2>7, <2>8 DEF Retains, n
<1> QED
  BY <1>1, <1>5, <1>6, Zenon DEF Order, NameOK, n

\* Whatever is filtered.
LEMMA FilterKeepsOrder ==
  ASSUME Inv, Order,
         \/ enqueue_pending_create \/ enqueue_pending_delete
         \/ enqueue_pending_update \/ next_update_create
  PROVE  Order'
<1> DEFINE o == Head(ops)
           u == [o EXCEPT !.op = "Update"]
           uc == [o EXCEPT !.op = "UpdateCreate"]
           ud == [o EXCEPT !.op = "UpdateDelete"]
           only == [o EXCEPT !.op = "UpdateDeleteOnly"]
<1> USE Parts
<1>1. o \in NewEntry
  BY Taken DEF enqueue_pending_create, enqueue_pending_delete, enqueue_pending_update, next_update_create
<1>2. CASE enqueue_pending_create \/ enqueue_pending_delete
  <2>1. o.op \in {"Create", "Delete"}
    BY <1>2 DEF enqueue_pending_create, enqueue_pending_delete
  <2>2. o \in PendingEntry
    BY <1>1, <2>1, Rekind, Zenon DEF NewEntry, PendingEntry
  <2>3. Filters(o)
    BY <1>2, <2>1, Zenon DEF enqueue_pending_create, enqueue_pending_delete, Filters, Only
  <2>4. FiltersOut(o) \/ Retains(o)
    BY <1>2, <2>1, <2>2, <2>3 DEF enqueue_pending_create, enqueue_pending_delete, FiltersOut, Retains
  <2> QED
    BY <2>4, OutKeepsOrder, RetainedKeepsOrder, Zenon
<1>3. CASE enqueue_pending_update
  <2>1. o.op \in {"Update", "UpdateDelete"}
    BY <1>3 DEF enqueue_pending_update
  <2>2. /\ u.op = "Update" /\ u.new = o.new /\ WorkloadName(u) = WorkloadName(o)
        /\ uc \in PendingEntry /\ uc.op = "UpdateCreate" /\ uc.new = o.new /\ WorkloadName(uc) = WorkloadName(o)
        /\ ud \in PendingEntry /\ ud.op = "UpdateDelete" /\ ud.new = o.new /\ WorkloadName(ud) = WorkloadName(o)
        /\ only \in ReadyEntry /\ only.op = "UpdateDeleteOnly" /\ WorkloadName(only) = WorkloadName(o)
    <3>1. \A k \in {"Update", "UpdateCreate", "UpdateDelete", "UpdateDeleteOnly"} : k \notin {"Create", "Delete"}
      OBVIOUS
    <3> QED
      BY <1>1, <2>1, <3>1, Relabel DEF NewEntry, PendingEntry, ReadyEntry
  <2> HIDE DEF u, uc, ud, only
  <2>3. /\ phase \in {"enqueue", "next"} /\ ops # <<>> /\ ops' = Tail(ops) /\ EnqueueOther
        /\ \/ MakeReady(u) /\ UNCHANGED queue
           \/ put_on_queue(uc) /\ ready' = Append(ready, only) /\ UNCHANGED overtaken
           \/ put_on_queue(ud) /\ UNCHANGED <<ready, overtaken>>
    BY <1>3, Zenon DEF enqueue_pending_update, u, uc, ud, only
  <2>4. Filters(u) /\ Filters(uc) /\ Filters(ud)
    BY <2>2, <2>3, ZenonT(30) DEF Filters, Only
  <2>5. FiltersOut(u) \/ Retains(uc) \/ Retains(ud)
    BY <2>2, <2>3, <2>4 DEF FiltersOut, Retains, Only
  <2> QED
    BY <2>5, OutKeepsOrder, RetainedKeepsOrder
<1>4. CASE next_update_create
  <2>1. o.op = "UpdateCreate" /\ phase = "next"
    BY <1>4 DEF next_update_create
  <2>2. /\ u.op = "Update" /\ u.new = o.new /\ WorkloadName(u) = WorkloadName(o)
        /\ o \in PendingEntry
    BY <1>1, <2>1, Relabel, Rekind, Zenon DEF NewEntry, PendingEntry, ReadyEntry
  <2> HIDE DEF u
  <2>3. /\ ops # <<>> /\ ops' = Tail(ops) /\ EnqueueOther
        /\ \/ MakeReady(u) /\ UNCHANGED queue
           \/ put_on_queue(o) /\ UNCHANGED <<ready, overtaken>>
    BY <1>4 DEF next_update_create, u
  <2>4. Filters(u) /\ Filters(o)
    BY <2>1, <2>2, <2>3, Zenon DEF Filters, Only
  <2>5. FiltersOut(u) \/ Retains(o)
    BY <2>1, <2>2, <2>3, <2>4, ZenonT(30) DEF FiltersOut, Retains
  <2> QED
    BY <2>5, OutKeepsOrder, RetainedKeepsOrder
<1> QED
  BY <1>2, <1>3, <1>4

\* The drained queue: every operation of it is to be filtered again.
LEMMA DrainedAll ==
  ASSUME QueueOK, DrainQueue
  PROVE  /\ Distinct(ops') /\ \A n \in LocalName : queue'[n] = None
         /\ \A n \in LocalName : Of(ops', n) = {queue[n]} \ {None}
         /\ \A i \in 1..Len(ops') : WorkloadName(ops'[i]) \in LocalName
<1> DEFINE Q == {queue[n] : n \in LocalName}
           S == Q \ {None}
<1>1. IsFiniteSet(S)
  <2>1. DOMAIN queue = LocalName
    BY DEF QueueOK
  <2>2. IsFiniteSet(Q)
    BY <2>1, NamesAreFinite, FiniteValues
  <2> QED
    BY <2>2, FS_Subset
<1>2. ops' \in Orders(S) /\ \A n \in LocalName : queue'[n] = None
  BY DEF DrainQueue
<1>3. \A o \in S : WorkloadName(o) \in LocalName /\ queue[WorkloadName(o)] = o
  BY DEF QueueOK
<1>4. \A n \in LocalName : queue[n] # None => queue[n] \in S /\ WorkloadName(queue[n]) = n
  BY DEF QueueOK
<1> HIDE DEF S
<1>5. ops' \in Seq(S)
  BY <1>1, <1>2, SeqsOfSet
<1>6. \A i \in 1..Len(ops') : ops'[i] \in S
  BY <1>5
<1>7. /\ \A x \in S : \E i \in 1..Len(ops') : ops'[i] = x
      /\ \A i, j \in 1..Len(ops') : ops'[i] = ops'[j] => i = j
  BY <1>1, <1>2, OrdersAreOnto
<1>8. Distinct(ops')
  BY <1>3, <1>6, <1>7 DEF Distinct
<1>9. ASSUME NEW n \in LocalName PROVE Of(ops', n) = {queue[n]} \ {None}
  <2>1. ASSUME NEW o \in Of(ops', n) PROVE o \in {queue[n]} \ {None}
    <3>1. o \in S /\ WorkloadName(o) = n
      BY <1>6 DEF Of, Mine
    <3> QED
      BY <1>3, <3>1 DEF S
  <2>2. ASSUME NEW o \in {queue[n]} \ {None} PROVE o \in Of(ops', n)
    BY <1>4, <1>7 DEF Of, Mine
  <2> QED
    BY <2>1, <2>2
<1> QED
  BY <1>2, <1>3, <1>6, <1>8, <1>9

\* The queue is filtered again.
LEMMA DrainKeepsOrder ==
  ASSUME Inv, Order, DrainQueue, ops = <<>>, phase # "hello",
         UNCHANGED <<desired, ready, workloads, executed, overtaken>>
  PROVE  Order'
<1> USE Parts
<1>1. /\ Distinct(ops') /\ \A n \in LocalName : queue'[n] = None
      /\ \A n \in LocalName : Of(ops', n) = {queue[n]} \ {None}
      /\ \A i \in 1..Len(ops') : WorkloadName(ops'[i]) \in LocalName
  BY DrainedAll DEF WaitOK
<1>2. phase' = "next"
  BY ZenonT(30) DEF DrainQueue
<1>3. Filtering' /\ Greeting'
  BY <1>1, <1>2 DEF Order, Filtering, Greeting
<1>4. ASSUME NEW n \in LocalName PROVE NameOK(n)'
  <2>1. Of(ops, n) = {}
    BY SMTT(30) DEF Of, Mine
  <2>2. Held(n)' = Held(n) /\ IsJudged(n)
    BY <1>1, <2>1 DEF Held, IsJudged
  <2>3. Ahead(n, 0)
    BY AfterNone DEF OpsOK
  <2>4. NameOK(n)
    BY DEF Order
  <2> QED
    BY <2>2, <2>3, <2>4, SameName, Zenon
<1> QED
  BY <1>3, <1>4 DEF Order

-----------------------------------------------------------------------------
(* The server's messages keep the order *)

\* The desired workloads have different names.
LEMMA WantedNames ==
  ASSUME NEW w \in Wanted
  PROVE  /\ w \in [LocalName -> Local \cup {None}]
         /\ \A n \in LocalName : w[n] # None => w[n] \in Local /\ NameOf[w[n]] = n
  BY DEF Wanted

\* An operation on a name, among others.
LEMMA HasOne ==
  ASSUME NEW s, NEW i \in 1..Len(s), NEW n, WorkloadName(s[i]) = n
  PROVE  s[i] \in Of(s, n)
  BY DEF Of, Mine

\* No operation is ready, and those to be filtered are new.
LEMMA NewNames ==
  ASSUME Inv, Inv', Filtering', phase' = "enqueue", ready' = <<>>, NEW n \in LocalName,
         Of(ops', n) # {}
  PROVE  NameOK(n)'
<1>1. PICK i \in 1..Len(ops') : WorkloadName(ops'[i]) = n /\ ops'[i] \in Of(ops', n)
  BY DEF Of, Mine
<1>2. ops'[i].new = desired'[n]
  BY <1>1, Zenon DEF Filtering
<1>3. Newest(n)'
  BY <1>1, <1>2 DEF Newest, Held
<1>4. Mine(ready', n) = {}
  BY SMTT(30) DEF Mine
<1>5. InLine(n)' /\ Judged(n)'
  BY <1>4 DEF InLine, Judged, IsJudged
<1> QED
  BY <1>3, <1>5 DEF NameOK

\* An update of the desired state.
LEMMA UpdateMessageKeepsOrder ==
  ASSUME Inv, Inv', Order, handle_update_workload
  PROVE  Order'
<1> USE Parts
<1>1. PICK w \in Wanted, deps \in DelDeps :
        LET changed == {n \in LocalName : w[n] # desired[n]}
        IN /\ desired' = w
           /\ executed' = [n \in LocalName |-> IF n \in changed THEN {} ELSE executed[n]]
           /\ ops' \in transform_into_workload_operations(
                         {w[n] : n \in changed} \ {None},
                         {<<desired[n], deps>> : n \in {m \in changed : desired[m] # None}})
  BY Zenon DEF handle_update_workload
<1> DEFINE changed == {n \in LocalName : w[n] # desired[n]}
           old == {m \in changed : desired[m] # None}
           A == {w[n] : n \in changed} \ {None}
           D == {<<desired[n], deps>> : n \in old}
           f == [n \in old |-> <<desired[n], deps>>]
<1>2. /\ phase = "select" /\ phase' = "enqueue" /\ ops = <<>> /\ ready = <<>> /\ ready' = <<>>
      /\ queue' = queue /\ workloads' = workloads /\ overtaken' = overtaken
  BY ZenonT(30) DEF handle_update_workload, Order, Filtering, loopVars
<1>3. desired \in Wanted
  BY DEF Order, Filtering
<1>4. /\ \A n \in LocalName : w[n] # None => w[n] \in Local /\ NameOf[w[n]] = n
      /\ \A n \in LocalName : desired[n] # None => desired[n] \in Local /\ NameOf[desired[n]] = n
  BY <1>3, WantedNames
<1>5. A \in SUBSET Local /\ D \in SUBSET (Local \X DelDeps)
  BY <1>4
<1>6. IsFiniteSet(D)
  <2>1. IsFiniteSet(old)
    BY NamesAreFinite, FS_Subset
  <2>2. IsFiniteSet({f[n] : n \in old})
    <3> HIDE DEF old
    <3>1. DOMAIN f = old
      OBVIOUS
    <3> HIDE DEF f
    <3> QED
      BY <2>1, <3>1, FiniteValues
  <2>3. {f[n] : n \in old} = D
    BY Zenon
  <2> QED
    BY <2>2, <2>3, Zenon
<1>7. OnePerName(A) /\ \A d, e \in D : NameOf[d[1]] = NameOf[e[1]] => d = e
  <2>1. \A a, b \in A : NameOf[a] = NameOf[b] => a = b
    BY <1>4
  <2>2. \A d, e \in D : NameOf[d[1]] = NameOf[e[1]] => d = e
    BY <1>4, SMTT(30)
  <2> QED
    BY <2>1, <2>2, Zenon DEF OnePerName
<1>8. /\ \A a \in A : NameOf[a] \in changed /\ w[NameOf[a]] = a
      /\ \A d \in D : NameOf[d[1]] \in changed /\ desired[NameOf[d[1]]] # None
      /\ \A n \in changed : w[n] # None => w[n] \in A /\ NameOf[w[n]] = n
      /\ \A n \in changed : w[n] = None => \E d \in D : NameOf[d[1]] = n
  <2>1. \A a \in A : NameOf[a] \in changed /\ w[NameOf[a]] = a
    BY <1>4
  <2>2. \A d \in D : NameOf[d[1]] \in changed /\ desired[NameOf[d[1]]] # None
    BY <1>4
  <2>3. \A n \in changed : w[n] # None => w[n] \in A /\ NameOf[w[n]] = n
    BY <1>4
  <2>4. ASSUME NEW n \in changed, w[n] = None PROVE \E d \in D : NameOf[d[1]] = n
    <3>1. n \in old /\ NameOf[desired[n]] = n
      BY <1>4, <2>4, Zenon
    <3>2. <<desired[n], deps>> \in D
      BY <3>1, Zenon
    <3> HIDE DEF D
    <3> QED
      BY <3>1, <3>2
  <2> QED
    BY <2>1, <2>2, <2>3, <2>4
<1>9. ops' \in transform_into_workload_operations(A, D)
  BY <1>1
<1> HIDE DEF A, D
<1>10. /\ Distinct(ops')
       /\ \A i \in 1..Len(ops') :
            \/ ops'[i].new \in A /\ NameOf[ops'[i].new] = WorkloadName(ops'[i])
            \/ /\ ops'[i].new = None /\ \A a \in A : NameOf[a] # WorkloadName(ops'[i])
               /\ \E d \in D : WorkloadName(ops'[i]) = NameOf[d[1]]
       /\ \A a \in A : \E i \in 1..Len(ops') : WorkloadName(ops'[i]) = NameOf[a]
       /\ \A d \in D : \E i \in 1..Len(ops') : WorkloadName(ops'[i]) = NameOf[d[1]]
  <2>1. Deletable(D)
    BY <1>5, <1>6, <1>7, Zenon DEF Deletable
  <2>2. Yields(A, D, ops')
    BY <1>5, <1>6, <1>7, <1>9, <2>1, TransformYields, ZenonT(30)
  <2> QED
    BY <2>2, Zenon DEF Yields
<1>11. \A i \in 1..Len(ops') : WorkloadName(ops'[i]) \in changed /\ ops'[i].new = w[WorkloadName(ops'[i])]
  <2> HIDE DEF changed
  <2> QED
    BY <1>8, <1>10, SMTT(30)
<1>12. Filtering' /\ Greeting'
  BY <1>1, <1>2, <1>10, <1>11 DEF Filtering, Greeting
<1>13. ASSUME NEW n \in LocalName PROVE NameOK(n)'
  <2>1. CASE n \in changed
    <3>1. \E i \in 1..Len(ops') : WorkloadName(ops'[i]) = n
      <4>1. CASE w[n] # None
        <5>1. w[n] \in A /\ NameOf[w[n]] = n
          BY <1>8, <2>1, <4>1, Zenon
        <5>2. PICK i \in 1..Len(ops') : WorkloadName(ops'[i]) = NameOf[w[n]]
          BY <1>10, <5>1, Zenon
        <5> QED
          BY <5>1, <5>2, Zenon
      <4>2. CASE w[n] = None
        <5>1. PICK d \in D : NameOf[d[1]] = n
          BY <1>8, <2>1, <4>2, Zenon
        <5>2. PICK i \in 1..Len(ops') : WorkloadName(ops'[i]) = NameOf[d[1]]
          BY <1>10, <5>1, Zenon
        <5> QED
          BY <5>1, <5>2, Zenon
      <4> QED
        BY <4>1, <4>2
    <3> QED
      BY <1>2, <1>12, <3>1, NewNames, HasOne
  <2>2. CASE n \notin changed
    <3>1. Of(ops', n) = {} /\ Of(ops, n) = {}
      <4>1. Mine(ops', n) = {}
        BY <1>11, <2>2, Zenon DEF Mine
      <4>2. 1..Len(ops) = {}
        <5>1. ops = <<>>
          BY <1>2
        <5> QED
          BY ONLY <5>1
      <4> QED
        BY ONLY <4>1, <4>2, Zenon DEF Of, Mine
    <3>2. Held(n)' = Held(n) /\ IsJudged(n)
      BY <1>2, <3>1 DEF Held, IsJudged
    <3>3. Ahead(n, 0)
      BY <1>2, AfterNone DEF OpsOK
    <3>4. NameOK(n) /\ desired'[n] = desired[n] /\ executed'[n] = executed[n]
      BY <1>1, <2>2, ZenonT(30) DEF Order
    <3> QED
      BY <1>2, <3>2, <3>3, <3>4, SameName, Zenon
  <2> QED
    BY <2>1, <2>2
<1> QED
  BY <1>12, <1>13 DEF Order

\* While a hello is handled.
LEMMA InHello ==
  ASSUME phase' = "hello", ready' = <<>>, NEW n
  PROVE  NameOK(n)'
<1>1. Mine(ready', n) = {}
  BY DEF Mine
<1> QED
  BY <1>1 DEF NameOK, Newest, InLine, Judged, IsJudged

\* The hello of the server.
LEMMA HelloMessageKeepsOrder ==
  ASSUME Inv, Order, handle_server_hello
  PROVE  Order'
<1> USE Parts
<1>1. PICK w \in Wanted :
        /\ desired' = w
        /\ executed' = [n \in LocalName |-> IF w[n] = None THEN {None} ELSE {}]
        /\ added' = {w[n] : n \in LocalName} \ {None}
  BY Zenon DEF handle_server_hello
<1>2. /\ phase' = "hello" /\ new_added' = {} /\ deleted' = {}
      /\ ops' = <<>> /\ ready' = <<>>
  BY Zenon DEF handle_server_hello, Order, Filtering
<1>3. Distinct(ops')
  <2>1. 1..Len(ops') = {}
    BY ONLY <1>2
  <2> QED
    BY ONLY <2>1, Zenon DEF Distinct
<1>4. Filtering'
  BY <1>1, <1>2, <1>3, Zenon DEF Filtering
<1>5. Greeting'
  BY <1>1, <1>2, WantedNames, SMTT(30) DEF Greeting
<1> QED
  BY <1>2, <1>4, <1>5, InHello DEF Order

\* One container found after a hello.
LEMMA ResumeKeepsOrder ==
  ASSUME Inv, Order, resume_and_remove_from_added_workloads
  PROVE  Order'
<1> USE Parts
<1>1. PICK c \in existing :
       LET n == NameOf[c]
           new == {a \in added : NameOf[a] = n}
       IN /\ added' = added \ new
          /\ \/ /\ new = {c} /\ executed' = [executed EXCEPT ![n] = @ \cup {c}]
                /\ UNCHANGED <<new_added, deleted>>
             \/ /\ new_added' = new_added \cup new
                /\ UNCHANGED <<deleted, executed>>
             \/ /\ new # {} /\ new_added' = new_added \cup new
                /\ deleted' = deleted \cup {<<c, {}>>}
                /\ UNCHANGED executed
             \/ /\ new = {}
                /\ UNCHANGED <<new_added, deleted, executed>>
  BY Zenon DEF resume_and_remove_from_added_workloads
<1> DEFINE n == NameOf[c]
           new == {a \in added : NameOf[a] = n}
<1>2. /\ phase = "hello" /\ phase' = "hello" /\ desired' = desired /\ ops' = ops /\ ready' = <<>>
      /\ Greeting /\ Filtering /\ n \in LocalName
  BY Zenon DEF resume_and_remove_from_added_workloads, Order, Filtering, HelloOK, LocalName
<1>3. Filtering'
  BY <1>2, Zenon DEF Filtering
<1>4. \A a \in new : a = desired[n]
  BY <1>2 DEF Greeting
<1>5. \A a \in added \ new : NameOf[a] # n
  OBVIOUS
<1>6. (added \ new) \cup new = added
  OBVIOUS
<1>7. executed \in [LocalName -> SUBSET (Local \cup {None})]
  BY DEF HistoryOK
<1> HIDE DEF new, n
<1>8. CASE /\ new = {c} /\ executed' = [executed EXCEPT ![n] = @ \cup {c}]
           /\ UNCHANGED <<new_added, deleted>> /\ added' = added \ new
  <2>1. \A m \in LocalName : executed[m] \subseteq executed'[m]
    BY <1>2, <1>7, <1>8
  <2>2. desired[n] = c /\ c \in executed'[n]
    BY <1>2, <1>4, <1>7, <1>8
  <2>3. \A m \in LocalName : desired[m] \in new => m = n
    <3>1. \A m \in LocalName : desired[m] # None => NameOf[desired[m]] = m
      BY <1>2, WantedNames DEF Filtering
    <3>2. c # None /\ NameOf[c] = n
      BY ConfigAssumption, Zenon DEF HelloOK, n
    <3> QED
      BY <1>8, <3>1, <3>2, Zenon
  <2>4. \A m \in LocalName : desired[m] \in executed'[m] \cup added' \cup new_added'
    BY <1>2, <1>8, <2>1, <2>2, <2>3, ZenonT(30) DEF Greeting
  <2>5. Greeting'
    BY <1>2, <1>8, <2>4 DEF Greeting
  <2> QED
    BY <1>2, <1>3, <2>5, InHello DEF Order
<1>9. CASE new_added' = new_added \cup new /\ UNCHANGED <<deleted, executed>> /\ added' = added \ new
  <2>1. added' \cup new_added' = added \cup new_added
    BY <1>6, <1>9, Zenon
  <2>2. Greeting'
    BY <1>2, <1>9, <2>1 DEF Greeting
  <2> QED
    BY <1>2, <1>3, <2>2, InHello DEF Order
<1>10. CASE /\ new # {} /\ new_added' = new_added \cup new
            /\ deleted' = deleted \cup {<<c, {}>>} /\ UNCHANGED executed /\ added' = added \ new
  <2>1. added' \cup new_added' = added \cup new_added
    BY <1>6, <1>10
  <2>2. desired[n] \in new /\ desired[n] \in added
    BY <1>4, <1>6, <1>10, Zenon
  <2>3. \A d \in deleted : NameOf[d[1]] # n
    BY <1>2, <2>2, Zenon DEF Greeting
  <2>4. \A d, e \in deleted' : NameOf[d[1]] = NameOf[e[1]] => d = e
    <3> DEFINE x == <<c, {}>>
    <3>1. NameOf[x[1]] = n
      BY DEF n
    <3>2. deleted' = deleted \cup {x}
      BY <1>10, Zenon
    <3> HIDE DEF x
    <3> QED
      BY <1>2, <2>3, <3>1, <3>2 DEF Greeting
  <2>5. \A d \in deleted' : desired[NameOf[d[1]]] \in new_added' \ added'
    BY <1>2, <1>10, <2>2, SMTT(30) DEF Greeting, n
  <2>6. Greeting'
    BY <1>2, <1>10, <2>1, <2>4, <2>5 DEF Greeting
  <2> QED
    BY <1>2, <1>3, <2>6, InHello DEF Order
<1>11. CASE new = {} /\ UNCHANGED <<new_added, deleted, executed>> /\ added' = added \ new
  <2>1. added' = added
    BY <1>11, Zenon
  <2>2. Greeting'
    BY <1>2, <1>11, <2>1 DEF Greeting
  <2> QED
    BY <1>2, <1>3, <2>2, InHello DEF Order
<1> QED
  BY <1>1, <1>8, <1>9, <1>10, <1>11 DEF new, n

\* The hello's workloads are handed to the scheduler, and the names that are passed
\* by are noted.
LEMMA HelloDoneKeepsOrder ==
  ASSUME Inv, Inv', Order, execute_hello
  PROVE  Order'
<1> DEFINE A == new_added \cup added
<1> USE Parts
<1>1. /\ phase = "hello" /\ phase' = "enqueue" /\ ready' = <<>> /\ Greeting /\ Filtering
      /\ UNCHANGED <<desired, queue, workloads, executed>>
      /\ ops' \in transform_into_workload_operations(A, deleted)
      /\ overtaken' = overtaken \cup PassedByHello(ops')
  BY DEF execute_hello, Order, Filtering, loopVars
<1>2. /\ A \in SUBSET Local /\ deleted \in SUBSET (Local \X DelDeps) /\ IsFiniteSet(deleted)
      /\ OnePerName(A) /\ \A d, e \in deleted : NameOf[d[1]] = NameOf[e[1]] => d = e
  BY <1>1, Zenon DEF HelloOK, Greeting, OnePerName
<1>3. /\ \A a \in A : a = desired[NameOf[a]]
      /\ \A d \in deleted : desired[NameOf[d[1]]] \in A
      /\ \A n \in LocalName : desired[n] \in executed[n] \cup A
  BY <1>1, Zenon DEF Greeting
<1>4. \A d \in deleted : \E a \in A : NameOf[a] = NameOf[d[1]]
  <2> SUFFICES ASSUME NEW d \in deleted PROVE NameOf[desired[NameOf[d[1]]]] = NameOf[d[1]]
    BY <1>3
  <2>1. NameOf[d[1]] \in LocalName
    BY <1>2, Zenon DEF LocalName
  <2>2. desired[NameOf[d[1]]] # None
    BY <1>2, <1>3, ConfigAssumption
  <2> QED
    BY <1>1, <2>1, <2>2, WantedNames, Zenon DEF Filtering
<1> HIDE DEF A
<1>5. /\ Distinct(ops')
      /\ \A i \in 1..Len(ops') :
           \/ ops'[i].new \in A /\ NameOf[ops'[i].new] = WorkloadName(ops'[i])
           \/ /\ ops'[i].new = None /\ \A a \in A : NameOf[a] # WorkloadName(ops'[i])
              /\ \E d \in deleted : WorkloadName(ops'[i]) = NameOf[d[1]]
      /\ \A a \in A : \E i \in 1..Len(ops') : WorkloadName(ops'[i]) = NameOf[a]
  <2>1. Deletable(deleted)
    BY <1>2, Zenon DEF Deletable
  <2>2. Yields(A, deleted, ops')
    BY <1>1, <1>2, <2>1, TransformYields, Zenon
  <2> QED
    BY <2>2, Zenon DEF Yields
<1>6. \A i \in 1..Len(ops') : ops'[i].new = desired[WorkloadName(ops'[i])]
  <2> SUFFICES ASSUME NEW i \in 1..Len(ops')
               PROVE  ops'[i].new = desired[WorkloadName(ops'[i])]
    BY Zenon
  <2>1. CASE ops'[i].new \in A /\ NameOf[ops'[i].new] = WorkloadName(ops'[i])
    BY <1>3, <2>1, Zenon
  <2>2. CASE ~(ops'[i].new \in A /\ NameOf[ops'[i].new] = WorkloadName(ops'[i]))
    <3>1. /\ \A a \in A : NameOf[a] # WorkloadName(ops'[i])
          /\ \E d \in deleted : WorkloadName(ops'[i]) = NameOf[d[1]]
      BY <1>5, <2>2, Zenon
    <3>2. PICK d \in deleted : WorkloadName(ops'[i]) = NameOf[d[1]]
      BY <3>1, Zenon
    <3> QED
      BY <1>4, <3>1, <3>2, Zenon
  <2> QED
    BY <2>1, <2>2, Zenon
<1>7. Filtering' /\ Greeting'
  BY <1>1, <1>5, <1>6, Zenon DEF Filtering, Greeting
<1>8. ASSUME NEW n \in LocalName PROVE NameOK(n)'
  <2>1. CASE \E i \in 1..Len(ops') : WorkloadName(ops'[i]) = n
    BY <1>1, <1>7, <2>1, NewNames, HasOne
  <2>2. CASE ~\E i \in 1..Len(ops') : WorkloadName(ops'[i]) = n
    <3>1. Of(ops', n) = {} /\ Mine(ready', n) = {}
      <4>1. Mine(ops', n) = {}
        BY ONLY <2>2, Zenon DEF Mine
      <4>2. 1..Len(ready') = {}
        <5>1. ready' = <<>>
          BY <1>1
        <5> QED
          BY ONLY <5>1
      <4> QED
        BY ONLY <4>1, <4>2, Zenon DEF Of, Mine
    <3>2. desired[n] \in executed[n]
      <4>1. desired[n] \notin A
        <5>1. desired[n] \in A => NameOf[desired[n]] = n
          BY <1>1, <1>2, WantedNames, ConfigAssumption, Zenon DEF Filtering
        <5> QED
          BY <1>5, <2>2, <5>1
      <4> QED
        BY <1>3, <4>1, Zenon
    <3>3. n \notin overtaken' => queue[n] = None /\ RunsDesired(n)
      <4>1. DOMAIN ops' = 1..Len(ops')
        BY PartsNext, SMTT(30) DEF OpsOK
      <4> QED
        BY <1>1, <2>2, <4>1 DEF PassedByHello
    <3>4. RunsDesired(n) => RunsDesired(n)'
      BY <1>1 DEF RunsDesired
    <3>5. n \notin overtaken' => Held(n)' = {} /\ RunsDesired(n)'
      BY <1>1, <3>1, <3>3, <3>4 DEF Held
    <3> QED
      BY <1>1, <3>1, <3>2, <3>5, Zenon DEF NameOK, Newest, InLine, Judged
  <2> QED
    BY <2>1, <2>2
<1> QED
  BY <1>7, <1>8, ZenonT(30) DEF Order

-----------------------------------------------------------------------------
(* Execution keeps the order *)

\* The first ready operation is executed.
LEMMA FirstTaken ==
  ASSUME NEW X, ready \in Seq(X), ready # <<>>, ready' = Tail(ready)
  PROVE  LET n == WorkloadName(Head(ready))
         IN /\ 1 \in Mine(ready, n) /\ ready[1] = Head(ready)
            /\ \A i \in Mine(ready', n) : i + 1 \in Mine(ready, n) /\ i \in Nat /\ 1 < i + 1 /\ ready'[i] = ready[i + 1]
            /\ \A i \in Mine(ready, n) : i = 1 \/ (i - 1 \in Mine(ready', n) /\ i \in Nat /\ ready'[i - 1] = ready[i])
<1>1. /\ Len(ready') = Len(ready) - 1 /\ Len(ready) \in Nat /\ ready[1] = Head(ready) /\ 1 \in 1..Len(ready)
      /\ \A i \in 1..Len(ready') : i + 1 \in 1..Len(ready) /\ ready'[i] = ready[i + 1]
      /\ \A i \in 1..Len(ready) : i = 1 \/ (i - 1 \in 1..Len(ready') /\ ready'[i - 1] = ready[i])
  OBVIOUS
<1>2. \A i \in 1..Len(ready') : i \in Nat /\ 1 < i + 1
  BY <1>1
<1>3. \A i \in 1..Len(ready) : i \in Nat
  BY <1>1, SMTT(30)
<1> QED
  BY <1>1, <1>2, <1>3 DEF Mine

\* What the execution of an operation has in common: nothing is held back, and the
\* other names stay as they are.
LEMMA ExecutesAlone ==
  ASSUME Inv, Order, NEW k, Executes(k), NEW o, o = Head(ready),
         \A n \in LocalName : n # WorkloadName(o) =>
           workloads'[n] = workloads[n] /\ executed'[n] = executed[n]
  PROVE  /\ WorkloadName(o) \in LocalName
         /\ Filtering' /\ Greeting' /\ phase = "next" /\ phase' = "next" /\ desired' = desired
         /\ Held(WorkloadName(o))' = Held(WorkloadName(o))
         /\ ready \in Seq(ReadyEntry) /\ ready # <<>> /\ ready' = Tail(ready) /\ overtaken' = overtaken
         /\ \A n \in LocalName : n # WorkloadName(o) => NameOK(n)'
<1> USE Parts
<1>1. /\ phase = "next" /\ ops = <<>> /\ ready # <<>> /\ ready' = Tail(ready) /\ Filtering
      /\ UNCHANGED <<phase, desired, added, new_added, deleted, ops, queue, overtaken>>
      /\ ready \in Seq(ReadyEntry)
  BY Zenon DEF Executes, helloVars, OpsOK, Order
<1>2. Filtering' /\ Greeting'
  BY <1>1, Zenon DEF Filtering, Greeting
<1>3. \A n : Held(n)' = Held(n) /\ (IsJudged(n)' => IsJudged(n))
  BY <1>1 DEF Held, IsJudged
<1>4. ASSUME NEW n \in LocalName, n # WorkloadName(o) PROVE NameOK(n)'
  <2>1. Ahead(n, 1)
    BY <1>1, <1>4, AfterTail, Zenon
  <2>2. NameOK(n)
    BY DEF Order
  <2> QED
    BY <1>1, <1>3, <1>4, <2>1, <2>2, SameName, Zenon
<1>5. WorkloadName(o) \in LocalName
  BY Executed, Zenon
<1> QED
  BY <1>1, <1>2, <1>3, <1>4, <1>5

\* An operation other than a first half brings the agent to what is desired.
LEMMA WholeKeepsOrder ==
  ASSUME Inv, Order, NEW k, Executes(k), k # "UpdateDeleteOnly", NEW o, o = Head(ready), Done(o),
         \A n \in LocalName : n # WorkloadName(o) => workloads'[n] = workloads[n],
         workloads'[WorkloadName(o)] =
           IF o.new = None THEN None ELSE Workload(o.new)
  PROVE  Order'
<1> DEFINE n == WorkloadName(o)
<1> USE Parts
<1>1. /\ executed \in [LocalName -> SUBSET (Local \cup {None})]
      /\ executed' = [executed EXCEPT ![n] = @ \cup {o.new}]
      /\ ~Only(o)
  BY ZenonT(30) DEF HistoryOK, Done, Executes, Only
<1>2. \A m \in LocalName : m # n => executed'[m] = executed[m]
  BY <1>1
<1>3. /\ n \in LocalName
      /\ Filtering' /\ Greeting' /\ phase = "next" /\ phase' = "next" /\ desired' = desired
      /\ Held(n)' = Held(n)
      /\ ready \in Seq(ReadyEntry) /\ ready # <<>> /\ ready' = Tail(ready) /\ overtaken' = overtaken
      /\ \A m \in LocalName : m # n => NameOK(m)'
  BY <1>2, ExecutesAlone, Zenon
<1>4. /\ 1 \in Mine(ready, n) /\ ready[1] = o
      /\ \A i \in Mine(ready', n) : i + 1 \in Mine(ready, n) /\ i \in Nat /\ 1 < i + 1 /\ ready'[i] = ready[i + 1]
      /\ \A i \in Mine(ready, n) : i = 1 \/ (i - 1 \in Mine(ready', n) /\ i \in Nat /\ ready'[i - 1] = ready[i])
  BY <1>3, FirstTaken, Zenon
<1>5. NameOK(n) /\ executed'[n] = executed[n] \cup {o.new}
  BY <1>1, <1>3, Zenon DEF Order
<1>6. workloads'[n] = IF o.new = None THEN None ELSE Workload(o.new)
  OBVIOUS
<1> HIDE DEF n
<1>7. Newest(n)'
  <2>1. ASSUME NEW i \in Mine(ready, n), ~Only(ready[i]), ready[i].new = desired[n]
        PROVE  \/ desired'[n] \in executed'[n]
               \/ \E j \in Mine(ready', n) : ~Only(ready'[j]) /\ ready'[j].new = desired'[n]
    BY <1>3, <1>4, <1>5, <2>1, ZenonT(30)
  <2> QED
    BY <1>3, <1>5, <2>1, Zenon DEF NameOK, Newest
<1>8. ASSUME n \notin overtaken' PROVE InLine(n)' /\ Judged(n)'
  <2>1. InLine(n)
    BY <1>3, <1>5, <1>8, Zenon DEF NameOK
  <2>2. Held(n)' = {} /\ o.new = desired'[n]
    BY <1>1, <1>3, <1>4, <2>1, Zenon DEF InLine
  <2>3. Mine(ready', n) = {}
    BY <1>1, <1>4, <2>1, Zenon DEF InLine
  <2>4. RunsDesired(n)'
    BY <1>6, <2>2, Zenon DEF RunsDesired, Workload
  <2> QED
    BY <2>2, <2>3, <2>4, Zenon DEF InLine, Judged
<1> QED
  BY <1>3, <1>7, <1>8, Zenon DEF Order, NameOK, n

\* The first half of an update stops the workload.
LEMMA HalfKeepsOrder ==
  ASSUME Inv, Order, Executes("UpdateDeleteOnly"), UNCHANGED executed, NEW o, o = Head(ready),
         \A n \in LocalName : n # WorkloadName(o) => workloads'[n] = workloads[n],
         LET w == workloads'[WorkloadName(o)] IN w = None \/ w.stopped
  PROVE  Order'
<1> DEFINE n == WorkloadName(o)
<1> USE Parts
<1>1. Only(o)
  BY Zenon DEF Executes, Only
<1>2. \A m \in LocalName : m # n => executed'[m] = executed[m]
  OBVIOUS
<1>3. /\ n \in LocalName
      /\ Filtering' /\ Greeting' /\ phase = "next" /\ phase' = "next" /\ desired' = desired
      /\ Held(n)' = Held(n)
      /\ ready \in Seq(ReadyEntry) /\ ready # <<>> /\ ready' = Tail(ready) /\ overtaken' = overtaken
      /\ \A m \in LocalName : m # n => NameOK(m)'
  BY <1>2, ExecutesAlone, Zenon
<1>4. /\ 1 \in Mine(ready, n) /\ ready[1] = o
      /\ \A i \in Mine(ready', n) : i + 1 \in Mine(ready, n) /\ i \in Nat /\ 1 < i + 1 /\ ready'[i] = ready[i + 1]
      /\ \A i \in Mine(ready, n) : i = 1 \/ (i - 1 \in Mine(ready', n) /\ i \in Nat /\ ready'[i - 1] = ready[i])
  BY <1>3, FirstTaken, ZenonT(30)
<1>5. NameOK(n) /\ IsJudged(n)
  BY <1>3 DEF Order, IsJudged
<1>6. workloads'[n] = None \/ workloads'[n].stopped
  OBVIOUS
<1> HIDE DEF n
<1>7. Newest(n)'
  <2>1. ASSUME NEW i \in Mine(ready, n), ~Only(ready[i]), ready[i].new = desired[n]
        PROVE  \E j \in Mine(ready', n) : ~Only(ready'[j]) /\ ready'[j].new = desired'[n]
    <3>1. i # 1
      BY <1>1, <1>4, <2>1, ZenonT(30)
    <3>2. i - 1 \in Mine(ready', n) /\ ready'[i - 1] = ready[i]
      BY <1>4, <3>1
    <3> QED
      BY <1>3, <2>1, <3>2, Zenon
  <2> QED
    BY <1>3, <1>5, <2>1, Zenon DEF NameOK, Newest
<1>8. ASSUME n \notin overtaken' PROVE InLine(n)' /\ Judged(n)'
  <2>1. InLine(n) /\ Judged(n)
    BY <1>3, <1>5, <1>8, Zenon DEF NameOK
  <2>2. \A i \in Mine(ready', n) : ~Only(ready'[i]) => ready'[i].new = desired'[n] /\ Held(n)' = {}
    <3> SUFFICES ASSUME NEW i \in Mine(ready', n), ~Only(ready'[i])
                 PROVE  ready'[i].new = desired'[n] /\ Held(n)' = {}
      BY ZenonT(30)
    <3>1. i + 1 \in Mine(ready, n) /\ ready'[i] = ready[i + 1]
      BY <1>4
    <3> QED
      BY <1>3, <2>1, <3>1, Zenon DEF InLine
  <2>3. \A i, j \in Mine(ready', n) : i < j => Only(ready'[i])
    <3> SUFFICES ASSUME NEW i \in Mine(ready', n), NEW j \in Mine(ready', n), i < j PROVE Only(ready'[i])
      BY Zenon
    <3>1. i + 1 \in Mine(ready, n) /\ j + 1 \in Mine(ready, n) /\ i + 1 < j + 1
      BY <1>4, SMTT(30)
    <3> QED
      BY <1>4, <2>1, <3>1, Zenon DEF InLine
  <2>4. ASSUME NEW i \in Mine(ready, n), Only(ready[i]), Held(n) = {}
        PROVE  \E j \in Mine(ready', n) : i < j + 1 /\ ~Only(ready'[j])
    <3>1. PICK j \in Mine(ready, n) : i < j /\ ~Only(ready[j])
      BY <2>1, <2>4, ZenonT(30) DEF InLine
    <3>2. j - 1 \in Mine(ready', n) /\ ready'[j - 1] = ready[j] /\ i < (j - 1) + 1
      BY <1>1, <1>4, <3>1
    <3> QED
      BY <3>1, <3>2, Zenon
  <2>5. \A i \in Mine(ready', n) : Only(ready'[i]) =>
          Held(n)' # {} \/ \E j \in Mine(ready', n) : i < j /\ ~Only(ready'[j])
    <3> SUFFICES ASSUME NEW i \in Mine(ready', n), Only(ready'[i]), Held(n) = {}
                 PROVE  \E j \in Mine(ready', n) : i < j /\ ~Only(ready'[j])
      BY <1>3, Zenon
    <3>1. PICK j \in Mine(ready', n) : i + 1 < j + 1 /\ ~Only(ready'[j])
      BY <1>4, <2>4, ZenonT(30)
    <3>2. i < j
      BY <1>4, <3>1, SMTT(30)
    <3> QED
      BY <3>1, <3>2, Zenon
  <2>6. Held(n)' = {} => Mine(ready', n) # {}
    BY <1>1, <1>3, <1>4, <2>4
  <2>7. \A p \in Held(n)' : p.new = desired'[n]
    BY <1>3, <1>5, <2>1, Zenon DEF Judged
  <2> QED
    BY <1>6, <2>2, <2>3, <2>5, <2>6, <2>7, Zenon DEF InLine, Judged
<1> QED
  BY <1>3, <1>7, <1>8, Zenon DEF Order, NameOK, n

\* Whatever is executed.
LEMMA ExecuteKeepsOrder ==
  ASSUME Inv, Order, add_workload \/ update_workload \/ update_delete_only \/ delete_workload
  PROVE  Order'
<1>0. PICK o : o = Head(ready)
  OBVIOUS
<1> DEFINE n == WorkloadName(o)
<1> USE Parts
<1>1. workloads \in [LocalName -> [config : Local, stopped : BOOLEAN] \cup {None}]
  BY Zenon DEF LoopOK
<1>2. ASSUME NEW c, c # None, InsertWorkload(c), NameOf[c] = n, n \in LocalName
      PROVE  /\ workloads'[n] = Workload(c)
             /\ \A m \in LocalName : m # n => workloads'[m] = workloads[m]
  BY <1>1, <1>2, ZenonT(30) DEF InsertWorkload
<1>3. ASSUME NEW c, NEW b, SendUpdate(n, c, b), n \in LocalName
      PROVE  /\ workloads'[n] = [config |-> c, stopped |-> b]
             /\ \A m \in LocalName : m # n => workloads'[m] = workloads[m]
  BY <1>1, <1>3 DEF SendUpdate
<1>4. ASSUME o.new \in Local PROVE o.new # None /\ NameOf[o.new] = n
  BY <1>4, ConfigAssumption, Zenon DEF WorkloadName
<1>5. CASE add_workload
  <2>1. Executes("Create") /\ InsertWorkload(o.new) /\ Done(o)
    BY <1>0, <1>5, SMTT(30) DEF add_workload
  <2>2. o.new \in Local /\ n \in LocalName
    BY <1>0, <2>1, Executed, SMTT(30)
  <2>3. workloads'[n] = (IF o.new = None THEN None ELSE Workload(o.new))
    BY <1>2, <1>4, <2>1, <2>2, Zenon
  <2>4. \A m \in LocalName : m # n => workloads'[m] = workloads[m]
    BY <1>2, <1>4, <2>1, <2>2, Zenon
  <2> QED
    BY <1>0, <2>1, <2>3, <2>4, WholeKeepsOrder, Zenon
<1>6. CASE update_workload
  <2>1. /\ Executes("Update") /\ Done(o)
        /\ IF workloads[n] # None THEN SendUpdate(n, o.new, FALSE) ELSE InsertWorkload(o.new)
    BY <1>0, <1>6, Zenon DEF update_workload
  <2>2. o.new \in Local /\ n \in LocalName
    BY <1>0, <2>1, Executed, Zenon
  <2>3. workloads'[n] = (IF o.new = None THEN None ELSE Workload(o.new))
    BY <1>2, <1>3, <1>4, <2>1, <2>2, Zenon DEF Workload
  <2>4. \A m \in LocalName : m # n => workloads'[m] = workloads[m]
    BY <1>2, <1>3, <1>4, <2>1, <2>2, Zenon
  <2> QED
    BY <1>0, <2>1, <2>3, <2>4, WholeKeepsOrder, Zenon
<1>7. CASE update_delete_only
  <2>1. /\ Executes("UpdateDeleteOnly") /\ UNCHANGED executed
        /\ IF workloads[n] # None THEN SendUpdate(n, workloads[n].config, TRUE)
                                  ELSE UNCHANGED loopVars
    BY <1>0, <1>7, Zenon DEF update_delete_only
  <2>2. n \in LocalName
    BY <1>0, <2>1, Executed, ZenonT(30)
  <2>3. workloads'[n] = None \/ workloads'[n].stopped
    <3>1. CASE workloads[n] # None
      <4>1. workloads'[n] = [config |-> workloads[n].config, stopped |-> TRUE]
        BY <1>3, <2>1, <2>2, <3>1, Zenon
      <4> QED
        BY <4>1
    <3>2. CASE workloads[n] = None
      BY <2>1, <3>2 DEF loopVars
    <3> QED
      BY <3>1, <3>2
  <2>4. \A m \in LocalName : m # n => workloads'[m] = workloads[m]
    BY <1>3, <2>1, <2>2, ZenonT(30) DEF loopVars
  <2> QED
    BY <1>0, <2>1, <2>3, <2>4, HalfKeepsOrder, Zenon
<1>8. CASE delete_workload
  <2>1. /\ Executes("Delete") /\ Done(o)
        /\ IF workloads[n] # None THEN DeleteWorkload(n) ELSE UNCHANGED loopVars
    BY <1>0, <1>8, Zenon DEF delete_workload
  <2>2. n \in LocalName /\ o.new = None
    <3>1. o \in ReadyEntry /\ o.op = "Delete"
      BY <1>0, <2>1, SMTT(30) DEF Executes, OpsOK
    <3> QED
      BY <3>1, EntryFacts DEF ReadyEntry
  <2>3. workloads'[n] = (IF o.new = None THEN None ELSE Workload(o.new))
    BY <1>1, <2>1, <2>2 DEF loopVars, DeleteWorkload
  <2>4. \A m \in LocalName : m # n => workloads'[m] = workloads[m]
    BY <1>1, <2>1, <2>2 DEF loopVars, DeleteWorkload
  <2> QED
    BY <1>0, <2>1, <2>3, <2>4, WholeKeepsOrder
<1> QED
  BY <1>5, <1>6, <1>7, <1>8

-----------------------------------------------------------------------------
(* The newest operation is kept *)

\* A step that none of this depends on, or the way back to the select.
LEMMA IdleKeepsOrder ==
  ASSUME Inv, Order,
         UNCHANGED <<desired, added, new_added, deleted, ops, ready, queue, workloads, executed, overtaken>>,
         phase' = phase \/ Return
  PROVE  Order'
<1> USE Parts
<1>1. phase' = phase \/ (phase = "next" /\ phase' = "select" /\ ops = <<>> /\ ready = <<>>)
  BY ZenonT(30) DEF Return
<1>2. Filtering' /\ Greeting'
  BY <1>1 DEF Order, Filtering, Greeting
<1>3. ASSUME NEW n \in LocalName PROVE NameOK(n)'
  <2>1. Ahead(n, 0)
    BY AfterNone DEF OpsOK
  <2>2. Held(n)' = Held(n) /\ (IsJudged(n)' => IsJudged(n))
    BY <1>1 DEF Held, IsJudged
  <2>3. NameOK(n) /\ (phase' # "hello" => phase # "hello")
    BY <1>1 DEF Order
  <2> QED
    BY <2>1, <2>2, <2>3, SameName, Zenon
<1> QED
  BY <1>2, <1>3 DEF Order

\* At first nothing is desired, and nothing runs.
LEMMA InitOrder == Init => Order
<1> SUFFICES ASSUME Init PROVE Order
  BY SMTT(30)
<1>1. Filtering /\ Greeting
  BY DEF Init, Filtering, Greeting, Wanted, Distinct
<1>2. ASSUME NEW n \in LocalName PROVE NameOK(n)
  <2>1. Mine(ready, n) = {} /\ Of(ops, n) = {}
    BY SMTT(30) DEF Init, Mine, Of
  <2>2. Held(n) = {} /\ RunsDesired(n) /\ desired[n] \in executed[n]
    BY <2>1 DEF Init, Held, RunsDesired
  <2> QED
    BY <2>1, <2>2, Zenon DEF NameOK, Newest, InLine, Judged
<1> QED
  BY <1>1, <1>2, Zenon DEF Order

\* Every step keeps the order.
LEMMA OrderStep == Inv /\ Inv' /\ Order /\ [Next]_vars => Order'
<1> SUFFICES ASSUME Inv, Inv', Order, [Next]_vars PROVE Order'
  OBVIOUS
<1>1. CASE next_workload_operations \/ update_workload_state \/ store_and_forward_own_workload_states
  BY <1>1, DrainKeepsOrder, Zenon DEF next_workload_operations, update_workload_state,
     store_and_forward_own_workload_states, loopVars, Order, Filtering
<1>2. CASE Return \/ send_workload_state_to_agent \/ UNCHANGED vars
  BY <1>2, IdleKeepsOrder DEF Return, send_workload_state_to_agent, vars, helloVars, loopVars
<1> QED
  BY <1>1, <1>2, FilterKeepsOrder, UpdateMessageKeepsOrder, HelloMessageKeepsOrder,
     ResumeKeepsOrder, HelloDoneKeepsOrder, ExecuteKeepsOrder DEF Next, Handler

\* The order is kept throughout.
LEMMA Ordered == Spec => []Order
  BY Invariance, InitOrder, OrderStep, PTL DEF Spec

\* However updates, hellos and states of workloads follow each other, and whatever
\* has to wait: the newest operation on every name is carried out, on its way, or in
\* the queue (runtime_manager.rs, workload_scheduler/scheduler.rs).
THEOREM NewestOperationIsKept == Spec => []NewestIsKept
<1>1. Inv /\ Order => NewestIsKept
  <2> SUFFICES ASSUME Inv, Order, phase # "hello", NEW n \in LocalName
               PROVE  \/ desired[n] \in executed[n]
                      \/ \E o \in Range(ops) \cup Range(ready) \cup {queue[n]} : IsNewest(o, n)
    BY DEF NewestIsKept
  <2> USE Parts
  <2>1. /\ ops \in Seq(NewEntry) /\ ready \in Seq(ReadyEntry)
        /\ queue[n] # None => queue[n] \in PendingEntry /\ WorkloadName(queue[n]) = n
    BY DEF OpsOK, WaitOK, QueueOK
  <2>2. \A o \in NewEntry : o # None /\ o.op # "UpdateDeleteOnly"
    BY NoneAssumption, EntryFacts DEF NewEntry
  <2>3. ASSUME NEW o \in Held(n), o.new = desired[n]
        PROVE  o \in Range(ops) \cup {queue[n]} /\ IsNewest(o, n)
    <3>1. CASE o \in Of(ops, n)
      BY <2>1, <2>2, <2>3, <3>1, SMTT(30) DEF Of, Mine, Range, IsNewest
    <3>2. CASE o = queue[n] /\ queue[n] # None
      BY <2>1, <2>2, <2>3, <3>2, PendingIsNew DEF IsNewest
    <3> QED
      BY <3>1, <3>2 DEF Held
  <2>4. ASSUME NEW i \in Mine(ready, n), ~Only(ready[i]), ready[i].new = desired[n]
        PROVE  ready[i] \in Range(ready) /\ IsNewest(ready[i], n)
    <3>1. ready[i] \in ReadyEntry /\ i \in DOMAIN ready /\ WorkloadName(ready[i]) = n
      BY <2>1 DEF Mine
    <3>2. ready[i] # None
      BY <3>1, NoneAssumption
    <3> QED
      BY <2>4, <3>1, <3>2 DEF Range, IsNewest, Only
  <2>5. Newest(n)
    BY DEF Order, NameOK
  <2> QED
    BY <2>3, <2>4, <2>5, Zenon DEF Newest
<1> QED
  BY <1>1, Invariance, Ordered, PTL

\* Between two messages nothing is on its way but what waits in the queue.
LEMMA AtSelect ==
  ASSUME Order, phase = "select", NEW n \in LocalName \ overtaken
  PROVE  /\ Held(n) = {queue[n]} \ {None} /\ Mine(ready, n) = {}
         /\ IsJudged(n) /\ Judged(n)
<1>1. ops = <<>> /\ ready = <<>>
  BY DEF Order, Filtering
<1>2. Of(ops, n) = {} /\ Mine(ready, n) = {}
  BY <1>1, SMTT(30) DEF Of, Mine
<1> QED
  BY <1>2 DEF Held, IsJudged, Order, NameOK

\* With nothing in the queue for a name, the agent runs what the server last asked
\* for, unless the name was overtaken.
THEOREM AgentRunsTheDesired == Spec => []OnlyOvertakenDiverge
<1>1. Order => OnlyOvertakenDiverge
  BY AtSelect, ZenonT(30) DEF OnlyOvertakenDiverge, Settled, Judged
<1> QED
  BY <1>1, Ordered, PTL

\* A new workload that waits for its dependencies does so with the old one told to
\* stop, unless the name was overtaken: never two of a name (AT_MOST_ONCE).
THEOREM UpdatesStopFirst == Spec => []WaitingUpdateIsStopped
<1>1. Order => WaitingUpdateIsStopped
  BY AtSelect DEF WaitingUpdateIsStopped, Judged
<1> QED
  BY <1>1, Ordered, PTL

=============================================================================
