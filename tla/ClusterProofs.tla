---------------------------- MODULE ClusterProofs ----------------------------
(***************************************************************************)
(* Server, middleware and agents implement the distribution of workloads,  *)
(* for all sets of agents, workloads and updates, and any number of        *)
(* connections, faults and crashes: an agent that takes part comes to what *)
(* the server wants of it, one state after the other.                      *)
(***************************************************************************)
EXTENDS Cluster, SequenceFacts

-----------------------------------------------------------------------------
(* The states that messages lead an agent to *)

\* What an agent sees as its workloads.
View == SUBSET Workload

\* Sequences of views that are not empty, and their last one.
Views == {s \in Seq(View) : Len(s) # 0}
LastOf(s) == s[Len(s)]

\* What one message adds to the states an agent comes to.
Step(s, m, a) == IF Concerns(m, a) THEN Append(s, Applied(LastOf(s), m, a)) ELSE s

\* The views of an agent stay views (runtime_manager.rs, handle_update_workload).
LEMMA AppliedType ==
  ASSUME NEW V \in View, NEW m \in FromServer, NEW a, Concerns(m, a)
  PROVE  Applied(V, m, a) \in View
<1>1. m.added \in View
  BY DEF Concerns, FromServer, View
<1> QED
  BY <1>1 DEF Applied, View

\* One more view at the end.
LEMMA AppendView ==
  ASSUME NEW s \in Views, NEW V \in View
  PROVE  Append(s, V) \in Views /\ LastOf(Append(s, V)) = V
BY DEF Views, LastOf

\* The last of some views is a view.
LEMMA LastView == ASSUME NEW s \in Views PROVE LastOf(s) \in View
<1>1. s \in Seq(View) /\ Len(s) \in Nat /\ Len(s) # 0
  BY DEF Views
<1>2. Len(s) \in 1..Len(s)
  BY <1>1
<1> QED
  BY <1>1, <1>2 DEF LastOf

\* One message more leads to views again.
LEMMA StepType ==
  ASSUME NEW s \in Views, NEW m \in FromServer, NEW a
  PROVE  Step(s, m, a) \in Views
BY AppliedType, AppendView, LastView DEF Step

\* t has the states that messages lead to, one message after the other.
IsTrail(t, V, ms, a) ==
  /\ t \in [0..Len(ms) -> Views] /\ t[0] = <<V>>
  /\ \A n \in 1..Len(ms) : t[n] = Step(t[n - 1], ms[n], a)

\* Trail is defined by what each message adds.
LEMMA TrailFacts ==
  ASSUME NEW V \in View, NEW ms \in Seq(FromServer), NEW a
  PROVE  IsTrail(Trail(V, ms, a), V, ms, a)
<1> DEFINE N == Len(ms)
           b == <<V>>
           step == [n \in 1..N |-> [s \in Views |-> Step(s, ms[n], a)]]
           Body(t) == [n \in 0..N |-> IF n = 0 THEN <<V>> ELSE Step(t[n - 1], ms[n], a)]
<1>1. N \in Nat /\ b \in Views
  BY DEF Views
<1>2. step \in [1..N -> [Views -> Views]]
  <2>1. \A n \in 1..N : ms[n] \in FromServer
    OBVIOUS
  <2> HIDE DEF N
  <2> QED
    BY <2>1, StepType
<1>3. Trail(V, ms, a) = CHOOSE t : t = Body(t)
  BY DEF Trail, Step, LastOf
<1>4. \A n \in 1..N : \A s \in Views : step[n][s] = Step(s, ms[n], a)
  OBVIOUS
<1> HIDE DEF step, N, b
<1>5. PICK f : Recurses(f, Views, b, N, step)
  BY <1>1, <1>2, BoundedRecursion
<1>6. f \in [0..N -> Views] /\ f[0] = <<V>> /\ \A n \in 1..N : f[n] = Step(f[n - 1], ms[n], a)
  <2> SUFFICES ASSUME NEW n \in 1..N PROVE f[n] = Step(f[n - 1], ms[n], a)
    BY <1>5 DEF Recurses, b
  <2>1. n - 1 \in 0..N
    BY <1>1
  <2>2. f[n - 1] \in Views
    BY <2>1, <1>5 DEF Recurses
  <2> QED
    BY <1>4, <1>5, <2>2 DEF Recurses
<1>7. f = Body(f)
  <2>1. ASSUME NEW n \in 0..N PROVE f[n] = Body(f)[n]
    <3>1. CASE n = 0
      BY <1>6, <3>1
    <3>2. CASE n # 0
      <4>1. n \in 1..N
        BY <1>1, <3>2
      <4>2. f[n] = Step(f[n - 1], ms[n], a)
        BY <1>6, <4>1
      <4> QED
        BY <3>2, <4>2
    <3> QED
      BY <3>1, <3>2
  <2>2. DOMAIN f = 0..N /\ f = [n \in DOMAIN f |-> f[n]]
    BY <1>6
  <2>3. Body(f) = [n \in 0..N |-> Body(f)[n]]
    OBVIOUS
  <2> HIDE DEF Body
  <2> QED
    BY <2>1, <2>2, <2>3
<1> HIDE DEF Body
<1>8. Trail(V, ms, a) = Body(Trail(V, ms, a))
  BY <1>3, <1>7
<1> DEFINE p == Trail(V, ms, a)
           T == {n \in Nat : n <= N => p[n] \in Views}
<1>9. /\ p[0] = <<V>> /\ \A n \in 1..N : p[n] = Step(p[n - 1], ms[n], a)
      /\ DOMAIN p = 0..N /\ p = [n \in DOMAIN p |-> p[n]]
  <2>1. p = [n \in 0..N |-> IF n = 0 THEN <<V>> ELSE Step(p[n - 1], ms[n], a)]
    BY <1>8, Zenon DEF Body
  <2> HIDE DEF p
  <2>2. 0 \in 0..N /\ \A n \in 1..N : n \in 0..N /\ n # 0
    BY <1>1
  <2>3. p[0] = <<V>> /\ DOMAIN p = 0..N
    BY <2>1, <2>2
  <2>4. ASSUME NEW n \in 1..N PROVE p[n] = Step(p[n - 1], ms[n], a)
    BY <2>1, <2>2, Zenon
  <2>5. p = [n \in DOMAIN p |-> p[n]]
    BY <2>1
  <2> QED
    BY <2>3, <2>4, <2>5
<1>10. \A n \in 1..N : ms[n] \in FromServer
  BY DEF N
<1> HIDE DEF p
<1>11. 0 \in T
  BY <1>1, <1>9 DEF b
<1>12. \A n \in Nat : n \in T => n + 1 \in T
  <2> SUFFICES ASSUME NEW n \in Nat, n \in T, n + 1 <= N PROVE p[n + 1] \in Views
    OBVIOUS
  <2>1. n + 1 \in 1..N /\ (n + 1) - 1 = n /\ p[n] \in Views
    BY <1>1
  <2>2. p[n + 1] = Step(p[n], ms[n + 1], a)
    BY <2>1, <1>9
  <2> QED
    BY <2>1, <2>2, <1>10, StepType
<1> HIDE DEF T
<1>13. Nat \subseteq T
  BY <1>11, <1>12, Induction
<1>14. \A n \in 0..N : p[n] \in Views
  BY <1>1, <1>13 DEF T
<1> QED
  BY <1>9, <1>14 DEF p, N, IsTrail

\* Two messages that agent a makes the same of.
SameEffect(m, n, a) ==
  /\ Concerns(m, a) <=> Concerns(n, a)
  /\ Concerns(m, a) => \A V \in View : Applied(V, m, a) = Applied(V, n, a)

\* What came before makes no difference to what a message adds.
LEMMA StepAfter ==
  ASSUME NEW p \in Seq(View), NEW s \in Views, NEW m \in FromServer, NEW n \in FromServer, NEW a,
         SameEffect(m, n, a)
  PROVE  Step(p \o s, m, a) = p \o Step(s, n, a)
<1>1. s \in Seq(View) /\ Len(s) \in Nat /\ Len(s) # 0 /\ Len(p) \in Nat
  BY DEF Views
<1>2. LastOf(p \o s) = LastOf(s)
  BY <1>1 DEF LastOf
<1>3. \A V \in View : Append(p \o s, V) = p \o Append(s, V)
  BY <1>1
<1>4. CASE Concerns(m, a)
  <2>1. Concerns(n, a) /\ Applied(LastOf(s), m, a) = Applied(LastOf(s), n, a)
    BY <1>4, LastView DEF SameEffect
  <2>2. Applied(LastOf(s), n, a) \in View
    BY <2>1, AppliedType, LastView
  <2> QED
    BY <1>2, <1>3, <1>4, <2>1, <2>2, Zenon DEF Step
<1>5. CASE ~Concerns(m, a)
  BY <1>5 DEF Step, SameEffect
<1> QED
  BY <1>4, <1>5

\* Two trails agree, one at i and up to p and the other at j, and the messages
\* that follow, up to k and up to l, have the same effects.
Meet(U, ms, i, k, V, ns, j, l, p, a) ==
  /\ U \in View /\ V \in View /\ ms \in Seq(FromServer) /\ ns \in Seq(FromServer)
  /\ i \in Nat /\ j \in Nat /\ k \in i..Len(ms) /\ l \in j..Len(ns) /\ k - i = l - j
  /\ p \in Seq(View) /\ Trail(U, ms, a)[i] = p \o Trail(V, ns, a)[j]
  /\ \A n \in 1..k - i : SameEffect(ms[i + n], ns[j + n], a)

\* s goes on after p with r.
Extends(s, p, r) == s = p \o r

\* They go on to agree.
LEMMA Shift ==
  ASSUME NEW U, NEW ms, NEW i, NEW k, NEW V, NEW ns, NEW j, NEW l, NEW p, NEW a,
         Meet(U, ms, i, k, V, ns, j, l, p, a)
  PROVE  Extends(Trail(U, ms, a)[k], p, Trail(V, ns, a)[l])
<1> DEFINE t == Trail(U, ms, a)
           u == Trail(V, ns, a)
           N == k - i
           Agree(n) == t[i + n] = p \o u[j + n]
           T == {n \in Nat : n <= N => Agree(n)}
<1>0. /\ Len(ms) \in Nat /\ Len(ns) \in Nat /\ i \in Nat /\ j \in Nat /\ N \in Nat
      /\ i + N = k /\ j + N = l /\ k <= Len(ms) /\ l <= Len(ns)
  BY DEF Meet
<1>1. /\ \A n \in 1..Len(ms) : t[n] = Step(t[n - 1], ms[n], a) /\ ms[n] \in FromServer
      /\ \A n \in 1..Len(ns) : u[n] = Step(u[n - 1], ns[n], a) /\ ns[n] \in FromServer
      /\ \A n \in 0..Len(ns) : u[n] \in Views
      /\ t[i] = p \o u[j] /\ p \in Seq(View)
  <2>1. IsTrail(t, U, ms, a) /\ IsTrail(u, V, ns, a)
    BY TrailFacts DEF Meet
  <2>2. t[i] = p \o u[j] /\ p \in Seq(View)
    BY DEF Meet
  <2>3. /\ \A n \in 1..Len(ms) : ms[n] \in FromServer
        /\ \A n \in 1..Len(ns) : ns[n] \in FromServer
    BY DEF Meet
  <2> HIDE DEF t, u
  <2>4. \A n \in 1..Len(ms) : t[n] = Step(t[n - 1], ms[n], a)
    BY ONLY <2>1 DEF IsTrail
  <2>5. \A n \in 1..Len(ns) : u[n] = Step(u[n - 1], ns[n], a)
    BY ONLY <2>1 DEF IsTrail
  <2>6. \A n \in 0..Len(ns) : u[n] \in Views
    BY ONLY <2>1 DEF IsTrail
  <2> QED
    BY ONLY <2>2, <2>3, <2>4, <2>5, <2>6
<1>2. \A n \in 1..N : SameEffect(ms[i + n], ns[j + n], a)
  BY DEF Meet
<1> HIDE DEF t, u, N
<1>3. 0 \in T
  <2>1. i + 0 = i /\ j + 0 = j
    BY <1>0
  <2> QED
    BY <1>1, <2>1
<1>4. \A n \in Nat : n \in T => n + 1 \in T
  <2> SUFFICES ASSUME NEW n \in Nat, n \in T, n + 1 <= N PROVE Agree(n + 1)
    <3> HIDE DEF Agree
    <3> QED
      OBVIOUS
  <2>1. /\ i + (n + 1) \in 1..Len(ms) /\ (i + (n + 1)) - 1 = i + n
        /\ j + (n + 1) \in 1..Len(ns) /\ (j + (n + 1)) - 1 = j + n
        /\ j + n \in 0..Len(ns) /\ n + 1 \in 1..N
    BY <1>0
  <2>2. t[i + n] = p \o u[j + n]
    BY <1>0
  <2>3. SameEffect(ms[i + (n + 1)], ns[j + (n + 1)], a)
    BY <1>2, <2>1
  <2>4. /\ t[i + (n + 1)] = Step(p \o u[j + n], ms[i + (n + 1)], a)
        /\ u[j + (n + 1)] = Step(u[j + n], ns[j + (n + 1)], a)
        /\ ms[i + (n + 1)] \in FromServer /\ ns[j + (n + 1)] \in FromServer /\ u[j + n] \in Views
    BY <1>1, <2>1, <2>2, Zenon
  <2>5. Step(p \o u[j + n], ms[i + (n + 1)], a) = p \o Step(u[j + n], ns[j + (n + 1)], a)
    BY <1>1, <2>3, <2>4, StepAfter, SMTT(30)
  <2> QED
    BY <2>4, <2>5
<1> HIDE DEF T
<1>5. Nat \subseteq T
  BY <1>3, <1>4, Induction
<1>6. N \in T /\ N <= N
  BY <1>0, <1>5
<1>7. Agree(N)
  BY <1>6 DEF T
<1> QED
  BY <1>0, <1>7 DEF t, u, Extends

\* After a hello it makes no difference what the agent was in before.
LEMMA HelloResets ==
  ASSUME NEW U \in View, NEW V \in View, NEW ms \in Seq(FromServer), NEW a,
         NEW n \in 1..Len(ms), ms[n].kind = "ServerHello", ms[n].agent = a
  PROVE  LastOf(Trail(U, ms, a)[Len(ms)]) = LastOf(Trail(V, ms, a)[Len(ms)])
<1> DEFINE t == Trail(U, ms, a)
           u == Trail(V, ms, a)
           T == {k \in Nat : n + k <= Len(ms) => LastOf(t[n + k]) = LastOf(u[n + k])}
<1>0. Len(ms) \in Nat /\ n \in Nat
  OBVIOUS
<1>1. /\ \A k \in 1..Len(ms) : t[k] = Step(t[k - 1], ms[k], a) /\ u[k] = Step(u[k - 1], ms[k], a)
      /\ \A k \in 0..Len(ms) : t[k] \in Views /\ u[k] \in Views
      /\ \A k \in 1..Len(ms) : ms[k] \in FromServer
  <2>1. IsTrail(t, U, ms, a) /\ IsTrail(u, V, ms, a)
    BY TrailFacts
  <2>2. \A k \in 1..Len(ms) : ms[k] \in FromServer
    OBVIOUS
  <2> HIDE DEF t, u
  <2>3. \A k \in 1..Len(ms) : t[k] = Step(t[k - 1], ms[k], a)
    BY ONLY <2>1 DEF IsTrail
  <2>4. \A k \in 1..Len(ms) : u[k] = Step(u[k - 1], ms[k], a)
    BY ONLY <2>1 DEF IsTrail
  <2>5. \A k \in 0..Len(ms) : t[k] \in Views /\ u[k] \in Views
    BY ONLY <2>1 DEF IsTrail
  <2> QED
    BY ONLY <2>2, <2>3, <2>4, <2>5
<1> HIDE DEF t, u
<1>2. ASSUME NEW k \in 1..Len(ms), Concerns(ms[k], a)
      PROVE  /\ LastOf(t[k]) = Applied(LastOf(t[k - 1]), ms[k], a)
             /\ LastOf(u[k]) = Applied(LastOf(u[k - 1]), ms[k], a)
  <2>1. k - 1 \in 0..Len(ms) /\ ms[k] \in FromServer /\ t[k - 1] \in Views /\ u[k - 1] \in Views
    BY <1>0, <1>1
  <2>2. /\ Applied(LastOf(t[k - 1]), ms[k], a) \in View
        /\ Applied(LastOf(u[k - 1]), ms[k], a) \in View
    BY <1>2, <2>1, AppliedType, LastView
  <2> QED
    BY <1>1, <1>2, <2>1, <2>2, AppendView DEF Step
<1>3. 0 \in T
  <2>1. Concerns(ms[n], a)
    BY DEF Concerns, ForAgent
  <2>2. LastOf(t[n]) = ms[n].added /\ LastOf(u[n]) = ms[n].added
    BY <1>2, <2>1, Zenon DEF Applied
  <2> QED
    BY <1>0, <2>2
<1>4. \A k \in Nat : k \in T => k + 1 \in T
  <2> SUFFICES ASSUME NEW k \in Nat, k \in T, n + (k + 1) <= Len(ms)
               PROVE  LastOf(t[n + (k + 1)]) = LastOf(u[n + (k + 1)])
    OBVIOUS
  <2>1. n + (k + 1) \in 1..Len(ms) /\ (n + (k + 1)) - 1 = n + k /\ LastOf(t[n + k]) = LastOf(u[n + k])
    BY <1>0
  <2>2. CASE Concerns(ms[n + (k + 1)], a)
    BY <1>2, <2>1, <2>2
  <2>3. CASE ~Concerns(ms[n + (k + 1)], a)
    BY <1>1, <2>1, <2>3 DEF Step
  <2> QED
    BY <2>2, <2>3
<1> HIDE DEF T
<1>5. Nat \subseteq T
  BY <1>3, <1>4, Induction
<1>6. Len(ms) - n \in Nat /\ n + (Len(ms) - n) = Len(ms)
  BY <1>0
<1>7. Len(ms) - n \in T
  BY <1>5, <1>6
<1> QED
  BY <1>0, <1>6, <1>7 DEF T, t, u

\* The states that all of the messages lead to.
At(V, ms, a) == Trail(V, ms, a)[Len(ms)]

\* They are views.
LEMMA AtType ==
  ASSUME NEW V \in View, NEW ms \in Seq(FromServer), NEW a
  PROVE  At(V, ms, a) \in Views
<1>1. Trail(V, ms, a) \in [0..Len(ms) -> Views]
  BY TrailFacts DEF IsTrail
<1>2. Len(ms) \in 0..Len(ms)
  OBVIOUS
<1> QED
  BY <1>1, <1>2 DEF At

\* Every message has the effect it has.
LEMMA SameMessage == \A m, a : SameEffect(m, m, a)
BY DEF SameEffect

\* A message that is sent adds its own effect.
LEMMA SendAdds ==
  ASSUME NEW V \in View, NEW ms \in Seq(FromServer), NEW m \in FromServer, NEW a
  PROVE  At(V, Append(ms, m), a) = Step(At(V, ms, a), m, a)
<1> DEFINE ns == Append(ms, m)
           N == Len(ms)
           t == Trail(V, ns, a)
           u == Trail(V, ms, a)
<1>1. /\ ns \in Seq(FromServer) /\ N \in Nat /\ Len(ns) = N + 1 /\ ns[N + 1] = m
      /\ \A n \in 1..N - 0 : ns[0 + n] = ms[0 + n]
  OBVIOUS
<1>2. IsTrail(t, V, ns, a) /\ IsTrail(u, V, ms, a)
  BY <1>1, TrailFacts, Zenon
<1>3. t[0] = <<V>> /\ u[0] = <<V>> /\ u \in [0..N -> Views]
  BY <1>2 DEF IsTrail
<1> HIDE DEF ns
<1>4. Meet(V, ns, 0, N, V, ms, 0, N, <<>>, a)
  <2>1. t[0] = <<>> \o u[0] /\ <<>> \in Seq(View)
    BY <1>3
  <2>2. \A n \in 1..N - 0 : SameEffect(ns[0 + n], ms[0 + n], a)
    BY <1>1, SameMessage
  <2>3. N \in 0..Len(ns) /\ N \in 0..Len(ms) /\ N - 0 = N - 0
    BY <1>1
  <2> HIDE DEF N
  <2> QED
    BY <1>1, <2>1, <2>2, <2>3 DEF Meet, t, u
<1>5. t[N] = <<>> \o u[N]
  <2>1. Extends(t[N], <<>>, u[N])
    BY ONLY <1>4, Shift
  <2> QED
    BY <2>1 DEF Extends
<1>6. u[N] \in Views
  BY <1>1, <1>3
<1>7. t[N] = u[N]
  <2>1. <<>> \o u[N] = u[N]
    BY <1>6 DEF Views
  <2> QED
    BY <1>5, <2>1
<1>8. t[N + 1] = Step(t[N], m, a)
  <2>1. N + 1 \in 1..Len(ns) /\ (N + 1) - 1 = N
    BY <1>1
  <2> HIDE DEF t
  <2> QED
    BY <1>1, <1>2, <2>1, SMTT(30) DEF IsTrail
<1> QED
  BY <1>1, <1>7, <1>8 DEF At, ns

\* A message that is received takes its effect away from those to come.
LEMMA ReceivingTakes ==
  ASSUME NEW V \in View, NEW ms \in Seq(FromServer), ms # <<>>, NEW a
  PROVE  /\ Concerns(Head(ms), a) =>
              At(V, ms, a) = <<V>> \o At(Applied(V, Head(ms), a), Tail(ms), a)
         /\ ~Concerns(Head(ms), a) => At(V, ms, a) = At(V, Tail(ms), a)
<1> DEFINE m == Head(ms)
           ns == Tail(ms)
           N == Len(ns)
           t == Trail(V, ms, a)
<1>1. /\ m \in FromServer /\ ns \in Seq(FromServer) /\ N \in Nat /\ Len(ms) = 1 + N /\ ms[1] = m
      /\ \A n \in 1..(1 + N) - 1 : ms[1 + n] = ns[0 + n]
  <2>1. m \in FromServer /\ ns \in Seq(FromServer) /\ N \in Nat /\ Len(ms) = 1 + N /\ ms[1] = m
    OBVIOUS
  <2>2. \A n \in 1..N : ns[n] = ms[n + 1] /\ 0 + n = n /\ 1 + n = n + 1
    OBVIOUS
  <2> HIDE DEF ns, N
  <2>3. (1 + N) - 1 = N
    BY <2>1
  <2> QED
    BY <2>1, <2>2, <2>3
<1> HIDE DEF m, ns
<1>2. IsTrail(t, V, ms, a)
  BY <1>1, TrailFacts
<1>3. t[1] = Step(<<V>>, m, a)
  <2>1. 1 \in 1..Len(ms) /\ 1 - 1 = 0
    BY <1>1
  <2> HIDE DEF t
  <2> QED
    BY <1>1, <1>2, <2>1, Zenon DEF IsTrail
<1>4. \A n \in 1..(1 + N) - 1 : SameEffect(ms[1 + n], ns[0 + n], a)
  BY <1>1, SameMessage
<1>5. 1 + N \in 1..Len(ms) /\ N \in 0..Len(ns) /\ (1 + N) - 1 = N - 0
  BY <1>1
<1>6. ASSUME Concerns(m, a) PROVE At(V, ms, a) = <<V>> \o At(Applied(V, m, a), ns, a)
  <2> DEFINE W == Applied(V, m, a)
             u == Trail(W, ns, a)
  <2>1. W \in View
    BY <1>1, <1>6, AppliedType
  <2> HIDE DEF W
  <2>2. u[0] = <<W>>
    BY <1>1, <2>1, TrailFacts DEF IsTrail
  <2>3. t[1] = <<V>> \o u[0] /\ <<V>> \in Seq(View)
    <3>1. LastOf(<<V>>) = V
      BY DEF LastOf
    <3>2. Append(<<V>>, W) = <<V>> \o <<W>>
      BY <2>1
    <3> QED
      BY <1>3, <1>6, <2>2, <3>1, <3>2 DEF Step, W
  <2>4. Meet(V, ms, 1, 1 + N, W, ns, 0, N, <<V>>, a)
    <3> HIDE DEF N
    <3> QED
      BY <1>1, <1>4, <1>5, <2>1, <2>3 DEF Meet, t, u
  <2>5. t[1 + N] = <<V>> \o u[N]
    <3>1. Extends(t[1 + N], <<V>>, u[N])
      BY ONLY <2>4, Shift
    <3> QED
      BY <3>1 DEF Extends
  <2> QED
    BY <1>1, <2>5 DEF At, N, W
<1>7. ASSUME ~Concerns(m, a) PROVE At(V, ms, a) = At(V, ns, a)
  <2> DEFINE u == Trail(V, ns, a)
  <2>1. u[0] = <<V>> /\ u \in [0..N -> Views]
    BY <1>1, TrailFacts DEF IsTrail
  <2>2. t[1] = <<>> \o u[0] /\ <<>> \in Seq(View)
    BY <1>3, <1>7, <2>1 DEF Step
  <2>3. u[N] \in Views
    BY <1>1, <2>1
  <2>4. Meet(V, ms, 1, 1 + N, V, ns, 0, N, <<>>, a)
    <3> HIDE DEF N
    <3> QED
      BY <1>1, <1>4, <1>5, <2>2 DEF Meet, t, u
  <2>5. t[1 + N] = <<>> \o u[N]
    <3>1. Extends(t[1 + N], <<>>, u[N])
      BY ONLY <2>4, Shift
    <3> QED
      BY <3>1 DEF Extends
  <2>6. <<>> \o u[N] = u[N]
    BY <2>3 DEF Views
  <2> QED
    BY <1>1, <2>5, <2>6 DEF At, N
<1> QED
  BY <1>6, <1>7 DEF m, ns

\* The part of a message that is for agent a has the effect of the message.
LEMMA PartEffect ==
  ASSUME NEW m \in FromServer, NEW a
  PROVE  /\ ForAgent(m, a) = <<>> => ~Concerns(m, a)
         /\ ForAgent(m, a) # <<>> =>
              \E x \in FromServer : ForAgent(m, a) = <<x>> /\ SameEffect(m, x, a)
<1>1. ForAgent(m, a) = <<>> => ~Concerns(m, a)
  BY DEF Concerns
<1>2. CASE m.kind = "ServerHello"
  <2>1. ForAgent(m, a) # <<>> => ForAgent(m, a) = <<m>>
    BY <1>2 DEF ForAgent
  <2>2. SameEffect(m, m, a)
    BY SameMessage
  <2> QED
    BY <1>1, <2>1, <2>2
<1>3. CASE m.kind = "UpdateWorkload"
  <2> DEFINE A == {w \in m.added : w.agent = a}
             D == {d \in m.deleted : d.instance.agent = a}
             x == UpdateWorkload(A, D)
  <2>1. m.added \in SUBSET Workload /\ m.deleted \in SUBSET DeletedWorkload
    BY <1>3 DEF FromServer
  <2>2. x \in FromServer /\ x.kind = "UpdateWorkload" /\ x.added = A /\ x.deleted = D
    BY <2>1 DEF FromServer, UpdateWorkload
  <2>3. ForAgent(m, a) = IF A \cup D = {} THEN <<>> ELSE <<x>>
    BY <1>3 DEF ForAgent
  <2>4. {w \in A : w.agent = a} = A /\ {d \in D : d.instance.agent = a} = D
    OBVIOUS
  <2>5. ASSUME ForAgent(m, a) # <<>> PROVE SameEffect(m, x, a)
    <3>1. A \cup D # {}
      BY <2>3, <2>5
    <3>2. ForAgent(x, a) = <<x>>
      <4> HIDE DEF A, D
      <4>1. ForAgent(x, a) = LET B == {w \in A : w.agent = a}
                                 E == {d \in D : d.instance.agent = a}
                             IN IF B \cup E = {} THEN <<>> ELSE <<UpdateWorkload(B, E)>>
        BY <2>2 DEF ForAgent
      <4> QED
        BY <2>4, <3>1, <4>1, Zenon
    <3>3. Concerns(m, a) /\ Concerns(x, a)
      BY <1>3, <2>2, <2>5, <3>2 DEF Concerns
    <3>4. ASSUME NEW V \in View PROVE Applied(V, m, a) = Applied(V, x, a)
      <4>1. Applied(V, m, a) = {v \in V : v.name \notin names(A) \cup {d.instance.name : d \in D}} \cup A
        BY <1>3 DEF Applied
      <4> HIDE DEF A, D
      <4>2. Applied(V, x, a) = LET B == {w \in A : w.agent = a}
                                   E == {d \in D : d.instance.agent = a}
                               IN {v \in V : v.name \notin names(B) \cup {d.instance.name : d \in E}} \cup B
        BY <2>2 DEF Applied
      <4> QED
        BY <2>4, <4>1, <4>2
    <3> QED
      BY <3>3, <3>4 DEF SameEffect
  <2> QED
    BY <1>1, <2>2, <2>3, <2>5, Zenon
<1>4. CASE m.kind = "UpdateWorkloadState"
  <2> DEFINE S == {s \in m.states : s[1].agent # a}
             x == UpdateWorkloadState(S)
  <2>1. m.states \in SUBSET WorkloadState
    BY <1>4 DEF FromServer
  <2>2. x \in FromServer /\ x.kind = "UpdateWorkloadState"
    BY <2>1 DEF FromServer, UpdateWorkloadState
  <2>3. ForAgent(m, a) = IF S = {} THEN <<>> ELSE <<x>>
    BY <1>4 DEF ForAgent, StatesMessage
  <2>4. SameEffect(m, x, a)
    BY <1>4, <2>2 DEF SameEffect, Concerns
  <2> QED
    BY <1>1, <2>2, <2>3, <2>4, Zenon
<1>5. CASE m.kind \notin {"ServerHello", "UpdateWorkload", "UpdateWorkloadState"}
  BY <1>1, <1>5 DEF ForAgent
<1> QED
  BY <1>2, <1>3, <1>4, <1>5

\* The middleware puts the agent's part of a message behind the messages that the
\* agent is yet to read; nothing changes for the agent.
LEMMA DeliveryKeeps ==
  ASSUME NEW V \in View, NEW qs \in Seq(FromServer), NEW ms \in Seq(FromServer), ms # <<>>, NEW a
  PROVE  At(V, (qs \o ForAgent(Head(ms), a)) \o Tail(ms), a) = At(V, qs \o ms, a)
<1> DEFINE m == Head(ms)
           os == qs \o ms
           ps == (qs \o ForAgent(m, a)) \o Tail(ms)
           t == Trail(V, ps, a)
           u == Trail(V, os, a)
           L == Len(qs)
           N == Len(os)
<1>1. /\ m \in FromServer /\ os \in Seq(FromServer) /\ L \in Nat /\ N = L + Len(ms) /\ Len(ms) \in Nat
      /\ Len(ms) # 0 /\ os[L + 1] = m
      /\ \A n \in 1..L : os[n] = qs[n]
      /\ \A n \in L + 2..N : os[n] = ms[n - L]
  OBVIOUS
<1>2. /\ Tail(ms) \in Seq(FromServer) /\ Len(Tail(ms)) = Len(ms) - 1
      /\ \A n \in 1..Len(ms) - 1 : Tail(ms)[n] = ms[n + 1]
  OBVIOUS
<1>3. CASE ForAgent(m, a) = <<>>
  <2>1. ps = qs \o Tail(ms)
    BY <1>3
  <2>2. /\ ps \in Seq(FromServer) /\ Len(ps) = N - 1
        /\ \A n \in 1..L : ps[n] = qs[n]
    <3>1. Len(qs \o Tail(ms)) = L + Len(Tail(ms)) /\ qs \o Tail(ms) \in Seq(FromServer)
      BY <1>2, Concatenation
    <3>2. \A n \in 1..L : (qs \o Tail(ms))[n] = qs[n]
      BY <1>2, Concatenation
    <3> HIDE DEF L, N, ps, os
    <3> QED
      BY <1>1, <1>2, <2>1, <3>1, <3>2
  <2>3. \A n \in 1..N - (L + 1) : ps[L + n] = os[(L + 1) + n]
    <3> SUFFICES ASSUME NEW n \in 1..N - (L + 1) PROVE ps[L + n] = os[(L + 1) + n]
      OBVIOUS
    <3>1. ps[L + n] = Tail(ms)[n] /\ n \in 1..Len(ms) - 1
      BY <1>1, <1>2, <2>1
    <3>2. (L + 1) + n \in L + 2..N /\ ((L + 1) + n) - L = n + 1
      BY <1>1
    <3>3. os[(L + 1) + n] = ms[n + 1]
      BY <1>1, <3>2
    <3> QED
      BY <1>2, <3>1, <3>3
  <2>4. ~Concerns(m, a)
    BY <1>1, <1>3, PartEffect
  <2> HIDE DEF m, os, ps, L, N
  <2>5. IsTrail(t, V, ps, a) /\ IsTrail(u, V, os, a)
    BY <1>1, <2>2, TrailFacts
  <2> HIDE DEF t, u
  <2>6. t[0] = <<V>> /\ u[0] = <<V>> /\ u \in [0..N -> Views]
    BY <2>5 DEF IsTrail, N
  <2>7. t[L] = u[L] /\ u[L] \in Seq(View)
    <3>1. t[0] = <<>> \o u[0] /\ <<>> \in Seq(View)
      BY <2>6
    <3>2. /\ \A n \in 1..L - 0 : SameEffect(ps[0 + n], os[0 + n], a)
          /\ L \in 0..Len(ps) /\ L \in 0..Len(os) /\ L - 0 = L - 0
      BY <1>1, <2>2, SameMessage DEF N
    <3>3. Meet(V, ps, 0, L, V, os, 0, L, <<>>, a)
      BY <1>1, <2>2, <3>1, <3>2 DEF Meet, t, u
    <3>4. Extends(t[L], <<>>, u[L])
      BY ONLY <3>3, Shift DEF t, u
    <3>5. u[L] \in Seq(View)
      <4>1. L \in 0..N
        BY <1>1
      <4>2. u[L] \in Views
        BY <2>6, <4>1
      <4> QED
        BY <4>2 DEF Views
    <3> QED
      BY <3>4, <3>5 DEF Extends
  <2>8. u[L + 1] = u[L]
    <3>1. L + 1 \in 1..Len(os) /\ (L + 1) - 1 = L
      BY <1>1 DEF N
    <3> QED
      BY <1>1, <2>4, <2>5, <3>1 DEF IsTrail, Step
  <2>9. t[N - 1] = u[N] /\ u[N] \in Seq(View)
    <3>1. t[L] = <<>> \o u[L + 1] /\ <<>> \in Seq(View)
      BY <2>7, <2>8
    <3>2. /\ (N - 1) - L = N - (L + 1) /\ N - 1 \in L..Len(ps) /\ N \in L + 1..Len(os) /\ L + 1 \in Nat
      BY <1>1, <2>2 DEF N
    <3>3. \A n \in 1..(N - 1) - L : SameEffect(ps[L + n], os[(L + 1) + n], a)
      BY <2>3, <3>2, SameMessage
    <3>4. Meet(V, ps, L, N - 1, V, os, L + 1, N, <<>>, a)
      BY <1>1, <2>2, <3>1, <3>2, <3>3, Zenon DEF Meet, t, u
    <3>5. Extends(t[N - 1], <<>>, u[N])
      BY ONLY <3>4, Shift DEF t, u
    <3>6. u[N] \in Seq(View)
      <4>1. N \in 0..N
        BY <1>1
      <4>2. u[N] \in Views
        BY <2>6, <4>1
      <4> QED
        BY <4>2 DEF Views
    <3> QED
      BY <3>5, <3>6 DEF Extends
  <2> QED
    BY <2>2, <2>9, Zenon DEF At, t, u, N, os, ps, m
<1>4. CASE ForAgent(m, a) # <<>>
  <2>1. PICK x \in FromServer : ForAgent(m, a) = <<x>> /\ SameEffect(m, x, a)
    BY <1>1, <1>4, PartEffect
  <2>2. /\ qs \o <<x>> \in Seq(FromServer) /\ Len(qs \o <<x>>) = L + 1 /\ (qs \o <<x>>)[L + 1] = x
        /\ \A n \in 1..L : (qs \o <<x>>)[n] = qs[n]
    OBVIOUS
  <2>3. ps = (qs \o <<x>>) \o Tail(ms)
    BY <2>1, Zenon
  <2>4. /\ ps \in Seq(FromServer) /\ Len(ps) = N /\ ps[L + 1] = x
        /\ \A n \in 1..L : ps[n] = qs[n]
        /\ \A n \in L + 2..N : ps[n] = Tail(ms)[n - (L + 1)]
    <3> DEFINE ys == qs \o <<x>>
    <3> HIDE DEF ys
    <3>1. /\ ys \in Seq(FromServer) /\ Len(ys) = L + 1 /\ ys[L + 1] = x
          /\ \A n \in 1..L : ys[n] = qs[n]
      BY <2>2 DEF ys
    <3>2. ps = ys \o Tail(ms)
      BY <2>3 DEF ys
    <3> DEFINE zs == Tail(ms)
    <3>3. /\ ys \o zs \in Seq(FromServer) /\ Len(ys \o zs) = Len(ys) + Len(zs)
          /\ \A n \in 1..Len(ys) : (ys \o zs)[n] = ys[n]
          /\ \A n \in Len(ys) + 1..Len(ys) + Len(zs) : (ys \o zs)[n] = zs[n - Len(ys)]
      BY <1>2, <3>1, Concatenation, Zenon
    <3>4. Len(zs) = Len(ms) - 1
      BY <1>2
    <3> HIDE DEF ps, L, N, os, zs
    <3>5. /\ ps \in Seq(FromServer) /\ Len(ps) = N /\ \A n \in 1..L + 1 : ps[n] = ys[n]
          /\ \A n \in L + 2..N : ps[n] = zs[n - (L + 1)]
      <4>1. ps = ys \o zs
        BY <3>2 DEF zs
      <4>2. Len(ys) = L + 1 /\ Len(ys) + Len(zs) = N /\ L \in Nat /\ N \in Nat
        BY <1>1, <3>1, <3>4
      <4> QED
        BY ONLY <3>3, <4>1, <4>2
    <3> QED
      BY <1>1, <3>1, <3>5 DEF zs
  <2>5. \A n \in L + 2..N : ps[n] = os[n]
    <3> SUFFICES ASSUME NEW n \in L + 2..N PROVE ps[n] = os[n]
      BY Zenon
    <3>1. n - (L + 1) \in 1..Len(ms) - 1 /\ (n - (L + 1)) + 1 = n - L
      BY <1>1
    <3> QED
      BY <1>1, <1>2, <2>4, <3>1
  <2> HIDE DEF m, os, ps, L, N
  <2>6. \A n \in 1..N - 0 : SameEffect(ps[0 + n], os[0 + n], a)
    <3> SUFFICES ASSUME NEW n \in 1..N PROVE SameEffect(ps[n], os[n], a)
      BY <1>1
    <3>1. n <= L \/ n = L + 1 \/ n \in L + 2..N
      BY <1>1
    <3>2. CASE n = L + 1
      <4>1. SameEffect(x, m, a)
        BY <2>1 DEF SameEffect
      <4> QED
        BY <1>1, <2>4, <3>2, <4>1
    <3>3. CASE n # L + 1
      <4>1. ps[n] = os[n]
        BY <1>1, <2>4, <2>5, <3>1, <3>3
      <4> QED
        BY <4>1, SameMessage
    <3> QED
      BY <3>2, <3>3
  <2>7. IsTrail(t, V, ps, a) /\ IsTrail(u, V, os, a)
    BY <1>1, <2>4, TrailFacts
  <2> HIDE DEF t, u
  <2>8. t[0] = <<V>> /\ u[0] = <<V>> /\ u \in [0..N -> Views]
    BY <2>7 DEF IsTrail, N
  <2>9. t[N] = u[N]
    <3>1. t[0] = <<>> \o u[0] /\ <<>> \in Seq(View)
      BY <2>8
    <3>2. N \in 0..Len(ps) /\ N \in 0..Len(os) /\ N - 0 = N - 0
      BY <1>1, <2>4 DEF N
    <3>3. Meet(V, ps, 0, N, V, os, 0, N, <<>>, a)
      BY <1>1, <2>4, <2>6, <3>1, <3>2 DEF Meet, t, u
    <3>4. Extends(t[N], <<>>, u[N])
      BY ONLY <3>3, Shift DEF t, u
    <3>5. u[N] \in Seq(View)
      BY <1>1, <2>8, SMTT(30) DEF Views
    <3> QED
      BY <3>4, <3>5 DEF Extends
  <2> QED
    BY <2>4, <2>9, Zenon DEF At, t, u, N, os, ps, m
<1> QED
  BY <1>3, <1>4

-----------------------------------------------------------------------------
(* Types *)

\* Workloads have instance names.
LEMMA InstanceNames ==
  /\ \A w \in Workload : instance_name(w) \in Instance /\ w.name \in Name
  /\ \A W \in SUBSET Workload : instance_names(W) \in SUBSET Instance
<1>1. \A w \in Workload : instance_name(w) \in Instance /\ w.name \in Name
  BY WorkloadAssumption, ZenonT(30) DEF instance_name, Instance
<1> QED
  BY <1>1 DEF instance_names

\* The messages are well formed.
LEMMA MessageTypes ==
  /\ \A a \in Agent : AgentHello(a) \in ToServer /\ AgentGone(a) \in ToServer
  /\ \A r \in Sender, u \in StateUpdate : UpdateState(r, u) \in ToServer
  /\ \A S \in SUBSET WorkloadState : UpdateWorkloadState(S) \in ToServer
  /\ \A S \in SUBSET WorkloadState : UpdateWorkloadState(S) \in FromServer
  /\ \A a \in Agent, W \in SUBSET Workload : ServerHello(a, W) \in FromServer
  /\ \A W \in SUBSET Workload, D \in SUBSET DeletedWorkload : UpdateWorkload(W, D) \in FromServer
  /\ \A r \in Sender, I \in SUBSET Instance, J \in SUBSET Instance :
       UpdateStateSuccess(r, I, J) \in FromServer
  /\ \A r \in Sender : Error(r) \in FromServer
  /\ \A r \in Sender, A \in SUBSET Agent : CompleteState(r, A) \in FromServer
BY DEF ToServer, FromServer, AgentHello, AgentGone, UpdateState, UpdateWorkloadState, ServerHello,
       UpdateWorkload, UpdateStateSuccess, Error, CompleteState

\* What a message to the server is made of.
LEMMA ToServerParts ==
  ASSUME NEW m \in ToServer
  PROVE  /\ m.kind \in {"AgentHello", "AgentGone"} => m.agent \in Agent
         /\ m.kind = "UpdateState" => m.request \in Sender /\ m.update \in StateUpdate \cup {None}
         /\ m.kind = "UpdateWorkloadState" => m.states \in SUBSET WorkloadState
         /\ m.kind = "CompleteStateRequest" => m.request \in Sender
BY DEF ToServer

\* And one to an agent.
LEMMA FromServerParts ==
  ASSUME NEW m \in FromServer
  PROVE  /\ m.kind = "ServerHello" => m.agent \in Agent /\ m.added \in SUBSET Workload
         /\ m.kind = "UpdateWorkload" =>
              m.added \in SUBSET Workload /\ m.deleted \in SUBSET DeletedWorkload
         /\ m.kind = "UpdateWorkloadState" => m.states \in SUBSET WorkloadState
BY DEF FromServer

\* The server takes one message.
LEMMA ReceivesType ==
  ASSUME ServerTypeOK, NEW kind, Receives(kind)
  PROVE  Head(to_server) \in ToServer /\ Head(to_server).kind = kind /\ to_server' \in Seq(ToServer)
BY DEF ServerTypeOK, Receives

\* The map of workload states (workload_states_map.rs).
StatesMap == [Instance -> ExecutionState \cup {None}]

\* What the operations on the map return.
LEMMA MapTypes ==
  ASSUME NEW map \in StatesMap
  PROVE  /\ \A a : agent_disconnected(map, a) \in StatesMap
         /\ \A W : initial_state(map, W) \in StatesMap
         /\ \A I : remove(map, I) \in StatesMap
         /\ \A S \in SUBSET WorkloadState : process_new_states(map, S) \in StatesMap
         /\ \A a : get_workload_state_for_agent(map, a) \in SUBSET WorkloadState
         /\ \A a : get_workload_state_excluding_agent(map, a) \in SUBSET WorkloadState
<1>1. ASSUME NEW a PROVE agent_disconnected(map, a) \in StatesMap
  BY DEF agent_disconnected, StatesMap, ExecutionState
<1>2. ASSUME NEW W PROVE initial_state(map, W) \in StatesMap
  BY DEF initial_state, StatesMap, ExecutionState
<1>3. ASSUME NEW I PROVE remove(map, I) \in StatesMap
  BY DEF remove, StatesMap
<1>4. ASSUME NEW S \in SUBSET WorkloadState PROVE process_new_states(map, S) \in StatesMap
  <2> DEFINE pick(i) == CHOOSE s \in S : s[1] = i
  <2>1. ASSUME NEW i \in Instance, i \notin Removed(S), \E s \in S : s[1] = i
        PROVE  pick(i)[2] \in ExecutionState
    <3>1. pick(i) \in S /\ pick(i)[1] = i
      BY <2>1
    <3> HIDE DEF pick
    <3>2. pick(i)[2] # "Removed"
      BY <2>1, <3>1 DEF Removed
    <3> QED
      BY <3>1, <3>2 DEF WorkloadState
  <2>2. process_new_states(map, S) =
          [i \in Instance |-> IF i \in Removed(S) THEN None
                              ELSE IF \E s \in S : s[1] = i THEN pick(i)[2] ELSE map[i]]
    BY DEF process_new_states
  <2> HIDE DEF pick
  <2> QED
    BY <2>1, <2>2 DEF StatesMap
<1>5. ASSUME NEW I \in SUBSET Instance PROVE Entries(map, I) \in SUBSET WorkloadState
  BY WorkloadAssumption DEF Entries, StatesMap, WorkloadState
<1> QED
  BY <1>1, <1>2, <1>3, <1>4, <1>5 DEF get_workload_state_for_agent, get_workload_state_excluding_agent

\* A message of states, if there are any.
LEMMA StatesMessageType ==
  ASSUME NEW S \in SUBSET WorkloadState
  PROVE  StatesMessage(S) \in Seq(FromServer)
BY MessageTypes DEF StatesMessage

\* The delete graph (delete_graph.rs).
Graph == [Name -> SUBSET Name]

\* What the operations on the graph return.
LEMMA GraphTypes ==
  ASSUME NEW graph \in Graph
  PROVE  /\ \A W \in SUBSET Workload : insert(graph, W) \in Graph
         /\ \A W \in SUBSET Workload : apply_delete_conditions_to(graph, W) \in SUBSET DeletedWorkload
         /\ \A S : remove_deleted_workloads_from_delete_graph(graph, S) \in Graph
<1>1. ASSUME NEW W \in SUBSET Workload PROVE insert(graph, W) \in Graph
  BY InstanceNames DEF insert, Dependants, Graph
<1>2. ASSUME NEW W \in SUBSET Workload
      PROVE  apply_delete_conditions_to(graph, W) \in SUBSET DeletedWorkload
  BY InstanceNames DEF apply_delete_conditions_to, Graph, DeletedWorkload
<1>3. ASSUME NEW S PROVE remove_deleted_workloads_from_delete_graph(graph, S) \in Graph
  BY DEF remove_deleted_workloads_from_delete_graph, Graph
<1> QED
  BY <1>1, <1>2, <1>3

\* An update leads to a state with one workload of each name (state.rs).
LEMMA NewState ==
  ASSUME NEW W \in SUBSET Workload, IsState(W), NEW u \in StateUpdate
  PROVE  generate_new_state(W, u) \in SUBSET Workload /\ IsState(generate_new_state(W, u))
<1>1. u.new \in SUBSET Workload /\ IsState(u.new) /\ names(u.new) \subseteq u.mask
  BY DEF StateUpdate
<1>2. \A w \in u.new : w.name \in u.mask
  BY <1>1 DEF names
<1> QED
  BY <1>1, <1>2 DEF generate_new_state, IsState

-----------------------------------------------------------------------------
(* The server *)

\* What the server wants agent a to run.
Wanted(a) == get_workloads_for_agent(rendered_workloads, a)

\* A hello for agent a is among the messages.
HelloIn(ms, a) == \E n \in 1..Len(ms) : ms[n].kind = "ServerHello" /\ ms[n].agent = a

\* What the server appends comes behind all other messages on their way to an
\* agent.
LEMMA Behind ==
  ASSUME NEW qs \in Seq(FromServer), NEW ms \in Seq(FromServer), NEW m \in FromServer
  PROVE  /\ qs \o Append(ms, m) = Append(qs \o ms, m) /\ qs \o ms \in Seq(FromServer)
         /\ Append(ms, m) \in Seq(FromServer)
         /\ \A a : HelloIn(Append(ms, m), a) =>
              HelloIn(ms, a) \/ (m.kind = "ServerHello" /\ m.agent = a)
<1>1. qs \o Append(ms, m) = Append(qs \o ms, m) /\ qs \o ms \in Seq(FromServer)
  OBVIOUS
<1>2. /\ Append(ms, m) \in Seq(FromServer) /\ Len(Append(ms, m)) = Len(ms) + 1 /\ Len(ms) \in Nat
      /\ Append(ms, m)[Len(ms) + 1] = m
      /\ \A n \in 1..Len(ms) : Append(ms, m)[n] = ms[n]
  OBVIOUS
<1>3. ASSUME NEW a, HelloIn(Append(ms, m), a)
      PROVE  HelloIn(ms, a) \/ (m.kind = "ServerHello" /\ m.agent = a)
  <2> DEFINE ns == Append(ms, m)
  <2> HIDE DEF ns
  <2>1. PICK n \in 1..Len(ns) : ns[n].kind = "ServerHello" /\ ns[n].agent = a
    BY <1>3 DEF HelloIn, ns
  <2>2. CASE n = Len(ms) + 1
    BY <1>2, <2>1, <2>2 DEF ns
  <2>3. CASE n # Len(ms) + 1
    <3>1. n \in 1..Len(ms) /\ ns[n] = ms[n]
      BY <1>2, <2>1, <2>3 DEF ns
    <3> QED
      BY <2>1, <3>1 DEF HelloIn
  <2> QED
    BY <2>2, <2>3
<1> QED
  BY <1>1, <1>2, <1>3

\* Nothing changes for agent a when the messages ms become ns.
SameFor(ms, ns, a) ==
  /\ \A V \in View, qs \in Seq(FromServer) : At(V, qs \o ns, a) = At(V, qs \o ms, a)
  /\ HelloIn(ns, a) => HelloIn(ms, a)

\* The agent comes to W as well.
MoreFor(ms, ns, a, W) ==
  \A V \in View, qs \in Seq(FromServer) : At(V, qs \o ns, a) = Append(At(V, qs \o ms, a), W)

\* Lists that are the same for an agent as a third one.
LEMMA SameTwice ==
  ASSUME NEW ms, NEW ns, NEW os, NEW a, SameFor(ms, ns, a), SameFor(ns, os, a)
  PROVE  SameFor(ms, os, a)
BY DEF SameFor

\* A message that does not concern the agent.
LEMMA OtherMessage ==
  ASSUME NEW ms \in Seq(FromServer), NEW m \in FromServer, NEW a, ~Concerns(m, a)
  PROVE  SameFor(ms, Append(ms, m), a)
<1>1. ~(m.kind = "ServerHello" /\ m.agent = a)
  BY DEF Concerns, ForAgent
<1>2. ASSUME NEW V \in View, NEW qs \in Seq(FromServer)
      PROVE  At(V, qs \o Append(ms, m), a) = At(V, qs \o ms, a)
  <2>1. qs \o Append(ms, m) = Append(qs \o ms, m) /\ qs \o ms \in Seq(FromServer)
    BY Behind
  <2>2. At(V, Append(qs \o ms, m), a) = Step(At(V, qs \o ms, a), m, a)
    BY <2>1, SendAdds, Zenon
  <2> QED
    BY <2>1, <2>2 DEF Step
<1>3. HelloIn(Append(ms, m), a) => HelloIn(ms, a)
  BY <1>1, Behind
<1> QED
  BY <1>2, <1>3 DEF SameFor

\* A message that does.
LEMMA OwnMessage ==
  ASSUME NEW ms \in Seq(FromServer), NEW m \in FromServer, NEW a, Concerns(m, a),
         NEW V \in View, NEW qs \in Seq(FromServer)
  PROVE  At(V, qs \o Append(ms, m), a) =
           Append(At(V, qs \o ms, a), Applied(LastOf(At(V, qs \o ms, a)), m, a))
BY Behind, SendAdds, Zenon DEF Step

\* A message of states concerns nobody.
LEMMA StatesAreOther ==
  ASSUME NEW ms \in Seq(FromServer), NEW S \in SUBSET WorkloadState, NEW a
  PROVE  ms \o StatesMessage(S) \in Seq(FromServer) /\ SameFor(ms, ms \o StatesMessage(S), a)
<1>1. CASE S = {}
  <2>1. ms \o StatesMessage(S) = ms
    BY <1>1 DEF StatesMessage
  <2> QED
    BY <2>1 DEF SameFor
<1>2. CASE S # {}
  <2> DEFINE m == UpdateWorkloadState(S)
  <2>1. m \in FromServer /\ ~Concerns(m, a)
    BY MessageTypes DEF Concerns, UpdateWorkloadState
  <2>2. ms \o StatesMessage(S) = Append(ms, m)
    BY <1>2 DEF StatesMessage
  <2> HIDE DEF m
  <2> QED
    BY <2>1, <2>2, OtherMessage, Behind
<1> QED
  BY <1>1, <1>2

\* AgentHello: the agent is told what is wanted of it, last of all.
LEMMA HelloStep ==
  ASSUME ServerTypeOK, HandleAgentHello
  PROVE  /\ ServerTypeOK' /\ rendered_workloads' = rendered_workloads
         /\ \E h \in Agent : /\ agent_map' = agent_map \cup {h}
                             /\ MoreFor(to_agents, to_agents', h, Wanted(h))
                             /\ \A a \in Agent \ {h} : SameFor(to_agents, to_agents', a)
<1> DEFINE h == Head(to_server).agent
           S == get_workload_state_excluding_agent(workload_states_map, h)
           ms == to_agents \o StatesMessage(S)
           m == ServerHello(h, Wanted(h))
<1>1. h \in Agent /\ to_server' \in Seq(ToServer)
  BY ReceivesType, ToServerParts DEF HandleAgentHello
<1>2. S \in SUBSET WorkloadState
  BY MapTypes DEF ServerTypeOK, StatesMap
<1>3. Wanted(h) \in SUBSET Workload
  BY DEF Wanted, get_workloads_for_agent, ServerTypeOK
<1>4. m \in FromServer
  BY <1>1, <1>3, MessageTypes
<1>5. to_agents \in Seq(FromServer)
  BY DEF ServerTypeOK
<1>6. ms \in Seq(FromServer) /\ \A a : SameFor(to_agents, ms, a)
  <2> HIDE DEF S
  <2> QED
    BY <1>2, <1>5, StatesAreOther
<1>7. to_agents' = Append(ms, m) /\ agent_map' = agent_map \cup {h}
  <2>1. to_agents' = (to_agents \o StatesMessage(S)) \o <<m>> /\ agent_map' = agent_map \cup {h}
    BY DEF HandleAgentHello, Wanted
  <2> HIDE DEF S, m
  <2> QED
    BY <1>4, <1>6, <2>1
<1>8. rendered_workloads' = rendered_workloads /\ UNCHANGED <<stateVars, workload_states_map>>
  BY DEF HandleAgentHello, stateVars
<1>9. m.kind = "ServerHello" /\ m.agent = h /\ m.added = Wanted(h)
  BY DEF ServerHello
<1> HIDE DEF h, S, m, ms
<1>10. ServerTypeOK'
  <2>1. to_agents' \in Seq(FromServer)
    BY <1>4, <1>6, <1>7
  <2> QED
    BY <1>1, <1>7, <1>8, <2>1 DEF ServerTypeOK, stateVars
<1>11. MoreFor(to_agents, to_agents', h, Wanted(h))
  <2> SUFFICES ASSUME NEW V \in View, NEW qs \in Seq(FromServer)
               PROVE  At(V, qs \o to_agents', h) = Append(At(V, qs \o to_agents, h), Wanted(h))
    BY DEF MoreFor
  <2>1. At(V, qs \o ms, h) = At(V, qs \o to_agents, h)
    BY <1>6 DEF SameFor
  <2>2. Concerns(m, h)
    BY <1>9 DEF Concerns, ForAgent
  <2>3. \A U : Applied(U, m, h) = Wanted(h)
    BY <1>9 DEF Applied
  <2> QED
    BY <1>4, <1>6, <1>7, <2>1, <2>2, <2>3, OwnMessage
<1>12. ASSUME NEW a \in Agent \ {h} PROVE SameFor(to_agents, to_agents', a)
  <2>1. ~Concerns(m, a)
    BY <1>9 DEF Concerns, ForAgent
  <2>2. SameFor(ms, Append(ms, m), a)
    BY <1>4, <1>6, <2>1, OtherMessage
  <2> QED
    BY <1>6, <1>7, <2>2, SameTwice
<1> QED
  BY <1>1, <1>7, <1>8, <1>10, <1>11, <1>12

\* The other handlers but for the update: no agent is told of workloads.
LEMMA QuietStep ==
  ASSUME ServerTypeOK,
         HandleAgentGone \/ RejectUpdateState \/ HandleUpdateWorkloadState \/ HandleCompleteStateRequest
  PROVE  /\ ServerTypeOK' /\ rendered_workloads' = rendered_workloads
         /\ \A a \in Agent : SameFor(to_agents, to_agents', a)
         /\ \/ agent_map' = agent_map
            \/ \E h \in Agent : agent_map' = agent_map \ {h}
<1>1. /\ to_agents \in Seq(FromServer) /\ workload_states_map \in StatesMap /\ delete_graph \in Graph
      /\ agent_map \subseteq Agent
  BY DEF ServerTypeOK, StatesMap, Graph
<1>2. ASSUME NEW m \in FromServer, to_agents' = Append(to_agents, m),
             m.kind \notin {"ServerHello", "UpdateWorkload"}
      PROVE  to_agents' \in Seq(FromServer) /\ \A a \in Agent : SameFor(to_agents, to_agents', a)
  <2>1. \A a \in Agent : ~Concerns(m, a)
    BY <1>2 DEF Concerns
  <2> QED
    BY <1>1, <1>2, <2>1, OtherMessage
<1>3. CASE HandleAgentGone
  <2> DEFINE h == Head(to_server).agent
             S == get_workload_state_for_agent(workload_states_map', h)
  <2>1. h \in Agent /\ to_server' \in Seq(ToServer)
    BY <1>3, ReceivesType, ToServerParts DEF HandleAgentGone
  <2>2. /\ agent_map' = agent_map \ {h} /\ to_agents' = Append(to_agents, UpdateWorkloadState(S))
        /\ UNCHANGED stateVars
    BY <1>3 DEF HandleAgentGone
  <2>3. workload_states_map' \in StatesMap
    BY <1>1, <1>3, MapTypes DEF HandleAgentGone
  <2>4. S \in SUBSET WorkloadState
    BY <2>3, MapTypes, Zenon
  <2>5. UpdateWorkloadState(S) \in FromServer /\ UpdateWorkloadState(S).kind = "UpdateWorkloadState"
    BY <2>4, MessageTypes DEF UpdateWorkloadState
  <2> HIDE DEF h, S
  <2>6. to_agents' \in Seq(FromServer) /\ \A a \in Agent : SameFor(to_agents, to_agents', a)
    BY <1>2, <2>2, <2>5
  <2> QED
    BY <2>1, <2>2, <2>3, <2>6 DEF ServerTypeOK, stateVars, StatesMap
<1>4. CASE RejectUpdateState
  <2> DEFINE m == Error(Head(to_server).request)
  <2>1. Head(to_server).request \in Sender /\ to_server' \in Seq(ToServer)
    BY <1>4, ReceivesType, ToServerParts, Zenon DEF RejectUpdateState
  <2>2. m \in FromServer /\ m.kind = "Error"
    BY <2>1, MessageTypes DEF Error
  <2>3. to_agents' = Append(to_agents, m) /\ UNCHANGED serverVars
    BY <1>4 DEF RejectUpdateState
  <2> HIDE DEF m
  <2>4. to_agents' \in Seq(FromServer) /\ \A a \in Agent : SameFor(to_agents, to_agents', a)
    BY <1>2, <2>2, <2>3
  <2> QED
    BY <2>1, <2>3, <2>4 DEF ServerTypeOK, stateVars, serverVars
<1>5. CASE HandleUpdateWorkloadState
  <2> DEFINE S == Head(to_server).states
  <2>1. S \in SUBSET WorkloadState /\ to_server' \in Seq(ToServer)
    BY <1>5, ReceivesType, ToServerParts, Zenon DEF HandleUpdateWorkloadState
  <2>2. UpdateWorkloadState(S) \in FromServer /\ UpdateWorkloadState(S).kind = "UpdateWorkloadState"
    BY <2>1, MessageTypes DEF UpdateWorkloadState
  <2>3. /\ to_agents' = Append(to_agents, UpdateWorkloadState(S))
        /\ workload_states_map' \in StatesMap /\ delete_graph' \in Graph
        /\ UNCHANGED <<rendered_workloads, agent_map>>
    BY <1>1, <1>5, <2>1, MapTypes, GraphTypes, Zenon DEF HandleUpdateWorkloadState
  <2> HIDE DEF S
  <2>4. to_agents' \in Seq(FromServer) /\ \A a \in Agent : SameFor(to_agents, to_agents', a)
    BY <1>2, <2>2, <2>3
  <2> QED
    BY <2>1, <2>3, <2>4 DEF ServerTypeOK, StatesMap, Graph
<1>6. CASE HandleCompleteStateRequest
  <2> DEFINE m == CompleteState(Head(to_server).request, agent_map)
  <2>1. Head(to_server).request \in Sender /\ to_server' \in Seq(ToServer)
    BY <1>6, ReceivesType, ToServerParts, ZenonT(30) DEF HandleCompleteStateRequest
  <2>2. m \in FromServer /\ m.kind = "CompleteState"
    BY <1>1, <2>1, MessageTypes DEF CompleteState
  <2>3. to_agents' = Append(to_agents, m) /\ UNCHANGED serverVars
    BY <1>6 DEF HandleCompleteStateRequest
  <2> HIDE DEF m
  <2>4. to_agents' \in Seq(FromServer) /\ \A a \in Agent : SameFor(to_agents, to_agents', a)
    BY <1>2, <2>2, <2>3, Zenon
  <2> QED
    BY <2>1, <2>3, <2>4 DEF ServerTypeOK, stateVars, serverVars
<1> QED
  BY <1>3, <1>4, <1>5, <1>6

\* m tells of the difference of two desired states, but for deleted workloads that
\* are not agent a's.
Tells(m, R, W, a) ==
  \E graph, U : /\ \A w \in U : w.agent # a
                /\ m = UpdateWorkload(W \ R, apply_delete_conditions_to(graph, (R \ W) \ U))

\* The difference of two desired states takes the agent from the one to the other,
\* and concerns it only if there is one.
LEMMA Difference ==
  ASSUME NEW R \in SUBSET Workload, NEW W \in SUBSET Workload, IsState(R), IsState(W),
         NEW a, NEW m, Tells(m, R, W, a)
  PROVE  /\ Applied(get_workloads_for_agent(R, a), m, a) = get_workloads_for_agent(W, a)
         /\ Concerns(m, a) <=> get_workloads_for_agent(W, a) # get_workloads_for_agent(R, a)
<1>0. PICK graph, U : /\ \A w \in U : w.agent # a
                      /\ m = UpdateWorkload(W \ R, apply_delete_conditions_to(graph, (R \ W) \ U))
  BY Zenon DEF Tells
<1> DEFINE A == {w \in m.added : w.agent = a}
           D == {d \in m.deleted : d.instance.agent = a}
           G == {w \in R \ W : w.agent = a}
           gone == {d.instance.name : d \in D}
<1>1. /\ m.kind = "UpdateWorkload" /\ m.added = W \ R
      /\ m.deleted = apply_delete_conditions_to(graph, (R \ W) \ U)
  BY <1>0, Zenon DEF UpdateWorkload
<1>2. \A w \in G : \E d \in D : d.instance.name = w.name
  <2> SUFFICES ASSUME NEW w \in G PROVE \E d \in D : d.instance.name = w.name
    OBVIOUS
  <2> DEFINE d == [instance |-> instance_name(w), deps |-> graph[w.name]]
  <2>1. w \in (R \ W) \ U
    BY <1>0
  <2>2. d \in m.deleted
    BY <1>1, <2>1 DEF apply_delete_conditions_to
  <2>3. d.instance.agent = a /\ d.instance.name = w.name
    BY Zenon DEF instance_name
  <2> QED
    BY <2>2, <2>3
<1>3. \A d \in D : \E w \in G : d.instance.name = w.name
  <2> SUFFICES ASSUME NEW d \in D PROVE \E w \in G : d.instance.name = w.name
    BY Zenon
  <2>1. PICK w \in (R \ W) \ U : d = [instance |-> instance_name(w), deps |-> graph[w.name]]
    BY <1>1 DEF apply_delete_conditions_to
  <2> QED
    BY <2>1 DEF instance_name
<1>4. A = {w \in W \ R : w.agent = a}
  BY <1>1
<1>5. gone = names(G)
  <2>1. ASSUME NEW x \in gone PROVE x \in names(G)
    <3>1. PICK d \in D : x = d.instance.name
      OBVIOUS
    <3> QED
      BY <1>3, <3>1 DEF names
  <2>2. ASSUME NEW x \in names(G) PROVE x \in gone
    <3>1. PICK w \in G : x = w.name
      BY DEF names
    <3>2. PICK d \in D : d.instance.name = x
      BY <1>2, <3>1
    <3> QED
      BY <3>2
  <2> QED
    BY <2>1, <2>2
<1>6. D = {} <=> G = {}
  BY <1>2, <1>3, Zenon
<1>7. Applied(get_workloads_for_agent(R, a), m, a) =
        {v \in get_workloads_for_agent(R, a) : v.name \notin names(A) \cup gone} \cup A
  BY <1>1 DEF Applied
<1>8. Concerns(m, a) <=> A \cup D # {}
  BY <1>1, Zenon DEF Concerns, ForAgent
<1> HIDE DEF D, gone
<1>9. ASSUME NEW v \in R, v.agent = a PROVE v.name \notin names(A) \cup gone <=> v \in W
  <2>1. ASSUME v \in W PROVE v.name \notin names(A) \cup gone
    BY <1>4, <1>5, <2>1 DEF names, IsState
  <2>2. ASSUME v \notin W PROVE v.name \in gone
    BY <1>5, <1>9, <2>2 DEF names
  <2> QED
    BY <2>1, <2>2
<1>10. Applied(get_workloads_for_agent(R, a), m, a) = get_workloads_for_agent(W, a)
  BY <1>4, <1>7, <1>9, Zenon DEF get_workloads_for_agent
<1>11. A \cup D # {} <=> get_workloads_for_agent(W, a) # get_workloads_for_agent(R, a)
  <2>1. A \cup D # {} <=> A \cup G # {}
    BY <1>6
  <2>2. A \cup G # {} <=> get_workloads_for_agent(W, a) # get_workloads_for_agent(R, a)
    BY <1>4, Zenon DEF get_workloads_for_agent
  <2> QED
    BY <2>1, <2>2
<1> QED
  BY <1>8, <1>10, <1>11

\* UpdateState: an agent that the server knows, and that comes to what is wanted of
\* it, comes to what is wanted of it from now on.
LEMMA UpdateStep ==
  ASSUME ServerTypeOK, HandleUpdateState
  PROVE  /\ ServerTypeOK' /\ agent_map' = agent_map
         /\ \A a \in agent_map :
              /\ HelloIn(to_agents', a) => HelloIn(to_agents, a)
              /\ \A V \in View, qs \in Seq(FromServer) :
                   LastOf(At(V, qs \o to_agents, a)) = Wanted(a) =>
                     At(V, qs \o to_agents', a) =
                       IF Wanted(a)' # Wanted(a) THEN Append(At(V, qs \o to_agents, a), Wanted(a)')
                       ELSE At(V, qs \o to_agents, a)
<1> DEFINE r == Head(to_server).request
           u == Head(to_server).update
           R == rendered_workloads
           W == generate_new_state(R, u)
<1>1. /\ R \in SUBSET Workload /\ IsState(R) /\ workload_states_map \in StatesMap /\ delete_graph \in Graph
      /\ agent_map \subseteq Agent /\ to_agents \in Seq(FromServer)
  BY Zenon DEF ServerTypeOK, StatesMap, Graph
<1>2. r \in Sender /\ u \in StateUpdate /\ to_server' \in Seq(ToServer) /\ agent_map' = agent_map
  BY ReceivesType, ToServerParts, Zenon DEF HandleUpdateState
<1>3. W \in SUBSET Workload /\ IsState(W)
  BY <1>1, <1>2, NewState
<1>4. CASE W = R
  <2> DEFINE m == UpdateStateSuccess(r, {}, {})
  <2>1. to_agents' = Append(to_agents, m) /\ UNCHANGED <<stateVars, workload_states_map>>
    BY <1>4 DEF HandleUpdateState
  <2>2. m \in FromServer /\ \A a : ~Concerns(m, a)
    BY <1>2, MessageTypes, Zenon DEF UpdateStateSuccess, Concerns
  <2> HIDE DEF m, r, W
  <2>3. to_agents' \in Seq(FromServer) /\ \A a : SameFor(to_agents, to_agents', a)
    BY <1>1, <2>1, <2>2, OtherMessage
  <2>4. ServerTypeOK'
    BY <1>2, <2>1, <2>3 DEF ServerTypeOK, stateVars
  <2>5. \A a : Wanted(a)' = Wanted(a)
    BY <2>1 DEF Wanted, stateVars
  <2> QED
    BY <1>2, <2>3, <2>4, <2>5, Zenon DEF SameFor
<1>5. CASE W # R
  <2> DEFINE added == W \ R
             map == initial_state(workload_states_map, added)
             unstarted == {w \in R \ W : never_started(w, map)}
             S == {<<i, "Removed">> : i \in instance_names(unstarted)}
             ms == to_agents \o StatesMessage(S)
             deleted == (R \ W) \ unstarted
             m == UpdateWorkload(added, apply_delete_conditions_to(delete_graph', deleted))
             n == UpdateStateSuccess(r, instance_names(added), instance_names(R \ W))
  <2>1. /\ rendered_workloads' = W /\ delete_graph' = insert(delete_graph, added)
        /\ workload_states_map' = remove(map, instance_names(unstarted))
        /\ to_agents' = (to_agents \o StatesMessage(S)) \o <<m, n>>
    BY <1>5, Zenon DEF HandleUpdateState, AcceptUpdate, added_workloads, deleted_workloads
  <2>2. \A w \in unstarted : w.agent \notin agent_map
    BY <1>1, WorkloadAssumption, ZenonT(30) DEF never_started
  <2>3. workload_states_map' \in StatesMap
    BY <1>1, <2>1, MapTypes
  <2> HIDE DEF map, W
  <2>4. added \in SUBSET Workload /\ unstarted \in SUBSET Workload /\ deleted \in SUBSET Workload
    BY <1>1, <1>3
  <2>5. S \in SUBSET WorkloadState
    <3>1. instance_names(unstarted) \in SUBSET Instance
      BY <2>4, InstanceNames
    <3>2. \A i \in Instance : <<i, "Removed">> \in WorkloadState
      BY DEF WorkloadState
    <3> HIDE DEF unstarted
    <3> QED
      BY <3>1, <3>2
  <2>6. delete_graph' \in Graph
    BY <1>1, <2>1, <2>4, GraphTypes
  <2>7. m \in FromServer
    <3>1. apply_delete_conditions_to(delete_graph', deleted) \in SUBSET DeletedWorkload
      BY <2>4, <2>6, GraphTypes
    <3> QED
      BY <2>4, <3>1, MessageTypes
  <2>8. n \in FromServer /\ \A a : ~Concerns(n, a)
    <3>1. instance_names(added) \in SUBSET Instance /\ instance_names(R \ W) \in SUBSET Instance
      BY <1>1, <2>4, InstanceNames
    <3>2. n.kind = "UpdateStateSuccess"
      BY DEF UpdateStateSuccess
    <3> QED
      BY <1>2, <3>1, <3>2, MessageTypes, Zenon DEF Concerns
  <2>9. /\ \A a \in agent_map : Applied(Wanted(a), m, a) = Wanted(a)'
        /\ \A a \in agent_map : Concerns(m, a) <=> Wanted(a)' # Wanted(a)
    <3> SUFFICES ASSUME NEW a \in agent_map
                 PROVE  /\ Applied(Wanted(a), m, a) = Wanted(a)'
                        /\ Concerns(m, a) <=> Wanted(a)' # Wanted(a)
      OBVIOUS
    <3>1. \A w \in unstarted : w.agent # a
      BY <2>2
    <3>2. Wanted(a) = get_workloads_for_agent(R, a) /\ Wanted(a)' = get_workloads_for_agent(W, a)
      BY <2>1 DEF Wanted
    <3>3. m = UpdateWorkload(W \ R, apply_delete_conditions_to(delete_graph', (R \ W) \ unstarted))
      OBVIOUS
    <3>4. Tells(m, R, W, a)
      BY <3>1, <3>3, Zenon DEF Tells
    <3> HIDE DEF unstarted, m, R
    <3>5. /\ Applied(get_workloads_for_agent(R, a), m, a) = get_workloads_for_agent(W, a)
          /\ Concerns(m, a) <=> get_workloads_for_agent(W, a) # get_workloads_for_agent(R, a)
      BY <1>1, <1>3, <3>4, Difference
    <3> QED
      BY <3>2, <3>5
  <2> HIDE DEF S, m, n, unstarted, r
  <2>10. ms \in Seq(FromServer) /\ \A a : SameFor(to_agents, ms, a)
    BY <1>1, <2>5, StatesAreOther
  <2> HIDE DEF ms
  <2>11. to_agents' = Append(Append(ms, m), n)
    <3>1. to_agents' = ms \o <<m, n>>
      BY <2>1 DEF ms
    <3> QED
      BY <2>7, <2>8, <2>10, <3>1
  <2>12. Append(ms, m) \in Seq(FromServer) /\ to_agents' \in Seq(FromServer)
    BY <2>7, <2>8, <2>10, <2>11
  <2>13. \A a : SameFor(Append(ms, m), to_agents', a)
    BY <2>8, <2>11, <2>12, OtherMessage, Zenon
  <2>14. ServerTypeOK'
    BY <1>2, <1>3, <1>1, <2>1, <2>3, <2>6, <2>12, Zenon DEF ServerTypeOK, StatesMap, Graph
  <2>15. ASSUME NEW a \in agent_map PROVE HelloIn(to_agents', a) => HelloIn(to_agents, a)
    <3>1. m.kind = "UpdateWorkload"
      BY DEF m, UpdateWorkload
    <3>2. HelloIn(Append(ms, m), a) => HelloIn(ms, a)
      BY <2>7, <2>10, <3>1, Behind
    <3> QED
      BY <2>10, <2>13, <3>2 DEF SameFor
  <2>16. ASSUME NEW a \in agent_map, NEW V \in View, NEW qs \in Seq(FromServer),
                LastOf(At(V, qs \o to_agents, a)) = Wanted(a)
         PROVE  At(V, qs \o to_agents', a) =
                  IF Wanted(a)' # Wanted(a) THEN Append(At(V, qs \o to_agents, a), Wanted(a)')
                  ELSE At(V, qs \o to_agents, a)
    <3>1. At(V, qs \o ms, a) = At(V, qs \o to_agents, a)
      BY <2>10, Zenon DEF SameFor
    <3>2. At(V, qs \o to_agents', a) = At(V, qs \o Append(ms, m), a)
      BY <2>13, Zenon DEF SameFor
    <3>3. CASE Concerns(m, a)
      <4>1. At(V, qs \o Append(ms, m), a) =
              Append(At(V, qs \o ms, a), Applied(LastOf(At(V, qs \o ms, a)), m, a))
        BY <2>7, <2>10, <3>3, OwnMessage
      <4> QED
        BY <2>9, <2>16, <3>1, <3>2, <3>3, <4>1
    <3>4. CASE ~Concerns(m, a)
      <4>1. SameFor(ms, Append(ms, m), a)
        BY <2>7, <2>10, <3>4, OtherMessage
      <4>2. At(V, qs \o Append(ms, m), a) = At(V, qs \o ms, a)
        BY <4>1 DEF SameFor
      <4> QED
        BY <2>9, <3>1, <3>2, <3>4, <4>2
    <3> QED
      BY <3>3, <3>4
  <2> QED
    BY <1>2, <2>14, <2>15, <2>16
<1> QED
  BY <1>4, <1>5

-----------------------------------------------------------------------------
(* Messages on their way *)

\* An agent sees first what it sees now.
LEMMA FirstView ==
  ASSUME NEW V \in View, NEW ms \in Seq(FromServer), NEW a
  PROVE  At(V, ms, a)[1] = V
<1> DEFINE t == Trail(V, ms, a)
           N == Len(ms)
           T == {n \in Nat : n <= N => t[n][1] = V}
<1>1. IsTrail(t, V, ms, a)
  BY TrailFacts
<1> HIDE DEF t
<1>2. t[0] = <<V>>
  BY ONLY <1>1 DEF IsTrail
<1>3. \A n \in 1..N : t[n] = Step(t[n - 1], ms[n], a)
  BY ONLY <1>1 DEF IsTrail
<1>4. \A n \in 0..N : t[n] \in Views
  BY ONLY <1>1 DEF IsTrail
<1>5. N \in Nat /\ \A n \in 1..N : ms[n] \in FromServer
  OBVIOUS
<1> HIDE DEF N
<1>6. ASSUME NEW s \in Views, NEW m \in FromServer PROVE Step(s, m, a)[1] = s[1]
  <2>1. \A W \in View : Append(s, W)[1] = s[1]
    <3>1. s \in Seq(View) /\ 1 \in 1..Len(s)
      BY DEF Views
    <3> QED
      BY <3>1
  <2> QED
    BY <2>1, AppliedType, LastView DEF Step
<1>7. 0 \in T
  BY <1>2
<1>8. \A n \in Nat : n \in T => n + 1 \in T
  <2> SUFFICES ASSUME NEW n \in Nat, n \in T, n + 1 <= N PROVE t[n + 1][1] = V
    OBVIOUS
  <2>1. n + 1 \in 1..N /\ (n + 1) - 1 = n /\ n \in 0..N /\ t[n][1] = V
    BY <1>5
  <2> QED
    BY <1>3, <1>4, <1>5, <1>6, <2>1
<1> HIDE DEF T
<1>9. Nat \subseteq T
  BY <1>7, <1>8, Induction
<1> QED
  BY <1>5, <1>9 DEF T, t, N, At

\* The messages of an agent's part are the agent's own.
LEMMA PartIsOwn ==
  ASSUME NEW m \in FromServer, NEW a, ForAgent(m, a) # <<>>
  PROVE  \E x \in FromServer :
           /\ ForAgent(m, a) = <<x>>
           /\ x.kind \in {"ServerHello", "UpdateWorkload"} => ForAgent(x, a) = <<x>>
           /\ x.kind = "ServerHello" => x = m
<1>1. PICK x \in FromServer : ForAgent(m, a) = <<x>> /\ SameEffect(m, x, a)
  BY PartEffect
<1>2. CASE m.kind = "ServerHello"
  BY <1>1, <1>2, Zenon DEF ForAgent
<1>3. CASE m.kind = "UpdateWorkload"
  <2> DEFINE A == {w \in m.added : w.agent = a}
             D == {d \in m.deleted : d.instance.agent = a}
  <2>1. ForAgent(m, a) = IF A \cup D = {} THEN <<>> ELSE <<UpdateWorkload(A, D)>>
    BY <1>3 DEF ForAgent
  <2>2. x = UpdateWorkload(A, D) /\ A \cup D # {}
    BY <1>1, <2>1
  <2>3. {w \in A : w.agent = a} = A /\ {d \in D : d.instance.agent = a} = D
    OBVIOUS
  <2> HIDE DEF A, D
  <2>4. x.kind = "UpdateWorkload" /\ x.added = A /\ x.deleted = D
    BY <2>2 DEF UpdateWorkload
  <2>5. ForAgent(x, a) = LET B == {w \in A : w.agent = a}
                             E == {d \in D : d.instance.agent = a}
                         IN IF B \cup E = {} THEN <<>> ELSE <<UpdateWorkload(B, E)>>
    BY <2>4 DEF ForAgent
  <2> QED
    BY <1>1, <2>2, <2>3, <2>4, <2>5, Zenon
<1>4. CASE m.kind = "UpdateWorkloadState"
  <2>1. x.kind = "UpdateWorkloadState"
    BY <1>1, <1>4 DEF ForAgent, StatesMessage, UpdateWorkloadState
  <2> QED
    BY <1>1, <2>1
<1>5. CASE m.kind \notin {"ServerHello", "UpdateWorkload", "UpdateWorkloadState"}
  BY <1>5, Zenon DEF ForAgent
<1> QED
  BY <1>2, <1>3, <1>4, <1>5

\* Where a hello can be.
LEMMA HelloIsIn ==
  ASSUME NEW qs \in Seq(FromServer), NEW ms \in Seq(FromServer), NEW a
  PROVE  /\ HelloIn(qs \o ms, a) <=> HelloIn(qs, a) \/ HelloIn(ms, a)
         /\ ms # <<>> =>
              (HelloIn(ms, a) <=> (Head(ms).kind = "ServerHello" /\ Head(ms).agent = a) \/ HelloIn(Tail(ms), a))
<1> DEFINE K == Len(qs)
           L == Len(ms)
           os == qs \o ms
<1>1. /\ K \in Nat /\ L \in Nat /\ Len(os) = K + L
      /\ \A n \in 1..K : os[n] = qs[n]
      /\ \A n \in K + 1..K + L : os[n] = ms[n - K]
  BY Concatenation
<1> HIDE DEF os, K, L
<1>2. HelloIn(os, a) <=> HelloIn(qs, a) \/ HelloIn(ms, a)
  <2>1. ASSUME HelloIn(os, a) PROVE HelloIn(qs, a) \/ HelloIn(ms, a)
    <3>1. PICK n \in 1..K + L : os[n].kind = "ServerHello" /\ os[n].agent = a
      BY <1>1, <2>1 DEF HelloIn
    <3>2. n \in 1..K \/ (n \in K + 1..K + L /\ n - K \in 1..L)
      BY <1>1
    <3> QED
      BY <1>1, <3>1, <3>2 DEF HelloIn, K, L
  <2>2. ASSUME HelloIn(qs, a) PROVE HelloIn(os, a)
    <3>1. PICK n \in 1..K : qs[n].kind = "ServerHello" /\ qs[n].agent = a
      BY <2>2 DEF HelloIn, K
    <3>2. n \in 1..Len(os) /\ os[n] = qs[n]
      BY <1>1
    <3> QED
      BY <3>1, <3>2 DEF HelloIn
  <2>3. ASSUME HelloIn(ms, a) PROVE HelloIn(os, a)
    <3>1. PICK n \in 1..L : ms[n].kind = "ServerHello" /\ ms[n].agent = a
      BY <2>3 DEF HelloIn, L
    <3>2. K + n \in K + 1..K + L /\ (K + n) - K = n /\ K + n \in 1..Len(os)
      BY <1>1
    <3>3. os[K + n] = ms[n]
      BY <1>1, <3>2
    <3> QED
      BY <3>1, <3>2, <3>3 DEF HelloIn
  <2> QED
    BY <2>1, <2>2, <2>3
<1>3. ASSUME ms # <<>>
      PROVE  HelloIn(ms, a) <=> (Head(ms).kind = "ServerHello" /\ Head(ms).agent = a) \/ HelloIn(Tail(ms), a)
  <2> DEFINE ns == Tail(ms)
  <2>1. /\ L \in Nat /\ L # 0 /\ Head(ms) = ms[1] /\ Len(ns) = L - 1
        /\ \A n \in 1..L - 1 : ns[n] = ms[n + 1]
    BY <1>3 DEF L
  <2> HIDE DEF ns
  <2>2. ASSUME HelloIn(ms, a) PROVE (ms[1].kind = "ServerHello" /\ ms[1].agent = a) \/ HelloIn(ns, a)
    <3>1. PICK n \in 1..L : ms[n].kind = "ServerHello" /\ ms[n].agent = a
      BY <2>2 DEF HelloIn, L
    <3>2. CASE n # 1
      <4>1. n - 1 \in 1..L - 1 /\ (n - 1) + 1 = n
        BY <2>1, <3>2
      <4>2. ns[n - 1] = ms[n]
        BY <2>1, <4>1
      <4> QED
        BY <2>1, <3>1, <4>1, <4>2 DEF HelloIn
    <3> QED
      BY <3>1, <3>2
  <2>3. ASSUME ms[1].kind = "ServerHello" /\ ms[1].agent = a PROVE HelloIn(ms, a)
    <3>1. 1 \in 1..L
      BY <2>1
    <3> QED
      BY <2>3, <3>1 DEF HelloIn, L
  <2>4. ASSUME HelloIn(ns, a) PROVE HelloIn(ms, a)
    <3>1. PICK n \in 1..L - 1 : ns[n].kind = "ServerHello" /\ ns[n].agent = a
      BY <2>1, <2>4 DEF HelloIn
    <3>2. n + 1 \in 1..L
      BY <2>1
    <3> QED
      BY <2>1, <3>1, <3>2, Zenon DEF HelloIn, L
  <2> QED
    BY <2>1, <2>2, <2>3, <2>4 DEF ns
<1> QED
  BY <1>2, <1>3 DEF os

-----------------------------------------------------------------------------
(* Types of the connections and of the agents *)

\* A connection, whatever it has come to.
ConnectionType ==
  [agent : Agent \cup {NoAgent}, task : {"unused", "hello", "forward", "failed", "ended"},
   up : BOOLEAN, closed : BOOLEAN, from_agent : Seq(ToServer), to_agent : Seq(FromServer)]

\* A client uses a connection of its own, a connection in use is an agent's, and an
\* agent is greeted over a connection.
Owned ==
  /\ \A a \in Agent : session[a] # 0 => connection[session[a]].agent = a
  /\ \A c \in Connection : connection[c].task # "unused" => connection[c].agent \in Agent
  /\ \A a \in Agent : greeted[a] => session[a] # 0

\* What is on its way to an agent tells of its own workloads only.
Addressed ==
  \A c \in Connection : \A n \in 1..Len(connection[c].to_agent) :
    connection[c].to_agent[n].kind \in {"ServerHello", "UpdateWorkload"} =>
      ForAgent(connection[c].to_agent[n], connection[c].agent) = <<connection[c].to_agent[n]>>

\* The types of what has gone astray.
LEMMA AstrayTypes ==
  /\ \A M \in SUBSET FromServer : Deletions(M) \in SUBSET Instance
  /\ \A M \in SUBSET ToServer : Reports(M) \in SUBSET Instance
<1>1. ASSUME NEW M \in SUBSET FromServer PROVE Deletions(M) \in SUBSET Instance
  <2>1. ASSUME NEW m \in M, m.kind = "UpdateWorkload", NEW d \in m.deleted PROVE d.instance \in Instance
    BY <2>1, FromServerParts DEF DeletedWorkload
  <2> QED
    BY <2>1 DEF Deletions
<1>2. ASSUME NEW M \in SUBSET ToServer PROVE Reports(M) \in SUBSET Instance
  <2>1. ASSUME NEW m \in M, m.kind = "UpdateWorkloadState", NEW s \in m.states PROVE s[1] \in Instance
    BY <2>1, ToServerParts DEF WorkloadState
  <2> QED
    BY <2>1 DEF Reports
<1> QED
  BY <1>1, <1>2

\* The messages of a channel are messages.
LEMMA InRange == ASSUME NEW S, NEW s \in Seq(S) PROVE Range(s) \in SUBSET S
<1>1. \A n \in DOMAIN s : s[n] \in S
  OBVIOUS
<1> QED
  BY <1>1 DEF Range

\* The tasks of a connection.
LEMMA MiddlewareTypes ==
  ASSUME TypeOK, Owned, NEW c \in Connection, Middleware(c)
  PROVE  TypeOK'
<1>1. /\ connection \in [Connection -> ConnectionType] /\ connection[c] \in ConnectionType
      /\ to_server \in Seq(ToServer) /\ astray \in SUBSET Instance
  BY DEF TypeOK, ServerTypeOK, ConnectionType
<1>2. UNCHANGED <<agentVars, budget>>
  BY DEF Middleware
<1>3. ASSUME connection' \in [Connection -> ConnectionType], to_server' \in Seq(ToServer),
             astray' \in SUBSET Instance, agent_senders' \in [Agent -> Connection \cup {0}],
             UNCHANGED <<serverVars, to_agents, session>>
      PROVE  TypeOK'
  BY <1>2, <1>3, Zenon DEF TypeOK, ServerTypeOK, ConnectionType, serverVars, stateVars, agentVars
<1>4. agent_senders \in [Agent -> Connection \cup {0}]
  BY DEF TypeOK
<1>5. CASE agent_hello(c)
  <2>1. connection[c].agent \in Agent /\ connection[c].task = "hello"
    BY <1>5 DEF agent_hello, Owned
  <2>2. to_server' \in Seq(ToServer)
    BY <1>1, <1>5, <2>1, MessageTypes DEF agent_hello
  <2>3. connection' \in [Connection -> ConnectionType]
    BY <1>1, <1>5, Zenon DEF agent_hello, ConnectionType
  <2> QED
    BY <1>1, <1>3, <1>4, <1>5, <2>2, <2>3 DEF agent_hello
<1>6. CASE forward_to_server(c)
  <2>1. /\ connection[c].from_agent \in Seq(ToServer) /\ connection[c].from_agent # <<>>
    BY <1>1, <1>6 DEF forward_to_server, ConnectionType
  <2>2. Head(connection[c].from_agent) \in ToServer /\ Tail(connection[c].from_agent) \in Seq(ToServer)
    BY <2>1
  <2>3. to_server' \in Seq(ToServer)
    BY <1>1, <1>6, <2>2 DEF forward_to_server
  <2>4. connection' \in [Connection -> ConnectionType]
    BY <1>1, <1>6, <2>2, Zenon DEF forward_to_server, ConnectionType
  <2>5. astray' \in SUBSET Instance
    <3>1. Reports({Head(connection[c].from_agent)}) \in SUBSET Instance
      BY <2>2, AstrayTypes
    <3> QED
      BY <1>1, <1>6, <3>1, Zenon DEF forward_to_server
  <2> QED
    BY <1>3, <1>4, <1>6, <2>3, <2>4, <2>5, Zenon DEF forward_to_server
<1>7. CASE ForwardFails(c)
  <2>1. connection' \in [Connection -> ConnectionType]
    <3>1. <<>> \in Seq(ToServer)
      OBVIOUS
    <3> QED
      BY <1>1, <1>7, <3>1, Zenon DEF ForwardFails, ConnectionType
  <2>2. astray' \in SUBSET Instance
    <3>1. Range(connection[c].from_agent) \in SUBSET ToServer
      BY <1>1, InRange DEF ConnectionType
    <3>2. Reports(Range(connection[c].from_agent)) \in SUBSET Instance
      BY <3>1, AstrayTypes
    <3> QED
      BY <1>1, <1>7, <3>2 DEF ForwardFails
  <2>3. agent_senders' \in [Agent -> Connection \cup {0}]
    BY <1>4, <1>7, Zenon DEF ForwardFails
  <2> QED
    BY <1>1, <1>3, <1>7, <2>1, <2>2, <2>3 DEF ForwardFails
<1>8. CASE agent_gone(c)
  <2>1. connection[c].agent \in Agent /\ connection[c].task = "failed"
    BY <1>8 DEF agent_gone, Owned
  <2>2. to_server' \in Seq(ToServer)
    BY <1>1, <1>8, <2>1, MessageTypes DEF agent_gone
  <2>3. connection' \in [Connection -> ConnectionType]
    BY <1>1, <1>8, Zenon DEF agent_gone, ConnectionType
  <2> QED
    BY <1>1, <1>3, <1>4, <1>8, <2>2, <2>3 DEF agent_gone
<1>9. CASE ForwardEnds(c)
  <2>1. connection' \in [Connection -> ConnectionType]
    BY <1>1, <1>9, Zenon DEF ForwardEnds, ConnectionType
  <2> QED
    BY <1>1, <1>3, <1>4, <1>9, <2>1 DEF ForwardEnds
<1> QED
  BY <1>5, <1>6, <1>7, <1>8, <1>9, ZenonT(30) DEF Middleware, ConnTask

\* The client leaves its connection.
LEMMA LeavingTypes ==
  ASSUME TypeOK, NEW a \in Agent, session[a] # 0, NEW Unsaid \in SUBSET Instance,
         LeaveConnection(a, Unsaid)
  PROVE  /\ session' \in [Agent -> Connection \cup {0}]
         /\ connection' \in [Connection -> ConnectionType] /\ astray' \in SUBSET Instance
<1> DEFINE c == session[a]
<1>1. /\ connection \in [Connection -> ConnectionType] /\ c \in Connection
      /\ session \in [Agent -> Connection \cup {0}] /\ astray \in SUBSET Instance
  BY DEF TypeOK, ConnectionType
<1>2. session' \in [Agent -> Connection \cup {0}]
  BY <1>1 DEF LeaveConnection
<1>3. connection' \in [Connection -> ConnectionType]
  <2>1. <<>> \in Seq(FromServer)
    OBVIOUS
  <2>2. connection' = [connection EXCEPT ![c].closed = TRUE, ![c].up = FALSE, ![c].to_agent = <<>>]
    BY DEF LeaveConnection
  <2> DEFINE r == [connection[c] EXCEPT !.closed = TRUE, !.up = FALSE, !.to_agent = <<>>]
  <2>3. r \in ConnectionType
    BY <1>1, <2>1, Zenon DEF ConnectionType
  <2>4. connection' = [connection EXCEPT ![c] = r]
    BY <1>1, <2>2, Zenon
  <2> HIDE DEF c, r
  <2> QED
    BY <1>1, <2>3, <2>4
<1>4. astray' \in SUBSET Instance
  <2>1. Range(connection[c].to_agent) \in SUBSET FromServer
    BY <1>1, InRange DEF ConnectionType
  <2>2. Deletions(Range(connection[c].to_agent)) \in SUBSET Instance
    BY <2>1, AstrayTypes
  <2> QED
    BY <1>1, <2>2 DEF LeaveConnection
<1> QED
  BY <1>2, <1>3, <1>4, ZenonT(30)

\* Faults, clients and new connections.
LEMMA EnvironmentTypes ==
  ASSUME TypeOK,
         \/ RequestUpdate
         \/ \E c \in Connection : Fail(c)
         \/ \E a \in Agent : Connect(a) \/ Disconnect(a) \/ Crash(a)
  PROVE  TypeOK'
<1>1. /\ connection \in [Connection -> ConnectionType] /\ session \in [Agent -> Connection \cup {0}]
      /\ agent_senders \in [Agent -> Connection \cup {0}]
  BY DEF TypeOK, ConnectionType
<1>2. CASE RequestUpdate
  <2>1. PICK u \in Update : to_server' = Append(to_server, UpdateState("other", u))
    BY <1>2 DEF RequestUpdate
  <2>2. u \in StateUpdate /\ "other" \in Sender
    BY ClusterAssumption, Zenon DEF StateUpdate, Sender
  <2>3. to_server' \in Seq(ToServer)
    BY <2>1, <2>2, MessageTypes DEF TypeOK, ServerTypeOK
  <2> QED
    BY <1>2, <2>3, Zenon DEF RequestUpdate, TypeOK, ServerTypeOK, serverVars, stateVars, connVars, agentVars
<1>3. ASSUME NEW c \in Connection, Fail(c) PROVE TypeOK'
  <2>1. connection' \in [Connection -> ConnectionType]
    BY <1>1, <1>3, ZenonT(30) DEF Fail, NetworkFails, ConnectionType
  <2> QED
    BY <1>3, <2>1 DEF Fail, NetworkFails, TypeOK, ServerTypeOK, ConnectionType, serverVars, stateVars, agentVars
<1>4. ASSUME NEW a \in Agent, Connect(a) PROVE TypeOK'
  <2>1. PICK c \in Connection :
          /\ connection' = [connection EXCEPT ![c] =
               [Unused EXCEPT !.agent = a, !.task = "hello", !.up = TRUE]]
          /\ agent_senders' = [agent_senders EXCEPT ![a] = c] /\ session' = [session EXCEPT ![a] = c]
    BY <1>4, Zenon DEF Connect, connect_agent
  <2>2. [Unused EXCEPT !.agent = a, !.task = "hello", !.up = TRUE] \in ConnectionType
    <3>1. <<>> \in Seq(FromServer) /\ <<>> \in Seq(ToServer)
      OBVIOUS
    <3> QED
      BY <3>1, Zenon DEF Unused, ConnectionType
  <2>3. connection' \in [Connection -> ConnectionType]
    BY <1>1, <2>1, <2>2
  <2>4. /\ agent_senders' \in [Agent -> Connection \cup {0}] /\ session' \in [Agent -> Connection \cup {0}]
    BY <1>1, <2>1
  <2> QED
    BY <1>4, <2>3, <2>4, Zenon
       DEF Connect, connect_agent, TypeOK, ServerTypeOK, ConnectionType, serverVars, stateVars, agentVars
<1>5. ASSUME NEW a \in Agent, Disconnect(a) PROVE TypeOK'
  <2>1. session[a] # 0 /\ LeaveConnection(a, {}) /\ {} \in SUBSET Instance
    BY <1>5, Zenon DEF Disconnect, ClientLosesConnection
  <2>2. /\ session' \in [Agent -> Connection \cup {0}]
        /\ connection' \in [Connection -> ConnectionType] /\ astray' \in SUBSET Instance
    BY <2>1, LeavingTypes
  <2>3. greeted' \in [Agent -> BOOLEAN]
    BY <1>5 DEF Disconnect, TypeOK
  <2> QED
    BY <1>5, <2>2, <2>3, Zenon DEF Disconnect, TypeOK, ServerTypeOK, ConnectionType, serverVars, stateVars
<1>6. ASSUME NEW a \in Agent, Crash(a) PROVE TypeOK'
  <2> DEFINE containers == instance_names(Own(a)) \cup leaving[a] \cup leftovers[a]
  <2>1. Own(a) \in SUBSET Workload
    BY DEF Own, TypeOK
  <2>2. containers \in SUBSET Instance
    BY <2>1, InstanceNames DEF TypeOK
  <2>3. PICK kept \in SUBSET containers :
          leftovers' = [leftovers EXCEPT ![a] = kept] /\ LeaveConnection(a, containers \ kept)
    BY <1>6, Zenon DEF Crash
  <2> HIDE DEF containers
  <2>4. session[a] # 0 /\ containers \ kept \in SUBSET Instance
    BY <1>6, <2>2, Zenon DEF Crash
  <2>5. /\ session' \in [Agent -> Connection \cup {0}]
        /\ connection' \in [Connection -> ConnectionType] /\ astray' \in SUBSET Instance
    BY <2>3, <2>4, LeavingTypes
  <2>6. leftovers' \in [Agent -> SUBSET Instance]
    BY <2>2, <2>3, Zenon DEF TypeOK
  <2>7. /\ view' \in [Agent -> SUBSET Workload] /\ passed_over' \in [Agent -> SUBSET Workload]
        /\ leaving' \in [Agent -> SUBSET Instance] /\ unreported' \in [Agent -> SUBSET Instance]
        /\ greeted' \in [Agent -> BOOLEAN]
    BY <1>6 DEF Crash, TypeOK
  <2> QED
    BY <1>6, <2>5, <2>6, <2>7, Zenon DEF Crash, TypeOK, ServerTypeOK, ConnectionType, serverVars, stateVars
<1> QED
  BY <1>2, <1>3, <1>4, <1>5, <1>6, ZenonT(30)

\* The distribution of the server's messages.
LEMMA DistributeTypes ==
  ASSUME TypeOK, Distribute
  PROVE  TypeOK'
<1> DEFINE m == Head(to_agents)
<1>1. /\ to_agents \in Seq(FromServer) /\ to_agents # <<>> /\ to_agents' = Tail(to_agents)
      /\ Deliver(m) /\ UNCHANGED <<serverVars, to_server, agent_senders, session, agentVars>>
  BY DEF Distribute, forward_from_server, TypeOK, ServerTypeOK
<1>2. m \in FromServer /\ to_agents' \in Seq(FromServer)
  BY <1>1
<1> HIDE DEF m
<1>3. \A a : ForAgent(m, a) \in Seq(FromServer)
  <2> SUFFICES ASSUME NEW a PROVE ForAgent(m, a) \in Seq(FromServer)
    OBVIOUS
  <2>0. <<>> \in Seq(FromServer)
    OBVIOUS
  <2>1. CASE ForAgent(m, a) = <<>>
    BY <2>0, <2>1
  <2>2. CASE ForAgent(m, a) # <<>>
    <3>1. PICK x \in FromServer : ForAgent(m, a) = <<x>>
      BY <1>2, <2>2, PartEffect
    <3>2. <<x>> \in Seq(FromServer)
      OBVIOUS
    <3> QED
      BY <3>1, <3>2
  <2> QED
    BY <2>1, <2>2
<1>4. \A a : Deletions(Range(ForAgent(m, a))) \in SUBSET Instance
  BY <1>3, InRange, AstrayTypes
<1>5. astray' \in SUBSET Instance
  BY <1>1, <1>4 DEF Deliver, TypeOK
<1>6. connection' \in [Connection -> ConnectionType]
  <2> DEFINE new(c) == [connection[c] EXCEPT !.to_agent = @ \o ForAgent(m, connection[c].agent)]
             goes(c) == connection[c].agent \in Agent /\ agent_senders[connection[c].agent] = c
                        /\ Reaches(connection[c].agent)
  <2>1. connection' = [c \in Connection |-> IF goes(c) THEN new(c) ELSE connection[c]]
    BY <1>1 DEF Deliver
  <2>2. ASSUME NEW c \in Connection PROVE connection[c] \in ConnectionType /\ new(c) \in ConnectionType
    <3>1. connection[c] \in ConnectionType
      BY Zenon DEF TypeOK, ConnectionType
    <3>2. connection[c].to_agent \o ForAgent(m, connection[c].agent) \in Seq(FromServer)
      BY <1>3, <3>1 DEF ConnectionType
    <3> QED
      BY <3>1, <3>2, Zenon DEF ConnectionType
  <2> HIDE DEF new, goes
  <2> QED
    BY <2>1, <2>2
<1> QED
  BY <1>1, <1>2, <1>5, <1>6, Zenon
     DEF TypeOK, ServerTypeOK, ConnectionType, serverVars, stateVars, agentVars

\* What an agent makes of a hello and of an update.
LEMMA HandlerTypes ==
  ASSUME TypeOK, NEW a \in Agent, NEW m \in FromServer,
         \/ m.kind = "ServerHello" /\ handle_server_hello(a, m.added)
         \/ m.kind = "UpdateWorkload" /\ handle_update_workload(a, m.added, m.deleted)
  PROVE  /\ view' \in [Agent -> SUBSET Workload] /\ passed_over' \in [Agent -> SUBSET Workload]
         /\ leftovers' \in [Agent -> SUBSET Instance] /\ leaving' \in [Agent -> SUBSET Instance]
         /\ unreported' \in [Agent -> SUBSET Instance] /\ greeted' \in [Agent -> BOOLEAN]
         /\ astray' \in SUBSET Instance
<1>1. /\ view \in [Agent -> SUBSET Workload] /\ passed_over \in [Agent -> SUBSET Workload]
      /\ leftovers \in [Agent -> SUBSET Instance] /\ leaving \in [Agent -> SUBSET Instance]
      /\ unreported \in [Agent -> SUBSET Instance] /\ greeted \in [Agent -> BOOLEAN]
      /\ astray \in SUBSET Instance
  BY DEF TypeOK
<1>2. Own(a) \in SUBSET Workload
  BY <1>1 DEF Own
<1>3. ASSUME NEW gone \in SUBSET Instance, NEW started \in SUBSET Instance, TellLoops(a, gone, started)
      PROVE  leaving' \in [Agent -> SUBSET Instance] /\ unreported' \in [Agent -> SUBSET Instance]
  BY <1>1, <1>3, Zenon DEF TellLoops
<1>4. CASE m.kind = "ServerHello" /\ handle_server_hello(a, m.added)
  <2> DEFINE W == m.added
             unneeded == {v \in Own(a) : v.name \notin names(W)}
             unknown == {i \in leftovers[a] : i.name \notin names(Own(a))}
  <2>1. W \in SUBSET Workload
    BY <1>4, FromServerParts
  <2>2. PICK missed \in SUBSET {v \in unneeded : instance_name(v) \in unreported[a]} :
          /\ view' = [view EXCEPT ![a] = W]
          /\ passed_over' = [passed_over EXCEPT ![a] = missed]
          /\ leftovers' = [leftovers EXCEPT ![a] = {}]
          /\ TellLoops(a, (instance_names(Own(a) \ missed) \cup unknown) \ instance_names(W),
                       instance_names(W))
          /\ greeted' = [greeted EXCEPT ![a] = TRUE]
          /\ astray' = astray \cup (leftovers[a] \ (unknown \cup instance_names(W)))
    BY <1>4, Zenon DEF handle_server_hello
  <2>3. missed \in SUBSET Workload /\ unknown \in SUBSET Instance /\ leftovers[a] \in SUBSET Instance
    BY <1>1, <1>2, Zenon
  <2>4. instance_names(W) \in SUBSET Instance /\ instance_names(Own(a) \ missed) \in SUBSET Instance
    BY <1>2, <2>1, InstanceNames, Zenon
  <2> HIDE DEF W, unknown
  <2>5. leaving' \in [Agent -> SUBSET Instance] /\ unreported' \in [Agent -> SUBSET Instance]
    <3> DEFINE gone == (instance_names(Own(a) \ missed) \cup unknown) \ instance_names(W)
    <3>1. gone \in SUBSET Instance
      BY <2>3, <2>4, ZenonT(30)
    <3>2. TellLoops(a, gone, instance_names(W))
      BY <2>2
    <3> HIDE DEF gone
    <3> QED
      BY <1>3, <2>4, <3>1, <3>2, Zenon
  <2>6. view' \in [Agent -> SUBSET Workload] /\ passed_over' \in [Agent -> SUBSET Workload]
    BY <1>1, <2>1, <2>2, <2>3
  <2>7. leftovers' \in [Agent -> SUBSET Instance] /\ greeted' \in [Agent -> BOOLEAN]
    BY <1>1, <2>2
  <2>8. astray' \in SUBSET Instance
    BY <1>1, <2>2, <2>3
  <2> QED
    BY <2>5, <2>6, <2>7, <2>8, ZenonT(30)
<1>5. CASE m.kind = "UpdateWorkload" /\ handle_update_workload(a, m.added, m.deleted)
  <2> DEFINE A == m.added
             D == m.deleted
             touched == names(A) \cup {d.instance.name : d \in D}
             old == {v \in Own(a) : v.name \in touched}
             unknown == {d.instance : d \in {e \in D : e.instance.name \notin names(old)}}
             unanswered == {i \in unknown : i.name \in names(A)}
  <2>1. A \in SUBSET Workload /\ D \in SUBSET DeletedWorkload
    BY <1>5, FromServerParts
  <2>2. /\ view' = [view EXCEPT ![a] = {v \in @ : v.name \notin touched} \cup A]
        /\ passed_over' = [passed_over EXCEPT ![a] = {v \in @ : v.name \notin touched}]
        /\ TellLoops(a, instance_names(old) \cup (unknown \ unanswered), instance_names(A))
        /\ astray' = astray \cup unanswered
        /\ UNCHANGED <<leftovers, greeted>>
    BY <1>5, Zenon DEF handle_update_workload
  <2>3. unknown \in SUBSET Instance
    <3>1. \A d \in D : d.instance \in Instance
      BY <2>1, Zenon DEF DeletedWorkload
    <3> QED
      BY <3>1, Zenon
  <2>4. unanswered \in SUBSET unknown /\ old \in SUBSET Workload
    BY <1>2, ZenonT(30)
  <2>5. instance_names(old) \in SUBSET Instance /\ instance_names(A) \in SUBSET Instance
    BY <2>1, <2>4, InstanceNames
  <2> HIDE DEF touched, old, unknown, unanswered, A, D
  <2>6. leaving' \in [Agent -> SUBSET Instance] /\ unreported' \in [Agent -> SUBSET Instance]
    <3> DEFINE gone == instance_names(old) \cup (unknown \ unanswered)
    <3>1. gone \in SUBSET Instance
      BY <2>3, <2>5, Zenon
    <3>2. TellLoops(a, gone, instance_names(A))
      BY <2>2
    <3> HIDE DEF gone
    <3> QED
      BY <1>3, <2>5, <3>1, <3>2
  <2>7. view' \in [Agent -> SUBSET Workload] /\ passed_over' \in [Agent -> SUBSET Workload]
    BY <1>1, <2>1, <2>2
  <2>8. astray' \in SUBSET Instance
    BY <1>1, <2>2, <2>3, <2>4
  <2> QED
    BY <1>1, <2>2, <2>6, <2>7, <2>8, ZenonT(30)
<1> QED
  BY <1>4, <1>5

\* An agent's steps.
LEMMA AgentTypes ==
  ASSUME TypeOK, NEW a \in Agent, AgentStep(a)
  PROVE  TypeOK'
<1> DEFINE c == session[a]
<1>1. /\ connection \in [Connection -> ConnectionType] /\ astray \in SUBSET Instance
      /\ c # 0 => c \in Connection
  BY DEF TypeOK, ConnectionType
<1>2. CASE execute_from_server_command(a)
  <2> DEFINE q == connection[c].to_agent
             m == Head(q)
  <2>1. /\ c # 0 /\ q # <<>> /\ connection' = [connection EXCEPT ![c].to_agent = Tail(@)]
        /\ UNCHANGED <<serverVars, to_server, to_agents, agent_senders, session>>
        /\ \/ m.kind = "ServerHello" /\ handle_server_hello(a, m.added)
           \/ m.kind = "UpdateWorkload" /\ handle_update_workload(a, m.added, m.deleted)
           \/ m.kind = "UpdateWorkloadState" /\ UNCHANGED <<agentVars, astray>>
    BY <1>2 DEF execute_from_server_command
  <2>2. connection[c] \in ConnectionType
    BY <1>1, <2>1
  <2>3. q \in Seq(FromServer)
    BY <2>2 DEF ConnectionType
  <2>4. m \in FromServer /\ Tail(q) \in Seq(FromServer)
    BY <2>1, <2>3
  <2>5. connection' \in [Connection -> ConnectionType]
    <3> DEFINE r == [connection[c] EXCEPT !.to_agent = Tail(q)]
    <3>1. r \in ConnectionType
      BY <2>2, <2>4, Zenon DEF ConnectionType
    <3>2. connection' = [connection EXCEPT ![c] = r]
      BY <1>1, <2>1
    <3> HIDE DEF c, r
    <3> QED
      BY <1>1, <2>1, <3>1, <3>2
  <2> HIDE DEF m, q, c
  <2>6. CASE m.kind = "UpdateWorkloadState" /\ UNCHANGED <<agentVars, astray>>
    BY <2>1, <2>5, <2>6 DEF TypeOK, ServerTypeOK, ConnectionType, serverVars, stateVars, agentVars
  <2>7. CASE \/ m.kind = "ServerHello" /\ handle_server_hello(a, m.added)
             \/ m.kind = "UpdateWorkload" /\ handle_update_workload(a, m.added, m.deleted)
    <3>1. /\ view' \in [Agent -> SUBSET Workload] /\ passed_over' \in [Agent -> SUBSET Workload]
          /\ leftovers' \in [Agent -> SUBSET Instance] /\ leaving' \in [Agent -> SUBSET Instance]
          /\ unreported' \in [Agent -> SUBSET Instance] /\ greeted' \in [Agent -> BOOLEAN]
          /\ astray' \in SUBSET Instance
      BY <2>4, <2>7, HandlerTypes
    <3> QED
      BY <2>1, <2>5, <3>1 DEF TypeOK, ServerTypeOK, ConnectionType, serverVars, stateVars
  <2> QED
    BY <2>1, <2>6, <2>7, Zenon
<1>3. ASSUME NEW x \in WorkloadState, Send(a, UpdateWorkloadState({x}))
      PROVE  connection' \in [Connection -> ConnectionType] /\ astray' \in SUBSET Instance
  <2> DEFINE m == UpdateWorkloadState({x})
  <2>1. m \in ToServer
    BY MessageTypes
  <2>2. Reports({m}) \in SUBSET Instance
    BY <2>1, AstrayTypes
  <2>3. /\ c # 0
        /\ \/ connection' = [connection EXCEPT ![c].from_agent = Append(@, m)] /\ UNCHANGED astray
           \/ astray' = astray \cup Reports({m}) /\ UNCHANGED connection
    BY <1>3, Zenon DEF Send
  <2> HIDE DEF m
  <2>4. CASE connection' = [connection EXCEPT ![c].from_agent = Append(@, m)] /\ UNCHANGED astray
    <3> DEFINE r == [connection[c] EXCEPT !.from_agent = Append(@, m)]
    <3>1. connection[c] \in ConnectionType
      BY <1>1, <2>3
    <3>2. r \in ConnectionType
      <4>1. connection[c].from_agent \in Seq(ToServer)
        BY <3>1 DEF ConnectionType
      <4>2. Append(connection[c].from_agent, m) \in Seq(ToServer)
        BY <2>1, <4>1
      <4> QED
        BY <3>1, <4>2, Zenon DEF ConnectionType
    <3>3. connection' = [connection EXCEPT ![c] = r]
      BY <1>1, <2>4
    <3> HIDE DEF c, r
    <3> QED
      BY <1>1, <2>3, <2>4, <3>2, <3>3
  <2>5. CASE astray' = astray \cup Reports({m}) /\ UNCHANGED connection
    BY <1>1, <2>2, <2>5, Zenon
  <2> QED
    BY <2>3, <2>4, <2>5, Zenon
<1>4. CASE ReportRunning(a)
  <2>1. PICK i \in unreported[a] :
          /\ Send(a, UpdateWorkloadState({<<i, "Running">>}))
          /\ unreported' = [unreported EXCEPT ![a] = @ \ {i}]
    BY <1>4, Zenon DEF ReportRunning
  <2>2. <<i, "Running">> \in WorkloadState
    BY DEF TypeOK, WorkloadState, ExecutionState
  <2>3. connection' \in [Connection -> ConnectionType] /\ astray' \in SUBSET Instance
    BY <1>3, <2>1, <2>2
  <2>4. unreported' \in [Agent -> SUBSET Instance]
    BY <2>1 DEF TypeOK
  <2> QED
    BY <1>4, <2>3, <2>4, Zenon DEF ReportRunning, TypeOK, ServerTypeOK, ConnectionType, serverVars, stateVars
<1>5. CASE ReportRemoved(a)
  <2>1. PICK i \in leaving[a] :
          /\ Send(a, UpdateWorkloadState({<<i, "Removed">>}))
          /\ leaving' = [leaving EXCEPT ![a] = @ \ {i}]
    BY <1>5, Zenon DEF ReportRemoved
  <2>2. <<i, "Removed">> \in WorkloadState
    BY DEF TypeOK, WorkloadState
  <2>3. connection' \in [Connection -> ConnectionType] /\ astray' \in SUBSET Instance
    BY <1>3, <2>1, <2>2
  <2>4. leaving' \in [Agent -> SUBSET Instance]
    BY <2>1, Zenon DEF TypeOK
  <2> QED
    BY <1>5, <2>3, <2>4, Zenon DEF ReportRemoved, TypeOK, ServerTypeOK, ConnectionType, serverVars, stateVars
<1> QED
  BY <1>2, <1>4, <1>5, ZenonT(30) DEF AgentStep

-----------------------------------------------------------------------------
(* The inductive invariant *)

\* A hello that the middleware has not distributed yet, and what follows it, lead
\* the agent to what is wanted of it from whatever it sees then.
QueuedHello ==
  \A a \in agent_map : HelloIn(to_agents, a) =>
    \A V \in View : LastOf(At(V, to_agents, a)) = Wanted(a)

\* An agent that is attached and known, and was greeted or will be, comes to what is
\* wanted of it.
Greets(a) == HelloIn(Messages(a), a)
Known(a) == Attached(a) /\ a \in agent_map /\ (greeted[a] \/ Greets(a))
Comes(a) == Known(a) => LastOf(States(a)) = Wanted(a)
OnTheWay == \A a \in Agent : Comes(a)

\* The inductive invariant.
Inv == TypeOK /\ Owned /\ Addressed /\ QueuedHello /\ OnTheWay

\* The messages on their way to an agent, and the views it has and comes to.
LEMMA WayTypes ==
  ASSUME TypeOK, NEW a \in Agent, session[a] # 0
  PROVE  /\ session[a] \in Connection /\ connection[session[a]] \in ConnectionType
         /\ connection[session[a]].to_agent \in Seq(FromServer) /\ to_agents \in Seq(FromServer)
         /\ Messages(a) \in Seq(FromServer) /\ view[a] \in View
         /\ States(a) \in Views /\ States(a)[1] = view[a]
<1>1. session[a] \in Connection /\ connection[session[a]] \in ConnectionType
  BY Zenon DEF TypeOK, ConnectionType
<1>2. connection[session[a]].to_agent \in Seq(FromServer) /\ to_agents \in Seq(FromServer) /\ view[a] \in View
  BY <1>1, Zenon DEF ConnectionType, TypeOK, ServerTypeOK, View
<1>3. Messages(a) \in Seq(FromServer)
  BY <1>2 DEF Messages
<1>4. States(a) = At(view[a], Messages(a), a)
  BY DEF States, At
<1> QED
  BY <1>1, <1>2, <1>3, <1>4, AtType, FirstView, SMTT(30)

\* A step that makes no difference to agent a.
Stays(a) ==
  /\ Attached(a)' <=> Attached(a)
  /\ a \in agent_map' <=> a \in agent_map
  /\ greeted'[a] = greeted[a] /\ view'[a] = view[a] /\ Wanted(a)' = Wanted(a)
  /\ Attached(a) => States(a)' = States(a) /\ (Greets(a)' => Greets(a))

\* Such a step leaves the agent on its way.
LEMMA StaysOnItsWay == ASSUME NEW a, Stays(a), Comes(a) PROVE Comes(a)'
BY Zenon DEF Stays, Comes, Known

\* A step that leaves the agent and its connection as they are.
Untouched(a) ==
  /\ view'[a] = view[a] /\ greeted'[a] = greeted[a]
  /\ session'[a] = session[a] /\ agent_senders'[a] = agent_senders[a]
  /\ session[a] # 0 => /\ connection'[session[a]].up = connection[session[a]].up
                       /\ connection'[session[a]].to_agent = connection[session[a]].to_agent

\* A step that leaves what the server wants, whom it knows and what it has sent.
ServerSame == UNCHANGED <<rendered_workloads, agent_map, to_agents>>

\* With neither of them touched, nothing changes for the agent.
LEMMA UntouchedStays == ASSUME NEW a, Untouched(a), ServerSame PROVE Stays(a)
<1>1. Attached(a)' <=> Attached(a)
  BY DEF Untouched, Attached
<1>2. Wanted(a)' = Wanted(a) /\ agent_map' = agent_map
  BY DEF ServerSame, Wanted
<1>3. ASSUME Attached(a) PROVE Messages(a)' = Messages(a)
  BY <1>3, Zenon DEF Untouched, Attached, Messages, ServerSame
<1>4. ASSUME Attached(a) PROVE States(a)' = States(a) /\ (Greets(a)' => Greets(a))
  BY <1>3, <1>4, Zenon DEF Untouched, States, Greets
<1> QED
  BY <1>1, <1>2, <1>4, Zenon DEF Untouched, Stays

\* Owned and Addressed are about each connection by itself.
OwnLine(c) ==
  /\ connection[c].task # "unused" => connection[c].agent \in Agent
  /\ \A n \in 1..Len(connection[c].to_agent) :
       connection[c].to_agent[n].kind \in {"ServerHello", "UpdateWorkload"} =>
         ForAgent(connection[c].to_agent[n], connection[c].agent) = <<connection[c].to_agent[n]>>

\* A step that leaves what connection c is for and what is on its way.
SameLine(c) ==
  /\ connection'[c].agent = connection[c].agent /\ connection'[c].to_agent = connection[c].to_agent
  /\ connection'[c].task # "unused" => connection[c].task # "unused"

\* Such a connection stays well addressed.
LEMMA SameLineOwn == ASSUME NEW c, SameLine(c), OwnLine(c) PROVE OwnLine(c)'
BY Zenon DEF SameLine, OwnLine

\* Owned and Addressed, put together from the connections.
LEMMA OwnLines ==
  ASSUME TypeOK
  PROVE  Owned /\ Addressed <=>
           /\ \A c \in Connection : OwnLine(c)
           /\ \A a \in Agent : session[a] # 0 => connection[session[a]].agent = a
           /\ \A a \in Agent : greeted[a] => session[a] # 0
BY DEF Owned, Addressed, OwnLine

\* The steps that no agent's view depends on.
LEMMA IdleStep ==
  ASSUME TypeOK, Owned, Addressed,
         \/ RequestUpdate
         \/ \E c \in Connection : agent_hello(c) \/ forward_to_server(c) \/ agent_gone(c) \/ ForwardEnds(c)
         \/ \E a \in Agent : ReportRunning(a) \/ ReportRemoved(a),
         UNCHANGED <<view, greeted>>, TypeOK'
  PROVE  ServerSame /\ Owned' /\ Addressed' /\ \A a \in Agent : Untouched(a)
<1>1. connection \in [Connection -> ConnectionType]
  BY Zenon DEF TypeOK, ConnectionType
<1>2. ServerSame /\ UNCHANGED <<session, agent_senders>>
  BY Zenon DEF RequestUpdate, agent_hello, forward_to_server, agent_gone, ForwardEnds, ReportRunning, ReportRemoved,
         ServerSame, serverVars, stateVars, connVars
<1>3. \A c \in Connection : SameLine(c) /\ connection'[c].up = connection[c].up
  <2>1. CASE RequestUpdate
    BY <2>1, Zenon DEF RequestUpdate, connVars, SameLine
  <2>2. ASSUME NEW c \in Connection, agent_hello(c) \/ forward_to_server(c) \/ agent_gone(c) \/ ForwardEnds(c)
        PROVE  \A d \in Connection : SameLine(d) /\ connection'[d].up = connection[d].up
    <3>1. CASE agent_hello(c)
      BY <1>1, <3>1 DEF agent_hello, SameLine, ConnectionType
    <3>2. CASE forward_to_server(c)
      BY <1>1, <3>2 DEF forward_to_server, SameLine, ConnectionType
    <3>3. CASE agent_gone(c)
      BY <1>1, <3>3 DEF agent_gone, SameLine, ConnectionType
    <3>4. CASE ForwardEnds(c)
      BY <1>1, <3>4 DEF ForwardEnds, SameLine, ConnectionType
    <3> QED
      BY <2>2, <3>1, <3>2, <3>3, <3>4
  <2>3. ASSUME NEW a \in Agent, NEW m, Send(a, m)
        PROVE  \A d \in Connection : SameLine(d) /\ connection'[d].up = connection[d].up
    <3>1. \/ connection' = connection
          \/ connection' = [connection EXCEPT ![session[a]].from_agent = Append(@, m)]
      BY <2>3, Zenon DEF Send
    <3>2. CASE connection' = connection
      BY <3>2 DEF SameLine
    <3>3. ASSUME NEW c, connection' = [connection EXCEPT ![c].from_agent = Append(@, m)]
          PROVE  \A d \in Connection : SameLine(d) /\ connection'[d].up = connection[d].up
      BY <1>1, <3>3 DEF SameLine, ConnectionType
    <3> QED
      BY <3>1, <3>2, <3>3
  <2>4. ASSUME NEW a \in Agent, ReportRunning(a) \/ ReportRemoved(a) PROVE \E m : Send(a, m)
    BY <2>4, Zenon DEF ReportRunning, ReportRemoved
  <2> QED
    BY <2>1, <2>2, <2>3, <2>4, Zenon
<1>4. \A a \in Agent : session[a] # 0 => session[a] \in Connection
  BY DEF TypeOK
<1>5. \A a \in Agent : Untouched(a)
  BY <1>2, <1>3, <1>4, Zenon DEF Untouched, SameLine
<1>6. \A c \in Connection : OwnLine(c)'
  BY <1>3, OwnLines, SameLineOwn, Zenon
<1>7. Owned' /\ Addressed'
  <2>1. \A a \in Agent : session[a] # 0 => connection'[session[a]].agent = a
    BY <1>3, <1>4, Zenon DEF Owned, SameLine
  <2>2. /\ \A a \in Agent : (session[a] # 0 => connection[session[a]].agent = a)'
        /\ \A a \in Agent : (greeted[a] => session[a] # 0)'
    BY <1>2, <2>1, Zenon DEF Owned
  <2> QED
    BY <1>6, <2>2, Zenon DEF Owned, Addressed, OwnLine
<1> QED
  BY <1>2, <1>5, <1>7

\* A new connection of agent b.
LEMMA ConnectStep ==
  ASSUME TypeOK, Owned, Addressed, TypeOK', NEW b \in Agent, Connect(b)
  PROVE  /\ ServerSame /\ Owned' /\ Addressed' /\ \A a \in Agent \ {b} : Untouched(a)
         /\ view' = view /\ ~greeted[b] /\ ~greeted'[b]
         /\ session'[b] # 0 /\ connection'[session'[b]].to_agent = <<>>
<1>1. /\ connection \in [Connection -> ConnectionType] /\ session \in [Agent -> Connection \cup {0}]
      /\ agent_senders \in [Agent -> Connection \cup {0}] /\ 0 \notin Connection
  <2>1. 0 \notin Connection
    BY ONLY ClusterAssumption DEF Connection
  <2> QED
    BY <2>1, Zenon DEF TypeOK, ConnectionType
<1>2. PICK c \in Connection :
        /\ connection[c] = Unused
        /\ connection' = [connection EXCEPT ![c] =
             [Unused EXCEPT !.agent = b, !.task = "hello", !.up = TRUE]]
        /\ agent_senders' = [agent_senders EXCEPT ![b] = c] /\ session' = [session EXCEPT ![b] = c]
  BY Zenon DEF Connect, connect_agent
<1>3. ServerSame /\ view' = view /\ greeted' = greeted /\ session[b] = 0
  BY Zenon DEF Connect, connect_agent, ServerSame, agentVars, serverVars, stateVars
<1>4. ~greeted[b]
  BY <1>3 DEF Owned
<1>5. /\ \A d \in Connection \ {c} : connection'[d] = connection[d]
      /\ connection'[c].agent = b /\ connection'[c].to_agent = <<>>
  BY <1>1, <1>2 DEF Unused
<1>6. connection[c].agent = NoAgent
  BY <1>2 DEF Unused
<1>7. \A a \in Agent : session[a] # 0 => session[a] \in Connection \ {c}
  BY <1>1, <1>6, WorkloadAssumption, Zenon DEF Owned
<1>8. \A a \in Agent \ {b} : session'[a] = session[a] /\ agent_senders'[a] = agent_senders[a]
  BY <1>1, <1>2
<1>9. session'[b] = c /\ c # 0
  BY <1>1, <1>2
<1>10. \A a \in Agent \ {b} : Untouched(a)
  BY <1>3, <1>5, <1>7, <1>8, Zenon DEF Untouched
<1>11. \A d \in Connection : OwnLine(d)'
  <2>1. ASSUME NEW d \in Connection \ {c} PROVE OwnLine(d)'
    BY <1>5, <2>1, Zenon DEF OwnLine, Owned, Addressed
  <2>2. OwnLine(c)'
    <3>1. 1..Len(connection'[c].to_agent) = {}
      BY <1>5, SMTT(30)
    <3> QED
      BY <1>5, <3>1 DEF OwnLine
  <2> QED
    BY <2>1, <2>2, Zenon
<1>12. \A a \in Agent : session'[a] # 0 => connection'[session'[a]].agent = a
  <2> SUFFICES ASSUME NEW a \in Agent, session'[a] # 0 PROVE connection'[session'[a]].agent = a
    BY Zenon
  <2>1. CASE a = b
    BY <1>5, <1>9, <2>1, Zenon
  <2>2. CASE a # b
    <3>1. session'[a] = session[a] /\ session[a] \in Connection \ {c}
      BY <1>7, <1>8, <2>2, Zenon
    <3>2. connection'[session[a]] = connection[session[a]] /\ connection[session[a]].agent = a
      BY <1>5, <3>1, Zenon DEF Owned
    <3> QED
      BY <3>1, <3>2, Zenon
  <2> QED
    BY <2>1, <2>2
<1>13. \A a \in Agent : greeted'[a] => session'[a] # 0
  BY <1>3, <1>8, <1>9, ZenonT(30) DEF Owned
<1>14. Owned' /\ Addressed'
  BY <1>11, <1>12, <1>13 DEF Owned, Addressed, OwnLine
<1> QED
  BY <1>3, <1>4, <1>5, <1>9, <1>10, <1>14, Zenon

\* A connection is left, or fails: its agent is not attached then, unless it has
\* another connection.
LEMMA CutStep ==
  ASSUME TypeOK, Owned, Addressed, TypeOK',
         \/ \E b \in Agent : Disconnect(b) \/ Crash(b)
         \/ \E c \in Connection : Fail(c) \/ (Middleware(c) /\ ForwardFails(c))
  PROVE  /\ ServerSame /\ Owned' /\ Addressed'
         /\ \E b \in Agent : (~Attached(b)' \/ Untouched(b)) /\ \A a \in Agent \ {b} : Untouched(a)
<1>1. /\ connection \in [Connection -> ConnectionType] /\ session \in [Agent -> Connection \cup {0}]
      /\ agent_senders \in [Agent -> Connection \cup {0}]
      /\ view \in [Agent -> SUBSET Workload] /\ greeted \in [Agent -> BOOLEAN]
  BY Zenon DEF TypeOK, ConnectionType
<1>2. ServerSame
  BY Zenon DEF Disconnect, Crash, Fail, NetworkFails, ForwardFails, ServerSame, serverVars, stateVars
<1> DEFINE Only(c) == /\ \A d \in Connection \ {c} : connection'[d] = connection[d]
                      /\ connection'[c].agent = connection[c].agent
                      /\ connection'[c].task # "unused" => connection[c].task # "unused"
                      /\ \/ connection'[c].to_agent = connection[c].to_agent
                         \/ connection'[c].to_agent = <<>>
<1>3. ASSUME NEW c \in Connection, Only(c) PROVE \A d \in Connection : OwnLine(d)'
  <2>1. ASSUME NEW d \in Connection, connection'[d].to_agent = connection[d].to_agent
        PROVE  OwnLine(d)'
    <3>1. SameLine(d)
      BY <1>3, <2>1 DEF SameLine
    <3> QED
      BY <3>1, OwnLines, SameLineOwn, Zenon
  <2>2. ASSUME connection'[c].to_agent = <<>> PROVE OwnLine(c)'
    <3>1. 1..Len(connection'[c].to_agent) = {}
      BY ONLY <2>2
    <3>2. connection'[c].task # "unused" => connection'[c].agent \in Agent
      BY <1>3, Zenon DEF Owned
    <3> QED
      BY <3>1, <3>2, Zenon DEF OwnLine
  <2> QED
    BY <1>3, <2>1, <2>2
<1>4. ASSUME NEW b \in Agent, session[b] # 0, NEW U, LeaveConnection(b, U),
             agent_senders' = agent_senders, greeted' = [greeted EXCEPT ![b] = FALSE],
             \A a \in Agent \ {b} : view'[a] = view[a]
      PROVE  /\ Owned' /\ Addressed'
             /\ ~Attached(b)' /\ \A a \in Agent \ {b} : Untouched(a)
  <2> DEFINE c == session[b]
  <2>1. c \in Connection /\ connection[c].agent = b
    BY <1>1, <1>4 DEF Owned
  <2>2. /\ session' = [session EXCEPT ![b] = 0]
        /\ connection' = [connection EXCEPT ![c].closed = TRUE, ![c].up = FALSE, ![c].to_agent = <<>>]
    BY <1>4 DEF LeaveConnection
  <2>3. \A a \in Agent \ {b} : session'[a] = session[a] /\ (session[a] # 0 => session[a] \in Connection \ {c})
    BY <1>1, <2>1, <2>2 DEF Owned
  <2>4. session'[b] = 0
    BY <1>1, <2>2
  <2> HIDE DEF c
  <2>5. Only(c)
    BY <1>1, <2>1, <2>2 DEF ConnectionType
  <2>6. \A d \in Connection : OwnLine(d)'
    <3> HIDE DEF Only
    <3> QED
      BY <1>3, <2>1, <2>5, Zenon
  <2>7. \A a \in Agent \ {b} : greeted'[a] = greeted[a]
    BY <1>1, <1>4, ZenonT(30)
  <2>8. ~greeted'[b]
    BY <1>1, <1>4
  <2>9. \A a \in Agent \ {b} : Untouched(a)
    BY <1>4, <2>3, <2>5, <2>7, ZenonT(30) DEF Untouched
  <2>10. \A a \in Agent : session'[a] # 0 => connection'[session'[a]].agent = a
    BY <2>3, <2>4, <2>5, SMTT(30) DEF Owned
  <2>11. \A a \in Agent : greeted'[a] => session'[a] # 0
    BY <2>3, <2>7, <2>8 DEF Owned
  <2>12. Owned' /\ Addressed'
    BY <2>6, <2>10, <2>11, Zenon DEF Owned, Addressed, OwnLine
  <2>13. ~Attached(b)'
    BY <2>4, Zenon DEF Attached
  <2> QED
    BY <2>9, <2>12, <2>13, ZenonT(30)
<1>5. ASSUME NEW b \in Agent, Disconnect(b) \/ Crash(b)
      PROVE  /\ Owned' /\ Addressed'
             /\ ~Attached(b)' /\ \A a \in Agent \ {b} : Untouched(a)
  <2>1. /\ session[b] # 0 /\ agent_senders' = agent_senders /\ greeted' = [greeted EXCEPT ![b] = FALSE]
        /\ \E U : LeaveConnection(b, U)
    BY <1>5, Zenon DEF Disconnect, ClientLosesConnection, Crash
  <2>2. \A a \in Agent \ {b} : view'[a] = view[a]
    BY <1>1, <1>5, Zenon DEF Disconnect, Crash
  <2> QED
    BY <1>4, <2>1, <2>2, Zenon
<1>6. ASSUME NEW c \in Connection, Fail(c) \/ (Middleware(c) /\ ForwardFails(c))
      PROVE  /\ Owned' /\ Addressed'
             /\ \E b \in Agent : (~Attached(b)' \/ Untouched(b)) /\ \A a \in Agent \ {b} : Untouched(a)
  <2>1. PICK b \in Agent : connection[c].agent = b
    BY <1>6 DEF Fail, NetworkFails, ForwardFails, Owned
  <2>2. UNCHANGED <<session, view, greeted>>
    BY <1>6, ZenonT(30) DEF Fail, NetworkFails, ForwardFails, Middleware, agentVars
  <2>3. Only(c) /\ connection'[c].to_agent = connection[c].to_agent
    <3>1. CASE Fail(c)
      BY <1>1, <3>1 DEF Fail, NetworkFails, ConnectionType
    <3>2. CASE ForwardFails(c)
      BY <1>1, <3>2 DEF ForwardFails, ConnectionType
    <3> QED
      BY <1>6, <3>1, <3>2
  <2>4. /\ \A a \in Agent \ {b} : agent_senders'[a] = agent_senders[a]
        /\ agent_senders'[b] = 0 \/ ~connection'[c].up
        /\ agent_senders'[b] = 0 \/ agent_senders'[b] = agent_senders[b]
    <3>1. CASE Fail(c)
      BY <1>1, <3>1 DEF Fail, NetworkFails, ConnectionType
    <3>2. CASE ForwardFails(c)
      BY <1>1, <2>1, <3>2 DEF ForwardFails
    <3> QED
      BY <1>6, <3>1, <3>2, Zenon
  <2>5. \A a \in Agent \ {b} : session[a] # 0 => session[a] \in Connection \ {c}
    BY <1>1, <2>1 DEF Owned
  <2>6. \A a \in Agent \ {b} : Untouched(a)
    BY <2>2, <2>3, <2>4, <2>5, Zenon DEF Untouched
  <2>7. \A d \in Connection : OwnLine(d)'
    <3> HIDE DEF Only
    <3> QED
      BY <1>3, <2>3, Zenon
  <2>8. \A d \in Connection : connection'[d].agent = connection[d].agent
    BY <2>3, Zenon
  <2>9. \A a \in Agent : session'[a] # 0 => connection'[session'[a]].agent = a
    BY <1>1, <2>2, <2>8, Zenon DEF Owned
  <2>10. \A a \in Agent : greeted'[a] => session'[a] # 0
    BY <2>2, Zenon DEF Owned
  <2>11. Owned' /\ Addressed'
    BY <2>7, <2>9, <2>10, Zenon DEF Owned, Addressed, OwnLine
  <2>12. CASE agent_senders'[b] = 0 \/ session[b] = c
    <3>1. ~Attached(b)'
      BY <2>2, <2>4, <2>12 DEF Attached
    <3> QED
      BY <2>1, <2>6, <2>11, <3>1, ZenonT(30)
  <2>13. CASE agent_senders'[b] # 0 /\ session[b] # c
    <3>1. agent_senders'[b] = agent_senders[b]
      BY <2>4, <2>13, Zenon
    <3>2. session[b] # 0 => connection'[session[b]] = connection[session[b]]
      BY <1>1, <2>1, <2>3, <2>13
    <3>3. Untouched(b)
      BY <2>2, <3>1, <3>2, Zenon DEF Untouched
    <3> QED
      BY <2>1, <2>6, <2>11, <3>3, Zenon
  <2> QED
    BY <2>12, <2>13, Zenon
<1> QED
  BY <1>2, <1>5, <1>6

\* What the agent makes of a message that is its own.
LEMMA HandlerApplies ==
  ASSUME TypeOK, NEW b \in Agent, NEW m \in FromServer,
         m.kind \in {"ServerHello", "UpdateWorkload"} => ForAgent(m, b) = <<m>>,
         \/ m.kind = "ServerHello" /\ handle_server_hello(b, m.added)
         \/ m.kind = "UpdateWorkload" /\ handle_update_workload(b, m.added, m.deleted)
         \/ m.kind = "UpdateWorkloadState" /\ UNCHANGED <<agentVars, astray>>
  PROVE  /\ \A a \in Agent \ {b} : view'[a] = view[a] /\ greeted'[a] = greeted[a]
         /\ Concerns(m, b) => view'[b] = Applied(view[b], m, b)
         /\ ~Concerns(m, b) => view'[b] = view[b]
         /\ greeted'[b] <=> greeted[b] \/ (m.kind = "ServerHello" /\ m.agent = b)
<1>1. view \in [Agent -> SUBSET Workload] /\ greeted \in [Agent -> BOOLEAN]
  BY ZenonT(30) DEF TypeOK
<1>2. CASE m.kind = "ServerHello" /\ handle_server_hello(b, m.added)
  <2>1. view' = [view EXCEPT ![b] = m.added] /\ greeted' = [greeted EXCEPT ![b] = TRUE]
    BY <1>2, Zenon DEF handle_server_hello
  <2>2. m.agent = b /\ Concerns(m, b) /\ Applied(view[b], m, b) = m.added
    BY <1>2 DEF ForAgent, Concerns, Applied
  <2> QED
    BY <1>1, <1>2, <2>1, <2>2
<1>3. CASE m.kind = "UpdateWorkload" /\ handle_update_workload(b, m.added, m.deleted)
  <2> DEFINE A == {w \in m.added : w.agent = b}
             D == {d \in m.deleted : d.instance.agent = b}
             touched == names(m.added) \cup {d.instance.name : d \in m.deleted}
  <2>1. view' = [view EXCEPT ![b] = {v \in @ : v.name \notin touched} \cup m.added] /\ greeted' = greeted
    BY <1>3, Zenon DEF handle_update_workload
  <2>2. Concerns(m, b)
    <3>1. <<m>> # <<>>
      OBVIOUS
    <3> QED
      BY <1>3, <3>1, Zenon DEF Concerns
  <2>3. m.added = A /\ m.deleted = D
    <3>1. ForAgent(m, b) = <<m>> /\ ForAgent(m, b) = IF A \cup D = {} THEN <<>> ELSE <<UpdateWorkload(A, D)>>
      BY <1>3, Zenon DEF ForAgent
    <3>2. m = UpdateWorkload(A, D)
      BY <3>1, SMTT(30)
    <3>3. UpdateWorkload(A, D).added = A /\ UpdateWorkload(A, D).deleted = D
      BY DEF UpdateWorkload
    <3> HIDE DEF A, D
    <3> QED
      BY <3>2, <3>3
  <2>4. Applied(view[b], m, b) = {v \in view[b] : v.name \notin names(A) \cup {d.instance.name : d \in D}} \cup A
    BY <1>3, ZenonT(30) DEF Applied
  <2> HIDE DEF A, D
  <2>5. view'[b] = Applied(view[b], m, b)
    BY <1>1, <2>1, <2>3, <2>4
  <2> QED
    BY <1>1, <1>3, <2>1, <2>2, <2>5, Zenon
<1>4. CASE m.kind = "UpdateWorkloadState" /\ UNCHANGED <<agentVars, astray>>
  BY <1>4, Zenon DEF agentVars, Concerns
<1> QED
  BY <1>2, <1>3, <1>4, Zenon

\* The agent takes the next message.
LEMMA ExecuteStep ==
  ASSUME TypeOK, Owned, Addressed, TypeOK', NEW b \in Agent, execute_from_server_command(b)
  PROVE  /\ ServerSame /\ Owned' /\ Addressed' /\ \A a \in Agent \ {b} : Untouched(a)
         /\ Attached(b)' <=> Attached(b)
         /\ session[b] # 0 /\ session'[b] # 0
         /\ Greets(b)' \/ greeted'[b] => Greets(b) \/ greeted[b]
         /\ \/ States(b) = <<view[b]>> \o States(b)' /\ States(b)'[1] = view'[b]
            \/ States(b)' = States(b) /\ view' = view /\ greeted' = greeted
<1> DEFINE c == session[b]
           q == connection[c].to_agent
           m == Head(q)
<1>1. /\ c # 0 /\ q # <<>> /\ connection' = [connection EXCEPT ![c].to_agent = Tail(@)]
      /\ UNCHANGED <<serverVars, to_server, to_agents, agent_senders, session>>
      /\ \/ m.kind = "ServerHello" /\ handle_server_hello(b, m.added)
         \/ m.kind = "UpdateWorkload" /\ handle_update_workload(b, m.added, m.deleted)
         \/ m.kind = "UpdateWorkloadState" /\ UNCHANGED <<agentVars, astray>>
  BY Zenon DEF execute_from_server_command
<1>2. /\ c \in Connection /\ connection[c] \in ConnectionType /\ q \in Seq(FromServer)
      /\ to_agents \in Seq(FromServer) /\ Messages(b) \in Seq(FromServer) /\ view[b] \in View
      /\ connection \in [Connection -> ConnectionType] /\ connection[c].agent = b
  BY <1>1, WayTypes DEF Owned, TypeOK, ConnectionType
<1>3. m \in FromServer /\ Tail(q) \in Seq(FromServer) /\ m = q[1] /\ 1 \in 1..Len(q)
  BY <1>1, <1>2, SMTT(30)
<1>4. m.kind \in {"ServerHello", "UpdateWorkload"} => ForAgent(m, b) = <<m>>
  BY <1>2, <1>3 DEF Addressed
<1>5. ServerSame
  BY <1>1, Zenon DEF ServerSame, serverVars, stateVars
<1>6. /\ \A d \in Connection \ {c} : connection'[d] = connection[d]
      /\ connection'[c].to_agent = Tail(q) /\ connection'[c].up = connection[c].up
      /\ connection'[c].agent = connection[c].agent /\ connection'[c].task = connection[c].task
  BY <1>1, <1>2 DEF ConnectionType
<1>7. Messages(b) # <<>> /\ Head(Messages(b)) = m /\ Messages(b)' = Tail(Messages(b))
  <2>1. Messages(b) = q \o to_agents
    BY DEF Messages
  <2>2. Messages(b)' = Tail(q) \o to_agents
    BY <1>1, <1>6, Zenon DEF Messages
  <2> HIDE DEF q
  <2> QED
    BY <1>1, <1>2, <2>1, <2>2 DEF m
<1>8. \A a \in Agent \ {b} : session[a] # 0 => session[a] \in Connection \ {c}
  BY <1>2, Zenon DEF Owned, TypeOK
<1>9. Attached(b)' <=> Attached(b)
  BY <1>1, <1>6, Zenon DEF Attached
<1>10. \A d \in Connection : OwnLine(d)'
  <2>1. ASSUME NEW d \in Connection \ {c} PROVE OwnLine(d)'
    <3>1. SameLine(d)
      BY <1>6 DEF SameLine
    <3> QED
      BY <3>1, OwnLines, SameLineOwn, ZenonT(30)
  <2>2. OwnLine(c)'
    <3>1. /\ Len(q) \in Nat /\ Len(Tail(q)) = Len(q) - 1
          /\ \A n \in 1..Len(q) - 1 : Tail(q)[n] = q[n + 1] /\ n + 1 \in 1..Len(q)
      BY <1>1, <1>2
    <3>2. \A n \in 1..Len(q) : q[n].kind \in {"ServerHello", "UpdateWorkload"} => ForAgent(q[n], b) = <<q[n]>>
      BY <1>2, ZenonT(30) DEF Addressed
    <3>3. connection'[c].task # "unused" => connection'[c].agent \in Agent
      BY <1>2, <1>6 DEF Owned
    <3> DEFINE r == connection'[c].to_agent
    <3>4. r = Tail(q) /\ connection'[c].agent = b
      BY <1>2, <1>6, ZenonT(30)
    <3> HIDE DEF q, r
    <3>5. \A n \in 1..Len(r) : r[n].kind \in {"ServerHello", "UpdateWorkload"} => ForAgent(r[n], b) = <<r[n]>>
      BY <3>1, <3>2, <3>4
    <3>6. c' = c
      BY <1>1
    <3> HIDE DEF c
    <3> QED
      BY <3>3, <3>4, <3>5, <3>6, ZenonT(30) DEF OwnLine, r
  <2>3. c' = c
    BY <1>1, ZenonT(30)
  <2> HIDE DEF c
  <2> QED
    BY <2>1, <2>2, <2>3, Zenon DEF OwnLine
<1> HIDE DEF m
<1>11. /\ \A a \in Agent \ {b} : view'[a] = view[a] /\ greeted'[a] = greeted[a]
       /\ Concerns(m, b) => view'[b] = Applied(view[b], m, b)
       /\ ~Concerns(m, b) => view'[b] = view[b]
       /\ greeted'[b] <=> greeted[b] \/ (m.kind = "ServerHello" /\ m.agent = b)
  BY <1>1, <1>3, <1>4, HandlerApplies
<1>12. \A a \in Agent \ {b} : Untouched(a)
  BY <1>1, <1>6, <1>8, <1>11 DEF Untouched
<1>13. Owned' /\ Addressed'
  <2>1. \A d \in Connection : connection'[d].agent = connection[d].agent
    BY <1>2, <1>6
  <2>2. \A a \in Agent : session'[a] # 0 => connection'[session'[a]].agent = a
    BY <1>1, <2>1 DEF Owned, TypeOK
  <2>3. \A a \in Agent : greeted'[a] => session'[a] # 0
    BY <1>1, <1>11 DEF Owned
  <2> QED
    BY <1>10, <2>2, <2>3, ZenonT(30) DEF Owned, Addressed, OwnLine
<1>14. Greets(b)' \/ greeted'[b] => Greets(b) \/ greeted[b]
  <2>1. HelloIn(Messages(b), b) <=>
          (m.kind = "ServerHello" /\ m.agent = b) \/ HelloIn(Tail(Messages(b)), b)
    BY <1>2, <1>7, HelloIsIn, Zenon
  <2>2. Greets(b)' <=> HelloIn(Tail(Messages(b)), b)
    BY <1>7, ZenonT(30) DEF Greets
  <2> QED
    BY <1>11, <2>1, <2>2, Zenon DEF Greets
<1>15. States(b) = At(view[b], Messages(b), b) /\ States(b)' = At(view'[b], Tail(Messages(b)), b)
  BY <1>7 DEF States, At
<1> DEFINE V == view[b]
           ms == Messages(b)
           W == view'[b]
<1> HIDE DEF V, ms, W
<1>16. /\ Concerns(m, b) => At(V, ms, b) = <<V>> \o At(Applied(V, m, b), Tail(ms), b)
       /\ ~Concerns(m, b) => At(V, ms, b) = At(V, Tail(ms), b)
  <2>1. V \in View /\ ms \in Seq(FromServer) /\ ms # <<>> /\ Head(ms) = m
    BY <1>2, <1>7 DEF V, ms
  <2> QED
    BY <2>1, ReceivingTakes, Zenon
<1>17. CASE Concerns(m, b)
  <2>1. States(b) = <<view[b]>> \o States(b)'
    BY <1>11, <1>15, <1>17, <1>16, Zenon DEF V, ms
  <2>2. W \in View /\ Tail(ms) \in Seq(FromServer)
    BY <1>2, <1>7, SMTT(30) DEF TypeOK, View, W, ms
  <2>3. States(b)'[1] = view'[b]
    <3>1. At(W, Tail(ms), b)[1] = W
      BY <2>2, FirstView, Zenon
    <3> QED
      BY <1>15, <3>1 DEF W, ms
  <2> QED
    BY <1>1, <1>5, <1>9, <1>12, <1>13, <1>14, <2>1, <2>3
<1>18. CASE ~Concerns(m, b)
  <2>1. m.kind = "UpdateWorkloadState" /\ UNCHANGED agentVars
    BY <1>1, <1>4, <1>18 DEF Concerns
  <2>2. view' = view /\ greeted' = greeted
    BY <2>1 DEF agentVars
  <2>3. States(b)' = States(b)
    BY <1>11, <1>15, <1>18, <1>16, Zenon DEF V, ms
  <2> QED
    BY <1>1, <1>5, <1>9, <1>12, <1>13, <1>14, <2>2, <2>3
<1> QED
  BY <1>17, <1>18, Zenon

\* A message is distributed: no agent's way changes.
LEMMA DistributeStep ==
  ASSUME TypeOK, Owned, Addressed, QueuedHello, TypeOK', Distribute
  PROVE  Owned' /\ Addressed' /\ QueuedHello' /\ \A a \in Agent : Stays(a)
<1> DEFINE m == Head(to_agents)
           goes(c) == /\ connection[c].agent \in Agent /\ agent_senders[connection[c].agent] = c
                      /\ Reaches(connection[c].agent)
           part(c) == ForAgent(m, connection[c].agent)
<1>1. /\ to_agents \in Seq(FromServer) /\ to_agents # <<>> /\ to_agents' = Tail(to_agents)
      /\ m \in FromServer /\ to_agents' \in Seq(FromServer)
      /\ UNCHANGED <<rendered_workloads, agent_map, agent_senders, session, view, greeted>>
  BY DEF Distribute, forward_from_server, TypeOK, ServerTypeOK, agentVars, serverVars, stateVars
<1>2. connection \in [Connection -> ConnectionType] /\ agent_map \subseteq Agent
  BY Zenon DEF TypeOK, ServerTypeOK, ConnectionType
<1>3. connection' = [c \in Connection |->
        IF goes(c) THEN [connection[c] EXCEPT !.to_agent = @ \o part(c)] ELSE connection[c]]
  BY DEF Distribute, forward_from_server, Deliver
<1> HIDE DEF m
<1>4. ASSUME NEW c \in Connection
      PROVE  /\ connection'[c].agent = connection[c].agent /\ connection'[c].task = connection[c].task
             /\ connection'[c].up = connection[c].up
             /\ goes(c) => connection'[c].to_agent = connection[c].to_agent \o part(c)
             /\ ~goes(c) => connection'[c].to_agent = connection[c].to_agent
  <2>1. connection[c] \in ConnectionType
    BY <1>2
  <2> HIDE DEF goes, part
  <2> QED
    BY <1>3, <2>1 DEF ConnectionType
<1>5. \A a \in Agent : session[a] # 0 => session[a] \in Connection
  BY Zenon DEF TypeOK
<1>6. \A c \in Connection : OwnLine(c)'
  <2> SUFFICES ASSUME NEW c \in Connection PROVE OwnLine(c)'
    OBVIOUS
  <2>1. CASE ~goes(c) \/ part(c) = <<>>
    <3>1. connection[c].to_agent \in Seq(FromServer)
      BY <1>2 DEF ConnectionType
    <3>2. connection'[c].to_agent = connection[c].to_agent
      <4>1. connection[c].to_agent \o <<>> = connection[c].to_agent
        BY <3>1
      <4> HIDE DEF goes, part
      <4> QED
        BY <1>4, <2>1, <4>1, Zenon
    <3>3. SameLine(c)
      BY <1>4, <3>2, Zenon DEF SameLine
    <3> QED
      BY <3>3, OwnLines, SameLineOwn
  <2>2. CASE goes(c) /\ part(c) # <<>>
    <3>1. PICK a \in Agent : connection[c].agent = a
      BY <2>2, Zenon
    <3>2. PICK x \in FromServer : /\ part(c) = <<x>>
                                  /\ x.kind \in {"ServerHello", "UpdateWorkload"} => ForAgent(x, a) = <<x>>
      BY <1>1, <2>2, <3>1, PartIsOwn
    <3> DEFINE q == connection[c].to_agent
               r == connection'[c].to_agent
    <3>3. q \in Seq(FromServer) /\ Len(q) \in Nat
      BY <1>2 DEF ConnectionType
    <3>4. r = q \o <<x>>
      BY <1>4, <2>2, <3>2, Zenon
    <3>5. \A n \in 1..Len(q) : q[n].kind \in {"ServerHello", "UpdateWorkload"} => ForAgent(q[n], a) = <<q[n]>>
      BY <3>1, Zenon DEF Addressed
    <3> HIDE DEF q, r
    <3>6. /\ Len(r) = Len(q) + 1 /\ r[Len(q) + 1] = x
          /\ \A n \in 1..Len(q) : r[n] = q[n]
      BY <3>3, <3>4, SMTT(30)
    <3>7. \A n \in 1..Len(r) : r[n].kind \in {"ServerHello", "UpdateWorkload"} => ForAgent(r[n], a) = <<r[n]>>
      <4> SUFFICES ASSUME NEW n \in 1..Len(r), r[n].kind \in {"ServerHello", "UpdateWorkload"}
                   PROVE  ForAgent(r[n], a) = <<r[n]>>
        BY Zenon
      <4>1. CASE n = Len(q) + 1
        BY <3>2, <3>6, <4>1
      <4>2. CASE n # Len(q) + 1
        <5>1. n \in 1..Len(q)
          BY <3>3, <3>6, <4>2
        <5> QED
          BY <3>5, <3>6, <5>1
      <4> QED
        BY <4>1, <4>2, Zenon
    <3>8. connection'[c].agent = a
      BY <1>4, <3>1, ZenonT(30)
    <3> QED
      BY <3>7, <3>8, Zenon DEF OwnLine, r
  <2> QED
    BY <2>1, <2>2
<1>7. Owned' /\ Addressed'
  <2>1. \A a \in Agent : session'[a] # 0 => connection'[session'[a]].agent = a
    BY <1>1, <1>4, <1>5, Zenon DEF Owned
  <2>2. \A a \in Agent : greeted'[a] => session'[a] # 0
    BY <1>1 DEF Owned
  <2> QED
    BY <1>6, <2>1, <2>2 DEF Owned, Addressed, OwnLine
<1>8. ASSUME NEW a \in Agent PROVE Stays(a)
  <2>1. Attached(a)' <=> Attached(a)
    BY <1>1, <1>4, <1>5, Zenon DEF Attached
  <2>2. Wanted(a)' = Wanted(a)
    BY <1>1 DEF Wanted
  <2>3. ASSUME Attached(a) PROVE States(a)' = States(a) /\ (Greets(a)' => Greets(a))
    <3> DEFINE c == session[a]
               q == connection[c].to_agent
    <3>1. c # 0 /\ agent_senders[a] = c /\ connection[c].up
      BY <2>3, ZenonT(30) DEF Attached
    <3>2. c \in Connection /\ connection[c].agent = a /\ q \in Seq(FromServer) /\ view[a] \in View
      BY <3>1, WayTypes DEF Owned
    <3>3. connection'[c].to_agent = q \o ForAgent(m, a)
      BY <1>4, <3>1, <3>2, Zenon DEF Reaches
    <3>4. Messages(a) = q \o to_agents /\ Messages(a)' = (q \o ForAgent(m, a)) \o Tail(to_agents)
      BY <1>1, <3>3 DEF Messages
    <3>5. States(a) = At(view[a], Messages(a), a) /\ States(a)' = At(view[a], Messages(a)', a)
      BY <1>1 DEF States, At
    <3> DEFINE V == view[a]
               ms == to_agents
    <3> HIDE DEF q, V, ms
    <3>6. At(V, (q \o ForAgent(Head(ms), a)) \o Tail(ms), a) = At(V, q \o ms, a)
      <4>1. V \in View /\ q \in Seq(FromServer) /\ ms \in Seq(FromServer) /\ ms # <<>>
        BY <1>1, <3>2 DEF V, ms
      <4> QED
        BY <4>1, DeliveryKeeps, Zenon
    <3>7. States(a)' = States(a)
      BY <3>4, <3>5, <3>6, Zenon DEF V, ms, m
    <3>8. ASSUME HelloIn((q \o ForAgent(m, a)) \o Tail(to_agents), a) PROVE HelloIn(q \o to_agents, a)
      <4>1. ForAgent(m, a) = <<>> \/ \E x \in FromServer : ForAgent(m, a) = <<x>> /\ (x.kind = "ServerHello" => x = m)
        BY <1>1, PartIsOwn
      <4>2. ForAgent(m, a) \in Seq(FromServer)
        <5>1. <<>> \in Seq(FromServer) /\ \A x \in FromServer : <<x>> \in Seq(FromServer)
          OBVIOUS
        <5> QED
          BY <4>1, <5>1, Zenon
      <4>3. HelloIn(ForAgent(m, a), a) => m.kind = "ServerHello" /\ m.agent = a
        <5>1. CASE ForAgent(m, a) = <<>>
          BY <5>1 DEF HelloIn
        <5>2. ASSUME NEW x \in FromServer, ForAgent(m, a) = <<x>>, x.kind = "ServerHello" => x = m
              PROVE  HelloIn(ForAgent(m, a), a) => m.kind = "ServerHello" /\ m.agent = a
          <6>1. Len(<<x>>) = 1 /\ <<x>>[1] = x
            OBVIOUS
          <6>2. HelloIn(<<x>>, a) => x.kind = "ServerHello" /\ x.agent = a
            BY <6>1, SMTT(30) DEF HelloIn
          <6> QED
            BY <5>2, <6>2
        <5> QED
          BY <4>1, <5>1, <5>2
      <4> DEFINE p == ForAgent(m, a)
                 ts == Tail(to_agents)
      <4> HIDE DEF p, ts
      <4>4. q \o p \in Seq(FromServer) /\ p \in Seq(FromServer) /\ ts \in Seq(FromServer)
        BY <1>1, <3>2, <4>2 DEF p, ts
      <4>5. HelloIn((q \o p) \o ts, a)
        BY <3>8 DEF p, ts
      <4>6. HelloIn(q, a) \/ HelloIn(p, a) \/ HelloIn(ts, a)
        BY <3>2, <4>4, <4>5, HelloIsIn, Zenon
      <4>7. HelloIn(p, a) \/ HelloIn(ts, a) => HelloIn(to_agents, a)
        BY <1>1, <4>3, HelloIsIn DEF p, ts, m
      <4> QED
        BY <1>1, <3>2, <4>6, <4>7, HelloIsIn
    <3>9. Greets(a)' => Greets(a)
      BY <3>4, <3>8 DEF Greets
    <3> QED
      BY <3>7, <3>9
  <2> QED
    BY <1>1, <2>1, <2>2, <2>3, Zenon DEF Stays
<1>9. QueuedHello'
  <2> SUFFICES ASSUME NEW a \in agent_map, HelloIn(to_agents', a), NEW V \in View
               PROVE  LastOf(At(V, to_agents', a)) = Wanted(a)
    <3>1. \A a \in Agent : Wanted(a)' = Wanted(a)
      BY <1>1 DEF Wanted
    <3> QED
      BY <1>1, <1>2, <3>1 DEF QueuedHello
  <2> DEFINE ms == to_agents
             ns == Tail(to_agents)
  <2>1. ms \in Seq(FromServer) /\ ms # <<>> /\ ns = Tail(ms) /\ ns \in Seq(FromServer) /\ Head(ms) = m /\ to_agents' = ns
    BY <1>1 DEF m
  <2> HIDE DEF ms, ns
  <2>2. HelloIn(ns, a) /\ HelloIn(ms, a)
    BY <2>1, HelloIsIn
  <2>3. LastOf(At(V, ms, a)) = Wanted(a)
    BY <2>2 DEF QueuedHello, ms
  <2>4. ASSUME NEW U \in View PROVE LastOf(At(U, ns, a)) = LastOf(At(V, ns, a))
    <3>1. PICK n \in 1..Len(ns) : ns[n].kind = "ServerHello" /\ ns[n].agent = a
      BY <2>2 DEF HelloIn
    <3> QED
      BY <2>1, <3>1, HelloResets, Zenon DEF At
  <2>5. CASE ~Concerns(m, a)
    BY <2>1, <2>3, <2>5, ReceivingTakes, Zenon
  <2>6. CASE Concerns(m, a)
    <3> DEFINE U == Applied(V, m, a)
    <3>1. U \in View
      BY <1>1, <2>6, AppliedType
    <3>2. At(V, ms, a) = <<V>> \o At(U, ns, a)
      BY <2>1, <2>6, ReceivingTakes
    <3> HIDE DEF U
    <3>3. At(U, ns, a) \in Views
      BY <2>1, <3>1, AtType, Zenon
    <3>4. \A r \in Views : LastOf(<<V>> \o r) = LastOf(r)
      BY DEF Views, LastOf
    <3> QED
      BY <2>1, <2>3, <2>4, <3>1, <3>2, <3>3, <3>4
  <2> QED
    BY <2>5, <2>6
<1> QED
  BY <1>7, <1>8, <1>9, ZenonT(30)

-----------------------------------------------------------------------------
(* The abstract steps *)

\* A step that makes a difference to agent b at most.
Others(b) == \A a \in Agent \ {b} : Stays(a)

\* The abstract state, agent by agent.
desired == [a \in Agent |-> Wanted(a)]
synced == [a \in Agent |-> Synced(a)]
coming == [a \in Agent |-> IF Synced(a) THEN Tail(States(a)) ELSE <<>>]

\* These are the variables of the abstract system.
LEMMA Mapping ==
  /\ Replica!vars = <<desired, view, coming, synced>>
  /\ Replica!vars' = <<desired', view', coming', synced'>>
BY DEF Replica!vars, desired, synced, coming, Wanted

\* What the agents see, before and after a step.
LEMMA SeenType ==
  TypeOK => view \in [Agent -> SUBSET Workload]
BY Zenon DEF TypeOK

LEMMA SeenTypeNext ==
  TypeOK' => view' \in [Agent -> SUBSET Workload]
BY Zenon DEF TypeOK

\* Something more to come to.
LEMMA AppendToTail ==
  ASSUME NEW s \in Views, NEW v
  PROVE  Tail(Append(s, v)) = Append(Tail(s), v)
BY DEF Views

\* After a step.
LEMMA NextAbstract ==
  /\ desired' = [a \in Agent |-> Wanted(a)'] /\ synced' = [a \in Agent |-> Synced(a)']
  /\ coming' = [a \in Agent |-> IF Synced(a)' THEN Tail(States(a)') ELSE <<>>]
BY Zenon DEF desired, synced, coming

\* An agent that a step makes no difference to is where it was.
LEMMA StaysAbstract ==
  ASSUME NEW a \in Agent, Stays(a)
  PROVE  desired'[a] = desired[a] /\ synced'[a] = synced[a] /\ coming'[a] = coming[a] /\ view'[a] = view[a]
<1>1. Synced(a)' <=> Synced(a)
  BY Zenon DEF Stays, Synced
<1>2. Synced(a) => States(a)' = States(a)
  BY ZenonT(30) DEF Stays, Synced
<1>3. Wanted(a)' = Wanted(a) /\ view'[a] = view[a]
  BY DEF Stays
<1>4. /\ desired[a] = Wanted(a) /\ synced[a] = Synced(a)
      /\ coming[a] = IF Synced(a) THEN Tail(States(a)) ELSE <<>>
  BY DEF desired, synced, coming
<1>5. /\ desired'[a] = Wanted(a)' /\ synced'[a] = Synced(a)'
      /\ coming'[a] = IF Synced(a)' THEN Tail(States(a)') ELSE <<>>
  BY NextAbstract, Zenon
<1>6. synced'[a] = synced[a]
  <2>1. Synced(a) \in BOOLEAN /\ Synced(a)' \in BOOLEAN
    BY DEF Synced
  <2>2. Synced(a)' = Synced(a)
    BY <1>1, <2>1, Zenon
  <2> QED
    BY <1>4, <1>5, <2>2
<1>7. coming'[a] = coming[a]
  BY <1>1, <1>2, <1>4, <1>5
<1> QED
  BY <1>3, <1>4, <1>5, <1>6, <1>7

\* A step without a difference to any agent is no step of the abstract system.
LEMMA NobodyMoves ==
  ASSUME TypeOK, TypeOK', \A a \in Agent : Stays(a)
  PROVE  UNCHANGED Replica!vars
<1>1. \A a \in Agent :
        desired'[a] = desired[a] /\ synced'[a] = synced[a] /\ coming'[a] = coming[a] /\ view'[a] = view[a]
  BY StaysAbstract, ZenonT(30)
<1>2. desired' = desired
  BY <1>1 DEF desired
<1>3. synced' = synced
  BY <1>1, Zenon DEF synced
<1>4. coming' = coming
  BY <1>1, Zenon DEF coming
<1>5. view' = view
  <2>1. view \in [Agent -> SUBSET Workload] /\ view' \in [Agent -> SUBSET Workload]
    BY SeenType, SeenTypeNext, Zenon
  <2> QED
    BY ONLY <1>1, <2>1
<1> QED
  BY <1>2, <1>3, <1>4, <1>5, Mapping, Zenon

\* What one agent makes of a step, the others staying.
LEMMA OneMoves ==
  ASSUME TypeOK, TypeOK', NEW b \in Agent, Others(b), Wanted(b)' = Wanted(b)
  PROVE  /\ desired' = desired
         /\ view' = [view EXCEPT ![b] = view'[b]] /\ view'[b] \in SUBSET Workload
         /\ synced' = [synced EXCEPT ![b] = Synced(b)']
         /\ coming' = [coming EXCEPT ![b] = IF Synced(b)' THEN Tail(States(b)') ELSE <<>>]
<1>1. \A a \in Agent \ {b} :
        desired'[a] = desired[a] /\ synced'[a] = synced[a] /\ coming'[a] = coming[a] /\ view'[a] = view[a]
  BY StaysAbstract DEF Others
<1>2. desired' = desired
  <2>1. \A a \in Agent : desired'[a] = desired[a]
    BY <1>1, NextAbstract, Zenon DEF desired
  <2> QED
    BY <2>1, Zenon DEF desired
<1>3. view' = [view EXCEPT ![b] = view'[b]] /\ view'[b] \in SUBSET Workload
  <2>1. view \in [Agent -> SUBSET Workload] /\ view' \in [Agent -> SUBSET Workload]
    BY DEF TypeOK
  <2> QED
    BY <1>1, <2>1, Zenon
<1>4. synced' = [synced EXCEPT ![b] = Synced(b)']
  <2>1. synced = [a \in Agent |-> synced[a]] /\ synced' = [a \in Agent |-> synced'[a]] /\ synced'[b] = Synced(b)'
    BY NextAbstract DEF synced
  <2> HIDE DEF synced
  <2> QED
    BY <1>1, <2>1
<1>5. coming' = [coming EXCEPT ![b] = IF Synced(b)' THEN Tail(States(b)') ELSE <<>>]
  <2>1. /\ coming = [a \in Agent |-> coming[a]] /\ coming' = [a \in Agent |-> coming'[a]]
        /\ coming'[b] = IF Synced(b)' THEN Tail(States(b)') ELSE <<>>
    BY NextAbstract DEF coming
  <2> HIDE DEF coming
  <2> QED
    BY <1>1, <2>1
<1> QED
  BY <1>2, <1>3, <1>4, <1>5, Zenon

\* It is not attached, or not greeted, or not known, after the step.
LEMMA MovesOutside ==
  ASSUME TypeOK, TypeOK', NEW b \in Agent, Others(b), Wanted(b)' = Wanted(b), ~Synced(b)'
  PROVE  Replica!Outside(b)
<1>1. /\ desired' = desired /\ \E x \in SUBSET Workload : view' = [view EXCEPT ![b] = x]
      /\ synced' = [synced EXCEPT ![b] = FALSE] /\ coming' = [coming EXCEPT ![b] = <<>>]
  <2>1. synced' = [synced EXCEPT ![b] = FALSE]
    <3>1. Synced(b)' = FALSE
      <4>1. Synced(b)' \in BOOLEAN
        BY Zenon DEF Synced
      <4> QED
        BY <4>1
    <3> QED
      BY <3>1, OneMoves
  <2> QED
    BY <2>1, OneMoves, Zenon
<1> QED
  BY <1>1, Zenon DEF Replica!Outside, desired, synced, coming, Wanted

\* The next state it was to see is the one it sees.
LEMMA MovesOn ==
  ASSUME TypeOK, TypeOK', NEW b \in Agent, Others(b), Wanted(b)' = Wanted(b), Synced(b), Synced(b)',
         States(b) = <<view[b]>> \o States(b)', States(b)' \in Views, States(b)'[1] = view'[b]
  PROVE  Replica!Advance(b)
<1>1. Tail(States(b)) = States(b)' /\ States(b)' # <<>> /\ Head(States(b)') = view'[b]
  BY DEF Views
<1>2. coming[b] = States(b)' /\ synced[b] = TRUE
  <2>1. Synced(b) = TRUE
    BY DEF Synced
  <2> QED
    BY <1>1, <2>1, ZenonT(30) DEF coming, synced
<1>3. synced' = synced
  <2>1. Synced(b)' = TRUE
    BY Zenon DEF Synced
  <2>2. synced' = [synced EXCEPT ![b] = TRUE]
    BY <2>1, OneMoves, Zenon
  <2>3. synced = [a \in Agent |-> synced[a]]
    BY DEF synced
  <2> QED
    BY <1>2, <2>2, <2>3, Zenon
<1>4. /\ coming' = [coming EXCEPT ![b] = Tail(@)]
      /\ view' = [view EXCEPT ![b] = Head(coming[b])] /\ desired' = desired
  <2>1. coming' = [coming EXCEPT ![b] = Tail(States(b)')]
    BY OneMoves, Zenon
  <2>2. coming = [a \in Agent |-> coming[a]]
    BY Zenon DEF coming
  <2> QED
    BY <1>1, <1>2, <2>1, <2>2, OneMoves, Zenon
<1>5. synced[b] /\ coming[b] # <<>>
  BY <1>1, <1>2, Zenon
<1> QED
  BY <1>3, <1>4, <1>5 DEF Replica!Advance, desired, synced, coming, Wanted

\* It is to see once more what is wanted of it.
LEMMA MovesTwice ==
  ASSUME TypeOK, TypeOK', NEW b \in Agent, Others(b), Wanted(b)' = Wanted(b), Synced(b), Synced(b)',
         view'[b] = view[b], States(b) \in Views, States(b)' = Append(States(b), Wanted(b))
  PROVE  Replica!Repeat(b)
<1>1. Tail(States(b)') = Append(Tail(States(b)), Wanted(b))
  BY AppendToTail, Zenon
<1>2. coming[b] = Tail(States(b)) /\ synced[b] = TRUE /\ desired[b] = Wanted(b)
  <2>1. Synced(b) = TRUE
    BY Zenon DEF Synced
  <2> QED
    BY <2>1, Zenon DEF coming, synced, desired
<1>3. synced' = synced
  <2>1. Synced(b)' = TRUE
    BY Zenon DEF Synced
  <2>2. synced' = [synced EXCEPT ![b] = TRUE]
    BY <2>1, OneMoves, ZenonT(30)
  <2>3. synced = [a \in Agent |-> synced[a]]
    BY DEF synced
  <2> QED
    BY <1>2, <2>2, <2>3, Zenon
<1>4. coming' = [coming EXCEPT ![b] = Append(@, desired[b])] /\ desired' = desired
  <2>1. coming' = [coming EXCEPT ![b] = Tail(States(b)')]
    BY OneMoves, Zenon
  <2>2. coming = [a \in Agent |-> coming[a]]
    BY DEF coming
  <2> QED
    BY <1>1, <1>2, <2>1, <2>2, OneMoves, Zenon
<1>5. view' = view
  <2>1. view' = [view EXCEPT ![b] = view[b]]
    BY OneMoves, Zenon
  <2> QED
    BY ONLY <2>1, SeenType, TypeOK
<1>6. synced[b]
  BY <1>2, Zenon
<1> QED
  BY <1>3, <1>4, <1>5, <1>6 DEF Replica!Repeat, desired, synced, coming, Wanted

\* It takes part from now on.
LEMMA MovesIn ==
  ASSUME TypeOK, TypeOK', NEW b \in Agent, Others(b), Wanted(b)' = Wanted(b), ~Synced(b), Synced(b)',
         States(b)' \in Views, States(b)'[1] = view'[b], LastOf(States(b)') = Wanted(b),
         coming' \in [Agent -> Seq(View)]
  PROVE  Replica!Join(b)
<1>1. ~synced[b] /\ synced' = [synced EXCEPT ![b] = TRUE] /\ desired' = desired
  <2>1. Synced(b)' = TRUE /\ Synced(b) = FALSE
    <3>1. Synced(b)' \in BOOLEAN /\ Synced(b) \in BOOLEAN
      BY Zenon DEF Synced
    <3> QED
      BY <3>1, Zenon
  <2>2. synced[b] = FALSE
    BY <2>1 DEF synced
  <2> QED
    BY <2>1, <2>2, OneMoves, Zenon
<1>2. view' \in [Agent -> SUBSET Workload] /\ coming' \in [Agent -> Seq(SUBSET Workload)]
  BY Zenon DEF TypeOK, View
<1>3. \A a \in Agent \ {b} : view'[a] = view[a] /\ coming'[a] = coming[a]
  BY StaysAbstract, Zenon DEF Others
<1>4. (IF coming'[b] = <<>> THEN view'[b] ELSE coming'[b][Len(coming'[b])]) = desired[b]
  <2> DEFINE r == States(b)'
  <2>1. r \in Seq(View) /\ Len(r) # 0 /\ r[1] = view'[b] /\ r[Len(r)] = Wanted(b)
    BY Zenon DEF Views, LastOf
  <2>2. coming'[b] = Tail(r)
    BY NextAbstract, Zenon
  <2>3. desired[b] = Wanted(b)
    BY Zenon DEF desired
  <2> HIDE DEF r, desired
  <2>4. CASE Tail(r) = <<>>
    <3>1. Len(Tail(r)) = Len(r) - 1 /\ Len(r) \in Nat
      BY <2>1
    <3>2. Len(r) = 1
      <4>1. \A q \in Seq(View) : q = <<>> => Len(q) = 0
        BY SMTT(30)
      <4>2. Tail(r) \in Seq(View)
        BY <2>1
      <4>3. Len(Tail(r)) = 0
        BY ONLY <2>4, <4>1, <4>2, Zenon
      <4> QED
        BY ONLY <3>1, <4>3, SMTT(30)
    <3> QED
      BY <2>1, <2>2, <2>3, <2>4, <3>2, ZenonT(30)
  <2>5. CASE Tail(r) # <<>>
    <3>1. Tail(r)[Len(Tail(r))] = r[Len(r)]
      <4>1. Len(Tail(r)) = Len(r) - 1 /\ Len(r) \in Nat /\ Tail(r) \in Seq(View)
        BY <2>1
      <4>2. Len(Tail(r)) # 0
        <5>1. \A q \in Seq(View) : q # <<>> => Len(q) # 0
          BY SMTT(30)
        <5> QED
          BY <2>5, <4>1, <5>1, ZenonT(30)
      <4>3. \A n \in 1..Len(r) - 1 : Tail(r)[n] = r[n + 1]
        BY <2>1, SMTT(30)
      <4>4. Len(r) - 1 \in 1..Len(r) - 1 /\ (Len(r) - 1) + 1 = Len(r)
        BY <4>1, <4>2
      <4> QED
        BY <4>1, <4>3, <4>4, ZenonT(30)
    <3> QED
      BY <2>1, <2>2, <2>3, <2>5, <3>1, Zenon
  <2> QED
    BY <2>4, <2>5
<1>5. Replica!Latest(b)' = desired[b]
  BY <1>4, Zenon DEF Replica!Latest, desired, coming, Wanted
<1> QED
  BY <1>1, <1>2, <1>3, <1>5, Zenon DEF Replica!Join, desired, synced, coming, Wanted

\* The states an agent comes to are views.
StatesOK ==
  /\ \A a \in Agent : session[a] # 0 => States(a) \in Views /\ States(a)[1] = view[a]
  /\ coming \in [Agent -> Seq(View)]

\* So they are, whenever the types are right, ...
LEMMA StatesTypes == TypeOK => StatesOK
<1> SUFFICES ASSUME TypeOK PROVE StatesOK
  BY Zenon
<1>1. \A a \in Agent : session[a] # 0 => States(a) \in Views /\ States(a)[1] = view[a]
  BY WayTypes, Zenon
<1>2. ASSUME NEW a \in Agent PROVE (IF Synced(a) THEN Tail(States(a)) ELSE <<>>) \in Seq(View)
  <2>1. \A s \in Views : Tail(s) \in Seq(View)
    <3>1. \A s \in Seq(View) : Len(s) # 0 => Tail(s) \in Seq(View)
      BY SMTT(30)
    <3> QED
      BY <3>1 DEF Views
  <2>2. Synced(a) => session[a] # 0
    BY DEF Synced, Attached
  <2>3. <<>> \in Seq(View)
    OBVIOUS
  <2> QED
    BY <1>1, <2>1, <2>2, <2>3
<1>3. coming \in [Agent -> Seq(View)]
  BY <1>2 DEF coming
<1> QED
  BY <1>1, <1>3 DEF StatesOK

\* ... and after a step, too.
LEMMA StatesTypesNext == TypeOK' => StatesOK'
BY StatesTypes, PTL

-----------------------------------------------------------------------------
(* Every step keeps the invariant and is a step, or none, of the abstract system *)

\* The step is one of the abstract system, or none.
Refines == Replica!Next \/ UNCHANGED Replica!vars

\* Nothing changes for any agent.
LEMMA StaysAll ==
  ASSUME TypeOK, TypeOK', OnTheWay, \A a \in Agent : Stays(a)
  PROVE  OnTheWay' /\ Refines
<1>1. \A a \in Agent : Comes(a)'
  BY StaysOnItsWay DEF OnTheWay
<1> QED
  BY <1>1, NobodyMoves DEF OnTheWay, Refines

\* Hellos in a queue that stays as it is.
LEMMA SameQueue == ASSUME TypeOK, ServerSame, QueuedHello PROVE QueuedHello'
<1>1. \A a : Wanted(a)' = Wanted(a)
  BY DEF ServerSame, Wanted
<1> QED
  BY <1>1 DEF ServerSame, QueuedHello

\* All agents but one are left alone by the step.
LEMMA UntouchedOthers ==
  ASSUME ServerSame, NEW b \in Agent, \A a \in Agent \ {b} : Untouched(a)
  PROVE  Others(b) /\ Wanted(b)' = Wanted(b)
BY UntouchedStays DEF Others, ServerSame, Wanted

\* The invariant is kept if it is kept for the agent the step is about.
LEMMA OthersComing ==
  ASSUME OnTheWay, NEW b \in Agent, Others(b), Comes(b)'
  PROVE  OnTheWay'
BY StaysOnItsWay DEF OnTheWay, Others

\* Requests, reports and the bookkeeping of the middleware (grpc_agent_connection.rs).
LEMMA IdleKeeps ==
  ASSUME Inv, TypeOK',
         \/ RequestUpdate
         \/ \E c \in Connection :
              Middleware(c) /\ (agent_hello(c) \/ forward_to_server(c) \/ agent_gone(c) \/ ForwardEnds(c))
         \/ \E a \in Agent : ReportRunning(a) \/ ReportRemoved(a)
  PROVE  Inv' /\ Refines
<1>1. UNCHANGED <<view, greeted>>
  BY DEF RequestUpdate, Middleware, ReportRunning, ReportRemoved, agentVars
<1>2. ServerSame /\ Owned' /\ Addressed' /\ \A a \in Agent : Untouched(a)
  BY <1>1, IdleStep DEF Inv
<1>3. \A a \in Agent : Stays(a)
  BY <1>2, UntouchedStays
<1> QED
  BY <1>2, <1>3, StaysAll, SameQueue, ZenonT(30) DEF Inv

\* A new connection starts with nothing on its way to the agent.
LEMMA ConnectKeeps ==
  ASSUME Inv, TypeOK', NEW b \in Agent, Connect(b)
  PROVE  Inv' /\ Refines
<1>1. /\ ServerSame /\ Owned' /\ Addressed' /\ \A a \in Agent \ {b} : Untouched(a)
      /\ view' = view /\ ~greeted[b] /\ ~greeted'[b]
      /\ session'[b] # 0 /\ connection'[session'[b]].to_agent = <<>>
  BY ConnectStep, Zenon DEF Inv
<1>2. Others(b) /\ Wanted(b)' = Wanted(b)
  BY <1>1, UntouchedOthers, Zenon
<1>3. to_agents \in Seq(FromServer) /\ view[b] \in View
  BY DEF Inv, TypeOK, ServerTypeOK, View
<1>4. Messages(b)' = to_agents
  <2>1. Messages(b)' = <<>> \o to_agents
    BY <1>1 DEF Messages, ServerSame
  <2> QED
    BY <1>3, <2>1
<1>5. States(b)' = At(view[b], to_agents, b)
  BY <1>1, <1>4, Zenon DEF States, At
<1>6. Comes(b)'
  <2> SUFFICES ASSUME Known(b)' PROVE LastOf(States(b)') = Wanted(b)'
    BY Zenon DEF Comes
  <2>1. b \in agent_map /\ HelloIn(to_agents, b)
    BY <1>1, <1>4 DEF Known, Greets, ServerSame
  <2>2. LastOf(At(view[b], to_agents, b)) = Wanted(b)
    BY <1>3, <2>1, Zenon DEF Inv, QueuedHello
  <2> QED
    BY <1>2, <1>5, <2>2
<1>7. ~Synced(b)'
  BY <1>1 DEF Synced
<1>8. Replica!Outside(b)
  BY <1>2, <1>7, MovesOutside DEF Inv
<1>9. OnTheWay'
  BY <1>2, <1>6, OthersComing DEF Inv
<1> QED
  BY <1>1, <1>8, <1>9, SameQueue, Zenon DEF Inv, Refines, Replica!Next

\* Connections that break, and agents that go away.
LEMMA CutKeeps ==
  ASSUME Inv, TypeOK',
         \/ \E b \in Agent : Disconnect(b) \/ Crash(b)
         \/ \E c \in Connection : Fail(c) \/ (Middleware(c) /\ ForwardFails(c))
  PROVE  Inv' /\ Refines
<1>1. ServerSame /\ Owned' /\ Addressed'
  BY CutStep DEF Inv
<1>2. PICK b \in Agent : (~Attached(b)' \/ Untouched(b)) /\ \A a \in Agent \ {b} : Untouched(a)
  BY CutStep DEF Inv
<1>3. Others(b) /\ Wanted(b)' = Wanted(b)
  BY <1>1, <1>2, UntouchedOthers
<1>4. CASE ~Attached(b)'
  <2>1. Comes(b)' /\ ~Synced(b)'
    BY <1>4 DEF Comes, Known, Synced
  <2>2. Replica!Outside(b)
    BY <1>3, <2>1, MovesOutside DEF Inv
  <2>3. OnTheWay'
    BY <1>3, <2>1, OthersComing DEF Inv
  <2> QED
    BY <1>1, <2>2, <2>3, SameQueue DEF Inv, Refines, Replica!Next
<1>5. CASE Untouched(b)
  <2>1. \A a \in Agent : Stays(a)
    BY <1>1, <1>2, <1>5, UntouchedStays, ZenonT(30)
  <2> QED
    BY <1>1, <2>1, StaysAll, SameQueue DEF Inv
<1> QED
  BY <1>2, <1>4, <1>5

\* The agent handles a message (agent_manager.rs).
LEMMA ExecuteKeeps ==
  ASSUME Inv, TypeOK', NEW b \in Agent, execute_from_server_command(b)
  PROVE  Inv' /\ Refines
<1>1. /\ ServerSame /\ Owned' /\ Addressed' /\ \A a \in Agent \ {b} : Untouched(a)
      /\ Attached(b)' <=> Attached(b)
      /\ session[b] # 0 /\ session'[b] # 0
      /\ Greets(b)' \/ greeted'[b] => Greets(b) \/ greeted[b]
      /\ \/ States(b) = <<view[b]>> \o States(b)' /\ States(b)'[1] = view'[b]
         \/ States(b)' = States(b) /\ view' = view /\ greeted' = greeted
  BY ExecuteStep, Zenon DEF Inv
<1>2. Others(b) /\ Wanted(b)' = Wanted(b)
  BY <1>1, UntouchedOthers, Zenon
<1>3. States(b)' \in Views /\ coming' \in [Agent -> Seq(View)] /\ States(b)'[1] = view'[b]
  BY <1>1, StatesTypesNext, Zenon DEF StatesOK
<1>4. LastOf(States(b)') = LastOf(States(b))
  <2>1. \A V, r : r \in Views => LastOf(<<V>> \o r) = LastOf(r)
    BY SMTT(30) DEF Views, LastOf
  <2> QED
    BY <1>1, <1>3, <2>1, Zenon
<1>5. Known(b)' => Known(b)
  BY <1>1 DEF Known, ServerSame
<1>6. Comes(b)
  BY DEF Inv, OnTheWay
<1>7. Comes(b)'
  BY <1>2, <1>4, <1>5, <1>6 DEF Comes
<1>8. OnTheWay'
  BY <1>2, <1>7, OthersComing DEF Inv
<1>9. Refines
  <2>1. CASE ~Synced(b)'
    <3>1. Replica!Outside(b)
      BY <1>2, <2>1, MovesOutside DEF Inv
    <3> QED
      BY <3>1 DEF Refines, Replica!Next
  <2>2. CASE Synced(b)' /\ ~Synced(b)
    <3>1. Known(b)'
      BY <2>2 DEF Synced, Known
    <3>2. LastOf(States(b)') = Wanted(b)
      BY <1>2, <1>7, <3>1 DEF Comes
    <3>3. Replica!Join(b)
      BY <1>2, <1>3, <2>2, <3>2, MovesIn, Zenon DEF Inv
    <3> QED
      BY <3>3, Zenon DEF Refines, Replica!Next
  <2>3. CASE Synced(b)' /\ Synced(b) /\ States(b) = <<view[b]>> \o States(b)' /\ States(b)'[1] = view'[b]
    <3>1. Replica!Advance(b)
      BY <1>2, <1>3, <2>3, MovesOn, Zenon DEF Inv
    <3> QED
      BY <3>1 DEF Refines, Replica!Next
  <2>4. CASE Synced(b)' /\ Synced(b) /\ States(b)' = States(b) /\ view' = view /\ greeted' = greeted
    <3>1. /\ desired' = desired /\ view' = view
          /\ synced' = [synced EXCEPT ![b] = Synced(b)']
          /\ coming' = [coming EXCEPT ![b] = IF Synced(b)' THEN Tail(States(b)') ELSE <<>>]
      BY <1>2, <2>4, OneMoves DEF Inv
    <3>2. coming' = coming
      <4>1. coming[b] = Tail(States(b)) /\ coming = [a \in Agent |-> coming[a]]
        BY <2>4 DEF coming
      <4> QED
        BY <2>4, <3>1, <4>1, Zenon
    <3>3. synced' = synced
      <4>1. Synced(b)' = TRUE /\ Synced(b) = TRUE
        BY <2>4 DEF Synced
      <4>2. synced[b] = TRUE /\ synced = [a \in Agent |-> synced[a]]
        BY <4>1 DEF synced
      <4> QED
        BY <3>1, <4>1, <4>2, Zenon
    <3> QED
      BY <3>1, <3>2, <3>3, Mapping DEF Refines
  <2> QED
    BY <1>1, <2>1, <2>2, <2>3, <2>4, Zenon
<1> QED
  BY <1>1, <1>8, <1>9, SameQueue DEF Inv

\* The middleware hands a message to the connections (from_server_proxy.rs).
LEMMA DistributeKeeps == ASSUME Inv, TypeOK', Distribute PROVE Inv' /\ Refines
<1>1. Owned' /\ Addressed' /\ QueuedHello' /\ \A a \in Agent : Stays(a)
  BY DistributeStep, Zenon DEF Inv
<1> QED
  BY <1>1, StaysAll DEF Inv

\* What a step of the server leaves.
LEMMA ServerLeaves ==
  ASSUME TypeOK, Owned, Addressed, UNCHANGED <<connVars, agentVars>>, ServerTypeOK'
  PROVE  /\ TypeOK' /\ Owned' /\ Addressed' /\ view' = view /\ greeted' = greeted
         /\ \A a : Attached(a)' <=> Attached(a)
         /\ \A a : Messages(a)' = connection[session[a]].to_agent \o to_agents'
<1>1. UNCHANGED <<agent_senders, connection, session, astray, view, passed_over, leftovers, leaving, unreported, greeted>>
  BY DEF connVars, agentVars
<1>2. TypeOK'
  BY <1>1, ZenonT(30) DEF TypeOK
<1>3. Owned' /\ Addressed'
  BY <1>1 DEF Owned, Addressed
<1> QED
  BY <1>1, <1>2, <1>3 DEF Attached, Messages

\* An agent for which nothing changes among the messages stays.
LEMMA SameForStays ==
  ASSUME TypeOK, NEW a \in Agent, SameFor(to_agents, to_agents', a), view' = view, greeted' = greeted,
         Attached(a)' <=> Attached(a), Messages(a)' = connection[session[a]].to_agent \o to_agents',
         a \in agent_map' <=> a \in agent_map, Wanted(a)' = Wanted(a), to_agents' \in Seq(FromServer)
  PROVE  Stays(a)
<1>1. ASSUME Attached(a) PROVE States(a)' = States(a) /\ (Greets(a)' => Greets(a))
  <2> DEFINE q == connection[session[a]].to_agent
             V == view[a]
  <2>1. q \in Seq(FromServer) /\ V \in View /\ to_agents \in Seq(FromServer)
    BY <1>1, WayTypes, Zenon DEF Attached
  <2>2. States(a) = At(V, q \o to_agents, a) /\ States(a)' = At(V, Messages(a)', a)
    BY Zenon DEF States, At, Messages
  <2>3. Messages(a)' = q \o to_agents' /\ Messages(a) = q \o to_agents
    BY DEF Messages
  <2> HIDE DEF q, V
  <2>4. At(V, q \o to_agents', a) = At(V, q \o to_agents, a)
    BY <2>1, Zenon DEF SameFor
  <2>5. HelloIn(q \o to_agents', a) => HelloIn(q \o to_agents, a)
    BY <2>1, HelloIsIn DEF SameFor
  <2> QED
    BY <2>2, <2>3, <2>4, <2>5 DEF Greets
<1> QED
  BY <1>1, Zenon DEF Stays

\* A hello handled by the server: the agent is told what it is to do, last of all.
LEMMA HelloKeeps ==
  ASSUME Inv, HandleAgentHello, UNCHANGED <<connVars, agentVars>>
  PROVE  Inv' /\ Refines
<1>1. PICK h \in Agent : /\ agent_map' = agent_map \cup {h}
                         /\ MoreFor(to_agents, to_agents', h, Wanted(h))
                         /\ \A a \in Agent \ {h} : SameFor(to_agents, to_agents', a)
  BY HelloStep, Zenon DEF Inv, TypeOK
<1>2. ServerTypeOK' /\ rendered_workloads' = rendered_workloads
  BY HelloStep DEF Inv, TypeOK
<1>3. /\ TypeOK' /\ Owned' /\ Addressed' /\ view' = view /\ greeted' = greeted
      /\ \A a : Attached(a)' <=> Attached(a)
      /\ \A a : Messages(a)' = connection[session[a]].to_agent \o to_agents'
  BY <1>2, ServerLeaves DEF Inv
<1>4. \A a : Wanted(a)' = Wanted(a)
  BY <1>2 DEF Wanted
<1>5. /\ to_agents' \in Seq(FromServer) /\ to_agents \in Seq(FromServer) /\ TypeOK
      /\ \A a \in Agent : Wanted(a) \in View
  BY <1>2, ZenonT(30) DEF Inv, TypeOK, ServerTypeOK, Wanted, get_workloads_for_agent, View
<1>6. Others(h)
  <2> SUFFICES ASSUME NEW a \in Agent \ {h} PROVE Stays(a)
    BY DEF Others
  <2>1. a \in agent_map' <=> a \in agent_map
    BY <1>1
  <2> QED
    BY <1>1, <1>3, <1>4, <1>5, <2>1, SameForStays
<1>7. ASSUME Attached(h)
      PROVE  States(h) \in Views /\ States(h)' = Append(States(h), Wanted(h)) /\ LastOf(States(h)') = Wanted(h)
  <2> DEFINE q == connection[session[h]].to_agent
             V == view[h]
  <2>1. q \in Seq(FromServer) /\ V \in View /\ States(h) \in Views
    BY <1>5, <1>7, WayTypes DEF Attached
  <2>2. States(h) = At(V, q \o to_agents, h) /\ States(h)' = At(V, q \o to_agents', h)
    <3>1. States(h)' = At(V, Messages(h)', h)
      BY <1>3 DEF States, At
    <3> QED
      BY <1>3, <3>1, Zenon DEF States, At, Messages
  <2> HIDE DEF q, V
  <2>3. States(h)' = Append(States(h), Wanted(h))
    BY <1>1, <2>1, <2>2 DEF MoreFor
  <2> QED
    BY <1>5, <2>1, <2>3, AppendView, ZenonT(30)
<1>8. Comes(h)'
  BY <1>3, <1>4, <1>7 DEF Comes, Known
<1>9. OnTheWay'
  BY <1>6, <1>8, OthersComing DEF Inv
<1>10. QueuedHello'
  <2> SUFFICES ASSUME NEW a \in agent_map', HelloIn(to_agents', a), NEW V \in View
               PROVE  LastOf(At(V, to_agents', a)) = Wanted(a)
    BY <1>4 DEF QueuedHello
  <2>1. <<>> \in Seq(FromServer) /\ <<>> \o to_agents = to_agents /\ <<>> \o to_agents' = to_agents'
    BY <1>5
  <2>2. CASE a = h
    <3>1. At(V, <<>> \o to_agents', h) = Append(At(V, <<>> \o to_agents, h), Wanted(h))
      BY <1>1, <2>1, Zenon DEF MoreFor
    <3>2. At(V, to_agents', h) = Append(At(V, to_agents, h), Wanted(h))
      BY <2>1, <3>1
    <3>3. At(V, to_agents, h) \in Views
      BY <1>5, AtType
    <3> QED
      BY <1>5, <2>2, <3>2, <3>3, AppendView
  <2>3. CASE a # h
    <3>1. a \in agent_map /\ a \in Agent
      BY <1>1, <1>5, <2>3, SMTT(30) DEF TypeOK, ServerTypeOK
    <3>2. SameFor(to_agents, to_agents', a)
      BY <1>1, <2>3, <3>1
    <3>3. HelloIn(to_agents, a)
      BY <3>2 DEF SameFor
    <3>4. At(V, <<>> \o to_agents', a) = At(V, <<>> \o to_agents, a)
      BY <2>1, <3>2, Zenon DEF SameFor
    <3>5. LastOf(At(V, to_agents, a)) = Wanted(a)
      BY <3>1, <3>3 DEF Inv, QueuedHello
    <3> QED
      BY <2>1, <3>4, <3>5, ZenonT(30)
  <2> QED
    BY <2>2, <2>3
<1>11. Refines
  <2>1. CASE ~Synced(h)'
    <3>1. Replica!Outside(h)
      BY <1>3, <1>4, <1>5, <1>6, <2>1, MovesOutside
    <3> QED
      BY <3>1 DEF Refines, Replica!Next
  <2>2. CASE Synced(h)' /\ ~Synced(h)
    <3>1. Attached(h) /\ session'[h] # 0
      BY <1>3, <2>2, Zenon DEF Synced, Attached
    <3>2. States(h)' \in Views /\ coming' \in [Agent -> Seq(View)] /\ States(h)'[1] = view'[h]
      BY <1>3, <3>1, StatesTypesNext, Zenon DEF StatesOK
    <3>3. Replica!Join(h)
      BY <1>3, <1>4, <1>5, <1>6, <1>7, <2>2, <3>1, <3>2, MovesIn, ZenonT(30)
    <3> QED
      BY <3>3 DEF Refines, Replica!Next
  <2>3. CASE Synced(h)' /\ Synced(h)
    <3>1. Attached(h)
      BY <2>3, Zenon DEF Synced
    <3>2. Replica!Repeat(h)
      BY <1>3, <1>4, <1>5, <1>6, <1>7, <2>3, <3>1, MovesTwice
    <3> QED
      BY <3>2 DEF Refines, Replica!Next
  <2> QED
    BY <2>1, <2>2, <2>3
<1> QED
  BY <1>3, <1>9, <1>10, <1>11, Zenon DEF Inv

\* The handlers that tell no agent of workloads; an agent that is gone takes part no
\* more.
LEMMA QuietKeeps ==
  ASSUME Inv, UNCHANGED <<connVars, agentVars>>,
         HandleAgentGone \/ RejectUpdateState \/ HandleUpdateWorkloadState \/ HandleCompleteStateRequest
  PROVE  Inv' /\ Refines
<1>1. /\ ServerTypeOK' /\ rendered_workloads' = rendered_workloads
      /\ \A a \in Agent : SameFor(to_agents, to_agents', a)
      /\ agent_map' = agent_map \/ \E h \in Agent : agent_map' = agent_map \ {h}
  BY QuietStep, ZenonT(30) DEF Inv, TypeOK
<1>2. /\ TypeOK' /\ Owned' /\ Addressed' /\ view' = view /\ greeted' = greeted
      /\ \A a : Attached(a)' <=> Attached(a)
      /\ \A a : Messages(a)' = connection[session[a]].to_agent \o to_agents'
  BY <1>1, ServerLeaves DEF Inv
<1>3. \A a : Wanted(a)' = Wanted(a)
  BY <1>1 DEF Wanted
<1>4. /\ to_agents' \in Seq(FromServer) /\ to_agents \in Seq(FromServer) /\ TypeOK
      /\ agent_map \subseteq Agent
  BY <1>1, ZenonT(30) DEF Inv, TypeOK, ServerTypeOK
<1>5. \A a \in Agent : (a \in agent_map' <=> a \in agent_map) => Stays(a)
  BY <1>1, <1>2, <1>3, <1>4, SameForStays
<1>6. QueuedHello'
  <2> SUFFICES ASSUME NEW a \in agent_map', HelloIn(to_agents', a), NEW V \in View
               PROVE  LastOf(At(V, to_agents', a)) = Wanted(a)
    BY <1>3 DEF QueuedHello
  <2>1. a \in agent_map /\ a \in Agent
    BY <1>1, <1>4
  <2>2. <<>> \in Seq(FromServer) /\ <<>> \o to_agents = to_agents /\ <<>> \o to_agents' = to_agents'
    BY <1>4
  <2>3. HelloIn(to_agents, a) /\ At(V, <<>> \o to_agents', a) = At(V, <<>> \o to_agents, a)
    BY <1>1, <2>1, <2>2, Zenon DEF SameFor
  <2>4. LastOf(At(V, to_agents, a)) = Wanted(a)
    BY <2>1, <2>3 DEF Inv, QueuedHello
  <2> QED
    BY <2>2, <2>3, <2>4
<1>7. CASE agent_map' = agent_map
  <2>1. \A a \in Agent : Stays(a)
    BY <1>5, <1>7
  <2> QED
    BY <1>2, <1>4, <1>6, <2>1, StaysAll DEF Inv
<1>8. ASSUME NEW h \in Agent, agent_map' = agent_map \ {h} PROVE Inv' /\ Refines
  <2>1. Others(h)
    BY <1>5, <1>8 DEF Others
  <2>2. Comes(h)' /\ ~Synced(h)'
    BY <1>8 DEF Comes, Known, Synced
  <2>3. OnTheWay'
    BY <2>1, <2>2, OthersComing DEF Inv
  <2>4. Replica!Outside(h)
    BY <1>2, <1>3, <1>4, <2>1, <2>2, MovesOutside
  <2> QED
    BY <1>2, <1>6, <2>3, <2>4 DEF Inv, Refines, Replica!Next
<1> QED
  BY <1>1, <1>7, <1>8, Zenon

\* The server wants something else: whoever is on its way to what was wanted is now
\* on its way to that.
LEMMA UpdateKeeps ==
  ASSUME Inv, HandleUpdateState, UNCHANGED <<connVars, agentVars>>
  PROVE  Inv' /\ Refines
<1>1. ServerTypeOK' /\ agent_map' = agent_map
  BY UpdateStep, Zenon DEF Inv, TypeOK
<1>2. \A a \in agent_map :
        /\ HelloIn(to_agents', a) => HelloIn(to_agents, a)
        /\ \A V \in View, qs \in Seq(FromServer) :
             LastOf(At(V, qs \o to_agents, a)) = Wanted(a) =>
               At(V, qs \o to_agents', a) =
                 IF Wanted(a)' # Wanted(a) THEN Append(At(V, qs \o to_agents, a), Wanted(a)')
                 ELSE At(V, qs \o to_agents, a)
  BY UpdateStep, Zenon DEF Inv, TypeOK
<1>3. /\ TypeOK' /\ Owned' /\ Addressed' /\ view' = view /\ greeted' = greeted
      /\ \A a : Attached(a)' <=> Attached(a)
      /\ \A a : Messages(a)' = connection[session[a]].to_agent \o to_agents'
  BY <1>1, ServerLeaves DEF Inv
<1>4. /\ to_agents' \in Seq(FromServer) /\ to_agents \in Seq(FromServer) /\ TypeOK
      /\ agent_map \subseteq Agent /\ \A a \in Agent : Wanted(a)' \in View
  BY <1>1, Zenon DEF Inv, TypeOK, ServerTypeOK, Wanted, get_workloads_for_agent, View
<1>5. QueuedHello'
  <2> SUFFICES ASSUME NEW a \in agent_map, HelloIn(to_agents', a), NEW V \in View
               PROVE  LastOf(At(V, to_agents', a)) = Wanted(a)'
    BY <1>1 DEF QueuedHello
  <2>1. <<>> \in Seq(FromServer) /\ <<>> \o to_agents = to_agents /\ <<>> \o to_agents' = to_agents'
    BY <1>4
  <2>2. LastOf(At(V, <<>> \o to_agents, a)) = Wanted(a)
    BY <1>2, <2>1 DEF Inv, QueuedHello
  <2>3. At(V, <<>> \o to_agents', a) =
          IF Wanted(a)' # Wanted(a) THEN Append(At(V, <<>> \o to_agents, a), Wanted(a)')
          ELSE At(V, <<>> \o to_agents, a)
    BY <1>2, <2>1, <2>2, Zenon
  <2>4. At(V, to_agents, a) \in Views /\ Wanted(a)' \in View
    BY <1>4, AtType
  <2>5. LastOf(Append(At(V, to_agents, a), Wanted(a)')) = Wanted(a)'
    BY <2>4, AppendView
  <2> QED
    BY <2>1, <2>2, <2>3, <2>5, Zenon
<1>6. ASSUME NEW a \in Agent, Known(a)
      PROVE  /\ States(a) \in Views /\ LastOf(States(a)') = Wanted(a)'
             /\ States(a)' = IF Wanted(a)' # Wanted(a) THEN Append(States(a), Wanted(a)') ELSE States(a)
  <2> DEFINE q == connection[session[a]].to_agent
             V == view[a]
  <2>1. q \in Seq(FromServer) /\ V \in View /\ States(a) \in Views
    BY <1>4, <1>6, WayTypes, Zenon DEF Known, Attached
  <2>2. States(a) = At(V, q \o to_agents, a) /\ States(a)' = At(V, q \o to_agents', a)
    <3>1. States(a)' = At(V, Messages(a)', a)
      BY <1>3 DEF States, At
    <3> QED
      BY <1>3, <3>1, Zenon DEF States, At, Messages
  <2>3. LastOf(States(a)) = Wanted(a) /\ a \in agent_map
    BY <1>6, Zenon DEF Inv, OnTheWay, Comes, Known
  <2> HIDE DEF q, V
  <2>4. States(a)' = IF Wanted(a)' # Wanted(a) THEN Append(States(a), Wanted(a)') ELSE States(a)
    BY <1>2, <2>1, <2>2, <2>3
  <2>5. LastOf(Append(States(a), Wanted(a)')) = Wanted(a)'
    BY <1>4, <2>1, AppendView
  <2> QED
    BY <2>1, <2>3, <2>4, <2>5, Zenon
<1>7. ASSUME NEW a \in Agent, Known(a)' PROVE Known(a)
  <2>1. Attached(a) /\ a \in agent_map
    BY <1>1, <1>3, <1>7, Zenon DEF Known
  <2>2. Greets(a)' => Greets(a)
    <3> DEFINE q == connection[session[a]].to_agent
    <3>1. q \in Seq(FromServer)
      BY <1>4, <2>1, WayTypes DEF Attached
    <3>2. Greets(a)' <=> HelloIn(q \o to_agents', a)
      BY <1>3, Zenon DEF Greets
    <3>3. Greets(a) <=> HelloIn(q \o to_agents, a)
      BY DEF Greets, Messages
    <3> HIDE DEF q
    <3> QED
      BY <1>2, <1>4, <2>1, <3>1, <3>2, <3>3, HelloIsIn, ZenonT(30)
  <2> QED
    BY <1>3, <1>7, <2>1, <2>2 DEF Known
<1>8. OnTheWay'
  <2>1. \A a \in Agent : Comes(a)'
    BY <1>6, <1>7, ZenonT(30) DEF Comes
  <2> QED
    BY <2>1 DEF OnTheWay
<1>9. Replica!Change
  <2>1. \A a \in Agent : Synced(a)' = Synced(a)
    <3> SUFFICES ASSUME NEW a \in Agent PROVE Synced(a)' = Synced(a)
      OBVIOUS
    <3>1. Synced(a)' <=> Synced(a)
      BY <1>1, <1>3, ZenonT(30) DEF Synced
    <3>2. Synced(a)' \in BOOLEAN /\ Synced(a) \in BOOLEAN
      BY DEF Synced
    <3> QED
      BY <3>1, <3>2
  <2>2. synced' = synced
    BY <2>1, NextAbstract DEF synced
  <2>3. desired' \in [Agent -> SUBSET Workload]
    BY <1>4, NextAbstract DEF View
  <2>4. ASSUME NEW a \in Agent
        PROVE  coming'[a] = IF synced[a] /\ desired'[a] # desired[a]
                            THEN Append(coming[a], desired'[a]) ELSE coming[a]
    <3>1. /\ desired[a] = Wanted(a) /\ (synced[a] <=> Synced(a))
          /\ coming[a] = IF Synced(a) THEN Tail(States(a)) ELSE <<>>
      BY DEF desired, synced, coming
    <3>2. /\ desired'[a] = Wanted(a)'
          /\ coming'[a] = IF Synced(a) THEN Tail(States(a)') ELSE <<>>
      BY <2>1, NextAbstract
    <3>3. Synced(a) => Known(a)
      BY DEF Synced, Known
    <3>4. ASSUME NEW s \in Views, NEW W PROVE Tail(Append(s, W)) = Append(Tail(s), W)
      <4>1. s \in Seq(View) /\ Len(s) # 0
        BY DEF Views
      <4> QED
        BY <4>1
    <3> QED
      BY <1>6, <3>1, <3>2, <3>3, <3>4, ZenonT(30)
  <2>5. coming' = [a \in Agent |-> IF synced[a] /\ desired'[a] # desired[a]
                                   THEN Append(coming[a], desired'[a]) ELSE coming[a]]
    <3>1. coming' = [a \in Agent |-> coming'[a]]
      BY NextAbstract, Zenon
    <3> QED
      BY <2>4, <3>1
  <2> QED
    BY <1>3, <2>2, <2>3, <2>5 DEF Replica!Change, desired, synced, coming, Wanted
<1> QED
  BY <1>3, <1>5, <1>8, <1>9, Zenon DEF Inv, Refines, Replica!Next

-----------------------------------------------------------------------------
(* The theorems *)

\* The server with a startup manifest, and no connection yet.
LEMMA Start == ASSUME Init PROVE Inv /\ Replica!Init
<1> USE DEF Init, ServerInit, ConnInit
<1>1. rendered_workloads \in SUBSET Workload /\ IsState(rendered_workloads)
  BY WorkloadAssumption
<1>2. ServerTypeOK
  <2>1. [n \in Name |-> {}] \in Graph /\ [i \in Instance |-> None] \in StatesMap
    BY Zenon DEF Graph, StatesMap
  <2>2. delete_graph \in Graph /\ workload_states_map \in StatesMap
    BY <1>1, <2>1, GraphTypes, MapTypes, ZenonT(30)
  <2>3. to_server \in Seq(ToServer)
    BY SMTT(30)
  <2>4. to_agents \in Seq(FromServer)
    <3>1. <<>> \in Seq(FromServer) /\ \A x \in FromServer : <<x>> \in Seq(FromServer)
      BY SMTT(30)
    <3>2. UpdateWorkload(rendered_workloads, {}) \in FromServer
      BY <1>1, MessageTypes
    <3> QED
      BY <3>1, <3>2, Zenon
  <2> QED
    BY <1>1, <2>2, <2>3, <2>4, Zenon DEF ServerTypeOK, Graph, StatesMap
<1>3. TypeOK
  <2>1. Unused \in ConnectionType
    <3>1. <<>> \in Seq(FromServer) /\ <<>> \in Seq(ToServer)
      BY SMTT(30)
    <3> QED
      BY <3>1, Zenon DEF Unused, ConnectionType
  <2>2. connection \in [Connection -> ConnectionType]
    BY <2>1, Zenon
  <2>3. /\ agent_senders \in [Agent -> Connection \cup {0}] /\ session \in [Agent -> Connection \cup {0}]
        /\ view \in [Agent -> SUBSET Workload] /\ passed_over \in [Agent -> SUBSET Workload]
        /\ leftovers \in [Agent -> SUBSET Instance] /\ leaving \in [Agent -> SUBSET Instance]
        /\ unreported \in [Agent -> SUBSET Instance] /\ greeted \in [Agent -> BOOLEAN]
        /\ astray \subseteq Instance
    OBVIOUS
  <2> QED
    BY <1>2, <2>2, <2>3, Zenon DEF TypeOK, ConnectionType
<1>4. Owned /\ Addressed
  <2>1. \A c \in Connection : connection[c].task = "unused" /\ 1..Len(connection[c].to_agent) = {}
    BY SMTT(30) DEF Unused
  <2> QED
    BY <2>1, ZenonT(30) DEF Owned, Addressed
<1>5. QueuedHello /\ OnTheWay /\ \A a \in Agent : ~Synced(a)
  BY DEF QueuedHello, OnTheWay, Comes, Known, Synced, Attached
<1>6. /\ desired \in [Agent -> SUBSET Workload] /\ view \in [Agent -> SUBSET Workload]
      /\ coming = [a \in Agent |-> <<>>] /\ synced = [a \in Agent |-> FALSE]
  <2>1. \A a \in Agent : Synced(a) = FALSE
    <3>1. \A a \in Agent : Synced(a) \in BOOLEAN
      BY Zenon DEF Synced
    <3> QED
      BY <1>5, <3>1, Zenon
  <2>2. \A a \in Agent : Wanted(a) \in SUBSET Workload
    BY <1>1 DEF Wanted, get_workloads_for_agent
  <2> QED
    BY <2>1, <2>2, Zenon DEF desired, coming, synced
<1>7. Replica!Init
  BY <1>6, Zenon DEF Replica!Init, desired, coming, synced, Wanted
<1> QED
  BY <1>3, <1>4, <1>5, <1>7, ZenonT(30) DEF Inv

\* Every step.
LEMMA Steps == ASSUME Inv, [Next]_vars PROVE Inv' /\ Refines
<1>0. TypeOK /\ Owned /\ ServerTypeOK
  BY Zenon DEF Inv, TypeOK
<1>1. CASE ServerStep
  <2>1. ServerNext /\ UNCHANGED <<connVars, agentVars>>
    BY <1>1 DEF ServerStep
  <2> QED
    BY <2>1, HelloKeeps, QuietKeeps, UpdateKeeps DEF ServerNext
<1>2. CASE Distribute
  BY <1>0, <1>2, DistributeTypes, DistributeKeeps
<1>3. CASE RequestUpdate
  BY <1>0, <1>3, EnvironmentTypes, IdleKeeps
<1>4. ASSUME NEW c \in Connection, Middleware(c) PROVE Inv' /\ Refines
  <2>1. TypeOK'
    BY <1>0, <1>4, MiddlewareTypes
  <2>2. CASE ForwardFails(c)
    BY <1>4, <2>1, <2>2, CutKeeps
  <2>3. CASE agent_hello(c) \/ forward_to_server(c) \/ agent_gone(c) \/ ForwardEnds(c)
    BY <1>4, <2>1, <2>3, IdleKeeps
  <2> QED
    BY <1>4, <2>2, <2>3 DEF Middleware, ConnTask
<1>5. ASSUME NEW c \in Connection, Fail(c) PROVE Inv' /\ Refines
  BY <1>0, <1>5, EnvironmentTypes, CutKeeps
<1>6. ASSUME NEW a \in Agent, Connect(a) PROVE Inv' /\ Refines
  BY <1>0, <1>6, EnvironmentTypes, ConnectKeeps
<1>7. ASSUME NEW a \in Agent, Disconnect(a) \/ Crash(a) PROVE Inv' /\ Refines
  BY <1>0, <1>7, EnvironmentTypes, CutKeeps
<1>8. ASSUME NEW a \in Agent, AgentStep(a) PROVE Inv' /\ Refines
  <2>1. TypeOK'
    BY <1>0, <1>8, AgentTypes
  <2>2. CASE execute_from_server_command(a)
    BY <2>1, <2>2, ExecuteKeeps
  <2>3. CASE ReportRunning(a) \/ ReportRemoved(a)
    BY <2>1, <2>3, IdleKeeps
  <2> QED
    BY <1>8, <2>2, <2>3 DEF AgentStep
<1>9. CASE UNCHANGED vars
  <2>1. /\ UNCHANGED <<rendered_workloads, delete_graph, workload_states_map, agent_map, to_server, to_agents>>
        /\ UNCHANGED <<agent_senders, connection, session, astray>>
        /\ UNCHANGED <<view, passed_over, leftovers, leaving, unreported, greeted>>
    BY <1>9 DEF vars, serverVars, stateVars, connVars, agentVars
  <2>2. TypeOK' /\ Owned' /\ Addressed'
    BY <2>1, Zenon DEF Inv, TypeOK, ServerTypeOK, Owned, Addressed
  <2>3. ServerSame /\ \A a \in Agent : Untouched(a)
    BY <2>1, Zenon DEF ServerSame, Untouched
  <2>4. \A a \in Agent : Stays(a)
    BY <2>3, UntouchedStays
  <2> QED
    BY <2>2, <2>3, <2>4, StaysAll, SameQueue, ZenonT(30) DEF Inv
<1> QED
  BY <1>1, <1>2, <1>3, <1>4, <1>5, <1>6, <1>7, <1>8, <1>9, SMTT(30) DEF Next

\* What the connections, the agents and the server hold, and all messages between
\* them, is of its type, for all agents, workloads, connections, faults and updates.
THEOREM ClusterTypeCorrect == Spec => []TypeOK
<1>1. Init => Inv
  BY Start
<1>2. Inv /\ [Next]_vars => Inv'
  BY Steps
<1>3. Inv => TypeOK
  BY DEF Inv
<1> QED
  BY <1>1, <1>2, <1>3, PTL DEF Spec

\* However connections break, agents crash and return, and hellos and updates
\* overtake each other, an agent that takes part has been told, with what is on its
\* way, what the server wants of it (ankaios_server.rs, handling of AgentHello and
\* UpdateState; from_server_proxy.rs).
THEOREM AgentsAreInSync == Spec => []InSync
<1>1. Init => Inv
  BY Start
<1>2. Inv /\ [Next]_vars => Inv'
  BY Steps
<1>3. Inv => InSync
  <2>1. \A a \in Agent : Synced(a) => Known(a)
    BY DEF Synced, Known
  <2> QED
    BY <2>1 DEF Inv, OnTheWay, Comes, LastOf, Wanted, InSync
<1> QED
  BY <1>1, <1>2, <1>3, PTL DEF Spec

\* Server, middleware and agents implement the distribution of workloads: an agent
\* that takes part sees every state the server wants of it, in order.
THEOREM ClusterImplementsReplica == Spec => ImplementsReplica
<1>1. Init => Inv /\ Replica!Init
  BY Start
<1>2. Inv /\ [Next]_vars => Inv' /\ [Replica!Next]_(Replica!vars)
  BY Steps DEF Refines
<1> QED
  BY <1>1, <1>2, PTL DEF Spec, ImplementsReplica, Replica!Spec

-----------------------------------------------------------------------------
(* The abstract specification by itself: for states of any kind, and for       *)
(* variables that have nothing to do with those of the cluster.                *)

CONSTANT AgentState
VARIABLES wants, sees, awaits, joined

Abstract == INSTANCE DesiredStateReplica WITH
  State <- AgentState, desired <- wants, seen <- sees, coming <- awaits, synced <- joined

\* The inductive invariant.
ReplicaTypes ==
  /\ wants \in [Agent -> AgentState] /\ sees \in [Agent -> AgentState]
  /\ awaits \in [Agent -> Seq(AgentState)] /\ joined \in [Agent -> BOOLEAN]

ReplicaInv == ReplicaTypes /\ Abstract!UpToDate

\* No agent takes part at first.
LEMMA InitReplica == Abstract!Init => ReplicaInv
BY DEF Abstract!Init, ReplicaInv, ReplicaTypes, Abstract!UpToDate

\* One more state at the end is the last one.
LEMMA LatestOfAppend ==
  ASSUME NEW q \in Seq(AgentState), NEW s \in AgentState
  PROVE  /\ Append(q, s) \in Seq(AgentState) /\ Append(q, s) # <<>>
         /\ Append(q, s)[Len(Append(q, s))] = s
OBVIOUS

\* The first state gone, the last one stays, or was the first.
LEMMA LatestOfTail ==
  ASSUME NEW q \in Seq(AgentState), q # <<>>
  PROVE  /\ Head(q) \in AgentState /\ Tail(q) \in Seq(AgentState)
         /\ Tail(q) = <<>> => q[Len(q)] = Head(q)
         /\ Tail(q) # <<>> => Tail(q)[Len(Tail(q))] = q[Len(q)]
<1>1. Len(q) \in Nat /\ Len(q) # 0 /\ Head(q) = q[1] /\ Head(q) \in AgentState
  OBVIOUS
<1>2. Tail(q) \in Seq(AgentState) /\ Len(Tail(q)) = Len(q) - 1
  BY <1>1
<1>3. \A i \in 1..Len(q) - 1 : Tail(q)[i] = q[i + 1]
  BY <1>1
<1>4. Tail(q) = <<>> => Len(q) = 1
  <2>1. Len(<<>>) = 0
    OBVIOUS
  <2>2. Tail(q) = <<>> => Len(q) - 1 = 0
    BY ONLY <1>2, <2>1
  <2> QED
    BY <1>1, <2>2
<1>5. Tail(q) # <<>> => Len(q) - 1 \in 1..Len(q) - 1
  <2>1. Tail(q) # <<>> => Len(Tail(q)) # 0
    BY <1>2
  <2> QED
    BY <1>1, <1>2, <2>1
<1> QED
  BY <1>1, <1>2, <1>3, <1>4, <1>5

\* A change of the desired state is on its way at once.
LEMMA ReplicaChanges == ReplicaInv /\ Abstract!Change => ReplicaInv'
<1> SUFFICES ASSUME ReplicaInv, Abstract!Change PROVE ReplicaInv'
  OBVIOUS
<1>1. ReplicaTypes'
  BY LatestOfAppend DEF ReplicaInv, ReplicaTypes, Abstract!Change
<1>2. ASSUME NEW a \in Agent, joined'[a] PROVE Abstract!Latest(a)' = wants'[a]
  <2>1. joined[a] /\ sees'[a] = sees[a] /\ Abstract!Latest(a) = wants[a]
    BY <1>2 DEF Abstract!Change, ReplicaInv, Abstract!UpToDate
  <2>2. CASE wants'[a] = wants[a]
    BY <2>1, <2>2, SMTT(30) DEF Abstract!Change, Abstract!Latest
  <2>3. CASE wants'[a] # wants[a]
    <3>1. awaits'[a] = Append(awaits[a], wants'[a])
      BY <2>1, <2>3 DEF Abstract!Change
    <3>2. awaits[a] \in Seq(AgentState) /\ wants'[a] \in AgentState
      BY DEF ReplicaInv, ReplicaTypes, Abstract!Change
    <3> QED
      BY <3>1, <3>2, LatestOfAppend, SMTT(30) DEF Abstract!Latest
  <2> QED
    BY <2>2, <2>3, SMTT(30)
<1> QED
  BY <1>1, <1>2 DEF ReplicaInv, Abstract!UpToDate

\* An agent takes up the next state, joins, or leaves.
LEMMA ReplicaMoves ==
  ASSUME NEW a \in Agent, ReplicaInv,
         Abstract!Repeat(a) \/ Abstract!Advance(a) \/ Abstract!Outside(a) \/ Abstract!Join(a)
  PROVE  ReplicaInv'
<1>1. ReplicaTypes'
  <2>1. CASE Abstract!Repeat(a)
    BY <2>1, LatestOfAppend DEF ReplicaInv, ReplicaTypes, Abstract!Repeat
  <2>2. CASE Abstract!Advance(a)
    BY <2>2, LatestOfTail DEF ReplicaInv, ReplicaTypes, Abstract!Advance
  <2>3. CASE Abstract!Outside(a)
    BY <2>3 DEF ReplicaInv, ReplicaTypes, Abstract!Outside
  <2>4. CASE Abstract!Join(a)
    BY <2>4, SMTT(30) DEF ReplicaInv, ReplicaTypes, Abstract!Join
  <2> QED
    BY <2>1, <2>2, <2>3, <2>4
<1>2. ASSUME NEW b \in Agent, b # a, joined'[b] PROVE Abstract!Latest(b)' = wants'[b]
  <2>1. /\ joined[b] /\ sees'[b] = sees[b] /\ awaits'[b] = awaits[b] /\ wants'[b] = wants[b]
    BY <1>2 DEF Abstract!Repeat, Abstract!Advance, Abstract!Outside, Abstract!Join, ReplicaInv, ReplicaTypes
  <2> QED
    BY <2>1 DEF Abstract!Latest, ReplicaInv, Abstract!UpToDate
<1>3. ASSUME joined'[a] PROVE Abstract!Latest(a)' = wants'[a]
  <2>1. CASE Abstract!Repeat(a)
    <3>1. awaits'[a] = Append(awaits[a], wants[a]) /\ wants' = wants
      BY <2>1 DEF Abstract!Repeat, ReplicaInv, ReplicaTypes
    <3>2. awaits[a] \in Seq(AgentState) /\ wants[a] \in AgentState
      BY DEF ReplicaInv, ReplicaTypes
    <3> QED
      BY <3>1, <3>2, LatestOfAppend DEF Abstract!Latest
  <2>2. CASE Abstract!Advance(a)
    <3>1. /\ awaits'[a] = Tail(awaits[a]) /\ sees'[a] = Head(awaits[a]) /\ wants' = wants
          /\ awaits[a] # <<>> /\ awaits[a] \in Seq(AgentState) /\ joined[a]
      BY <2>2 DEF Abstract!Advance, ReplicaInv, ReplicaTypes
    <3>2. awaits[a][Len(awaits[a])] = wants[a]
      BY <3>1 DEF Abstract!Latest, ReplicaInv, Abstract!UpToDate
    <3> QED
      BY <3>1, <3>2, LatestOfTail DEF Abstract!Latest
  <2>3. CASE Abstract!Outside(a)
    BY <1>3, <2>3, SMTT(30) DEF Abstract!Outside, ReplicaInv, ReplicaTypes
  <2>4. CASE Abstract!Join(a)
    BY <2>4 DEF Abstract!Join
  <2> QED
    BY <2>1, <2>2, <2>3, <2>4, SMTT(30)
<1> QED
  BY <1>1, <1>2, <1>3 DEF ReplicaInv, Abstract!UpToDate

\* For every set of agents and of states: as long as an agent takes part, what it
\* has been told with what is still to come ends in what the server wants of it.
\* Server, middleware and agents implement this specification (Cluster).
THEOREM ReplicasAreUpToDate == Abstract!Spec => []Abstract!UpToDate
<1>1. Abstract!Init => ReplicaInv
  BY InitReplica
<1>2. ReplicaInv /\ [Abstract!Next]_(Abstract!vars) => ReplicaInv'
  <2> SUFFICES ASSUME ReplicaInv, [Abstract!Next]_(Abstract!vars) PROVE ReplicaInv'
    OBVIOUS
  <2>1. CASE Abstract!Change
    BY <2>1, ReplicaChanges
  <2>2. ASSUME NEW a \in Agent,
               Abstract!Repeat(a) \/ Abstract!Advance(a) \/ Abstract!Outside(a) \/ Abstract!Join(a)
        PROVE  ReplicaInv'
    BY <2>2, ReplicaMoves
  <2>3. CASE UNCHANGED Abstract!vars
    BY <2>3 DEF Abstract!vars, ReplicaInv, ReplicaTypes, Abstract!UpToDate, Abstract!Latest
  <2> QED
    BY <2>1, <2>2, <2>3 DEF Abstract!Next
<1>3. ReplicaInv => Abstract!UpToDate
  BY DEF ReplicaInv
<1> QED
  BY <1>1, <1>2, <1>3, PTL DEF Abstract!Spec

=============================================================================
