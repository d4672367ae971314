---------------------------- MODULE SequenceFacts ----------------------------
(***************************************************************************)
(* Facts that the proofs about channels share: induction and recursion     *)
(* over the natural numbers, and what the operators on sequences do.       *)
(***************************************************************************)
EXTENDS Sequences, NaturalsInduction, WellFoundedInduction, TLAPS

-----------------------------------------------------------------------------
(* Induction *)

\* A set of natural numbers that is not empty has a least element.
LEMMA Least ==
  ASSUME NEW T, T \subseteq Nat, T # {}
  PROVE  \E x \in T : \A y \in T : x <= y
<1>1. PICK x \in T : \A y \in T : ~(<<y, x>> \in OpToRel(<, Nat))
  BY NatLessThanWellFounded, WFMin
<1>2. OpToRel(<, Nat) = {p \in Nat \X Nat : p[1] < p[2]}
  BY DEF OpToRel
<1>3. \A y \in T : x <= y
  <2> SUFFICES ASSUME NEW y \in T
               PROVE  x <= y
    OBVIOUS
  <2>1. x \in Nat /\ y \in Nat
    OBVIOUS
  <2>2. y < x => <<y, x>> \in {p \in Nat \X Nat : p[1] < p[2]}
    BY <2>1
  <2>3. ~(y < x)
    BY <1>1, <1>2, <2>2
  <2> QED
    BY <2>1, <2>3
<1> QED
  BY <1>3

\* Induction over the natural numbers, for the members of a set.
LEMMA Induction ==
  ASSUME NEW T, 0 \in T, \A n \in Nat : n \in T => n + 1 \in T
  PROVE  Nat \subseteq T
<1> DEFINE U == Nat \ T
<1> SUFFICES ASSUME U # {} PROVE FALSE
  OBVIOUS
<1>1. PICK x \in U : \A y \in U : x <= y
  BY Least
<1>2. x # 0 /\ x - 1 \in Nat /\ (x - 1) + 1 = x
  BY <1>1
<1>3. x - 1 \in T
  BY <1>1, <1>2
<1> QED
  BY <1>2, <1>3

-----------------------------------------------------------------------------
(* Recursion *)

\* f starts with b, and step[n] takes its value at n to the one at n + 1.
Iterates(f, S, b, step) ==
  f \in [Nat -> S] /\ f[0] = b /\ \A n \in Nat : f[n + 1] = step[n][f[n]]

\* There is such a function.
LEMMA Recursion ==
  ASSUME NEW S, NEW b \in S, NEW step \in [Nat -> [S -> S]]
  PROVE  \E f : Iterates(f, S, b, step)
<1> DEFINE Approx(n) == {g \in [0..n -> S] : g[0] = b /\ \A i \in 0..n : i # n => g[i + 1] = step[i][g[i]]}
<1>1. \A n \in Nat : Approx(n) # {}
  <2> DEFINE T == {n \in Nat : Approx(n) # {}}
  <2>1. 0 \in T
    <3>1. [i \in 0..0 |-> b] \in Approx(0)
      OBVIOUS
    <3> QED
      BY <3>1
  <2>2. ASSUME NEW n \in Nat, n \in T PROVE n + 1 \in T
    <3>1. PICK g \in Approx(n) : TRUE
      BY <2>2
    <3> DEFINE h == [i \in 0..n + 1 |-> IF i <= n THEN g[i] ELSE step[n][g[n]]]
    <3>2. g[n] \in S /\ step[n][g[n]] \in S
      BY <3>1
    <3>3. h \in [0..n + 1 -> S] /\ h[0] = b
      BY <3>1, <3>2
    <3>4. ASSUME NEW i \in 0..n + 1, i # n + 1 PROVE h[i + 1] = step[i][h[i]]
      <4>1. i \in 0..n /\ h[i] = g[i]
        BY <3>4
      <4>2. CASE i = n
        BY <4>1, <4>2
      <4>3. CASE i # n
        <5>1. i + 1 \in 0..n /\ h[i + 1] = g[i + 1]
          BY <4>1, <4>3
        <5> QED
          BY <3>1, <4>1, <4>3, <5>1
      <4> QED
        BY <4>2, <4>3
    <3>5. h \in Approx(n + 1)
      BY <3>3, <3>4
    <3> HIDE DEF h, Approx
    <3> QED
      BY <3>5
  <2> HIDE DEF T
  <2>3. Nat \subseteq T
    BY <2>1, <2>2, Induction
  <2> QED
    BY <2>3 DEF T
<1>2. ASSUME NEW n \in Nat, NEW m \in Nat, n <= m, NEW g \in Approx(n), NEW h \in Approx(m)
      PROVE  \A i \in 0..n : g[i] = h[i]
  <2> DEFINE T == {i \in Nat : i <= n => g[i] = h[i]}
  <2>1. 0 \in T
    BY <1>2
  <2>2. ASSUME NEW i \in Nat, i \in T PROVE i + 1 \in T
    <3>1. CASE i + 1 <= n
      <4>1. i \in 0..n /\ i # n /\ i \in 0..m /\ i # m /\ g[i] = h[i]
        BY <1>2, <2>2, <3>1
      <4>2. g[i + 1] = step[i][g[i]] /\ h[i + 1] = step[i][h[i]]
        BY <1>2, <4>1
      <4> QED
        BY <4>1, <4>2
    <3> QED
      BY <3>1
  <2> HIDE DEF T
  <2>3. Nat \subseteq T
    BY <2>1, <2>2, Induction
  <2> QED
    BY <2>3 DEF T
<1> DEFINE pick == [n \in Nat |-> CHOOSE g \in Approx(n) : TRUE]
           f == [n \in Nat |-> pick[n][n]]
<1>3. \A n \in Nat : pick[n] \in Approx(n)
  BY <1>1
<1> HIDE DEF pick
<1>4. f \in [Nat -> S] /\ f[0] = b
  <2>1. ASSUME NEW n \in Nat PROVE pick[n][n] \in S
    BY <1>3
  <2>2. pick[0][0] = b
    BY <1>3
  <2> QED
    BY <2>1, <2>2
<1>5. ASSUME NEW n \in Nat PROVE f[n + 1] = step[n][f[n]]
  <2>1. pick[n] \in Approx(n) /\ pick[n + 1] \in Approx(n + 1)
    BY <1>3
  <2> HIDE DEF pick
  <2>2. pick[n][n] = pick[n + 1][n]
    <3> HIDE DEF Approx
    <3>1. \A i \in 0..n : pick[n][i] = pick[n + 1][i]
      BY <1>2, <2>1
    <3> QED
      BY <3>1
  <2>3. pick[n + 1][n + 1] = step[n][pick[n + 1][n]]
    BY <2>1
  <2> QED
    BY <2>2, <2>3
<1>6. Iterates(f, S, b, step)
  <2> HIDE DEF f
  <2> QED
    BY <1>4, <1>5 DEF Iterates
<1> QED
  BY <1>6

\* The same up to N.
Recurses(f, S, b, N, step) ==
  /\ f \in [0..N -> S] /\ f[0] = b
  /\ \A n \in 1..N : f[n] = step[n][f[n - 1]]

\* There is such a function.
LEMMA BoundedRecursion ==
  ASSUME NEW S, NEW b \in S, NEW N \in Nat, NEW step \in [1..N -> [S -> S]]
  PROVE  \E f : Recurses(f, S, b, N, step)
<1> DEFINE all == [n \in Nat |-> IF n < N THEN step[n + 1] ELSE [x \in S |-> x]]
<1>1. all \in [Nat -> [S -> S]]
  OBVIOUS
<1>2. \A n \in 1..N : all[n - 1] = step[n] /\ n - 1 \in Nat
  OBVIOUS
<1> HIDE DEF all
<1>3. PICK g : Iterates(g, S, b, all)
  BY <1>1, Recursion
<1> DEFINE f == [n \in 0..N |-> g[n]]
<1>4. f \in [0..N -> S] /\ f[0] = b /\ \A n \in 0..N : f[n] = g[n]
  BY <1>3 DEF Iterates
<1>5. \A n \in 1..N : f[n] = step[n][f[n - 1]]
  <2> SUFFICES ASSUME NEW n \in 1..N PROVE f[n] = step[n][f[n - 1]]
    OBVIOUS
  <2>1. f[n] = g[n] /\ f[n - 1] = g[n - 1] /\ n - 1 \in Nat
    BY <1>4
  <2>2. g[(n - 1) + 1] = all[n - 1][g[n - 1]]
    BY <1>3, <2>1 DEF Iterates
  <2> HIDE DEF f
  <2> QED
    BY <1>2, <2>1, <2>2
<1> HIDE DEF f
<1>6. Recurses(f, S, b, N, step)
  BY <1>4, <1>5 DEF Recurses
<1> QED
  BY <1>6

-----------------------------------------------------------------------------
(* Sequences *)

\* One sequence after the other.
LEMMA Concatenation ==
  ASSUME NEW S, NEW s \in Seq(S), NEW r \in Seq(S)
  PROVE  /\ s \o r \in Seq(S) /\ Len(s \o r) = Len(s) + Len(r)
         /\ \A n \in 1..Len(s) : (s \o r)[n] = s[n]
         /\ \A n \in Len(s) + 1..Len(s) + Len(r) : (s \o r)[n] = r[n - Len(s)]
OBVIOUS

=============================================================================
