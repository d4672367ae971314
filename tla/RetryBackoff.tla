----------------------------- MODULE RetryBackoff -----------------------------
(***************************************************************************)
(* How long a failed creation is held back before it is tried again        *)
(* (retry_manager.rs): the counter of a retry token, and the computation   *)
(* of the maximal backoff in u64, which wraps around in release builds.    *)
(* A u64 is a sequence of four 16-bit limbs, the lowest first.             *)
(***************************************************************************)
EXTENDS Naturals

CONSTANT MaxCounter   \* bound on the counter, a u32 in the code

ASSUME MaxCounterAssumption == MaxCounter \in Nat

VARIABLES
  phase,            \* of the workload's creation
  counter,          \* of the current token
  maximal_backoff   \* of the timeout that was chosen last

vars == <<phase, counter, maximal_backoff>>

BASE_BACKOFF_IN_MILLIS == 500
BACKOFF_MAX_IN_MILLIS == 300000

Limb == 65536

\* Mutant: the product is computed in 32 bits.
wrapping_mulMutant(v, k) ==
  LET low == v[1] * k
      next == v[2] * k + low \div Limb
  IN <<low % Limb, next % Limb, 0, 0>>

\* Multiplication of a u64 by a small number, as release builds do it.
wrapping_mul(v, k) ==
  LET p1 == v[1] * k
      p2 == v[2] * k + p1 \div Limb
      p3 == v[3] * k + p2 \div Limb
      p4 == v[4] * k + p3 \div Limb
  IN <<p1 % Limb, p2 % Limb, p3 % Limb, p4 % Limb>>

\* 2u64.pow(c): nothing is left of it from 2^64 on.
pow2(c) == [i \in 1..4 |-> IF c \div 16 = i - 1 THEN 2^(c % 16) ELSE 0]

calc_backoff(c) ==
  LET v == wrapping_mul(pow2(c), BASE_BACKOFF_IN_MILLIS)
      Small == v[4] = 0 /\ v[3] = 0 /\ v[2] < 256
  IN IF Small /\ v[1] + Limb * v[2] < BACKOFF_MAX_IN_MILLIS
     THEN v[1] + Limb * v[2] ELSE BACKOFF_MAX_IN_MILLIS

-----------------------------------------------------------------------------
Init == phase = "creating" /\ counter = 0 /\ maximal_backoff = 0

\* The creation failed: the timeout is computed and the counter incremented.
call_with_backoff ==
  /\ phase = "creating" /\ counter < MaxCounter
  /\ maximal_backoff' = calc_backoff(counter)
  /\ counter' = counter + 1
  /\ phase' = "waiting"

\* The timeout, any up to the maximal one, is over, and the creation is retried.
retry_create == phase = "waiting" /\ phase' = "creating" /\ UNCHANGED <<counter, maximal_backoff>>

\* An update, or the failure of a workload that was created, starts over.
new_token == phase' = "creating" /\ counter' = 0 /\ UNCHANGED maximal_backoff

Next == call_with_backoff \/ retry_create \/ new_token

Spec == Init /\ [][Next]_vars

-----------------------------------------------------------------------------
\* The maximal backoff doubles from 500 ms until it is 5 minutes.
ExponentialBackoff(c) ==
  IF c < 10 THEN BASE_BACKOFF_IN_MILLIS * 2^c ELSE BACKOFF_MAX_IN_MILLIS

\* The first 62 retries of a creation are held back by an exponential backoff,
\* although the product wraps around from the 57th on (calc_backoff).  From the
\* 63rd on it is zero, and they are not held back at all.
FirstRetriesHeldBack ==
  phase = "waiting" /\ counter <= 62 => maximal_backoff = ExponentialBackoff(counter - 1)
=============================================================================
