---------------------------- MODULE Modulo_proofs ----------------------------
(***************************************************************************)
(* Arithmetic of the app's counters: a uint8 or uint16 that is incremented *)
(* holds the number of increments modulo the number of values of its type. *)
(***************************************************************************)
EXTENDS Integers, TLAPS

\* A number is its quotient times the divisor, plus its remainder.
LEMMA DivisionWithRemainder ==
  ASSUME NEW n \in Nat, NEW w \in Nat \ {0}
  PROVE  /\ n = ((n \div w) * w) + (n % w)
         /\ n \div w \in Nat
         /\ n % w \in 0 .. w - 1
  OBVIOUS

LEMMA RemainderUnique ==
  ASSUME NEW w \in Nat \ {0}, NEW q \in Nat, NEW r \in 0 .. w - 1, NEW n \in Nat, n = (q * w) + r
  PROVE  n % w = r
  OBVIOUS

LEMMA ZeroRemainder == ASSUME NEW w \in Nat \ {0} PROVE 0 % w = 0
  OBVIOUS

\* Incrementing a counter that wraps is counting and wrapping afterwards.
LEMMA WrapAfterIncrement ==
  ASSUME NEW n \in Nat, NEW w \in Nat \ {0}
  PROVE  ((n % w) + 1) % w = (n + 1) % w
<1> DEFINE q == n \div w
           r == n % w
<1>1. n = (q * w) + r /\ q \in Nat /\ r \in 0 .. w - 1
  BY DivisionWithRemainder
<1> HIDE DEF q, r
<1>2. CASE r + 1 < w
  <2>1. n + 1 = (q * w) + (r + 1) /\ r + 1 \in 0 .. w - 1 /\ r + 1 = (0 * w) + (r + 1)
    BY <1>1, <1>2
  <2>2. (n + 1) % w = r + 1
    BY <2>1, <1>1, RemainderUnique
  <2>3. (r + 1) % w = r + 1
    BY <2>1, <1>1, RemainderUnique
  <2>4. QED BY <2>2, <2>3 DEF r
<1>3. CASE r + 1 = w
  <2>1. n + 1 = ((q + 1) * w) + 0 /\ w = (1 * w) + 0
    BY <1>1, <1>3
  <2>2. (n + 1) % w = 0
    BY <2>1, <1>1, RemainderUnique
  <2>3. w % w = 0
    BY <2>1, RemainderUnique
  <2>4. QED BY <2>2, <2>3, <1>3 DEF r
<1>4. QED BY <1>1, <1>2, <1>3
================================================================================
