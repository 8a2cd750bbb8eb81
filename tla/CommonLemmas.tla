--------------------------- MODULE CommonLemmas -----------------------------
(***************************************************************************)
(* Facts about natural numbers and sequences that several proofs use.      *)
(***************************************************************************)
EXTENDS Integers, Sequences, TLAPS, SequenceTheorems, WellFoundedInduction

(***************************************************************************)
(* Every non-empty set of natural numbers has a least element.  This takes *)
(* the place of induction below: the least counterexample is impossible.   *)
(***************************************************************************)
LessThan == {ss \in Nat \X Nat : ss[1] < ss[2]}

(* The library's relation for < on Nat, spelled out.                       *)
LEMMA LessThanIsOpToRel == OpToRel(<, Nat) = LessThan
  BY Zenon DEF OpToRel, LessThan

(* < is well founded on Nat.                                               *)
LEMMA LessThanWellFounded == IsWellFoundedOn(LessThan, Nat)
  BY Zenon, LessThanIsOpToRel, NatLessThanWellFounded

(* A non-empty set of natural numbers has a least element.                 *)
LEMMA LeastElement ==
  ASSUME NEW T, T \subseteq Nat, T # {}
  PROVE  \E m \in T : \A n \in T : m <= n
<1>1. PICK m \in T : \A n \in T : ~(<<n, m>> \in LessThan)
  BY WFMin, LessThanWellFounded
<1>2. ASSUME NEW n \in T, n < m
      PROVE  FALSE
  <2>1. <<n, m>> \in LessThan
    BY <1>2 DEF LessThan
  <2>2. QED
    BY <2>1, <1>1
<1>3. \A n \in T : m <= n
  BY <1>2
<1>4. QED
  BY <1>3

-----------------------------------------------------------------------------
(***************************************************************************)
(* Multiplication and remainders.                                          *)
(***************************************************************************)
(* Multiplying by a natural number is monotonic.                           *)
LEMMA MulMonotonic ==
  ASSUME NEW x \in Nat, NEW y \in Nat, NEW n \in Nat, x <= y
  PROVE  x * n <= y * n
<1>1. PICK d \in Nat : y = x + d
  <2>1. y - x \in Nat /\ y = x + (y - x)
    OBVIOUS
  <2>2. QED
    BY <2>1
<1>2. y * n = x * n + d * n
  BY <1>1
<1>3. d * n \in Nat /\ x * n \in Nat
  OBVIOUS
<1>4. QED
  BY <1>2, <1>3

(* Multiplying by a positive number reflects the order.                    *)
LEMMA MulReflects ==
  ASSUME NEW x \in Nat, NEW y \in Nat, NEW n \in Nat, x * n < y * n
  PROVE  x + 1 <= y
<1>1. CASE y <= x
  BY <1>1, MulMonotonic
<1>2. QED
  BY <1>1

(* A number without remainder is a multiple.                               *)
LEMMA NoRemainder ==
  ASSUME NEW p \in Nat, NEW n \in Nat, n >= 1, p % n = 0
  PROVE  \E q \in Nat : p = q * n
<1>1. p = (p \div n) * n + (p % n) /\ p \div n \in Nat
  OBVIOUS
<1>2. QED
  BY <1>1

(* A multiple has no remainder, and divides back to its factor.            *)
LEMMA Multiple ==
  ASSUME NEW q \in Nat, NEW n \in Nat, n >= 1
  PROVE  (q * n) % n = 0 /\ (q * n) \div n = q
<1> DEFINE p == q * n
<1>1. p \in Nat
  OBVIOUS
<1> HIDE DEF p
<1>2. p = (p \div n) * n + (p % n) /\ p \div n \in Nat /\ p % n \in 0 .. n - 1
  BY <1>1
<1>3. p \div n = q
  <2>1. CASE p \div n + 1 <= q
    <3>1. (p \div n + 1) * n <= q * n
      BY <1>2, <2>1, MulMonotonic
    <3>2. (p \div n + 1) * n = (p \div n) * n + n
      BY <1>2
    <3>3. QED
      BY <3>1, <3>2, <1>2 DEF p
  <2>2. CASE q + 1 <= p \div n
    <3>1. (q + 1) * n <= (p \div n) * n
      BY <1>2, <2>2, MulMonotonic
    <3>2. (q + 1) * n = q * n + n
      OBVIOUS
    <3>3. QED
      BY <3>1, <3>2, <1>2 DEF p
  <2>3. QED
    BY <2>1, <2>2, <1>2
<1>4. p % n = 0
  BY <1>2, <1>3 DEF p
<1>5. QED
  BY <1>3, <1>4 DEF p

(* Division of a natural number, spelled out.                              *)
LEMMA Division ==
  ASSUME NEW p \in Nat, NEW n \in Nat, n >= 1
  PROVE  /\ p \div n \in Nat /\ p % n \in 0 .. n - 1
         /\ p = (p \div n) * n + (p % n)
  OBVIOUS

(* Quotient and remainder are unique.                                      *)
LEMMA DivMod ==
  ASSUME NEW q \in Nat, NEW n \in Nat, NEW r \in Nat, r < n
  PROVE  (q * n + r) \div n = q /\ (q * n + r) % n = r
<1> DEFINE p == q * n + r
           d == p \div n
<1>1. p \in Nat /\ n >= 1 /\ q * n \in Nat
  OBVIOUS
<1> HIDE DEF p
<1>2. p = d * n + (p % n) /\ d \in Nat /\ p % n \in 0 .. n - 1
  BY <1>1, Division
<1> HIDE DEF d
<1>3. d = q
  <2>1. CASE d + 1 <= q
    <3>1. (d + 1) * n <= q * n
      BY <1>2, <2>1, MulMonotonic
    <3>2. (d + 1) * n = d * n + n /\ d * n \in Nat
      BY <1>2
    <3>3. QED
      BY <3>1, <3>2, <1>1, <1>2 DEF p
  <2>2. CASE q + 1 <= d
    <3>1. (q + 1) * n <= d * n
      BY <1>2, <2>2, MulMonotonic
    <3>2. (q + 1) * n = q * n + n /\ d * n \in Nat
      BY <1>2
    <3>3. QED
      BY <3>1, <3>2, <1>1, <1>2 DEF p
  <2>3. QED
    BY <2>1, <2>2, <1>2
<1>4. p % n = r
  BY <1>1, <1>2, <1>3 DEF p
<1>5. QED
  BY <1>3, <1>4 DEF p, d

(* Dividing by two or more makes a positive number smaller.                *)
LEMMA QuotientSmaller ==
  ASSUME NEW p \in Nat, NEW n \in Nat, p >= 1, n >= 2
  PROVE  p \div n \in 0 .. p - 1
<1> DEFINE q == p \div n
<1>0. n >= 1
  OBVIOUS
<1>1. q \in Nat /\ p = q * n + (p % n) /\ p % n \in 0 .. n - 1
  BY <1>0, Division, Zenon
<1> HIDE DEF q
<1>2. 2 * q <= n * q
  BY <1>1, MulMonotonic
<1>3. n * q = q * n /\ q * n \in Nat
  BY <1>1
<1>4. 2 * q <= p
  BY <1>1, <1>2, <1>3
<1>5. QED
  BY <1>1, <1>4 DEF q
-----------------------------------------------------------------------------
(***************************************************************************)
(* Sequences.                                                              *)
(***************************************************************************)
(* A function on 1 .. n is a sequence of length n.                         *)
LEMMA FunctionIsSeq ==
  ASSUME NEW S, NEW n \in Nat, NEW f \in [1 .. n -> S]
  PROVE  f \in Seq(S) /\ Len(f) = n
<1>1. f \in Seq(S)
  BY SeqDef
<1>2. DOMAIN f = 1 .. n /\ DOMAIN f = 1 .. Len(f) /\ Len(f) \in Nat
  BY <1>1, LenProperties
<1>3. QED
  BY <1>1, <1>2

(* The elements of a concatenation.                                        *)
LEMMA Concat ==
  ASSUME NEW S, NEW s \in Seq(S), NEW t \in Seq(S)
  PROVE  /\ s \o t \in Seq(S) /\ Len(s \o t) = Len(s) + Len(t)
         /\ Len(s) \in Nat /\ Len(t) \in Nat
         /\ \A i \in 1 .. Len(s) : (s \o t)[i] = s[i]
         /\ \A i \in 1 .. Len(t) : (s \o t)[Len(s) + i] = t[i]
<1>1. Len(s) \in Nat /\ Len(t) \in Nat
  BY LenProperties
<1>2. /\ s \o t \in Seq(S) /\ Len(s \o t) = Len(s) + Len(t)
      /\ \A i \in 1 .. Len(s) + Len(t) :
           (s \o t)[i] = IF i <= Len(s) THEN s[i] ELSE t[i - Len(s)]
  BY ConcatProperties
<1>3. \A i \in 1 .. Len(s) : (s \o t)[i] = s[i]
  BY <1>1, <1>2
<1>4. ASSUME NEW i \in 1 .. Len(t)
      PROVE  (s \o t)[Len(s) + i] = t[i]
  <2> DEFINE j == Len(s) + i
  <2>1. j \in 1 .. Len(s) + Len(t) /\ ~(j <= Len(s)) /\ j - Len(s) = i
    BY <1>1
  <2> HIDE DEF j
  <2>2. (s \o t)[j] = t[j - Len(s)]
    BY <2>1, <1>2
  <2>3. QED
    BY <2>1, <2>2 DEF j
<1>5. QED
  BY <1>1, <1>2, <1>3, <1>4
=============================================================================
