----------------------------- MODULE PmmProofs ------------------------------
(***************************************************************************)
(* The buddy allocator of mm/pmm.c is correct for every number of frames   *)
(* and every FRAME_MAX_ORDER: IInv of module Pmm is an invariant.          *)
(*                                                                         *)
(* Each action is first seen as an update of the set of blocks; that these *)
(* updates keep blocks disjoint and lose no frame is set theory (Regroup), *)
(* and the rest is about the fields of struct frame.  The operators Pmm is *)
(* built from come first: powers of two, aligned blocks and their buddies, *)
(* and the sequences that stand for free lists.                            *)
(***************************************************************************)
EXTENDS Pmm, CommonLemmas

-----------------------------------------------------------------------------
(***************************************************************************)
(* Powers of two.                                                          *)
(***************************************************************************)
(* 1ULL << k is positive for every order.                                  *)
LEMMA Pow2Positive == \A k \in Orders : Pow2[k] \in Nat /\ Pow2[k] >= 1
<1> DEFINE Bad == {k \in Orders : ~(Pow2[k] >= 1)}
<1>1. Bad \subseteq Nat /\ Orders \subseteq Nat
  BY SizeAssumption DEF Orders
<1>2. \A k \in Orders : Pow2[k] \in Nat
  BY Pow2Assumption
<1>3. ASSUME Bad # {}
      PROVE  FALSE
  <2>1. PICK m \in Bad : \A n \in Bad : m <= n
    BY <1>1, <1>3, LeastElement
  <2>2. m # 0
    BY Pow2Assumption
  <2>3. m - 1 \in Orders /\ m - 1 < MaxOrder /\ (m - 1) + 1 = m
    BY <2>2, SizeAssumption DEF Orders
  <2>4. m - 1 \notin Bad
    BY <2>1, <2>3, <1>1
  <2>5. Pow2[m] = 2 * Pow2[m - 1]
    BY <2>3, Pow2Assumption
  <2>6. QED
    BY <2>3, <2>4, <2>5, <1>2
<1>4. QED
  BY <1>2, <1>3

(* A smaller power of two divides a larger one.                            *)
LEMMA Pow2Divides ==
  ASSUME NEW j \in Orders, NEW k \in Orders, j <= k
  PROVE  \E m \in Nat : m >= 1 /\ Pow2[k] = m * Pow2[j]
<1> DEFINE Divided(i) == \E m \in Nat : m >= 1 /\ Pow2[i] = m * Pow2[j]
           Bad == {i \in Orders : j <= i /\ ~Divided(i)}
<1>1. Bad \subseteq Nat /\ Orders \subseteq Nat
  BY SizeAssumption DEF Orders
<1>2. ASSUME Bad # {}
      PROVE  FALSE
  <2>1. PICK i \in Bad : \A n \in Bad : i <= n
    BY <1>1, <1>2, LeastElement
  <2>2. i # j
    <3>1. Pow2[j] = 1 * Pow2[j]
      BY Pow2Positive
    <3>2. Divided(j)
      BY <3>1
    <3>3. QED
      BY <3>2
  <2>3. i - 1 \in Orders /\ j <= i - 1 /\ i - 1 < MaxOrder /\ (i - 1) + 1 = i
    BY <2>2, SizeAssumption DEF Orders
  <2>4. i - 1 \notin Bad
    BY <2>1, <2>3, <1>1
  <2>5. PICK m \in Nat : m >= 1 /\ Pow2[i - 1] = m * Pow2[j]
    BY <2>3, <2>4
  <2>6. Pow2[i] = 2 * Pow2[i - 1]
    BY <2>3, Pow2Assumption
  <2>7. Pow2[i] = (2 * m) * Pow2[j] /\ 2 * m \in Nat /\ 2 * m >= 1
    BY <2>5, <2>6, Pow2Positive
  <2>8. Divided(i)
    BY <2>7
  <2>9. QED
    BY <2>8
<1>3. QED
  BY <1>2

-----------------------------------------------------------------------------
(***************************************************************************)
(* Aligned blocks.                                                         *)
(***************************************************************************)
(* Two aligned blocks that share a frame are nested.                       *)
LEMMA Nesting ==
  ASSUME NEW p \in Nat, NEW j \in Orders, p % Pow2[j] = 0,
         NEW q \in Nat, NEW k \in Orders, q % Pow2[k] = 0,
         j <= k,
         NEW f \in Pages(p, j), f \in Pages(q, k)
  PROVE  q <= p /\ p + Pow2[j] <= q + Pow2[k]
<1> DEFINE n == Pow2[j]
<1>1. n \in Nat /\ n >= 1 /\ Pow2[k] \in Nat /\ Pow2[k] >= 1
  BY Pow2Positive
<1>2. PICK a \in Nat : p = a * n
  BY <1>1, NoRemainder
<1>3. PICK m \in Nat : m >= 1 /\ Pow2[k] = m * n
  BY Pow2Divides
<1>4. PICK c \in Nat : q = c * Pow2[k]
  BY <1>1, NoRemainder
<1>5. /\ f \in Int
      /\ p <= f /\ f < p + n
      /\ q <= f /\ f < q + Pow2[k]
  BY <1>1 DEF Pages
<1> HIDE DEF n
<1>6. q = (c * m) * n /\ c * m \in Nat
  BY <1>1, <1>3, <1>4
<1>7. PICK b \in Nat : q = b * n
  BY <1>6
<1>8. (a + 1) * n = a * n + n /\ (b + m) * n = b * n + m * n
  BY <1>1
<1>9. b * n < (a + 1) * n
  BY <1>1, <1>2, <1>5, <1>7, <1>8
<1>10. a * n < (b + m) * n
  BY <1>1, <1>2, <1>3, <1>5, <1>7, <1>8
<1>11. b + 1 <= a + 1
  BY <1>1, <1>9, MulReflects
<1>12. a + 1 <= b + m
  BY <1>1, <1>10, MulReflects
<1>13. b * n <= a * n /\ (a + 1) * n <= (b + m) * n
  BY <1>1, <1>11, <1>12, MulMonotonic
<1>14. QED
  BY <1>1, <1>2, <1>3, <1>7, <1>8, <1>13 DEF n

(* The buddy of an aligned block is the other half of the block of the     *)
(* next order that contains both.                                          *)
LEMMA BuddyHalves ==
  ASSUME NEW p \in Nat, NEW k \in Orders, k < MaxOrder, p % Pow2[k] = 0
  PROVE  LET b == BuddyOf(p, k)
         IN  /\ b \in Nat /\ b # p
             /\ b % Pow2[k] = 0
             /\ b < p => b % Pow2[k + 1] = 0 /\ p = b + Pow2[k]
             /\ p < b => p % Pow2[k + 1] = 0 /\ b = p + Pow2[k]
<1> DEFINE n == Pow2[k]
           b == BuddyOf(p, k)
<1>1. n \in Nat /\ n >= 1
  BY Pow2Positive
<1>2. Pow2[k + 1] = 2 * n /\ 2 * n \in Nat /\ 2 * n >= 1
  BY <1>1, Pow2Assumption
<1>3. PICK q \in Nat : p = q * n
  BY <1>1, NoRemainder
<1>4. p \div n = q
  BY <1>1, <1>3, Multiple
<1>5. CASE q % 2 = 0
  <2>1. PICK r \in Nat : q = r * 2
    BY <1>5, NoRemainder
  <2>2. b = p + n
    BY <1>4, <1>5 DEF BuddyOf
  <2>3. b = (q + 1) * n /\ q + 1 \in Nat
    BY <1>1, <1>3, <2>2
  <2>4. p = r * (2 * n)
    BY <1>1, <1>3, <2>1
  <2>5. b % n = 0
    BY SMTT(30), <1>1, <2>3, Multiple
  <2>6. p % (2 * n) = 0
    BY <1>2, <2>4, Multiple
  <2>7. QED
    BY <1>1, <1>2, <2>2, <2>5, <2>6
<1>6. CASE q % 2 = 1
  <2>1. PICK r \in Nat : q = 2 * r + 1
    <3>1. q = (q \div 2) * 2 + 1 /\ q \div 2 \in Nat
      BY <1>6
    <3>2. QED
      BY <3>1
  <2>2. b = p - n
    BY <1>4, <1>6 DEF BuddyOf
  <2>3. b = (2 * r) * n /\ 2 * r \in Nat
    BY <1>1, <1>3, <2>1, <2>2
  <2>4. b = r * (2 * n)
    BY <1>1, <2>3
  <2>5. b \in Nat
    BY <1>1, <2>3
  <2>6. b % n = 0
    BY SMTT(30), <1>1, <2>3, Multiple
  <2>7. b % (2 * n) = 0
    BY <1>2, <2>4, Multiple
  <2>8. QED
    BY <1>1, <1>2, <2>2, <2>5, <2>6, <2>7
<1>7. QED
  BY <1>5, <1>6
(* Both halves of an aligned block are aligned to their own size.          *)
LEMMA DividedHalves ==
  ASSUME NEW p \in Nat, NEW k \in Orders, k # 0, p % Pow2[k] = 0
  PROVE  /\ k - 1 \in Orders
         /\ Pow2[k] = 2 * Pow2[k - 1]
         /\ p % Pow2[k - 1] = 0
         /\ (p + Pow2[k - 1]) % Pow2[k - 1] = 0
<1> DEFINE n == Pow2[k - 1]
<1>1. k - 1 \in Orders /\ k - 1 < MaxOrder /\ (k - 1) + 1 = k
  BY SizeAssumption DEF Orders
<1>2. Pow2[k] = 2 * n /\ n \in Nat /\ n >= 1
  BY <1>1, Pow2Assumption, Pow2Positive
<1>3. PICK q \in Nat : p = q * (2 * n)
  <2>1. 2 * n \in Nat /\ 2 * n >= 1 /\ p % (2 * n) = 0
    BY <1>2
  <2>2. QED
    BY <2>1, NoRemainder
<1>4. p = (2 * q) * n /\ 2 * q \in Nat
  BY <1>2, <1>3
<1>5. p + n = (2 * q + 1) * n /\ 2 * q + 1 \in Nat
  BY <1>2, <1>4
<1>6. p % n = 0 /\ (p + n) % n = 0
  <2>1. p % n = 0
    BY <1>2, <1>4, Multiple
  <2>2. (p + n) % n = 0
    BY <1>2, <1>5, Multiple
  <2>3. QED
    BY <2>1, <2>2
<1>7. QED
  BY <1>1, <1>2, <1>6

-----------------------------------------------------------------------------
(***************************************************************************)
(* The sequences that stand for free lists.                                *)
(***************************************************************************)
(* Pushing x adds x, and keeps a list free of duplicates if x is new.      *)
LEMMA ConsList ==
  ASSUME NEW S, NEW s \in Seq(S), NEW x \in S
  PROVE  /\ Cons(x, s) \in Seq(S)
         /\ ToSet(Cons(x, s)) = {x} \cup ToSet(s)
         /\ IsInjective(s) /\ x \notin ToSet(s) => IsInjective(Cons(x, s))
<1>1. /\ Cons(x, s) \in Seq(S)
      /\ Len(Cons(x, s)) = Len(s) + 1
      /\ Cons(x, s)[1] = x
      /\ \A i \in 1 .. Len(s) : Cons(x, s)[i + 1] = s[i]
  BY DEF Cons
<1>2. DOMAIN s = 1 .. Len(s) /\ DOMAIN Cons(x, s) = 1 .. Len(s) + 1
  BY <1>1
<1>3. \A i \in 2 .. Len(s) + 1 : i - 1 \in 1 .. Len(s) /\ Cons(x, s)[i] = s[i - 1]
  <2>1. ASSUME NEW i \in 2 .. Len(s) + 1
        PROVE  i - 1 \in 1 .. Len(s) /\ Cons(x, s)[i] = s[i - 1]
    <3>1. i - 1 \in 1 .. Len(s) /\ (i - 1) + 1 = i
      OBVIOUS
    <3>2. QED
      BY <3>1, <1>1
  <2>2. QED
    BY <2>1
<1>4. ToSet(Cons(x, s)) = {x} \cup ToSet(s)
  <2>1. \A y \in ToSet(Cons(x, s)) : y = x \/ y \in ToSet(s)
    <3>1. ASSUME NEW i \in 1 .. Len(s) + 1
          PROVE  Cons(x, s)[i] = x \/ Cons(x, s)[i] \in ToSet(s)
      <4>1. CASE i = 1
        BY <4>1, <1>1
      <4>2. CASE i # 1
        <5>1. i - 1 \in DOMAIN s /\ Cons(x, s)[i] = s[i - 1]
          BY <4>2, <1>2, <1>3
        <5>2. QED
          BY <5>1 DEF ToSet
      <4>3. QED
        BY <4>1, <4>2
    <3>2. QED
      BY <3>1, <1>2 DEF ToSet
  <2>2. x \in ToSet(Cons(x, s))
    BY <1>1, <1>2 DEF ToSet
  <2>3. \A y \in ToSet(s) : y \in ToSet(Cons(x, s))
    <3>1. ASSUME NEW i \in 1 .. Len(s)
          PROVE  s[i] \in ToSet(Cons(x, s))
      <4>1. i + 1 \in DOMAIN Cons(x, s) /\ Cons(x, s)[i + 1] = s[i]
        BY <1>1, <1>2
      <4>2. QED
        BY <4>1 DEF ToSet
    <3>2. QED
      BY <3>1, <1>2 DEF ToSet
  <2>4. QED
    BY <2>1, <2>2, <2>3
<1>5. ASSUME IsInjective(s), x \notin ToSet(s)
      PROVE  IsInjective(Cons(x, s))
  <2> SUFFICES ASSUME NEW i \in 1 .. Len(s) + 1, NEW j \in 1 .. Len(s) + 1,
                      Cons(x, s)[i] = Cons(x, s)[j]
               PROVE  i = j
    BY <1>2 DEF IsInjective
  <2>1. \A m \in 1 .. Len(s) : s[m] # x
    BY <1>2, <1>5 DEF ToSet
  <2>2. \A m \in 2 .. Len(s) + 1 : Cons(x, s)[m] # x
    BY <2>1, <1>3
  <2>3. CASE i # 1 /\ j # 1
    <3>1. s[i - 1] = s[j - 1] /\ i - 1 \in 1 .. Len(s) /\ j - 1 \in 1 .. Len(s)
      BY <2>3, <1>3
    <3>2. i - 1 = j - 1
      BY <3>1, <1>2, <1>5 DEF IsInjective
    <3>3. QED
      BY <3>2
  <2>4. CASE i = 1
    BY <2>2, <2>4, <1>1
  <2>5. CASE j = 1
    BY <2>2, <2>5, <1>1
  <2>6. QED
    BY <2>3, <2>4, <2>5
<1>6. QED
  BY <1>1, <1>4, <1>5

(* Unlinking the i-th element of a list without duplicates removes it.     *)
LEMMA RemoveAtList ==
  ASSUME NEW S, NEW s \in Seq(S), NEW i \in DOMAIN s, IsInjective(s)
  PROVE  /\ RemoveAt(s, i) \in Seq(S)
         /\ ToSet(RemoveAt(s, i)) = ToSet(s) \ {s[i]}
         /\ IsInjective(RemoveAt(s, i))
<1> DEFINE t == RemoveAt(s, i)
<1>1. DOMAIN s = 1 .. Len(s) /\ i \in 1 .. Len(s) /\ Len(s) \in Nat
  OBVIOUS
<1>2. /\ t \in Seq(S)
      /\ Len(t) = Len(s) - 1
      /\ \A j \in 1 .. Len(s) - 1 : t[j] = s[IF j < i THEN j ELSE j + 1]
  <2>1. SubSeq(s, 1, i - 1) \in Seq(S) /\ SubSeq(s, i + 1, Len(s)) \in Seq(S)
    BY <1>1
  <2>2. Len(SubSeq(s, 1, i - 1)) = i - 1
    BY <1>1
  <2>3. Len(SubSeq(s, i + 1, Len(s))) = Len(s) - i
    BY <1>1
  <2> DEFINE u == SubSeq(s, 1, i - 1)
             v == SubSeq(s, i + 1, Len(s))
  <2>4. \A j \in 1 .. i - 1 : u[j] = s[j]
    BY <1>1
  <2>5. \A j \in 1 .. Len(s) - i : v[j] = s[i + j]
    BY <1>1
  <2> HIDE DEF u, v
  <2>6. t = u \o v
    BY DEF RemoveAt, u, v
  <2>7. u \in Seq(S) /\ v \in Seq(S) /\ Len(u) = i - 1 /\ Len(v) = Len(s) - i
    BY <2>1, <2>2, <2>3 DEF u, v
  <2>8. t \in Seq(S) /\ Len(t) = Len(s) - 1
    <3>1. u \o v \in Seq(S) /\ Len(u \o v) = Len(u) + Len(v)
      BY <2>7, ConcatProperties
    <3>2. Len(u) + Len(v) = Len(s) - 1
      BY <2>7, <1>1
    <3>3. QED
      BY Zenon, <3>1, <3>2, <2>6
  <2>9. ASSUME NEW j \in 1 .. Len(s) - 1
        PROVE  t[j] = s[IF j < i THEN j ELSE j + 1]
    <3>1. CASE j < i
      <4>1. t[j] = u[j]
        BY SMTT(30), <3>1, <2>6, <2>7, <1>1
      <4>2. QED
        BY <3>1, <4>1, <2>4, <1>1
    <3>2. CASE ~(j < i)
      <4>1. t[j] = v[j - (i - 1)]
        BY SMTT(30), <3>2, <2>6, <2>7, <1>1
      <4>2. j - (i - 1) \in 1 .. Len(s) - i /\ i + (j - (i - 1)) = j + 1
        BY <3>2, <1>1
      <4>3. QED
        BY <3>2, <4>1, <4>2, <2>5
    <3>3. QED
      BY <3>1, <3>2
  <2>10. QED
    BY <2>8, <2>9
<1> HIDE DEF t
<1>3. DOMAIN t = 1 .. Len(s) - 1
  BY <1>1, <1>2
<1>4. \A j \in 1 .. Len(s) - 1 :
        t[j] \in ToSet(s) /\ t[j] # s[i]
  <2> SUFFICES ASSUME NEW j \in 1 .. Len(s) - 1
               PROVE  t[j] \in ToSet(s) /\ t[j] # s[i]
    OBVIOUS
  <2> DEFINE m == IF j < i THEN j ELSE j + 1
  <2>1. m \in DOMAIN s /\ m # i
    BY <1>1
  <2>2. t[j] = s[m]
    BY <1>2
  <2> HIDE DEF m
  <2>3. s[m] \in ToSet(s)
    BY <2>1 DEF ToSet
  <2>4. s[m] # s[i]
    BY Zenon, <2>1 DEF IsInjective
  <2>5. QED
    BY <2>2, <2>3, <2>4
<1>5. ASSUME NEW m \in 1 .. Len(s), s[m] # s[i]
      PROVE  s[m] \in ToSet(t)
  <2>1. CASE m < i
    <3>1. m \in DOMAIN t /\ t[m] = s[m]
      BY <2>1, <1>1, <1>2, <1>3
    <3>2. QED
      BY <3>1 DEF ToSet
  <2>2. CASE m > i
    <3>1. m - 1 \in DOMAIN t /\ ~(m - 1 < i) /\ (m - 1) + 1 = m
      BY <2>2, <1>1, <1>3
    <3>2. t[m - 1] = s[m]
      BY <3>1, <1>2, <1>3
    <3>3. QED
      BY <3>1, <3>2 DEF ToSet
  <2>3. QED
    BY <1>5, <2>1, <2>2, <1>1
<1>6. ToSet(t) = ToSet(s) \ {s[i]}
  <2>1. \A y \in ToSet(t) : y \in ToSet(s) \ {s[i]}
    BY <1>3, <1>4 DEF ToSet
  <2>2. \A y \in ToSet(s) \ {s[i]} : y \in ToSet(t)
    BY <1>1, <1>5 DEF ToSet
  <2>3. QED
    BY <2>1, <2>2
<1>7. IsInjective(t)
  <2> SUFFICES ASSUME NEW j \in 1 .. Len(s) - 1, NEW m \in 1 .. Len(s) - 1,
                      t[j] = t[m]
               PROVE  j = m
    BY <1>3 DEF IsInjective
  <2> DEFINE At(l) == IF l < i THEN l ELSE l + 1
  <2>1. At(j) \in DOMAIN s /\ At(m) \in DOMAIN s
    BY <1>1
  <2>2. s[At(j)] = s[At(m)]
    BY <1>2
  <2>3. At(j) = At(m)
    BY <2>1, <2>2 DEF IsInjective
  <2>4. QED
    BY <2>3, <1>1
<1>8. QED
  BY <1>2, <1>6, <1>7 DEF t

(* Popping the head of a list without duplicates removes the head.         *)
LEMMA TailList ==
  ASSUME NEW S, NEW s \in Seq(S), s # << >>, IsInjective(s)
  PROVE  /\ Head(s) \in S
         /\ Head(s) \in ToSet(s)
         /\ Tail(s) \in Seq(S)
         /\ ToSet(Tail(s)) = ToSet(s) \ {Head(s)}
         /\ IsInjective(Tail(s))
<1>1. DOMAIN s = 1 .. Len(s) /\ Len(s) \in Nat /\ 1 \in DOMAIN s /\ Head(s) = s[1]
  OBVIOUS
<1>2. Tail(s) = RemoveAt(s, 1)
  <2>1. SubSeq(s, 1, 0) = << >> /\ SubSeq(s, 2, Len(s)) = Tail(s)
    BY <1>1
  <2>2. Tail(s) \in Seq(S)
    OBVIOUS
  <2>3. << >> \o Tail(s) = Tail(s)
    BY <2>2
  <2>4. QED
    BY <2>1, <2>3 DEF RemoveAt
<1>3. Head(s) \in S /\ Head(s) \in ToSet(s)
  BY <1>1 DEF ToSet
<1>4. /\ RemoveAt(s, 1) \in Seq(S)
      /\ ToSet(RemoveAt(s, 1)) = ToSet(s) \ {s[1]}
      /\ IsInjective(RemoveAt(s, 1))
  BY <1>1, RemoveAtList
<1>5. QED
  BY <1>1, <1>2, <1>3, <1>4

-----------------------------------------------------------------------------
(***************************************************************************)
(* Blocks and the actions.                                                 *)
(***************************************************************************)
Lists == [Orders -> Seq(Frames)]

Injective(lists) == \A k \in Orders : IsInjective(lists[k])

(* Pushing a frame on a list adds one block.                               *)
LEMMA PushBlocks ==
  ASSUME NEW lists \in Lists, NEW k \in Orders, NEW f \in Frames
  PROVE  /\ Push(lists, k, f) \in Lists
         /\ Push(lists, k, f)[k] # << >>
         /\ BlocksOn(Push(lists, k, f)) = BlocksOn(lists) \cup {<<f, k>>}
         /\ Injective(lists) /\ <<f, k>> \notin BlocksOn(lists)
              => Injective(Push(lists, k, f))
<1>1. lists[k] \in Seq(Frames)
  BY DEF Lists
<1> DEFINE c == Cons(f, lists[k])
           new == Push(lists, k, f)
<1>2. c \in Seq(Frames) /\ ToSet(c) = {f} \cup ToSet(lists[k])
  BY <1>1, ConsList
<1>3. IsInjective(lists[k]) /\ f \notin ToSet(lists[k]) => IsInjective(c)
  BY <1>1, ConsList
<1> HIDE DEF c
<1>4. new = [lists EXCEPT ![k] = c]
  BY DEF Push, c
<1>5. new \in Lists /\ new[k] = c
  BY <1>2, <1>4 DEF Lists
<1>6. \A j \in Orders : j # k => new[j] = lists[j]
  BY <1>4 DEF Lists
<1> HIDE DEF new
<1>7. c # << >>
  <2>1. ToSet(<< >>) = {}
    BY DEF ToSet
  <2>2. QED
    BY <1>2, <2>1
<1>8. BlocksOn(new) = BlocksOn(lists) \cup {<<f, k>>}
  <2>1. ASSUME NEW g \in Frames, NEW j \in Orders
        PROVE  g \in ToSet(new[j]) <=> g \in ToSet(lists[j]) \/ (g = f /\ j = k)
    BY <1>2, <1>5, <1>6
  <2>2. QED
    BY <2>1 DEF BlocksOn
<1>9. Injective(lists) /\ <<f, k>> \notin BlocksOn(lists) => Injective(new)
  BY <1>3, <1>5, <1>6 DEF Injective, BlocksOn
<1>10. QED
  BY <1>5, <1>7, <1>8, <1>9 DEF new

(* A list with one frame less holds one block less.                        *)
LEMMA ShrinkBlocks ==
  ASSUME NEW lists \in Lists, NEW k \in Orders, NEW f \in Frames,
         NEW short \in Seq(Frames), ToSet(short) = ToSet(lists[k]) \ {f},
         IsInjective(short), Injective(lists)
  PROVE  LET new == [lists EXCEPT ![k] = short]
         IN  /\ new \in Lists
             /\ BlocksOn(new) = BlocksOn(lists) \ {<<f, k>>}
             /\ Injective(new)
<1> DEFINE new == [lists EXCEPT ![k] = short]
<1>1. new \in Lists /\ new[k] = short
  BY DEF Lists
<1>2. \A j \in Orders : j # k => new[j] = lists[j]
  BY DEF Lists
<1> HIDE DEF new
<1>3. BlocksOn(new) = BlocksOn(lists) \ {<<f, k>>}
  <2>1. ASSUME NEW g \in Frames, NEW j \in Orders
        PROVE  g \in ToSet(new[j]) <=> g \in ToSet(lists[j]) /\ ~(g = f /\ j = k)
    BY <1>1, <1>2
  <2>2. QED
    BY <2>1 DEF BlocksOn
<1>4. Injective(new)
  BY <1>1, <1>2 DEF Injective
<1>5. QED
  BY <1>1, <1>3, <1>4 DEF new

(* Popping the head of a list.                                             *)
LEMMA PopBlocks ==
  ASSUME NEW lists \in Lists, NEW k \in Orders, lists[k] # << >>,
         Injective(lists)
  PROVE  LET new == [lists EXCEPT ![k] = Tail(@)]
             f   == Head(lists[k])
         IN  /\ f \in Frames
             /\ <<f, k>> \in BlocksOn(lists)
             /\ new \in Lists
             /\ BlocksOn(new) = BlocksOn(lists) \ {<<f, k>>}
             /\ Injective(new)
<1> DEFINE s == lists[k]
<1>1. s \in Seq(Frames) /\ IsInjective(s)
  BY DEF Lists, Injective
<1>2. /\ Head(s) \in Frames
      /\ Head(s) \in ToSet(s)
      /\ Tail(s) \in Seq(Frames)
      /\ ToSet(Tail(s)) = ToSet(s) \ {Head(s)}
      /\ IsInjective(Tail(s))
  BY <1>1, TailList
<1>3. <<Head(s), k>> \in BlocksOn(lists)
  BY <1>2 DEF BlocksOn
<1>4. QED
  BY <1>2, <1>3, ShrinkBlocks

(* A frame is in a set of blocks when it is in one of them.                *)
LEMMA InPagesOf ==
  ASSUME NEW S, NEW f
  PROVE  f \in PagesOf(S) <=> \E x \in S : f \in Pages(x[1], x[2])
  BY DEF PagesOf

(* The frames of one block and of two.                                     *)
LEMMA PagesOfOne == \A x : PagesOf({x}) = Pages(x[1], x[2])
  BY DEF PagesOf

(* Two blocks cover the frames of both.                                    *)
LEMMA PagesOfTwo ==
  \A x, y : PagesOf({x, y}) = Pages(x[1], x[2]) \cup Pages(y[1], y[2])
  BY DEF PagesOf

(* Replacing blocks by others with the same frames keeps blocks disjoint   *)
(* and keeps the frames.                                                   *)
LEMMA Regroup ==
  ASSUME NEW B, NEW R, NEW A, R \subseteq B, Disjoint(B), Disjoint(A),
         PagesOf(A) = PagesOf(R)
  PROVE  /\ Disjoint((B \ R) \cup A)
         /\ PagesOf((B \ R) \cup A) = PagesOf(B)
<1> DEFINE N == (B \ R) \cup A
<1>1. ASSUME NEW x \in B \ R, NEW y \in A
      PROVE  Pages(x[1], x[2]) \cap Pages(y[1], y[2]) = {}
  <2> SUFFICES ASSUME NEW f, f \in Pages(x[1], x[2]), f \in Pages(y[1], y[2])
               PROVE  FALSE
    OBVIOUS
  <2>1. f \in PagesOf(R)
    BY InPagesOf
  <2>2. PICK r \in R : f \in Pages(r[1], r[2])
    BY <2>1, InPagesOf
  <2>3. QED
    BY <2>2 DEF Disjoint
<1>2. Disjoint(N)
  <2> SUFFICES ASSUME NEW x \in N, NEW y \in N, x # y
               PROVE  Pages(x[1], x[2]) \cap Pages(y[1], y[2]) = {}
    BY DEF Disjoint
  <2>1. CASE x \in B \ R /\ y \in B \ R
    BY <2>1 DEF Disjoint
  <2>2. CASE x \in A /\ y \in A
    BY <2>2 DEF Disjoint
  <2>3. CASE x \in B \ R /\ y \in A
    BY <2>3, <1>1
  <2>4. CASE x \in A /\ y \in B \ R
    BY <2>4, <1>1
  <2>5. QED
    BY <2>1, <2>2, <2>3, <2>4
<1>3. ASSUME NEW f
      PROVE  f \in PagesOf(N) <=> f \in PagesOf(B)
  <2>1. f \in PagesOf(N) <=> f \in PagesOf(B \ R) \/ f \in PagesOf(A)
    BY InPagesOf
  <2>2. f \in PagesOf(B) <=> f \in PagesOf(B \ R) \/ f \in PagesOf(R)
    BY InPagesOf
  <2>3. QED
    BY <2>1, <2>2
<1>4. QED
  BY <1>2, <1>3

(* The next larger order.                                                  *)
LEMMA OrderAbove ==
  ASSUME NEW k \in Orders, k < MaxOrder
  PROVE  /\ k + 1 \in Orders /\ Pow2[k + 1] = 2 * Pow2[k]
         /\ Pow2[k] \in Nat /\ Pow2[k] >= 1
<1>1. k + 1 \in Orders
  BY SizeAssumption DEF Orders
<1>2. Pow2[k + 1] = 2 * Pow2[k]
  BY Pow2Assumption
<1>3. QED
  BY <1>1, <1>2, Pow2Positive

(* A block of order k + 1 has the frames of its two halves, and the halves *)
(* are disjoint.                                                           *)
LEMMA Halves ==
  ASSUME NEW p \in Nat, NEW k \in Orders, k < MaxOrder
  PROVE  LET A == {<<p, k>>, <<p + Pow2[k], k>>}
         IN  Disjoint(A) /\ PagesOf(A) = PagesOf({<<p, k + 1>>})
<1>1. Pow2[k] \in Nat /\ Pow2[k] >= 1 /\ Pow2[k + 1] = 2 * Pow2[k]
  BY Pow2Positive, Pow2Assumption
<1> DEFINE q == p + Pow2[k]
           A == {<<p, k>>, <<q, k>>}
<1>2. Pages(p, k) \cap Pages(q, k) = {}
  BY <1>1 DEF Pages
<1>3. \A f : f \in Pages(p, k + 1) <=> f \in Pages(p, k) \/ f \in Pages(q, k)
  BY <1>1 DEF Pages
<1> HIDE DEF q
<1>4. Disjoint(A)
  BY <1>2 DEF Disjoint
<1> DEFINE x == <<p, k>>
           y == <<q, k>>
           z == <<p, k + 1>>
<1>5. x[1] = p /\ x[2] = k /\ y[1] = q /\ y[2] = k /\ z[1] = p /\ z[2] = k + 1
  OBVIOUS
<1> HIDE DEF x, y, z
<1>6. PagesOf({x, y}) = Pages(p, k) \cup Pages(q, k)
  BY <1>5, PagesOfTwo
<1>7. PagesOf({z}) = Pages(p, k + 1)
  BY <1>5, PagesOfOne
<1>8. PagesOf({x, y}) = PagesOf({z})
  BY <1>3, <1>6, <1>7
<1>9. QED
  BY <1>4, <1>8 DEF q, x, y, z

-----------------------------------------------------------------------------
(***************************************************************************)
(* Consequences of the invariant.                                          *)
(***************************************************************************)
(* The free lists as the lemmas above want them.                           *)
LEMMA ListFacts ==
  ASSUME IInv
  PROVE  /\ mm_free_region \in Lists
         /\ Injective(mm_free_region)
         /\ FreeBlocks \subseteq Frames \X Orders
  BY DEF IInv, TypeOK, NoOverlap, Lists, Injective, FreeBlocks, BlocksOn

(* A frame is in at most one block, and it is in one if it is managed; the *)
(* first frame of a block is in the block.                                 *)
LEMMA BlockFacts ==
  ASSUME IInv
  PROVE  /\ \A x, y \in Blocks : \A f :
              f \in Pages(x[1], x[2]) /\ f \in Pages(y[1], y[2]) => x = y
         /\ \A f \in managed : \E x \in Blocks : f \in Pages(x[1], x[2])
         /\ \A x \in Blocks : \A f \in Pages(x[1], x[2]) : f \in managed
         /\ \A x \in Blocks : x[1] \in Pages(x[1], x[2])
         /\ Blocks \subseteq Frames \X Orders
<1>1. \A x, y \in Blocks : \A f :
        f \in Pages(x[1], x[2]) /\ f \in Pages(y[1], y[2]) => x = y
  BY DEF IInv, NoOverlap, Disjoint
<1>2. \A f \in managed : \E x \in Blocks : f \in Pages(x[1], x[2])
  BY InPagesOf DEF IInv, NoLeak
<1>3. \A x \in Blocks : \A f \in Pages(x[1], x[2]) : f \in managed
  BY InPagesOf DEF IInv, NoLeak
<1>4. Blocks \subseteq Frames \X Orders
  BY DEF IInv, BlockInv
<1>5. ASSUME NEW x \in Blocks
      PROVE  x[1] \in Pages(x[1], x[2])
  <2>1. x[1] \in Frames /\ x[2] \in Orders
    BY <1>4
  <2>2. QED
    BY <2>1, Pow2Positive DEF Pages, Frames
<1>6. QED
  BY <1>1, <1>2, <1>3, <1>4, <1>5

-----------------------------------------------------------------------------
(***************************************************************************)
(* One lemma per action.                                                   *)
(***************************************************************************)
(* The state after init_frames satisfies the invariant.                    *)
LEMMA InitInv == Init => IInv
<1> SUFFICES ASSUME Init
             PROVE  IInv
  OBVIOUS
<1>1. TypeOK
  BY SizeAssumption DEF Init, TypeOK, Frames, Orders, Flags, NoOrder, Invalid
<1>2. ToSet(<< >>) = {} /\ IsInjective(<< >>)
  BY DEF ToSet, IsInjective
<1>3. FreeBlocks = {} /\ Merging = {} /\ held = {}
  BY <1>2 DEF Init, FreeBlocks, BlocksOn, Merging
<1>4. Blocks = {}
  BY <1>3 DEF Blocks
<1>5. BlockInv /\ FlagInv
  BY <1>3, <1>4 DEF BlockInv, FlagInv
<1>6. NoOverlap
  BY <1>2, <1>3, <1>4 DEF Init, NoOverlap, Disjoint
<1>7. NoLeak
  BY <1>4 DEF Init, NoLeak, PagesOf
<1>8. Covered /\ LoopInv /\ NoPanic
  BY DEF Init, Covered, LoopInv, NoPanic, NoOrder
<1>9. QED
  BY <1>1, <1>5, <1>6, <1>7, <1>8 DEF IInv

(* unreserve_frame_region clears a flag that no block's first frame has.   *)
LEMMA UnreserveInv ==
  ASSUME IInv, NEW r \in Regions, unreserve_frame_region(r[1], r[2])
  PROVE  IInv'
<1> USE DEF unreserve_frame_region, locals
<1>1. TypeOK'
  BY DEF IInv, TypeOK
<1>2. /\ FreeBlocks' = FreeBlocks /\ Merging' = Merging /\ Blocks' = Blocks
      /\ held' = held
  BY DEF FreeBlocks, Merging, Blocks
<1>3. BlockInv' /\ NoOverlap' /\ NoLeak' /\ Covered' /\ LoopInv' /\ NoPanic'
  BY <1>2 DEF IInv, BlockInv, NoOverlap, NoLeak, Covered, LoopInv, NoPanic
<1>4. FlagInv'
  <2>1. \A f \in Frames : flags'[f] = flags[f] \/ flags'[f] = flags[f] \ {RESERVED}
    OBVIOUS
  <2>2. \A x \in Blocks : x[1] \in Frames
    BY BlockFacts
  <2>3. {ALLOCATED} \ {RESERVED} = {ALLOCATED}
    BY DEF ALLOCATED, RESERVED
  <2>4. QED
    BY <1>2, <2>1, <2>2, <2>3 DEF IInv, FlagInv, Blocks
<1>5. QED
  BY <1>1, <1>3, <1>4 DEF IInv

(* Steps that only move the program counter, with no merge under way.      *)
LEMMA ControlInv ==
  ASSUME IInv, TypeOK', LoopInv', NoPanic',
         UNCHANGED <<table, mm_free_region, held, managed>>,
         op # "merge", op' # "merge"
  PROVE  IInv'
<1>1. /\ FreeBlocks' = FreeBlocks /\ Merging' = Merging /\ Blocks' = Blocks
      /\ held' = held /\ managed' = managed
      /\ order' = order /\ flags' = flags /\ mm_free_region' = mm_free_region
  BY DEF FreeBlocks, Merging, Blocks, table
<1>2. BlockInv' /\ FlagInv' /\ NoOverlap' /\ NoLeak' /\ Covered'
  BY <1>1 DEF IInv, BlockInv, FlagInv, NoOverlap, NoLeak, Covered
<1>3. QED
  BY <1>2 DEF IInv

(* The call and the return of init_buddy_allocator, and alloc_frames up to *)
(* its first division.                                                     *)
LEMMA InitBuddyCallInv ==
  ASSUME IInv, NEW r \in Regions, InitBuddyCall(r[1], r[2])
  PROVE  IInv'
<1> USE DEF InitBuddyCall, table
<1>1. r[1] \in 0 .. NFrames /\ r[2] \in 0 .. NFrames
  BY RegionsAssumption
<1>2. TypeOK'
  BY <1>1 DEF IInv, TypeOK
<1>3. LoopInv' /\ NoPanic'
  BY DEF LoopInv, NoPanic
<1>4. QED
  BY <1>2, <1>3, ControlInv

(* The end of pmm_init_buddy keeps the invariant.                          *)
LEMMA InitBuddyDoneInv ==
  ASSUME IInv, InitBuddyDone
  PROVE  IInv'
<1> USE DEF InitBuddyDone, Return, table
<1>1. TypeOK'
  BY SizeAssumption DEF IInv, TypeOK, Orders
<1>2. LoopInv' /\ NoPanic'
  BY DEF LoopInv, NoPanic
<1>3. QED
  BY <1>1, <1>2, ControlInv

(* An allocation that finds no block keeps it.                             *)
LEMMA AllocFailInv ==
  ASSUME IInv, NEW k \in Orders, AllocFail(k)
  PROVE  IInv'
<1> USE DEF AllocFail, table, locals
<1>1. TypeOK'
  BY DEF IInv, TypeOK
<1>2. LoopInv' /\ NoPanic'
  BY DEF LoopInv, NoPanic
<1>3. QED
  BY <1>1, <1>2, ControlInv

(* An allocation that finds a block keeps it.                              *)
LEMMA AllocCallInv ==
  ASSUME IInv, NEW k \in Orders, AllocCall(k)
  PROVE  IInv'
<1> USE DEF AllocCall, table
<1>1. PICK c \in k .. MaxOrder : mm_free_region[c] # << >> /\ cur' = c
  OBVIOUS
<1>2. c \in Orders /\ k <= c
  BY SizeAssumption DEF Orders
<1>3. TypeOK'
  BY <1>1, <1>2 DEF IInv, TypeOK
<1>4. LoopInv' /\ NoPanic'
  BY <1>1, <1>2 DEF LoopInv, NoPanic
<1>5. QED
  BY <1>3, <1>4, ControlInv

(* One block of init_buddy_allocator: get_max_order keeps it aligned and   *)
(* inside the range, none of whose frames is in a block yet.               *)
LEMMA InitBuddyStepInv ==
  ASSUME IInv, InitBuddyStep
  PROVE  IInv'
<1> USE DEF InitBuddyStep
<1>1. PICK k \in Orders :
        /\ GetMaxOrder(begin, limit, k)
        /\ order' = [order EXCEPT ![begin] = k]
        /\ mm_free_region' = Push(mm_free_region, k, begin)
        /\ begin' = begin + Pow2[k]
        /\ managed' = managed \cup Pages(begin, k)
  OBVIOUS
<1>2. begin \in Nat /\ limit \in Nat /\ limit <= NFrames /\ NFrames \in Nat
  BY SizeAssumption DEF IInv, TypeOK
<1>3. Pow2[k] \in Nat /\ Pow2[k] >= 1
  BY Pow2Positive
<1>4. begin % Pow2[k] = 0 /\ begin + Pow2[k] <= limit
  <2>1. CASE begin % Pow2[k] = 0 /\ begin + Pow2[k] < limit
    BY <2>1, <1>2, <1>3
  <2>2. CASE k = 0
    <3>1. Pow2[k] = 1
      BY <2>2, Pow2Assumption
    <3>2. QED
      BY <3>1, <1>2
  <2>3. QED
    BY <1>1, <2>1, <2>2 DEF GetMaxOrder
<1>5. begin \in Frames /\ begin + Pow2[k] <= NFrames
  BY <1>2, <1>3, <1>4 DEF Frames
<1>6. \A f \in Pages(begin, k) : f \in begin .. limit - 1 /\ f \in Frames
  BY <1>2, <1>3, <1>4 DEF Pages, Frames
<1>7. \A f \in begin .. limit - 1 : flags[f] = {} /\ f \notin managed
  BY DEF IInv, LoopInv
<1>8. begin \in Pages(begin, k)
  BY <1>2, <1>3 DEF Pages
<1> DEFINE b == <<begin, k>>
<1>9. b \in Frames \X Orders /\ b[1] = begin /\ b[2] = k
  BY <1>5
<1>10. \A x \in Blocks : x[1] # begin /\ x # b
  BY <1>6, <1>7, <1>8, <1>9, BlockFacts
<1>11. /\ mm_free_region' \in Lists
       /\ BlocksOn(mm_free_region') = BlocksOn(mm_free_region) \cup {b}
       /\ Injective(mm_free_region')
  <2>1. b \notin BlocksOn(mm_free_region)
    BY <1>10 DEF Blocks, FreeBlocks
  <2>2. QED
    BY <2>1, <1>1, <1>5, ListFacts, PushBlocks
<1> HIDE DEF b
<1>12. /\ FreeBlocks' = FreeBlocks \cup {b} /\ Merging' = {} /\ Merging = {}
       /\ Blocks' = Blocks \cup {b} /\ held' = held
  BY <1>11 DEF FreeBlocks, Merging, Blocks
<1>13. TypeOK'
  <2>1. order' \in [Frames -> Orders \cup {NoOrder}]
    BY <1>1 DEF IInv, TypeOK
  <2>2. begin' \in 0 .. NFrames
    BY <1>1, <1>2, <1>3, <1>5
  <2>3. managed' \subseteq Frames
    BY <1>1, <1>6 DEF IInv, TypeOK
  <2>4. QED
    BY <2>1, <2>2, <2>3, <1>11 DEF IInv, TypeOK, Lists
<1>14. BlockInv'
  <2>1. order \in [Frames -> Orders \cup {NoOrder}]
    BY DEF IInv, TypeOK
  <2>2. order'[begin] = k /\ \A f \in Frames : f # begin => order'[f] = order[f]
    BY <2>1, <1>1, <1>5
  <2>3. QED
    BY <2>2, <1>4, <1>5, <1>9, <1>10, <1>12 DEF IInv, BlockInv
<1>15. FlagInv'
  <2>1. flags[begin] = {}
    BY <1>6, <1>7, <1>8
  <2>2. QED
    BY <2>1, <1>9, <1>12 DEF IInv, FlagInv
<1>16. NoOverlap'
  <2>1. \A x \in Blocks : Pages(x[1], x[2]) \cap Pages(begin, k) = {}
    BY <1>6, <1>7, BlockFacts
  <2>2. Disjoint(Blocks \cup {b})
    BY <2>1, <1>9 DEF IInv, NoOverlap, Disjoint
  <2>3. FreeBlocks' \cap held' = {}
    BY <1>10, <1>12 DEF IInv, NoOverlap, Blocks
  <2>4. QED
    BY <2>2, <2>3, <1>11, <1>12 DEF NoOverlap, Injective
<1>17. NoLeak'
  <2>1. PagesOf(Blocks \cup {b}) = PagesOf(Blocks) \cup Pages(begin, k)
    BY <1>9, InPagesOf
  <2>2. QED
    BY <2>1, <1>1, <1>12 DEF IInv, NoLeak
<1>18. Covered'
  BY <1>1, <1>8 DEF IInv, TypeOK, Covered
<1>19. LoopInv' /\ NoPanic'
  <2>1. \A f \in begin' .. limit' - 1 : flags'[f] = {} /\ f \notin managed'
    <3> SUFFICES ASSUME NEW f \in begin' .. limit' - 1
                 PROVE  flags'[f] = {} /\ f \notin managed'
      OBVIOUS
    <3>1. f \in begin .. limit - 1 /\ f \notin Pages(begin, k)
      BY <1>1, <1>2, <1>3 DEF Pages
    <3>2. QED
      BY <3>1, <1>1, <1>7
  <2>2. QED
    BY <2>1 DEF LoopInv, NoPanic
<1>20. QED
  BY <1>13, <1>14, <1>15, <1>16, <1>17, <1>18, <1>19 DEF IInv

(* Setting one more flag keeps the flags well typed.                       *)
LEMMA AddFlag ==
  ASSUME NEW fl \in [Frames -> SUBSET Flags], NEW f \in Frames, NEW x \in Flags
  PROVE  [fl EXCEPT ![f] = fl[f] \cup {x}] \in [Frames -> SUBSET Flags]
  OBVIOUS

(* Taking the head of the list moves a block from free to held.            *)
LEMMA AllocTakeInv ==
  ASSUME IInv, AllocTake
  PROVE  IInv'
<1> USE DEF AllocTake, Return
<1> DEFINE f == Head(mm_free_region[want])
           b == <<f, want>>
<1>1. want \in Orders /\ mm_free_region[want] # << >>
  BY DEF IInv, TypeOK, LoopInv
<1>2. /\ f \in Frames
      /\ b \in BlocksOn(mm_free_region)
      /\ mm_free_region' \in Lists
      /\ BlocksOn(mm_free_region') = BlocksOn(mm_free_region) \ {b}
      /\ Injective(mm_free_region')
  BY <1>1, ListFacts, PopBlocks
<1>3. b[1] = f /\ b[2] = want /\ b \in Frames \X Orders
  BY <1>1, <1>2
<1>4. flags' = [flags EXCEPT ![f] = @ \cup {ALLOCATED}] /\ held' = held \cup {b}
  OBVIOUS
<1>5. ret' = f
  OBVIOUS
<1> HIDE DEF f, b
<1>6. /\ FreeBlocks' = FreeBlocks \ {b} /\ b \in FreeBlocks
      /\ Merging' = {} /\ Merging = {} /\ Blocks' = Blocks
  BY <1>2, <1>4 DEF FreeBlocks, Merging, Blocks
<1>7. TypeOK'
  <2>1. flags' \in [Frames -> SUBSET Flags]
    <3>1. flags \in [Frames -> SUBSET Flags] /\ ALLOCATED \in Flags
      BY DEF IInv, TypeOK, Flags
    <3>2. f \in Frames
      BY Zenon, <1>2
    <3>3. [flags EXCEPT ![f] = flags[f] \cup {ALLOCATED}]
            \in [Frames -> SUBSET Flags]
      BY Zenon, <3>1, <3>2, AddFlag
    <3>4. QED
      BY Zenon, <3>3, <1>4
  <2>2. QED
    BY <2>1, <1>2, <1>3, <1>4, <1>5, SizeAssumption
    DEF IInv, TypeOK, Lists, Orders
<1>8. BlockInv'
  BY <1>6 DEF IInv, BlockInv
<1>9. FlagInv'
  <2>1. \A x \in Blocks : x # b => x[1] # f
    <3>1. \A x \in Blocks : order[x[1]] = x[2] /\ x \in Frames \X Orders
      BY DEF IInv, BlockInv
    <3>2. b \in Blocks
      BY <1>6 DEF Blocks
    <3>3. QED
      BY SMTT(30), <3>1, <3>2, <1>3
  <2>2. flags[f] = {}
    BY <1>3, <1>6 DEF IInv, FlagInv
  <2>3. flags'[f] = {ALLOCATED} /\ \A g \in Frames : g # f => flags'[g] = flags[g]
    BY <2>2, <1>2, <1>4 DEF IInv, TypeOK
  <2>4. \A x \in Blocks : x[1] \in Frames
    BY BlockFacts
  <2>5. b \notin held
    BY <1>6 DEF IInv, NoOverlap
  <2>6. QED
    BY <2>1, <2>3, <2>4, <2>5, <1>3, <1>4, <1>6 DEF IInv, FlagInv, Blocks
<1>10. NoOverlap'
  BY <1>2, <1>4, <1>6 DEF IInv, NoOverlap, Injective
<1>11. NoLeak' /\ Covered'
  BY <1>6 DEF IInv, NoLeak, Covered
<1>12. LoopInv' /\ NoPanic'
  BY DEF LoopInv, NoPanic
<1>13. QED
  BY <1>7, <1>8, <1>9, <1>10, <1>11, <1>12 DEF IInv

(* free_frame moves a block from held to the one being merged.             *)
LEMMA FreeCallInv ==
  ASSUME IInv, NEW h \in held, FreeCall(h[1], h[2])
  PROVE  IInv'
<1> USE DEF FreeCall
<1> DEFINE p == h[1]
<1>1. h \in Blocks /\ h \in Frames \X Orders /\ order[p] = h[2] /\ h = <<p, h[2]>>
  BY DEF IInv, BlockInv, Blocks, TypeOK
<1>2. p \in Frames
  BY <1>1
<1>3. Merging' = {h} /\ Merging = {}
  BY <1>1 DEF Merging
<1>4. FreeBlocks' = FreeBlocks /\ held' = held \ {h} /\ Blocks' = Blocks
  BY <1>1, <1>3 DEF FreeBlocks, Blocks
<1>5. TypeOK'
  <2>1. flags' \in [Frames -> SUBSET Flags]
    BY DEF IInv, TypeOK
  <2>2. p \in 0 .. NFrames
    BY <1>2, SizeAssumption DEF Frames
  <2>3. QED
    BY <2>1, <2>2, <1>4 DEF IInv, TypeOK
<1>6. BlockInv'
  BY <1>4 DEF IInv, BlockInv
<1>7. FlagInv'
  <2>1. \A x \in Blocks : x # h => x[1] # p
    <3>1. \A x \in Blocks : order[x[1]] = x[2] /\ x \in Frames \X Orders
      BY DEF IInv, BlockInv
    <3>2. QED
      BY <3>1, <1>1
  <2>2. flags[p] = {ALLOCATED}
    BY DEF IInv, FlagInv
  <2>3. flags'[p] = {} /\ \A g \in Frames : g # p => flags'[g] = flags[g]
    BY <2>2, <1>2 DEF IInv, TypeOK
  <2>4. \A x \in Blocks : x[1] \in Frames
    BY BlockFacts
  <2>5. h \notin FreeBlocks
    BY DEF IInv, NoOverlap
  <2>6. QED
    BY <2>1, <2>3, <2>4, <2>5, <1>3, <1>4 DEF IInv, FlagInv, Blocks
<1>8. NoOverlap'
  BY <1>3, <1>4 DEF IInv, NoOverlap
<1>9. NoLeak' /\ Covered'
  BY <1>4 DEF IInv, NoLeak, Covered
<1>10. LoopInv' /\ NoPanic'
  BY <1>2 DEF LoopInv, NoPanic
<1>11. QED
  BY <1>5, <1>6, <1>7, <1>8, <1>9, <1>10 DEF IInv

(* The merged block goes to the free list of its order.                    *)
LEMMA MergeDoneInv ==
  ASSUME IInv, MergeDone
  PROVE  IInv'
<1> USE DEF MergeDone, Return, table
<1> DEFINE b == <<frame, order[frame]>>
<1>1. Merging = {b} /\ b \in Blocks /\ Merging' = {}
  BY DEF Merging, Blocks
<1>2. b \in Frames \X Orders /\ frame \in Frames /\ order[frame] \in Orders
  BY <1>1 DEF IInv, BlockInv
<1>3. b \notin FreeBlocks
  BY <1>1 DEF IInv, NoOverlap
<1>4. /\ mm_free_region' \in Lists
      /\ BlocksOn(mm_free_region') = BlocksOn(mm_free_region) \cup {b}
      /\ Injective(mm_free_region')
  BY <1>2, <1>3, ListFacts, PushBlocks DEF FreeBlocks
<1> HIDE DEF b
<1>5. FreeBlocks' = FreeBlocks \cup {b} /\ held' = held /\ Blocks' = Blocks
  BY <1>1, <1>4 DEF FreeBlocks, Blocks
<1>6. TypeOK'
  BY <1>4, SizeAssumption DEF IInv, TypeOK, Lists, Orders
<1>7. BlockInv' /\ FlagInv'
  BY <1>1, <1>5 DEF IInv, BlockInv, FlagInv
<1>8. NoOverlap'
  BY <1>1, <1>4, <1>5 DEF IInv, NoOverlap, Injective
<1>9. NoLeak' /\ Covered' /\ LoopInv' /\ NoPanic'
  BY <1>5 DEF IInv, NoLeak, Covered, LoopInv, NoPanic
<1>10. QED
  BY <1>6, <1>7, <1>8, <1>9 DEF IInv

(* divide_buddy replaces a free block by its two halves.                   *)
LEMMA DivideBuddyInv ==
  ASSUME IInv, DivideBuddy
  PROVE  IInv'
<1> DEFINE f == Head(mm_free_region[cur])
           k == cur - 1
           b == f + Pow2[k]
           whole == <<f, cur>>
           lo == <<f, k>>
           hi == <<b, k>>
           popped == [mm_free_region EXCEPT ![cur] = Tail(@)]
<1>1. /\ op = "alloc" /\ cur # want /\ op' = op
      /\ mm_free_region' = Push(Push(popped, k, b), k, f)
      /\ order' = [order EXCEPT ![f] = k, ![b] = k]
      /\ flags' = [flags EXCEPT ![b] = flags[f]]
      /\ cur' = k
      /\ UNCHANGED <<begin, limit, want, frame, ret, held, managed>>
  BY DEF DivideBuddy
<1>2. /\ cur \in Orders /\ want \in Orders /\ want <= cur
      /\ mm_free_region[cur] # << >>
  BY <1>1 DEF IInv, TypeOK, LoopInv
<1>3. cur # 0 /\ k < MaxOrder /\ k + 1 = cur /\ want <= k
  BY SMTT(30), <1>1, <1>2, SizeAssumption DEF Orders
<1>4. /\ f \in Frames
      /\ whole \in BlocksOn(mm_free_region)
      /\ popped \in Lists
      /\ BlocksOn(popped) = BlocksOn(mm_free_region) \ {whole}
      /\ Injective(popped)
  BY <1>2, ListFacts, PopBlocks
<1>5. whole \in FreeBlocks /\ whole \in Blocks
  BY <1>4 DEF FreeBlocks, Blocks
<1>6. f \in Nat /\ f % Pow2[cur] = 0 /\ f + Pow2[cur] <= NFrames /\ order[f] = cur
  BY <1>4, <1>5 DEF IInv, BlockInv, Frames
<1>7. /\ k \in Orders
      /\ Pow2[cur] = 2 * Pow2[k]
      /\ f % Pow2[k] = 0 /\ b % Pow2[k] = 0
      /\ Pow2[k] \in Nat /\ Pow2[k] >= 1
  BY <1>2, <1>3, <1>6, DividedHalves, Pow2Positive
<1>8. /\ b \in Frames /\ b # f /\ b \in Pages(f, cur) /\ f \in Pages(f, cur)
      /\ b + Pow2[k] <= NFrames /\ f + Pow2[k] <= NFrames
  BY <1>6, <1>7, SizeAssumption DEF Frames, Pages
<1>9. Disjoint({lo, hi}) /\ PagesOf({lo, hi}) = PagesOf({whole})
  BY <1>3, <1>6, <1>7, Halves
<1>10. /\ lo[1] = f /\ lo[2] = k /\ hi[1] = b /\ hi[2] = k
       /\ whole[1] = f /\ whole[2] = cur
       /\ lo # hi /\ lo # whole /\ hi # whole
       /\ lo \in Frames \X Orders /\ hi \in Frames \X Orders
  BY <1>3, <1>4, <1>7, <1>8
<1> HIDE DEF f, b, k, whole, lo, hi, popped
<1>11. \A x \in Blocks : x # whole => x[1] # f /\ x[1] # b /\ x # lo /\ x # hi
  BY <1>5, <1>8, <1>10, BlockFacts
<1>12. /\ mm_free_region' \in Lists
       /\ mm_free_region'[k] # << >>
       /\ BlocksOn(mm_free_region')
            = (BlocksOn(mm_free_region) \ {whole}) \cup {lo, hi}
       /\ Injective(mm_free_region')
  <2> DEFINE mid == Push(popped, k, b)
  <2>1. hi \notin BlocksOn(popped) /\ lo \notin BlocksOn(popped) \cup {hi}
    BY <1>4, <1>10, <1>11 DEF Blocks, FreeBlocks
  <2>2. /\ mid \in Lists
        /\ BlocksOn(mid) = BlocksOn(popped) \cup {hi}
        /\ Injective(mid)
    BY <2>1, <1>4, <1>7, <1>8, PushBlocks DEF hi
  <2> HIDE DEF mid
  <2>3. mm_free_region' = Push(mid, k, f)
    BY <1>1 DEF mid
  <2>4. /\ Push(mid, k, f) \in Lists
        /\ Push(mid, k, f)[k] # << >>
        /\ BlocksOn(Push(mid, k, f)) = BlocksOn(mid) \cup {lo}
        /\ Injective(Push(mid, k, f))
    BY <2>1, <2>2, <1>4, <1>7, PushBlocks DEF lo
  <2>5. QED
    BY <2>2, <2>3, <2>4, <1>4
<1>13. /\ FreeBlocks' = (FreeBlocks \ {whole}) \cup {lo, hi}
       /\ Merging' = {} /\ Merging = {} /\ held' = held
  BY <1>1, <1>12 DEF FreeBlocks, Merging
<1>14. whole \notin held
  BY <1>5 DEF IInv, NoOverlap
<1>15. Blocks' = (Blocks \ {whole}) \cup {lo, hi}
  BY <1>13, <1>14 DEF Blocks
<1>16. TypeOK'
  <2>1. order' \in [Frames -> Orders \cup {NoOrder}]
    BY <1>1, <1>7 DEF IInv, TypeOK
  <2>2. flags' \in [Frames -> SUBSET Flags]
    BY <1>1, <1>4 DEF IInv, TypeOK
  <2>3. QED
    BY <2>1, <2>2, <1>1, <1>7, <1>12 DEF IInv, TypeOK, Lists
<1>17. BlockInv'
  <2>1. /\ order'[f] = k /\ order'[b] = k
        /\ \A g \in Frames : g # f /\ g # b => order'[g] = order[g]
    BY <1>1, <1>4, <1>8 DEF IInv, TypeOK
  <2>2. QED
    BY <2>1, <1>7, <1>8, <1>10, <1>11, <1>15 DEF IInv, BlockInv
<1>18. FlagInv'
  <2>1. flags[f] = {}
    BY <1>5, <1>10 DEF IInv, FlagInv
  <2>2. /\ flags'[f] = {} /\ flags'[b] = {}
        /\ \A g \in Frames : g # b => flags'[g] = flags[g]
    BY <2>1, <1>1, <1>4, <1>8 DEF IInv, TypeOK
  <2>3. \A x \in Blocks : x[1] \in Frames
    BY BlockFacts
  <2>4. QED
    BY <2>2, <2>3, <1>10, <1>11, <1>13, <1>14 DEF IInv, FlagInv, Blocks
<1>19. Disjoint(Blocks') /\ PagesOf(Blocks') = PagesOf(Blocks)
  <2>1. Disjoint(Blocks) /\ {whole} \subseteq Blocks
    BY <1>5 DEF IInv, NoOverlap
  <2>2. QED
    BY <2>1, <1>9, <1>15, Regroup
<1>20. NoOverlap'
  <2>1. FreeBlocks' \cap held' = {}
    BY <1>10, <1>11, <1>13, <1>14 DEF IInv, NoOverlap, Blocks
  <2>2. QED
    BY <2>1, <1>12, <1>13, <1>19 DEF NoOverlap, Injective
<1>21. NoLeak'
  BY <1>1, <1>19 DEF IInv, NoLeak
<1>22. Covered'
  <2>1. f \in managed /\ b \in managed
    BY <1>5, <1>8, <1>10, BlockFacts
  <2>2. QED
    BY <2>1, <1>1 DEF IInv, TypeOK, Covered
<1>23. LoopInv' /\ NoPanic'
  BY <1>1, <1>3, <1>12 DEF LoopInv, NoPanic
<1>24. QED
  BY <1>16, <1>17, <1>18, <1>20, <1>21, <1>22, <1>23 DEF IInv

(* What merge_buddy relies on.  A frame with the right order and no flags  *)
(* is in some block.  If that block is no larger than the one being merged *)
(* it starts at the buddy and so is the free block looked for; if it is    *)
(* larger, it contains the parent of both, and so the block being merged,  *)
(* which would be in two blocks.                                           *)
LEMMA BuddyIsFree ==
  ASSUME IInv, op = "merge", CanMerge
  PROVE  <<Buddy, order[frame]>> \in FreeBlocks
<1> DEFINE k == order[frame]
           me == <<frame, k>>
           b == Buddy
           low == IF b < frame THEN b ELSE frame
<1>1. Merging = {me} /\ me \in Blocks
  BY DEF Merging, Blocks
<1>2. /\ frame \in Frames /\ k \in Orders /\ frame % Pow2[k] = 0
      /\ frame + Pow2[k] <= NFrames /\ k < MaxOrder /\ frame \in Nat
  BY <1>1 DEF IInv, BlockInv, CanMerge, Frames
<1>3. /\ b \in Nat /\ b # frame /\ b % Pow2[k] = 0
      /\ b < frame => b % Pow2[k + 1] = 0 /\ frame = b + Pow2[k]
      /\ frame < b => frame % Pow2[k + 1] = 0 /\ b = frame + Pow2[k]
  BY <1>2, BuddyHalves DEF Buddy
<1>4. /\ k + 1 \in Orders /\ Pow2[k + 1] = 2 * Pow2[k]
      /\ Pow2[k] \in Nat /\ Pow2[k] >= 1
  BY <1>2, OrderAbove
<1>5. b \in Frames /\ order[b] = k /\ flags[b] = {}
  <2>1. b \in Frames
    BY <1>3, SizeAssumption DEF CanMerge, Frames
  <2>2. order[b] = k /\ flags[b] \cap {ALLOCATED, RESERVED} = {}
    BY DEF CanMerge
  <2>3. flags[b] \subseteq {ALLOCATED, RESERVED}
    BY <2>1 DEF IInv, TypeOK, Flags
  <2>4. QED
    BY <2>1, <2>2, <2>3
<1>6. me[1] = frame /\ me[2] = k
  OBVIOUS
<1> HIDE DEF k, me, b
<1>7. b \in managed
  <2>1. k # NoOrder
    BY <1>2, SizeAssumption DEF Orders, NoOrder
  <2>2. QED
    BY <2>1, <1>5 DEF IInv, Covered
<1>8. PICK x \in Blocks : b \in Pages(x[1], x[2])
  BY <1>7, BlockFacts
<1>9. /\ x \in Frames \X Orders /\ x[1] \in Nat /\ x[2] \in Orders
      /\ x[1] % Pow2[x[2]] = 0 /\ order[x[1]] = x[2] /\ x = <<x[1], x[2]>>
  BY <1>8 DEF IInv, BlockInv, Frames
<1>10. Pow2[x[2]] \in Nat /\ Pow2[x[2]] >= 1 /\ x[2] \in Int /\ k \in Int
  BY <1>2, <1>9, Pow2Positive DEF Orders
<1>11. CASE x[2] <= k
  <2>1. b \in Pages(b, k)
    BY <1>3, <1>4 DEF Pages
  <2>2. b <= x[1]
    BY <2>1, <1>2, <1>3, <1>8, <1>9, <1>11, Nesting
  <2>3. x[1] = b
    BY <2>2, <1>3, <1>8, <1>9, <1>10 DEF Pages
  <2>4. x[2] = k
    BY <2>3, <1>5, <1>9
  <2>5. x \notin held
    BY <2>3, <1>5 DEF IInv, FlagInv
  <2>6. x # me
    BY <2>3, <1>3, <1>6
  <2>7. QED
    BY <2>3, <2>4, <2>5, <2>6, <1>1, <1>8, <1>9 DEF Blocks, b, k
<1>12. CASE ~(x[2] <= k)
  <2>1. low \in Nat /\ low % Pow2[k + 1] = 0
    BY <1>2, <1>3
  <2>2. b \in Pages(low, k + 1) /\ frame \in Pages(low, k + 1)
    BY <1>2, <1>3, <1>4 DEF Pages
  <2> HIDE DEF low
  <2>3. k + 1 <= x[2]
    BY <1>10, <1>12
  <2>4. x[1] <= low /\ low + Pow2[k + 1] <= x[1] + Pow2[x[2]]
    BY <2>1, <2>2, <2>3, <1>4, <1>8, <1>9, Nesting
  <2>5. frame \in Pages(x[1], x[2])
    BY <2>1, <2>2, <2>4, <1>2, <1>4, <1>9, <1>10 DEF Pages
  <2>6. frame \in Pages(me[1], me[2])
    BY <1>2, <1>4, <1>6 DEF Pages
  <2>7. x = me
    BY <2>5, <2>6, <1>1, <1>8, BlockFacts
  <2>8. QED
    BY <2>7, <1>6, <1>10, <1>12
<1>13. QED
  BY <1>11, <1>12

(* One round of merge_buddy replaces two halves by the whole.              *)
LEMMA MergeStepInv ==
  ASSUME IInv, MergeStep
  PROVE  IInv'
<1> DEFINE k == order[frame]
           b == Buddy
           me == <<frame, k>>
           other == <<b, k>>
           low == IF b < frame THEN b ELSE frame
           whole == <<low, k + 1>>
<1>1. op = "merge" /\ CanMerge
  BY DEF MergeStep
<1>2. other \in FreeBlocks
  BY <1>1, BuddyIsFree
<1>3. Merging = {me} /\ me \in Blocks /\ other \in Blocks
  BY <1>1, <1>2 DEF Merging, Blocks
<1>4. /\ frame \in Frames /\ b \in Frames /\ k \in Orders /\ order[b] = k
      /\ frame % Pow2[k] = 0 /\ frame \in Nat /\ b \in Nat /\ k < MaxOrder
      /\ frame + Pow2[k] <= NFrames /\ b + Pow2[k] <= NFrames
  BY <1>1, <1>3 DEF IInv, BlockInv, CanMerge, Frames
<1>5. OnItsList(b)
  <2>1. b \in ToSet(mm_free_region[k])
    BY <1>2 DEF FreeBlocks, BlocksOn
  <2>2. QED
    BY <2>1, <1>4 DEF OnItsList, Contains, ToSet
<1>6. /\ remove_frame_from_list(b)
      /\ frame' = low
      /\ order' = [order EXCEPT ![low] = @ + 1]
      /\ op' = op
      /\ UNCHANGED <<flags, begin, limit, want, cur, ret, held, managed>>
  BY <1>5 DEF MergeStep
<1>7. /\ b # frame
      /\ b < frame => b % Pow2[k + 1] = 0 /\ frame = b + Pow2[k]
      /\ frame < b => frame % Pow2[k + 1] = 0 /\ b = frame + Pow2[k]
  BY <1>4, BuddyHalves DEF Buddy
<1>8. /\ k + 1 \in Orders /\ Pow2[k + 1] = 2 * Pow2[k]
      /\ Pow2[k] \in Nat /\ Pow2[k] >= 1
  BY <1>4, OrderAbove
<1>9. /\ low \in Frames /\ low \in Nat /\ low % Pow2[k + 1] = 0 /\ order[low] = k
      /\ low + Pow2[k + 1] <= NFrames
      /\ {frame, b} = {low, low + Pow2[k]}
  BY <1>4, <1>7, <1>8
<1>10. /\ me[1] = frame /\ me[2] = k /\ other[1] = b /\ other[2] = k
       /\ whole[1] = low /\ whole[2] = k + 1 /\ me # other
       /\ whole \in Frames \X Orders
       /\ {me, other} = {<<low, k>>, <<low + Pow2[k], k>>}
  BY <1>7, <1>8, <1>9
<1> HIDE DEF k, b, low, me, other, whole
<1>11. /\ Disjoint({me, other}) /\ PagesOf({me, other}) = PagesOf({whole})
  <2> DEFINE A == {<<low, k>>, <<low + Pow2[k], k>>}
  <2>1. Disjoint(A) /\ PagesOf(A) = PagesOf({whole})
    BY <1>4, <1>9, Halves DEF whole
  <2>2. {me, other} = A
    BY <1>10
  <2> HIDE DEF A
  <2>3. QED
    BY Zenon, <2>1, <2>2
<1>12. k \in Int /\ k + 1 # k
  BY <1>4 DEF Orders
<1>13. \A x \in Blocks : x[1] = low => x = me \/ x = other
  BY <1>3, <1>4, <1>9, <1>10 DEF IInv, BlockInv, me, other
<1>14. whole \notin Blocks
  BY <1>10, <1>12, <1>13
<1>15. /\ mm_free_region' \in Lists
       /\ BlocksOn(mm_free_region') = BlocksOn(mm_free_region) \ {other}
       /\ Injective(mm_free_region')
  <2>1. PICK i \in DOMAIN mm_free_region[k] :
          /\ mm_free_region[k][i] = b
          /\ mm_free_region' =
               [mm_free_region EXCEPT ![k] = RemoveAt(mm_free_region[k], i)]
    BY <1>4, <1>6 DEF remove_frame_from_list
  <2> DEFINE s == mm_free_region[k]
  <2>2. s \in Seq(Frames) /\ IsInjective(s)
    BY <1>4, ListFacts DEF Lists, Injective
  <2>3. /\ RemoveAt(s, i) \in Seq(Frames)
        /\ ToSet(RemoveAt(s, i)) = ToSet(s) \ {b}
        /\ IsInjective(RemoveAt(s, i))
    BY <2>1, <2>2, RemoveAtList
  <2> DEFINE short == RemoveAt(mm_free_region[k], i)
             new   == [mm_free_region EXCEPT ![k] = short]
  <2>4. /\ short \in Seq(Frames) /\ IsInjective(short)
        /\ ToSet(short) = ToSet(mm_free_region[k]) \ {b}
    BY Zenon, <2>3
  <2> HIDE DEF short
  <2>5. mm_free_region \in Lists /\ Injective(mm_free_region)
    BY Zenon, ListFacts
  <2>6. /\ new \in Lists /\ Injective(new)
        /\ BlocksOn(new) = BlocksOn(mm_free_region) \ {<<b, k>>}
    BY ZenonT(40), <2>4, <2>5, <1>4, ShrinkBlocks
  <2>7. mm_free_region' = new
    BY Zenon, <2>1 DEF short
  <2> HIDE DEF new
  <2>8. QED
    BY Zenon, <2>6, <2>7 DEF other
<1>16. order'[low] = k + 1 /\ \A g \in Frames : g # low => order'[g] = order[g]
  BY <1>6, <1>9 DEF IInv, TypeOK
<1>17. Merging' = {whole}
  BY <1>1, <1>6, <1>16 DEF Merging, whole
<1>18. FreeBlocks' = FreeBlocks \ {other} /\ held' = held
  BY <1>6, <1>15 DEF FreeBlocks
<1>19. other \notin held /\ me \notin held /\ me \notin FreeBlocks
  BY <1>2, <1>3 DEF IInv, NoOverlap
<1>20. Blocks' = (Blocks \ {me, other}) \cup {whole}
  BY <1>3, <1>17, <1>18, <1>19 DEF Blocks
<1>21. TypeOK'
  <2>1. order' \in [Frames -> Orders \cup {NoOrder}]
    BY <1>6, <1>8, <1>9 DEF IInv, TypeOK
  <2>2. low \in 0 .. NFrames
    BY <1>9, SizeAssumption DEF Frames
  <2>3. QED
    BY <2>1, <2>2, <1>6, <1>15 DEF IInv, TypeOK, Lists
<1>22. BlockInv'
  BY <1>9, <1>10, <1>13, <1>16, <1>20 DEF IInv, BlockInv
<1>23. FlagInv'
  <2>1. low = frame \/ low = b
    BY DEF low
  <2>2. flags[low] = {}
    BY <2>1, <1>2, <1>3, <1>10 DEF IInv, FlagInv
  <2>3. QED
    BY <2>2, <1>6, <1>10, <1>17, <1>18 DEF IInv, FlagInv
<1>24. Disjoint(Blocks') /\ PagesOf(Blocks') = PagesOf(Blocks)
  <2>1. Disjoint(Blocks) /\ {me, other} \subseteq Blocks
    BY <1>3 DEF IInv, NoOverlap
  <2>2. Disjoint({whole})
    BY DEF Disjoint
  <2>3. QED
    BY <2>1, <2>2, <1>11, <1>20, Regroup
<1>25. NoOverlap'
  <2>1. FreeBlocks' \cap held' = {}
    BY <1>18 DEF IInv, NoOverlap
  <2>2. Merging' \cap (FreeBlocks' \cup held') = {}
    BY <1>14, <1>17, <1>18 DEF Blocks
  <2>3. QED
    BY <2>1, <2>2, <1>15, <1>24 DEF NoOverlap, Injective
<1>26. NoLeak'
  BY <1>6, <1>24 DEF IInv, NoLeak
<1>27. Covered'
  <2>1. low \in managed
    <3>1. k # NoOrder
      BY <1>4, SizeAssumption DEF Orders, NoOrder
    <3>2. QED
      BY <3>1, <1>9 DEF IInv, Covered
  <2>2. QED
    BY <2>1, <1>6, <1>16 DEF IInv, Covered
<1>28. LoopInv' /\ NoPanic'
  BY <1>1, <1>6, <1>9 DEF LoopInv, NoPanic
<1>29. QED
  BY <1>21, <1>22, <1>23, <1>25, <1>26, <1>27, <1>28 DEF IInv

-----------------------------------------------------------------------------
(***************************************************************************)
(* The theorems.                                                           *)
(***************************************************************************)
(* Every step of every function of mm/pmm.c preserves the invariant.       *)
LEMMA NextInv == IInv /\ [Next]_vars => IInv'
<1> SUFFICES ASSUME IInv, [Next]_vars
             PROVE  IInv'
  OBVIOUS
<1>1. CASE \E r \in Regions : unreserve_frame_region(r[1], r[2])
  BY <1>1, UnreserveInv
<1>2. CASE \E r \in Regions : InitBuddyCall(r[1], r[2])
  BY <1>2, InitBuddyCallInv
<1>3. CASE \E k \in Orders : AllocFail(k)
  BY <1>3, AllocFailInv
<1>4. CASE \E k \in Orders : AllocCall(k)
  BY <1>4, AllocCallInv
<1>5. CASE \E b \in held : FreeCall(b[1], b[2])
  BY <1>5, FreeCallInv
<1>6. CASE InitBuddyStep
  BY <1>6, InitBuddyStepInv
<1>7. CASE InitBuddyDone
  BY <1>7, InitBuddyDoneInv
<1>8. CASE DivideBuddy
  BY <1>8, DivideBuddyInv
<1>9. CASE AllocTake
  BY <1>9, AllocTakeInv
<1>10. CASE MergeStep
  BY <1>10, MergeStepInv
<1>11. CASE MergeDone
  BY <1>11, MergeDoneInv
<1>12. CASE UNCHANGED vars
  BY <1>12 DEF vars, IInv, TypeOK, BlockInv, FlagInv, NoOverlap, NoLeak,
               Covered, LoopInv, NoPanic, Blocks, FreeBlocks, Merging
<1>13. QED
  BY <1>1, <1>2, <1>3, <1>4, <1>5, <1>6, <1>7, <1>8, <1>9, <1>10, <1>11, <1>12
  DEF Next, Step

(* The inductive invariant holds in every reachable state of the buddy     *)
(* allocator.                                                              *)
THEOREM Invariance == Spec => []IInv
<1>1. Init => IInv
  BY InitInv
<1>2. IInv /\ [Next]_vars => IInv'
  BY NextInv
<1>3. QED
  BY <1>1, <1>2, PTL DEF Spec

(* Frame fields, lists and local variables of mm/pmm.c keep their types:   *)
(* in particular no index leaves mm_frames or mm_free_region.              *)
THEOREM TypeCorrect == Spec => []TypeOK
<1>1. IInv => TypeOK
  BY DEF IInv
<1>2. QED
  BY <1>1, Invariance, PTL

(* remove_frame_from_list never panics.                                    *)
THEOREM MergeNeverPanics == Spec => []NoPanic
<1>1. IInv => NoPanic
  BY DEF IInv
<1>2. QED
  BY <1>1, Invariance, PTL

(* alloc_frames never hands out a frame that is in use.                    *)
THEOREM AllocatedOnce == Spec => []NoOverlap
<1>1. IInv => NoOverlap
  BY DEF IInv
<1>2. QED
  BY <1>1, Invariance, PTL

(* divide_buddy and merge_buddy neither lose nor invent frames.            *)
THEOREM NothingLost == Spec => []NoLeak
<1>1. IInv => NoLeak
  BY DEF IInv
<1>2. QED
  BY <1>1, Invariance, PTL

(* What a caller of alloc_frames holds keeps its order, its alignment and  *)
(* its mark until it is freed.                                             *)
THEOREM HeldUntouched == Spec => []HeldIntact
<1>1. IInv => HeldIntact
  BY DEF IInv, BlockInv, FlagInv, HeldIntact, Blocks
<1>2. QED
  BY <1>1, Invariance, PTL

-----------------------------------------------------------------------------
(***************************************************************************)
(* The buddy allocator implements FrameAllocator.                          *)
(***************************************************************************)
(* Moving a block out of a disjoint set takes away exactly its frames.     *)
LEMMA PagesWithout ==
  ASSUME NEW B, Disjoint(B), NEW x \in B
  PROVE  PagesOf(B \ {x}) = PagesOf(B) \ Pages(x[1], x[2])
<1>1. \A f : f \in PagesOf(B \ {x})
              <=> f \in PagesOf(B) /\ f \notin Pages(x[1], x[2])
  <2> SUFFICES ASSUME NEW f
               PROVE  f \in PagesOf(B \ {x})
                        <=> f \in PagesOf(B) /\ f \notin Pages(x[1], x[2])
    OBVIOUS
  <2>1. f \in PagesOf(B \ {x}) <=> \E y \in B \ {x} : f \in Pages(y[1], y[2])
    BY InPagesOf
  <2>2. f \in PagesOf(B) <=> \E y \in B : f \in Pages(y[1], y[2])
    BY InPagesOf
  <2>3. QED
    BY <2>1, <2>2 DEF Disjoint
<1>2. QED
  BY <1>1

(* Adding a block adds its frames.                                         *)
LEMMA PagesWith ==
  ASSUME NEW B, NEW x
  PROVE  PagesOf(B \cup {x}) = PagesOf(B) \cup Pages(x[1], x[2])
<1>1. \A f : f \in PagesOf(B \cup {x})
              <=> f \in PagesOf(B) \/ f \in Pages(x[1], x[2])
  BY InPagesOf
<1>2. QED
  BY <1>1

(* A step of the allocator that changes neither the callers' blocks nor    *)
(* the free frames is invisible.                                           *)
LEMMA Stutter ==
  ASSUME FreePages' = FreePages, held' = held
  PROVE  [Abs!Next]_(Abs!vars)
  BY DEF Abs!vars

(* The free frames are the managed ones that no caller has.                *)
LEMMA FreePagesAre ==
  ASSUME IInv
  PROVE  /\ FreePages = managed \ PagesOf(held)
         /\ PagesOf(held) \subseteq managed
         /\ Disjoint(held)
<1> DEFINE F == FreeBlocks \cup Merging
<1>1. Disjoint(Blocks) /\ F \cap held = {} /\ Blocks = F \cup held
  BY DEF IInv, NoOverlap, Blocks
<1> HIDE DEF F
<1>2. PagesOf(Blocks) = PagesOf(F) \cup PagesOf(held)
  <2>1. \A f : f \in PagesOf(Blocks) <=> f \in PagesOf(F) \/ f \in PagesOf(held)
    BY <1>1, InPagesOf
  <2>2. QED
    BY <2>1
<1>3. PagesOf(F) \cap PagesOf(held) = {}
  <2> SUFFICES ASSUME NEW f, f \in PagesOf(F), f \in PagesOf(held)
               PROVE  FALSE
    OBVIOUS
  <2>1. PICK x \in F : f \in Pages(x[1], x[2])
    BY InPagesOf
  <2>2. PICK y \in held : f \in Pages(y[1], y[2])
    BY InPagesOf
  <2>3. QED
    BY <2>1, <2>2, <1>1 DEF Disjoint
<1>4. PagesOf(Blocks) = managed
  BY DEF IInv, NoLeak
<1>5. Disjoint(held)
  BY <1>1 DEF Disjoint
<1>6. QED
  BY <1>2, <1>3, <1>4, <1>5 DEF FreePages, F

FreeIsUnheld == FreePages = managed \ PagesOf(held)

(* The same, one step later.                                               *)
LEMMA FreePagesNext == IInv' => FreeIsUnheld'
<1>1. IInv => FreeIsUnheld
  BY FreePagesAre DEF FreeIsUnheld
<1>2. QED
  BY <1>1, PTL

(* init_buddy_allocator donates the block it queues.                       *)
LEMMA InitBuddyStepDonates ==
  ASSUME IInv, IInv', InitBuddyStep
  PROVE  \E b, l \in 0 .. NFrames : Abs!Donate(b .. l - 1)
<1> USE DEF InitBuddyStep
<1>1. PICK k \in Orders :
        /\ begin' = begin + Pow2[k]
        /\ managed' = managed \cup Pages(begin, k)
        /\ mm_free_region' = Push(mm_free_region, k, begin)
        /\ GetMaxOrder(begin, limit, k)
  OBVIOUS
<1>2. /\ begin \in 0 .. NFrames /\ begin' \in 0 .. NFrames
      /\ limit \in 0 .. NFrames /\ NFrames \in Nat
  BY SizeAssumption DEF IInv, TypeOK
<1> DEFINE P == Pages(begin, k)
<1>3. P = begin .. begin' - 1
  BY SMTT(30), <1>1, <1>2, Pow2Positive DEF Pages
<1>4. P \cap managed = {}
  <2>1. begin + Pow2[k] <= limit
    <3>1. CASE begin + Pow2[k] < limit
      BY <3>1, <1>2, Pow2Positive
    <3>2. CASE k = 0
      BY <3>2, <1>2, Pow2Assumption
    <3>3. QED
      BY <1>1, <3>1, <3>2 DEF GetMaxOrder
  <2>2. \A f \in P : f \in begin .. limit - 1
    BY <2>1, <1>2, Pow2Positive DEF Pages
  <2>3. QED
    BY <2>2 DEF IInv, LoopInv
<1>5. held' = held
  OBVIOUS
<1> HIDE DEF P
<1>6. FreePages' = FreePages \cup P
  <2>1. FreePages = managed \ PagesOf(held) /\ PagesOf(held) \subseteq managed
    BY FreePagesAre
  <2>2. FreePages' = managed' \ PagesOf(held')
    BY FreePagesNext DEF FreeIsUnheld
  <2>3. managed' = managed \cup P
    BY <1>1 DEF P
  <2>4. QED
    BY <2>1, <2>2, <2>3, <1>4, <1>5
<1>7. P \cap FreePages = {} /\ \A x \in held : P \cap Abs!Run(x[1], x[2]) = {}
  <2>1. \A x \in held : Pages(x[1], x[2]) \subseteq managed
    BY BlockFacts DEF Blocks
  <2>2. QED
    BY <2>1, <1>4, FreePagesAre DEF Abs!Run, Pages
<1>8. Abs!Donate(P)
  BY <1>5, <1>6, <1>7 DEF Abs!Donate
<1>9. QED
  BY <1>2, <1>3, <1>8

(* alloc_frames takes an aligned run of free frames.                       *)
LEMMA AllocTakeAllocates ==
  ASSUME IInv, IInv', AllocTake
  PROVE  \E p \in 0 .. NFrames - 1, k \in 0 .. MaxOrder : Abs!Alloc(p, k)
<1> DEFINE f == Head(mm_free_region[want])
           b == <<f, want>>
<1>1. want \in Orders /\ mm_free_region[want] # << >> /\ op = "alloc"
  BY DEF AllocTake, IInv, TypeOK, LoopInv
<1>2. f \in Frames /\ b \in BlocksOn(mm_free_region)
  BY <1>1, ListFacts, PopBlocks
<1>3. b \in FreeBlocks /\ b \in Blocks /\ b[1] = f /\ b[2] = want
  BY <1>2 DEF FreeBlocks, Blocks
<1>4. f % Pow2[want] = 0
  BY <1>3 DEF IInv, BlockInv
<1>5. held' = held \cup {b} /\ managed' = managed
  BY DEF AllocTake
<1> HIDE DEF f, b
<1>6. Pages(f, want) \subseteq FreePages
  BY <1>3, InPagesOf DEF FreePages
<1>7. FreePages' = FreePages \ Pages(f, want)
  <2>1. FreePages = managed \ PagesOf(held) /\ PagesOf(held) \subseteq managed
    BY FreePagesAre
  <2>2. FreePages' = managed' \ PagesOf(held')
    BY FreePagesNext DEF FreeIsUnheld
  <2>3. PagesOf(held') = PagesOf(held) \cup Pages(f, want)
    BY <1>3, <1>5, PagesWith
  <2>4. QED
    BY <2>1, <2>2, <2>3, <1>5
<1>8. Abs!Alloc(f, want)
  BY <1>4, <1>5, <1>6, <1>7 DEF Abs!Alloc, Abs!Run, Pages, b
<1>9. QED
  BY <1>1, <1>2, <1>8 DEF Frames, Orders

(* free_frame gives back the run that was allocated.                       *)
LEMMA FreeCallFrees ==
  ASSUME IInv, IInv', NEW h \in held, FreeCall(h[1], h[2])
  PROVE  Abs!Free(h[1], h[2])
<1>1. h = <<h[1], h[2]>>
  BY DEF IInv, TypeOK
<1>2. held' = held \ {h} /\ managed' = managed
  BY <1>1 DEF FreeCall
<1>3. PagesOf(held') = PagesOf(held) \ Pages(h[1], h[2])
  BY <1>2, FreePagesAre, PagesWithout
<1>4. FreePages' = FreePages \cup Pages(h[1], h[2])
  <2>1. FreePages = managed \ PagesOf(held)
    BY FreePagesAre
  <2>2. FreePages' = managed' \ PagesOf(held')
    BY FreePagesNext DEF FreeIsUnheld
  <2>3. Pages(h[1], h[2]) \subseteq managed
    BY BlockFacts DEF Blocks
  <2>4. QED
    BY <2>1, <2>2, <2>3, <1>2, <1>3
<1>5. QED
  BY <1>1, <1>2, <1>4 DEF Abs!Free, Abs!Run, Pages

(* Every step of the allocator is a step of FrameAllocator or invisible.   *)
LEMMA StepSimulation ==
  ASSUME IInv, IInv', [Next]_vars
  PROVE  [Abs!Next]_(Abs!vars)
<1>1. CASE held' = held /\ managed' = managed
  <2>1. FreePages = managed \ PagesOf(held)
    BY FreePagesAre
  <2>2. FreePages' = managed' \ PagesOf(held')
    BY FreePagesNext DEF FreeIsUnheld
  <2>3. QED
    BY <2>1, <2>2, <1>1, Stutter
<1>2. CASE InitBuddyStep
  BY <1>2, InitBuddyStepDonates DEF Abs!Next
<1>3. CASE AllocTake
  BY <1>3, AllocTakeAllocates DEF Abs!Next
<1>4. CASE \E h \in held : FreeCall(h[1], h[2])
  BY <1>4, FreeCallFrees DEF Abs!Next
<1>5. \/ held' = held /\ managed' = managed
      \/ InitBuddyStep
      \/ AllocTake
      \/ \E h \in held : FreeCall(h[1], h[2])
  BY DEF Next, Step, vars, unreserve_frame_region, InitBuddyCall, AllocFail,
         AllocCall, InitBuddyDone, DivideBuddy, MergeStep, MergeDone
<1>6. QED
  BY <1>1, <1>2, <1>3, <1>4, <1>5

(* The frame table starts with no free frame.                              *)
LEMMA InitSimulation == Init => Abs!Init
<1> SUFFICES ASSUME Init
             PROVE  Abs!Init
  OBVIOUS
<1>1. IInv
  BY InitInv
<1>2. FreePages = {}
  BY <1>1, FreePagesAre DEF Init
<1>3. QED
  BY <1>2 DEF Init, Abs!Init

(* The buddy allocator implements the abstract frame allocator.            *)
THEOREM Refinement == Spec => Implements
<1>1. Init => Abs!Init
  BY InitSimulation
<1>2. IInv /\ IInv' /\ [Next]_vars => [Abs!Next]_(Abs!vars)
  BY StepSimulation
<1>3. QED
  BY <1>1, <1>2, Invariance, PTL DEF Spec, Implements, Abs!Spec
=============================================================================
