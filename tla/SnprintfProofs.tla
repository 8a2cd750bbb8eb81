--------------------------- MODULE SnprintfProofs ---------------------------
(***************************************************************************)
(* vsnprintf, for every length of the buffer, every format and arguments   *)
(* of every size: it stays in the buffer, output that fits is complete,    *)
(* truncation shows in the count and a number reads back as its argument.  *)
(***************************************************************************)
EXTENDS Snprintf, CommonLemmas

Contents == Chars \cup {NUL, Unset}   \* of a byte

-----------------------------------------------------------------------------
(***************************************************************************)
(* The digits of a number.                                                 *)
(***************************************************************************)
Divisors(f, base, k) ==
  f = [n \in 0 .. k |-> IF n = 0 THEN <<>> ELSE <<n % base>> \o f[n \div base]]

(* The recursive definition of the digits has a solution on every range:   *)
(* the least range without one would extend the solution on the one before.*)
LEMMA DivisorsExist ==
  ASSUME NEW base \in Nat, base >= 2, NEW k \in Nat
  PROVE  \E f : Divisors(f, base, k)
<1> DEFINE Bad == {m \in Nat : ~ \E f : Divisors(f, base, m)}
<1>1. SUFFICES ASSUME Bad # {} PROVE FALSE
  OBVIOUS
<1>2. PICK m \in Bad : \A j \in Bad : m <= j
  <2> HIDE DEF Bad
  <2>1. Bad \subseteq Nat
    BY DEF Bad
  <2>2. QED
    BY <2>1, <1>1, LeastElement
<1>3. m # 0
  <2> DEFINE f == [n \in 0 .. 0 |-> <<>>]
  <2>1. Divisors(f, base, 0)
    BY DEF Divisors
  <2>2. QED
    BY <2>1
<1>4. m \in Nat /\ m - 1 \in Nat /\ m - 1 \notin Bad
  BY <1>2, <1>3
<1>5. PICK f : Divisors(f, base, m - 1)
  BY <1>4
<1> DEFINE g == [n \in 0 .. m |-> IF n < m THEN f[n]
                                  ELSE <<m % base>> \o f[m \div base]]
<1>6. ASSUME NEW n \in 0 .. m, n # 0
      PROVE  n \div base \in 0 .. n - 1 /\ g[n \div base] = f[n \div base]
  <2>1. n \in Nat /\ n >= 1
    BY <1>4, <1>6
  <2>2. n \div base \in 0 .. n - 1
    BY <2>1, QuotientSmaller
  <2>3. n \div base \in 0 .. m /\ n \div base < m
    BY <2>2, <1>4
  <2>4. QED
    BY <2>2, <2>3
<1>7. ASSUME NEW n \in 0 .. m
      PROVE  g[n] = IF n = 0 THEN <<>> ELSE <<n % base>> \o g[n \div base]
  <2>1. CASE n < m
    <3>1. n \in 0 .. m - 1
      BY <2>1, <1>4
    <3>2. f[n] = IF n = 0 THEN <<>> ELSE <<n % base>> \o f[n \div base]
      BY <3>1, <1>5 DEF Divisors
    <3>3. g[n] = f[n]
      BY <2>1
    <3>4. QED
      BY <3>2, <3>3, <1>6
  <2>2. CASE ~(n < m)
    <3>1. n = m
      BY <2>2, <1>4
    <3>2. g[m] = <<m % base>> \o f[m \div base]
      BY <1>4
    <3>3. QED
      BY <3>1, <3>2, <1>3, <1>6
  <2>3. QED
    BY <2>1, <2>2
<1>8. Divisors(g, base, m)
  <2>1. g = [n \in 0 .. m |-> g[n]]
    OBVIOUS
  <2> HIDE DEF g
  <2>2. QED
    BY <2>1, <1>7 DEF Divisors
<1>9. QED
  BY <1>8, <1>2

(* uint64_t has at least one value besides 0.                              *)
LEMMA NumbersPositive == Numbers \in Nat /\ Numbers >= 2
  BY SnprintfAssumption DEF Numbers

(* The digits are what the loop of print_number computes.                  *)
LEMMA RemaindersStep ==
  ASSUME NEW base \in Nat, base >= 2, NEW n \in 0 .. Numbers - 1
  PROVE  Remainders(base)[n] =
           IF n = 0 THEN <<>> ELSE <<n % base>> \o Remainders(base)[n \div base]
<1>1. \E f : Divisors(f, base, Numbers - 1)
  BY NumbersPositive, DivisorsExist
<1>2. Remainders(base) = CHOOSE f : Divisors(f, base, Numbers - 1)
  BY DEF Remainders, Divisors
<1>3. Divisors(Remainders(base), base, Numbers - 1)
  BY <1>1, <1>2
<1>4. QED
  BY <1>3 DEF Divisors

(* They are digits of the base, and there is one at least.                 *)
LEMMA RemaindersType ==
  ASSUME NEW base \in Nat, base >= 2, NEW n \in 0 .. Numbers - 1
  PROVE  /\ Remainders(base)[n] \in Seq(0 .. base - 1)
         /\ n # 0 => Len(Remainders(base)[n]) >= 1
<1> DEFINE rest == Remainders(base)
           Bad == {m \in 0 .. Numbers - 1 : rest[m] \notin Seq(0 .. base - 1)}
<1>1. ASSUME NEW m \in 0 .. Numbers - 1, m # 0
      PROVE  /\ rest[m] = <<m % base>> \o rest[m \div base]
             /\ m \div base \in 0 .. m - 1 /\ m \div base \in 0 .. Numbers - 1
             /\ m % base \in 0 .. base - 1
  <2>1. m \in Nat /\ m >= 1
    BY <1>1, NumbersPositive
  <2>2. m \div base \in 0 .. m - 1
    BY <2>1, QuotientSmaller
  <2>3. m \div base \in 0 .. Numbers - 1
    BY <2>2, NumbersPositive
  <2>4. m % base \in 0 .. base - 1
    BY <2>1
  <2>5. rest[m] = <<m % base>> \o rest[m \div base]
    BY <1>1, RemaindersStep
  <2>6. QED
    BY <2>2, <2>3, <2>4, <2>5
<1>2. \A m \in 0 .. Numbers - 1 : m = 0 => rest[m] = <<>>
  BY RemaindersStep
<1> HIDE DEF rest
<1>3. ASSUME NEW m \in 0 .. Numbers - 1, m # 0,
             rest[m \div base] \in Seq(0 .. base - 1)
      PROVE  rest[m] \in Seq(0 .. base - 1) /\ Len(rest[m]) >= 1
  <2> DEFINE t == <<m % base>>
             r == rest[m \div base]
  <2>1. t \in Seq(0 .. base - 1) /\ Len(t) = 1
    BY <1>1, <1>3
  <2>2. r \in Seq(0 .. base - 1)
    BY <1>3
  <2>3. rest[m] = t \o r
    BY <1>1, <1>3
  <2> HIDE DEF t, r
  <2>4. t \o r \in Seq(0 .. base - 1) /\ Len(t \o r) = Len(t) + Len(r) /\ Len(r) \in Nat
    BY <2>1, <2>2, Concat
  <2>5. QED
    BY <2>1, <2>3, <2>4
<1>4. Bad = {}
  <2>1. SUFFICES ASSUME Bad # {} PROVE FALSE
    OBVIOUS
  <2>2. Bad \subseteq Nat
    BY NumbersPositive
  <2>3. PICK m \in Bad : \A j \in Bad : m <= j
    <3> HIDE DEF Bad
    <3>1. QED
      BY <2>1, <2>2, LeastElement
  <2>4. m # 0
    <3>1. <<>> \in Seq(0 .. base - 1)
      OBVIOUS
    <3>2. QED
      BY <3>1, <2>3, <1>2
  <2>5. m \in 0 .. Numbers - 1 /\ m \div base \notin Bad
    BY <2>3, <2>4, <1>1
  <2>6. rest[m \div base] \in Seq(0 .. base - 1)
    BY <2>4, <2>5, <1>1
  <2>7. QED
    BY <2>3, <2>4, <2>5, <2>6, <1>3
<1>5. rest[n] \in Seq(0 .. base - 1)
  BY <1>4
<1>6. n # 0 => Len(rest[n]) >= 1
  <2>1. SUFFICES ASSUME n # 0 PROVE Len(rest[n]) >= 1
    OBVIOUS
  <2>2. rest[n \div base] \in Seq(0 .. base - 1)
    BY <2>1, <1>1, <1>4
  <2>3. QED
    BY <2>1, <2>2, <1>3
<1>7. QED
  BY <1>5, <1>6 DEF rest

(* Both sets of digits have a character for each digit.                    *)
LEMMA DigitChars == \A k \in 1 .. 16 : Lower[k] \in Chars /\ Upper[k] \in Chars
<1>1. DOMAIN Lower = 1 .. 16 /\ DOMAIN Upper = 1 .. 16
  BY DEF Lower, Upper
<1>2. \A k \in 1 .. 16 : Lower[k] \in Range(Lower) /\ Upper[k] \in Range(Upper)
  BY <1>1 DEF Range
<1>3. QED
  BY <1>2 DEF Chars

(* No character is the terminator.                                         *)
LEMMA NoNul == NUL \notin Chars
<1>1. NUL \notin Range(Lower) /\ NUL \notin Range(Upper)
  BY DEF NUL, Range, Lower, Upper
<1>2. NUL \notin {"-", "blank", "t", "c", "%", "?", "x"}
  BY DEF NUL
<1>3. NUL \notin Letters
  BY SnprintfAssumption
<1>4. QED
  BY <1>1, <1>2, <1>3 DEF Chars

(* The digits of a number are characters, and at least one.                *)
LEMMA DigitsType ==
  ASSUME NEW n \in 0 .. Numbers - 1, NEW base \in {2, 8, 10, 16},
         NEW digits \in {Lower, Upper}
  PROVE  Digits(n, base, digits) \in Seq(Chars) /\ Len(Digits(n, base, digits)) >= 1
<1> DEFINE tmp == IF n = 0 THEN <<0>> ELSE Remainders(base)[n]
           D == [k \in 1 .. Len(tmp) |-> digits[Reverse(tmp)[k] + 1]]
<1>1. base \in Nat /\ base >= 2 /\ base <= 16
  OBVIOUS
<1>2. tmp \in Seq(0 .. base - 1) /\ Len(tmp) >= 1
  <2>1. CASE n = 0
    <3>1. <<0>> \in Seq(0 .. base - 1) /\ Len(<<0>>) = 1
      BY <1>1
    <3>2. QED
      BY <2>1, <3>1
  <2>2. CASE n # 0
    BY <2>2, <1>1, RemaindersType
  <2>3. QED
    BY <2>1, <2>2
<1>3. Digits(n, base, digits) = D
  BY DEF Digits
<1> HIDE DEF tmp
<1>4. Len(tmp) \in Nat
  BY <1>2, LenProperties
<1>5. ASSUME NEW k \in 1 .. Len(tmp)
      PROVE  D[k] \in Chars
  <2> DEFINE j == Len(tmp) - k + 1
  <2>1. j \in 1 .. Len(tmp)
    BY <1>4
  <2>2. Reverse(tmp)[k] = tmp[j]
    BY DEF Reverse
  <2> HIDE DEF j
  <2>3. tmp[j] \in 0 .. base - 1
    BY <2>1, <1>2, ElementOfSeq
  <2>4. tmp[j] + 1 \in 1 .. 16
    <3>1. \A x \in 0 .. base - 1 : x + 1 \in 1 .. 16
      BY <1>1
    <3>2. QED
      BY <2>3, <3>1
  <2>5. digits[tmp[j] + 1] \in Chars
    BY <2>4, DigitChars
  <2>6. QED
    BY <2>2, <2>5
<1>6. D \in [1 .. Len(tmp) -> Chars]
  BY <1>5
<1>7. D \in Seq(Chars) /\ Len(D) = Len(tmp)
  <2> HIDE DEF D
  <2>1. QED
    BY <1>4, <1>6, FunctionIsSeq
<1>8. QED
  BY <1>2, <1>3, <1>7

(* Padding is made of one character.                                       *)
LEMMA CopiesFacts ==
  ASSUME NEW ch \in Chars, NEW n \in Nat
  PROVE  /\ Copies(ch, n) \in Seq(Chars) /\ Len(Copies(ch, n)) = n
         /\ \A k \in 1 .. n : Copies(ch, n)[k] = ch
<1>1. PICK c : c = Copies(ch, n)
  OBVIOUS
<1>2. c \in [1 .. n -> Chars] /\ \A k \in 1 .. n : c[k] = ch
  BY <1>1 DEF Copies
<1>3. c \in Seq(Chars) /\ Len(c) = n
  BY <1>2, FunctionIsSeq
<1>4. QED
  BY <1>1, <1>2, <1>3

(* The number that is printed is a uint64_t.                               *)
LEMMA MagnitudeType ==
  ASSUME NEW sign \in BOOLEAN, NEW arg \in Int
  PROVE  Magnitude(sign, arg) \in 0 .. Numbers - 1
<1>1. \A x \in Int : x % Numbers \in 0 .. Numbers - 1
  BY NumbersPositive
<1>2. -arg \in Int
  OBVIOUS
<1>3. QED
  BY <1>1, <1>2 DEF Magnitude, Unsigned

(* What print_number writes are characters, at least one, and few enough   *)
(* for their number and a terminator to be an unsigned int.                *)
LEMMA NumberTextType ==
  ASSUME NEW flags, NEW width \in Nat, NEW conv \in DOMAIN Bases, NEW arg \in Int
  PROVE  /\ NumberText(flags, width, conv, arg) \in Seq(Chars)
         /\ Len(NumberText(flags, width, conv, arg)) >= 1
         /\ width < UINT_MAX => Len(NumberText(flags, width, conv, arg)) < UINT_MAX
<1> DEFINE sign == conv = "d"
           minus == IF sign /\ arg < 0 THEN <<"-">> ELSE <<>>
           number == Digits(Magnitude(sign, arg), Bases[conv],
                            IF conv = "x" THEN Lower ELSE Upper)
           total == Len(number) + Len(minus)
           pad == IF width > total THEN width - total ELSE 0
           zero == "ZEROPAD" \in flags /\ "LEFTALIGN" \notin flags
           fill == Copies(IF zero THEN "0" ELSE "blank", pad)
<1>1. Bases[conv] \in {2, 8, 10, 16}
  BY DEF Bases
<1>2. /\ number \in Seq(Chars) /\ Len(number) >= 1 /\ Len(number) \in Nat
      /\ Len(number) + 1 < UINT_MAX
  <2>1. Magnitude(sign, arg) \in 0 .. Numbers - 1
    BY MagnitudeType
  <2>2. (IF conv = "x" THEN Lower ELSE Upper) \in {Lower, Upper}
    OBVIOUS
  <2>3. number \in Seq(Chars) /\ Len(number) >= 1
    BY <2>1, <2>2, <1>1, DigitsType
  <2>4. Len(number) + 1 < UINT_MAX
    BY <2>1, <2>2, <1>1, DigitsAssumption
  <2>5. QED
    BY <2>3, <2>4, LenProperties
<1> HIDE DEF number
<1>3. minus \in Seq(Chars) /\ Len(minus) \in Nat /\ Len(minus) <= 1
  <2>1. "-" \in Chars
    BY DEF Chars
  <2>2. <<"-">> \in Seq(Chars) /\ <<>> \in Seq(Chars)
    BY <2>1
  <2>3. minus \in Seq(Chars) /\ Len(minus) <= 1
    BY <2>2
  <2>4. QED
    BY <2>3, LenProperties
<1> HIDE DEF minus
<1>4. fill \in Seq(Chars) /\ Len(fill) = pad
  <2>1. pad \in Nat
    BY <1>2, <1>3
  <2>2. (IF zero THEN "0" ELSE "blank") \in Chars
    <3>1. "0" \in Chars
      BY DigitChars DEF Lower
    <3>2. "blank" \in Chars
      BY DEF Chars
    <3>3. QED
      BY <3>1, <3>2
  <2>3. QED
    BY <2>1, <2>2, CopiesFacts
<1>5. NumberText(flags, width, conv, arg) =
        IF "LEFTALIGN" \in flags THEN minus \o number \o fill
        ELSE IF zero THEN minus \o fill \o number
        ELSE fill \o minus \o number
  BY DEF NumberText, minus, number
<1>6. UINT_MAX \in Int
  BY SnprintfAssumption DEF UINT_MAX
<1>7. width < UINT_MAX => Len(number) + Len(minus) + pad < UINT_MAX
  <2>1. PICK n \in Nat, m \in Nat, u \in Int :
          n = Len(number) /\ m = Len(minus) /\ u = UINT_MAX
    BY <1>2, <1>3, <1>6
  <2>2. PICK p : p = pad
    OBVIOUS
  <2>3. p = IF width > n + m THEN width - (n + m) ELSE 0
    BY <2>1, <2>2
  <2>4. n + 1 < u /\ m <= 1
    BY <2>1, <1>2, <1>3
  <2>5. width < u => n + m + p < u
    BY ONLY <2>3, <2>4, width \in Nat, n \in Nat, m \in Nat, u \in Int
  <2>6. QED
    BY <2>1, <2>2, <2>5
<1> HIDE DEF fill, zero
<1>8. ASSUME NEW a \in Seq(Chars), NEW b \in Seq(Chars), NEW c \in Seq(Chars)
      PROVE  /\ a \o b \o c \in Seq(Chars)
             /\ Len(a \o b \o c) = Len(a) + Len(b) + Len(c)
             /\ Len(a) \in Nat /\ Len(b) \in Nat /\ Len(c) \in Nat
  <2>1. a \o b \in Seq(Chars) /\ Len(a \o b) = Len(a) + Len(b)
    BY Concat
  <2>2. (a \o b) \o c \in Seq(Chars) /\ Len((a \o b) \o c) = Len(a \o b) + Len(c)
    BY <2>1, Concat
  <2>3. QED
    BY <2>1, <2>2, LenProperties
<1>9. /\ minus \o number \o fill \in Seq(Chars) /\ Len(minus \o number \o fill) >= 1
      /\ minus \o fill \o number \in Seq(Chars) /\ Len(minus \o fill \o number) >= 1
      /\ fill \o minus \o number \in Seq(Chars) /\ Len(fill \o minus \o number) >= 1
  BY <1>2, <1>3, <1>4, <1>8
<1>10. width < UINT_MAX => /\ Len(minus \o number \o fill) < UINT_MAX
                           /\ Len(minus \o fill \o number) < UINT_MAX
                           /\ Len(fill \o minus \o number) < UINT_MAX
  <2>1. PICK n \in Nat, m \in Nat, p \in Nat, u \in Int :
          n = Len(number) /\ m = Len(minus) /\ p = Len(fill) /\ u = UINT_MAX
    BY <1>2, <1>3, <1>4, <1>8, <1>6
  <2>2. width < UINT_MAX => n + m + p < u
    BY <2>1, <1>4, <1>7
  <2>3. n + m + p < u => m + n + p < u /\ m + p + n < u /\ p + m + n < u
    BY ONLY n \in Nat, m \in Nat, p \in Nat, u \in Int
  <2>4. /\ Len(minus \o number \o fill) = m + n + p
        /\ Len(minus \o fill \o number) = m + p + n
        /\ Len(fill \o minus \o number) = p + m + n
    BY <2>1, <1>2, <1>3, <1>4, <1>8
  <2>5. QED
    BY <2>1, <2>2, <2>3, <2>4
<1> HIDE DEF pad
<1>11. /\ Len(NumberText(flags, width, conv, arg)) >= 1
       /\ NumberText(flags, width, conv, arg) \in Seq(Chars)
  BY <1>5, <1>9
<1>12. width < UINT_MAX => Len(NumberText(flags, width, conv, arg)) < UINT_MAX
  BY <1>5, <1>10
<1>13. QED
  BY <1>11, <1>12

-----------------------------------------------------------------------------
(***************************************************************************)
(* Stores.                                                                 *)
(***************************************************************************)
(* mem after s was stored at at: new.                                      *)
Stores(D, mem, at, s, new) ==
  /\ new \in [D -> Contents]
  /\ \A a \in D : ~(at <= a /\ a < at + Len(s)) => new[a] = mem[a]
  /\ \A k \in 1 .. Len(s) : at + k - 1 \in D => new[at + k - 1] = s[k]

(* A store changes the bytes it covers and no other.                       *)
LEMMA PutFacts ==
  ASSUME NEW D, NEW mem \in [D -> Contents], D \subseteq Int, NEW at \in Int,
         NEW s \in Seq(Contents)
  PROVE  Stores(D, mem, at, s, Put(mem, at, s))
<1>1. Len(s) \in Nat /\ \A k \in 1 .. Len(s) : s[k] \in Contents
  BY LenProperties, ElementOfSeq
<1>2. ASSUME NEW a \in D
      PROVE  (IF at <= a /\ a < at + Len(s) THEN s[a - at + 1] ELSE mem[a]) \in Contents
  <2>1. CASE at <= a /\ a < at + Len(s)
    <3>1. a - at + 1 \in 1 .. Len(s)
      BY <2>1, <1>1
    <3>2. QED
      BY <2>1, <3>1, <1>1
  <2>2. CASE ~(at <= a /\ a < at + Len(s))
    BY <2>2
  <2>3. QED
    BY <2>1, <2>2
<1>3. Put(mem, at, s) = [a \in D |-> IF at <= a /\ a < at + Len(s) THEN s[a - at + 1]
                                                                  ELSE mem[a]]
  BY DEF Put
<1>4. Put(mem, at, s) \in [D -> Contents]
  BY <1>2, <1>3
<1>5. \A a \in D : ~(at <= a /\ a < at + Len(s)) => Put(mem, at, s)[a] = mem[a]
  BY <1>3
<1>6. ASSUME NEW k \in 1 .. Len(s), at + k - 1 \in D
      PROVE  Put(mem, at, s)[at + k - 1] = s[k]
  <2> DEFINE a == at + k - 1
  <2>1. a \in D /\ at <= a /\ a < at + Len(s) /\ a - at + 1 = k
    BY <1>1, <1>6
  <2> HIDE DEF a
  <2>2. Put(mem, at, s)[a] = s[k]
    BY <2>1, <1>3
  <2>3. QED
    BY <2>2 DEF a
<1>7. QED
  BY <1>4, <1>5, <1>6 DEF Stores

-----------------------------------------------------------------------------
(***************************************************************************)
(* The inductive invariant.                                                *)
(***************************************************************************)
Slack(text) == IF Contains(text, "?") THEN 1 ELSE 0

Outside == \A a \in DOMAIN memory : a \notin 0 .. limit - 1 => memory[a] = Unset

Ended == returned => \E a \in 0 .. limit - 1 : memory[a] = NUL

(* The pointer lags behind the output only when the buffer is used up, and *)
(* gets ahead of it only when an argument was left behind, by a %c behind  *)
(* the end of the buffer.                                                  *)
Counted ==
  /\ late = <<>> => buffer <= Len(full)
  /\ buffer < Len(full) => buffer >= limit - 1
  /\ late # <<>> => buffer >= limit /\ Len(full) >= limit

(* Output that fits is all there.                                          *)
Kept ==
  Len(full) + Slack(full) < limit =>
    /\ \A k \in 1 .. Len(full) : memory[k - 1] = full[k]
    /\ returned => memory[Len(full)] = NUL

IInv == TypeOK /\ full \in Seq(Chars) /\ Outside /\ Ended /\ Counted /\ Kept

Addresses == -1 .. limit + 2

(* The facts the steps below start from.                                   *)
LEMMA Basics ==
  ASSUME IInv
  PROVE  /\ limit \in Nat /\ limit >= 1 /\ buffer \in Nat
         /\ memory \in [Addresses -> Contents] /\ Addresses \subseteq Int
         /\ full \in Seq(Chars) /\ Len(full) \in Nat
         /\ items \in 0 .. MaxItems /\ limit \in Lengths /\ late \in Seq(Args)
<1>1. late \in Seq(Args) /\ limit \in Lengths /\ buffer \in Nat /\ items \in 0 .. MaxItems
      /\ memory \in [Addresses -> Contents] /\ full \in Seq(Chars)
  BY DEF IInv, TypeOK, Addresses, Contents
<1>2. limit \in Nat /\ limit >= 1
  BY <1>1, SnprintfAssumption
<1>3. Addresses \subseteq Int
  BY <1>2 DEF Addresses
<1>4. Len(full) \in Nat
  BY <1>1, LenProperties
<1>5. QED
  BY <1>1, <1>2, <1>3, <1>4

(* While the output fits, the pointer is at its end.                       *)
LEMMA CountExact ==
  ASSUME IInv, Len(full) < limit
  PROVE  late = <<>> /\ buffer = Len(full)
<1>1. limit \in Nat /\ buffer \in Nat /\ Len(full) \in Nat
  BY Basics
<1>2. late = <<>>
  BY <1>1 DEF IInv, Counted
<1>3. buffer <= Len(full) /\ (buffer < Len(full) => buffer >= limit - 1)
  BY <1>2 DEF IInv, Counted
<1>4. QED
  BY <1>1, <1>2, <1>3

(* An item whose text is t and that leaves alone what was written and what *)
(* is not the buffer's keeps the invariant in two cases: when it reads its *)
(* own argument, if any, moves the pointer over t or at least to the end   *)
(* and writes all of t where that fits; or when arguments are left behind  *)
(* and both the output and the pointer are behind the end.                 *)
LEMMA ItemKeeps ==
  ASSUME IInv, Item, NEW t \in Seq(Chars), full' = full \o t,
         memory' \in [Addresses -> Contents], buffer' \in Nat, late' \in Seq(Args),
         \A a \in Addresses :
           a < buffer \/ a \notin 0 .. limit - 1 => memory'[a] = memory[a],
         \/ /\ late' = late
            /\ \/ buffer' = buffer + Len(t)
               \/ buffer' >= limit - 1 /\ buffer' <= buffer + Len(t)
            /\ late # <<>> => buffer' >= buffer
         \/ late' # <<>> /\ buffer' >= limit /\ Len(full) + Len(t) >= limit,
         buffer + Len(t) + Slack(t) < limit =>
           \A k \in 1 .. Len(t) : memory'[buffer + k - 1] = t[k]
  PROVE  IInv'
<1>1. /\ ~returned /\ ~returned' /\ limit' = limit /\ items' \in 0 .. MaxItems
      /\ returned' \in BOOLEAN
  <2>1. items' \in 0 .. MaxItems
    BY Basics, SnprintfAssumption DEF Item
  <2>2. QED
    BY <2>1 DEF Item, IInv, TypeOK
<1>2. /\ full' \in Seq(Chars) /\ Len(full') = Len(full) + Len(t)
      /\ Len(full) \in Nat /\ Len(t) \in Nat
      /\ \A i \in 1 .. Len(full) : full'[i] = full[i]
      /\ \A i \in 1 .. Len(t) : full'[Len(full) + i] = t[i]
  BY Basics, Concat
<1>3. /\ limit \in Nat /\ limit >= 1 /\ buffer \in Nat /\ limit \in Lengths
      /\ memory \in [Addresses -> Contents] /\ Addresses \subseteq Int
  BY Basics
<1>4. TypeOK'
  <2>1. memory' \in [-1 .. limit' + 2 -> Chars \cup {NUL, Unset}]
    BY <1>1 DEF Addresses, Contents
  <2>2. QED
    BY <2>1, <1>1, <1>3 DEF TypeOK
<1>5. Outside'
  <2>1. \A a \in Addresses : a \notin 0 .. limit - 1 => memory[a] = Unset
    BY <1>3 DEF IInv, Outside
  <2>2. \A a \in Addresses : a \notin 0 .. limit - 1 => memory'[a] = Unset
    BY <2>1
  <2>3. DOMAIN memory' = Addresses
    OBVIOUS
  <2>4. QED
    BY <2>2, <2>3, <1>1 DEF Outside
<1>6. Ended'
  BY <1>1 DEF Ended
<1>7. Counted'
  <2>1. /\ late = <<>> => buffer <= Len(full)
        /\ buffer < Len(full) => buffer >= limit - 1
        /\ late # <<>> => buffer >= limit /\ Len(full) >= limit
    BY DEF IInv, Counted
  <2>2. CASE late' = late /\ late = <<>>
    BY <2>1, <2>2, <1>1, <1>2, <1>3 DEF Counted
  <2>3. CASE late' = late /\ late # <<>>
    BY <2>1, <2>3, <1>1, <1>2, <1>3 DEF Counted
  <2>4. CASE late' # late
    BY <2>4, <1>1, <1>2, <1>3 DEF Counted
  <2>5. QED
    BY <2>2, <2>3, <2>4
<1>8. Kept'
  <2>1. SUFFICES ASSUME Len(full') + Slack(full') < limit
                 PROVE  \A k \in 1 .. Len(full') : memory'[k - 1] = full'[k]
    BY <1>1 DEF Kept, Slack
  <2>2. Contains(full, "?") \/ Contains(t, "?") => Contains(full', "?")
    <3>1. ASSUME NEW k \in 1 .. Len(full), full[k] = "?"
          PROVE  Contains(full', "?")
      <4>1. k \in 1 .. Len(full') /\ full'[k] = "?"
        BY <3>1, <1>2
      <4>2. QED
        BY <4>1 DEF Contains
    <3>2. ASSUME NEW k \in 1 .. Len(t), t[k] = "?"
          PROVE  Contains(full', "?")
      <4>1. Len(full) + k \in 1 .. Len(full') /\ full'[Len(full) + k] = "?"
        BY <3>2, <1>2
      <4>2. QED
        BY <4>1 DEF Contains
    <3>3. QED
      BY <3>1, <3>2 DEF Contains
  <2>3. /\ Slack(full) <= Slack(full') /\ Slack(t) <= Slack(full')
        /\ Slack(full) \in Nat /\ Slack(full') \in Nat /\ Slack(t) \in Nat
    BY <2>2 DEF Slack
  <2>4. Len(full) + Slack(full) < limit /\ Len(full) + Len(t) + Slack(t) < limit
    BY <2>1, <2>3, <1>2, <1>3
  <2>5. buffer = Len(full)
    <3>1. Len(full) < limit
      BY <2>3, <2>4, <1>2, <1>3
    <3>2. QED
      BY <3>1, CountExact
  <2>6. \A k \in 1 .. Len(full) : memory[k - 1] = full[k]
    BY <2>4 DEF IInv, Kept
  <2>7. ASSUME NEW k \in 1 .. Len(full')
        PROVE  memory'[k - 1] = full'[k]
    <3>1. CASE k <= Len(full)
      <4>1. k \in 1 .. Len(full) /\ k - 1 \in Addresses /\ k - 1 < buffer
        BY <3>1, <2>4, <2>5, <2>3, <1>2, <1>3 DEF Addresses
      <4>2. memory'[k - 1] = memory[k - 1]
        BY <4>1
      <4>3. QED
        BY <4>1, <4>2, <2>6, <1>2
    <3>2. CASE k > Len(full)
      <4> DEFINE j == k - Len(full)
      <4>1. j \in 1 .. Len(t) /\ k = Len(full) + j
        BY <3>2, <1>2
      <4>2. \A m \in 1 .. Len(t) : memory'[buffer + m - 1] = t[m]
        BY <2>4, <2>5
      <4>3. memory'[buffer + j - 1] = t[j] /\ full'[Len(full) + j] = t[j]
        BY <4>1, <4>2, <1>2
      <4>4. buffer + j - 1 = k - 1
        BY <4>1, <2>5, <1>2
      <4>5. QED
        BY <4>1, <4>3, <4>4
    <3>3. QED
      BY <3>1, <3>2, <1>2
  <2>8. QED
    BY <2>7
<1>9. QED
  BY <1>2, <1>4, <1>5, <1>6, <1>7, <1>8 DEF IInv

-----------------------------------------------------------------------------
(***************************************************************************)
(* The items.                                                              *)
(***************************************************************************)
(* A text of one or two characters.                                        *)
LEMMA OneType ==
  ASSUME NEW c \in Chars
  PROVE  /\ <<c>> \in Seq(Chars) /\ <<c>> \in Seq(Contents)
         /\ Len(<<c>>) = 1 /\ <<c>>[1] = c
<1>1. c \in Contents
  BY DEF Contents
<1>2. QED
  BY <1>1

(* Two characters are a sequence of characters and may be written.         *)
LEMMA TwoType ==
  ASSUME NEW c \in Chars, NEW d \in Chars
  PROVE  /\ <<c, d>> \in Seq(Chars) /\ <<c, d>> \in Seq(Contents)
         /\ Len(<<c, d>>) = 2
<1>1. c \in Contents /\ d \in Contents
  BY DEF Contents
<1>2. QED
  BY <1>1

(* What a store inside the buffer leaves alone, and what it writes.        *)
Inside(mem, at, s, new) ==
  /\ new \in [Addresses -> Contents]
  /\ \A a \in Addresses :
       a < at \/ a \notin 0 .. limit - 1 \/ at + Len(s) <= a => new[a] = mem[a]
  /\ \A k \in 1 .. Len(s) : new[at + k - 1] = s[k]

(* A store of s at at that ends before the limit stays inside.             *)
LEMMA StoreInside ==
  ASSUME IInv, NEW mem \in [Addresses -> Contents], NEW at \in Nat,
         NEW s \in Seq(Contents), at + Len(s) <= limit
  PROVE  Inside(mem, at, s, Put(mem, at, s))
<1>0. Addresses \subseteq Int /\ at \in Int
  BY Basics
<1>1. limit \in Nat /\ Addresses \subseteq Int /\ Len(s) \in Nat
  BY Basics, LenProperties
<1>2. Stores(Addresses, mem, at, s, Put(mem, at, s))
  BY <1>0, PutFacts
<1>3. \A k \in 1 .. Len(s) : at + k - 1 \in Addresses
  BY <1>1 DEF Addresses
<1>4. ASSUME NEW a \in Addresses,
             a < at \/ a \notin 0 .. limit - 1 \/ at + Len(s) <= a
      PROVE  Put(mem, at, s)[a] = mem[a]
  <2>1. ~(at <= a /\ a < at + Len(s))
    BY <1>1, <1>4
  <2>2. QED
    BY <2>1, <1>2 DEF Stores
<1>5. Put(mem, at, s) \in [Addresses -> Contents]
  BY <1>2 DEF Stores
<1>6. \A k \in 1 .. Len(s) : Put(mem, at, s)[at + k - 1] = s[k]
  BY <1>2, <1>3 DEF Stores
<1>7. QED
  BY <1>4, <1>5, <1>6 DEF Inside

(* An item whose text is stored whole.                                     *)
LEMMA WrittenKeeps ==
  ASSUME IInv, Item, NEW t \in Seq(Chars), t \in Seq(Contents), full' = full \o t,
         memory' = Put(memory, buffer, t), buffer' = buffer + Len(t),
         buffer + Len(t) <= limit, late' = late
  PROVE  IInv'
<1>1. buffer \in Nat /\ memory \in [Addresses -> Contents] /\ late' \in Seq(Args)
  BY Basics
<1>2. Inside(memory, buffer, t, memory')
  BY <1>1, StoreInside
<1>3. buffer' \in Nat /\ buffer' >= buffer
  BY <1>1, LenProperties
<1>4. QED
  BY <1>1, <1>2, <1>3, ItemKeeps DEF Inside

(* An item that does not fit and of which nothing is stored.               *)
LEMMA SkippedKeeps ==
  ASSUME IInv, Item, NEW t \in Seq(Chars), full' = full \o t,
         memory' = memory, buffer' \in Nat, buffer' >= buffer, late' = late,
         \/ buffer' = buffer + Len(t)
         \/ buffer' >= limit - 1 /\ buffer' <= buffer + Len(t),
         buffer + Len(t) + Slack(t) >= limit
  PROVE  IInv'
<1>1. /\ limit \in Nat /\ buffer \in Nat /\ memory \in [Addresses -> Contents]
      /\ Len(t) \in Nat /\ late' \in Seq(Args)
  BY Basics, LenProperties
<1>2. Slack(t) \in Nat
  BY DEF Slack
<1>3. ~(buffer + Len(t) + Slack(t) < limit)
  BY <1>1, <1>2
<1>4. QED
  BY <1>1, <1>3, ItemKeeps

(* An item that comes when arguments are left behind: nothing of it fits.  *)
LEMMA BehindKeeps ==
  ASSUME IInv, Item, late # <<>>, NEW t \in Seq(Chars), full' = full \o t,
         memory' \in [Addresses -> Contents], buffer' \in Nat, buffer' >= buffer,
         \A a \in Addresses :
           a < buffer \/ a \notin 0 .. limit - 1 => memory'[a] = memory[a],
         late' \in Seq(Args), late' # <<>>
  PROVE  IInv'
<1>1. /\ limit \in Nat /\ buffer \in Nat /\ Len(t) \in Nat /\ Slack(t) \in Nat
      /\ Len(full) \in Nat
  BY Basics, LenProperties DEF Slack
<1>2. buffer >= limit /\ Len(full) >= limit
  BY DEF IInv, Counted
<1>3. buffer' >= limit /\ Len(full) + Len(t) >= limit
  BY <1>1, <1>2
<1>4. ~(buffer + Len(t) + Slack(t) < limit)
  BY <1>1, <1>2
<1>5. QED
  BY <1>3, <1>4, ItemKeeps

(* What va_arg delivers is of the type asked for, and the caller's own     *)
(* argument unless one was left behind.                                    *)
LEMMA Delivery ==
  ASSUME IInv, NEW type \in DOMAIN Values, NEW own \in Values[type],
         NEW arg \in Delivered(Pass(type, own), type), late' = Tail(Pass(type, own))
  PROVE  /\ arg \in Values[type] /\ late' \in Seq(Args)
         /\ late = <<>> => arg = own /\ late' = late
         /\ late # <<>> => late' # <<>>
<1>1. PICK new : new = [type |-> type, value |-> own]
  OBVIOUS
<1>2. new \in Args /\ new.type = type /\ new.value = own
  BY <1>1 DEF Args
<1>3. late \in Seq(Args) /\ Pass(type, own) = Append(late, new)
  BY <1>1, Basics DEF Pass
<1>4. CASE late = <<>>
  <2>1. Pass(type, own) = <<new>>
    BY <1>3, <1>4
  <2>2. Head(<<new>>) = new /\ Tail(<<new>>) = <<>>
    OBVIOUS
  <2>3. arg = own
    BY <2>1, <2>2, <1>2 DEF Delivered
  <2>4. QED
    BY <2>1, <2>2, <2>3, <1>3, <1>4
<1>5. CASE late # <<>>
  <2>1. PICK args : args = Append(late, new)
    OBVIOUS
  <2>2. args \in Seq(Args) /\ Len(args) = Len(late) + 1 /\ Len(late) \in Nat
    BY <2>1, <1>2, <1>3, LenProperties, AppendProperties
  <2>3. Len(late) >= 1
    BY <1>3, <1>5, LenProperties
  <2>4. Head(args) \in Args /\ Tail(args) \in Seq(Args) /\ Tail(args) # <<>>
    BY <2>2, <2>3
  <2>5. Head(args).type = type => Head(args).value \in Values[type]
    BY <2>4 DEF Args
  <2>6. QED
    BY <2>1, <2>4, <2>5, <1>3, <1>5 DEF Delivered
<1>6. QED
  BY <1>4, <1>5

(* A character of the format: it does not move the pointer at the end.     *)
LEMMA LiteralKeeps == IInv /\ Literal => IInv'
<1> SUFFICES ASSUME IInv, Literal
             PROVE  IInv'
  OBVIOUS
<1> DEFINE t == <<"t">>
<1>1. t \in Seq(Chars) /\ t \in Seq(Contents) /\ Len(t) = 1
  BY OneType DEF Chars
<1>2. Item /\ full' = full \o t
  <2>1. Append(full, "t") = full \o t
    <3>1. full \in Seq(Chars) /\ "t" \in Chars
      BY Basics DEF Chars
    <3>2. QED
      BY <3>1, AppendIsConcat
  <2>2. QED
    BY <2>1 DEF Literal
<1>3. late' = late
  BY DEF Literal
<1>4. IF buffer + 1 < limit
      THEN memory' = Put(memory, buffer, t) /\ buffer' = buffer + 1
      ELSE memory' = memory /\ buffer' = buffer
  BY DEF Literal
<1> HIDE DEF t
<1>5. limit \in Nat /\ buffer \in Nat /\ Slack(t) \in Nat
  BY Basics DEF Slack
<1>6. CASE buffer + 1 < limit
  <2>1. buffer' = buffer + Len(t) /\ buffer + Len(t) <= limit
    BY <1>1, <1>4, <1>5, <1>6
  <2>2. QED
    BY <2>1, <1>1, <1>2, <1>4, <1>6, <1>3, WrittenKeeps
<1>7. CASE ~(buffer + 1 < limit)
  <2>1. /\ buffer' \in Nat /\ buffer' >= buffer /\ buffer' >= limit - 1 /\ buffer' <= buffer + Len(t)
        /\ buffer + Len(t) + Slack(t) >= limit
    BY <1>1, <1>4, <1>5, <1>7
  <2>2. QED
    BY <2>1, <1>1, <1>2, <1>4, <1>7, <1>3, SkippedKeeps
<1>8. QED
  BY <1>6, <1>7

(* %% and a %c that fits.                                                  *)
LEMMA OneCharKeeps ==
  ASSUME IInv, Item, NEW ch \in Chars, OneChar(ch), late' = late
  PROVE  IInv'
<1> DEFINE t == <<ch>>
<1>1. t \in Seq(Chars) /\ t \in Seq(Contents) /\ Len(t) = 1
  BY OneType
<1>2. full' = full \o t
  <2>1. full \in Seq(Chars)
    BY Basics
  <2>2. Append(full, ch) = full \o t
    BY <2>1, AppendIsConcat
  <2>3. QED
    BY <2>2 DEF OneChar
<1>3. /\ memory' = IF buffer + 1 < limit THEN Put(memory, buffer, t) ELSE memory
      /\ buffer' = buffer + 1
  BY DEF OneChar
<1> HIDE DEF t
<1>4. limit \in Nat /\ buffer \in Nat /\ Slack(t) \in Nat
  BY Basics DEF Slack
<1>5. CASE buffer + 1 < limit
  <2>1. buffer' = buffer + Len(t) /\ buffer + Len(t) <= limit
    BY <1>1, <1>3, <1>4, <1>5
  <2>2. QED
    BY <2>1, <1>1, <1>2, <1>3, <1>5, WrittenKeeps
<1>6. CASE ~(buffer + 1 < limit)
  <2>1. /\ buffer' \in Nat /\ buffer' >= buffer /\ buffer' = buffer + Len(t)
        /\ buffer + Len(t) + Slack(t) >= limit
    BY <1>1, <1>3, <1>4, <1>6
  <2>2. QED
    BY <2>1, <1>1, <1>2, <1>3, <1>6, SkippedKeeps
<1>7. QED
  BY <1>5, <1>6

(* A %c that does not fit leaves its argument behind: the buffer is full   *)
(* and so is the output.                                                   *)
LEMMA CharKeeps == IInv /\ Char => IInv'
<1> SUFFICES ASSUME IInv, Char
             PROVE  IInv'
  OBVIOUS
<1>1. /\ limit \in Nat /\ buffer \in Nat /\ late \in Seq(Args) /\ full \in Seq(Chars)
      /\ Len(full) \in Nat /\ memory \in [Addresses -> Contents]
  BY Basics
<1>2. Item /\ OneChar("c") /\ "c" \in Chars
  BY DEF Char, Chars
<1>3. PICK own \in IntArgs :
        late' = IF buffer + 1 < limit THEN Tail(Pass("int", own)) ELSE Pass("int", own)
  BY DEF Char
<1>4. PICK new : new = [type |-> "int", value |-> own]
  OBVIOUS
<1>5. new \in Args /\ Pass("int", own) = Append(late, new)
  BY <1>4 DEF Args, Values, Pass
<1>6. CASE buffer + 1 < limit
  <2>1. late = <<>>
    BY <1>1, <1>6 DEF IInv, Counted
  <2>2. Append(late, new) = <<new>> /\ Tail(<<new>>) = <<>>
    BY <2>1
  <2>3. late' = late
    BY <2>1, <2>2, <1>3, <1>5, <1>6
  <2>4. QED
    BY <2>3, <1>2, OneCharKeeps
<1>7. CASE ~(buffer + 1 < limit)
  <2> DEFINE t == <<"c">>
  <2>1. t \in Seq(Chars) /\ Len(t) = 1
    BY <1>2, OneType
  <2>2. full' = full \o t /\ memory' = memory /\ buffer' = buffer + 1
    BY <1>1, <1>2, <1>7, AppendIsConcat DEF OneChar
  <2> HIDE DEF t
  <2>3. late' \in Seq(Args) /\ late' # <<>>
    BY <1>1, <1>3, <1>5, <1>7
  <2>4. Len(full) + 1 >= limit
    BY <1>1, <1>7 DEF IInv, Counted
  <2>5. buffer' \in Nat /\ buffer' >= limit /\ Len(full) + Len(t) >= limit
    BY <2>1, <2>2, <2>4, <1>1, <1>7
  <2>6. ~(buffer + Len(t) + Slack(t) < limit)
    <3>1. Slack(t) \in Nat
      BY DEF Slack
    <3>2. QED
      BY <3>1, <2>1, <1>1, <1>7
  <2>7. QED
    BY <2>1, <2>2, <2>3, <2>5, <2>6, <1>1, <1>2, ItemKeeps
<1>8. QED
  BY <1>6, <1>7

(* An unknown conversion: it asks for one byte more than it needs.         *)
LEMMA UnknownKeeps == IInv /\ Unknown => IInv'
<1> SUFFICES ASSUME IInv, Unknown
             PROVE  IInv'
  OBVIOUS
<1> DEFINE t == <<"%", "?">>
<1>1. t \in Seq(Chars) /\ t \in Seq(Contents) /\ Len(t) = 2
  BY TwoType DEF Chars
<1>2. Slack(t) = 1
  BY DEF Slack, Contains
<1>3. /\ Item /\ full' = full \o t
      /\ memory' = IF buffer + 3 < limit THEN Put(memory, buffer, t) ELSE memory
      /\ buffer' = buffer + 2 /\ late' = late
  BY DEF Unknown
<1> HIDE DEF t
<1>4. limit \in Nat /\ buffer \in Nat
  BY Basics
<1>5. CASE buffer + 3 < limit
  <2>1. buffer' = buffer + Len(t) /\ buffer + Len(t) <= limit
    BY <1>1, <1>3, <1>4, <1>5
  <2>2. QED
    BY <2>1, <1>1, <1>3, <1>5, WrittenKeeps
<1>6. CASE ~(buffer + 3 < limit)
  <2>1. /\ buffer' \in Nat /\ buffer' >= buffer /\ buffer' = buffer + Len(t)
        /\ buffer + Len(t) + Slack(t) >= limit
    BY <1>1, <1>2, <1>3, <1>4, <1>6
  <2>2. QED
    BY <2>1, <1>1, <1>3, <1>6, SkippedKeeps
<1>7. QED
  BY <1>5, <1>6

(* %s.                                                                     *)
LEMMA StringKeeps == IInv /\ String => IInv'
<1> SUFFICES ASSUME IInv, String
             PROVE  IInv'
  OBVIOUS
<1>1. /\ limit \in Nat /\ limit >= 1 /\ buffer \in Nat
      /\ memory \in [Addresses -> Contents]
  BY Basics
<1> DEFINE room == limit - 1 - buffer
           kept(str) == IF room < 0 THEN 0
                        ELSE IF room < Len(str) THEN room ELSE Len(str)
<1>2. PICK own \in Strings : \E str \in Delivered(Pass("str", own), "str") :
        /\ memory' = Put(memory, buffer, SubSeq(str, 1, kept(str)))
        /\ buffer' = buffer + Len(str)
        /\ full' = full \o own
        /\ late' = Tail(Pass("str", own))
  BY DEF String
<1>3. PICK str \in Delivered(Pass("str", own), "str") :
        /\ memory' = Put(memory, buffer, SubSeq(str, 1, kept(str)))
        /\ buffer' = buffer + Len(str)
        /\ full' = full \o own
        /\ late' = Tail(Pass("str", own))
  BY <1>2
<1>4. /\ str \in Strings /\ late' \in Seq(Args)
      /\ late = <<>> => str = own /\ late' = late
      /\ late # <<>> => late' # <<>>
  <2>1. "str" \in DOMAIN Values /\ Values["str"] = Strings
    BY DEF Values
  <2>2. late' = Tail(Pass("str", own))
    BY <1>3
  <2>3. QED
    BY <2>1, <2>2, Delivery
<1>5. Item
  BY DEF String
<1>6. str \in Seq(Chars) /\ Len(str) \in Nat /\ own \in Seq(Chars)
  <2>1. str \in Seq(Letters) /\ own \in Seq(Letters) /\ Letters \subseteq Chars
    BY <1>4, SnprintfAssumption DEF Chars
  <2>2. str \in Seq(Chars) /\ own \in Seq(Chars)
    BY <2>1, SeqMonotonic
  <2>3. QED
    BY <2>2, LenProperties
<1> DEFINE s == SubSeq(str, 1, kept(str))
<1>7. kept(str) \in 0 .. Len(str) /\ (kept(str) # 0 => buffer + kept(str) <= limit - 1)
  BY <1>1, <1>6
<1>8. buffer + Len(str) < limit => kept(str) = Len(str)
  BY <1>1, <1>6
<1> HIDE DEF kept
<1>9. /\ s \in Seq(Contents) /\ Len(s) = kept(str)
      /\ \A k \in 1 .. Len(s) : s[k] = str[k]
  <2>1. \A k \in 1 .. kept(str) : str[k] \in Contents
    BY <1>6, <1>7, ElementOfSeq DEF Contents
  <2>2. /\ s \in Seq(Contents)
        /\ Len(s) = IF 1 <= kept(str) THEN kept(str) - 1 + 1 ELSE 0
        /\ \A k \in 1 .. kept(str) - 1 + 1 : s[k] = str[1 + k - 1]
    BY <2>1, <1>6, <1>7, SubSeqProperties
  <2>3. Len(s) = kept(str)
    BY <2>2, <1>6, <1>7
  <2>4. \A k \in 1 .. Len(s) : s[k] = str[k]
    BY <2>2, <2>3, <1>6, <1>7
  <2>5. QED
    BY <2>2, <2>3, <2>4
<1> HIDE DEF s
<1>10. memory' = Put(memory, buffer, s)
  BY <1>3 DEF s
<1>11. /\ memory' \in [Addresses -> Contents]
       /\ \A a \in Addresses :
            a < buffer \/ a \notin 0 .. limit - 1 => memory'[a] = memory[a]
       /\ \A k \in 1 .. Len(s) : memory'[buffer + k - 1] = s[k]
  <2>1. CASE kept(str) # 0
    <3>1. buffer + Len(s) <= limit
      BY <2>1, <1>1, <1>6, <1>7, <1>9
    <3>2. Inside(memory, buffer, s, memory')
      BY <3>1, <1>1, <1>9, <1>10, StoreInside
    <3>3. QED
      BY <3>2 DEF Inside
  <2>2. CASE kept(str) = 0
    <3>1. Stores(Addresses, memory, buffer, s, memory')
      <4>1. /\ memory \in [Addresses -> Contents] /\ Addresses \subseteq Int
            /\ buffer \in Int /\ s \in Seq(Contents)
        BY <1>9, Basics
      <4>2. Stores(Addresses, memory, buffer, s, Put(memory, buffer, s))
        BY <4>1, PutFacts, Zenon
      <4>3. QED
        BY <4>2, <1>10, Zenon
    <3>2. \A a \in Addresses : ~(buffer <= a /\ a < buffer + Len(s))
      BY <2>2, <1>1, <1>9, Basics
    <3>3. 1 .. Len(s) = {}
      BY <2>2, <1>9
    <3>4. memory' \in [Addresses -> Contents]
      BY <3>1 DEF Stores
    <3>5. \A a \in Addresses : memory'[a] = memory[a]
      BY <3>1, <3>2, Zenon DEF Stores
    <3>6. \A k \in 1 .. Len(s) : memory'[buffer + k - 1] = s[k]
      BY <3>3, Zenon
    <3>7. QED
      BY <3>4, <3>5, <3>6, Zenon
  <2>3. QED
    BY <2>1, <2>2
<1>12. buffer + Len(str) + Slack(str) < limit =>
         \A k \in 1 .. Len(str) : memory'[buffer + k - 1] = str[k]
  <2>1. Slack(str) \in Nat
    BY DEF Slack
  <2>2. SUFFICES ASSUME buffer + Len(str) + Slack(str) < limit, NEW k \in 1 .. Len(str)
                 PROVE  memory'[buffer + k - 1] = str[k]
    OBVIOUS
  <2>3. buffer + Len(str) < limit
    BY <2>1, <2>2, <1>1, <1>6
  <2>4. Len(s) = Len(str)
    BY <2>3, <1>8, <1>9
  <2>5. memory'[buffer + k - 1] = s[k] /\ s[k] = str[k]
    BY <2>4, <1>9, <1>11
  <2>6. QED
    BY <2>5
<1>13. buffer' \in Nat /\ buffer' >= buffer
  BY <1>1, <1>3, <1>6
<1>14. CASE late = <<>>
  BY <1>3, <1>4, <1>5, <1>6, <1>11, <1>12, <1>13, <1>14, ItemKeeps
<1>15. CASE late # <<>>
  BY <1>3, <1>4, <1>5, <1>6, <1>11, <1>13, <1>15, BehindKeeps
<1>16. QED
  BY <1>14, <1>15

(* print_number, called with the memory and the pointer reached: it leaves *)
(* alone what is before the pointer and outside the buffer, and writes the *)
(* number when it and a terminator fit.                                    *)
LEMMA PrintNumber ==
  ASSUME IInv, NEW mem \in [Addresses -> Contents], NEW at \in Nat,
         NEW text \in Seq(Chars), Len(text) < UINT_MAX, print_number(mem, at, text)
  PROVE  /\ memory' \in [Addresses -> Contents]
         /\ \A a \in Addresses :
              a < at \/ a \notin 0 .. limit - 1 => memory'[a] = mem[a]
         /\ at + Len(text) < limit =>
              \A k \in 1 .. Len(text) : memory'[at + k - 1] = text[k]
         /\ buffer' = at + Len(text)
<1> DEFINE end == at + Len(text)
           written == IF Fits(text, at) THEN Put(mem, at, text) ELSE mem
           nul == <<NUL>>
<1>1. limit \in Nat /\ limit >= 1 /\ Len(text) \in Nat /\ Addresses \subseteq Int
  BY Basics, LenProperties
<1>2. text \in Seq(Contents)
  <2>1. Chars \subseteq Contents
    BY DEF Contents
  <2>2. QED
    BY <2>1, SeqMonotonic
<1>3. /\ memory' = IF end < limit THEN Put(written, end, nul) ELSE written
      /\ buffer' = end
  BY DEF print_number
<1>4. Fits(text, at) <=> end < limit
  <2>1. UINT_MAX \in Nat
    BY SnprintfAssumption DEF UINT_MAX
  <2>2. (Len(text) + 1) % (UINT_MAX + 1) = Len(text) + 1
    <3>1. UINT_MAX + 1 \in Nat /\ Len(text) + 1 \in Nat
      BY <2>1, <1>1
    <3>2. PICK n \in Nat : n = UINT_MAX + 1
      BY <3>1
    <3>3. PICK r \in Nat : r = Len(text) + 1
      BY <3>1
    <3>4. r < n /\ 0 * n + r = r
      BY <3>2, <3>3, <2>1, <1>1
    <3>5. (0 * n + r) % n = r
      BY <3>4, DivMod
    <3>6. QED
      BY <3>2, <3>3, <3>4, <3>5
  <2>3. QED
    BY <2>2, <1>1 DEF Fits
<1>5. CASE end < limit
  <2>1. at + Len(text) <= limit
    BY <1>1, <1>5
  <2>2. written = Put(mem, at, text)
    BY <1>4, <1>5
  <2> HIDE DEF written
  <2>3. Inside(mem, at, text, written)
    BY <2>1, <2>2, <1>2, StoreInside
  <2>4. nul \in Seq(Contents) /\ Len(nul) = 1
    BY DEF Contents
  <2>5. end \in Nat /\ end + 1 <= limit
    BY <1>1, <1>5
  <2> HIDE DEF nul
  <2>6. Inside(written, end, nul, Put(written, end, nul))
    <3> HIDE DEF end
    <3>1. written \in [Addresses -> Contents]
      BY <2>3 DEF Inside
    <3>2. end + Len(nul) <= limit
      BY <2>4, <2>5
    <3>3. QED
      BY <3>1, <3>2, <2>4, <2>5, StoreInside
  <2>7. memory' = Put(written, end, nul)
    BY <1>3, <1>5
  <2>8. memory' \in [Addresses -> Contents]
    BY <2>6, <2>7 DEF Inside
  <2>9. ASSUME NEW a \in Addresses, a < at \/ a \notin 0 .. limit - 1
        PROVE  memory'[a] = mem[a]
    <3>1. written[a] = mem[a]
      BY <2>3, <2>9 DEF Inside
    <3>2. a < end \/ a \notin 0 .. limit - 1
      BY <2>9, <1>1
    <3>3. memory'[a] = written[a]
      BY <3>2, <2>6, <2>7 DEF Inside
    <3>4. QED
      BY <3>1, <3>3
  <2>10. ASSUME NEW k \in 1 .. Len(text)
         PROVE  memory'[at + k - 1] = text[k]
    <3> DEFINE a == at + k - 1
    <3>1. a \in Addresses /\ a < end
      BY <1>1, <1>5 DEF Addresses
    <3>2. written[a] = text[k]
      BY <2>3 DEF Inside
    <3> HIDE DEF a
    <3>3. memory'[a] = written[a]
      BY <3>1, <2>6, <2>7 DEF Inside
    <3>4. QED
      BY <3>2, <3>3 DEF a
  <2>11. QED
    BY <2>8, <2>9, <2>10, <1>3
<1>6. CASE ~(end < limit)
  <2>1. memory' = mem /\ buffer' = end
    BY <1>3, <1>4, <1>6
  <2>2. QED
    BY <2>1, <1>6
<1>7. QED
  BY <1>5, <1>6

(* The arguments of numbers are integers.                                  *)
LEMMA IntegerValues ==
  /\ \A len : ArgType(len) \in DOMAIN Values /\ Values[ArgType(len)] \subseteq Int
  /\ "long" \in DOMAIN Values /\ Values["long"] = LongArgs /\ LongArgs \subseteq Int
<1>1. IntArgs \subseteq Int /\ LongArgs \subseteq Int
  BY SnprintfAssumption
<1>2. /\ DOMAIN Values = {"int", "long", "str"}
      /\ Values["int"] = IntArgs /\ Values["long"] = LongArgs
  BY DEF Values
<1>3. QED
  BY <1>1, <1>2 DEF ArgType

(* Widths are below the largest unsigned int.                              *)
LEMMA DirectiveWidth ==
  ASSUME UINT_MAX \notin Widths, NEW f \in Directives
  PROVE  f.width \in Nat /\ f.width < UINT_MAX
<1>1. UINT_MAX \in Nat /\ Widths \subseteq 0 .. UINT_MAX
  BY SnprintfAssumption DEF UINT_MAX
<1>2. PICK w \in Widths : w = f.width
  BY DEF Directives
<1>3. PICK u \in Nat : u = UINT_MAX
  BY <1>1
<1>4. w \in 0 .. u /\ w # u
  BY <1>1, <1>3
<1>5. w \in Nat /\ w < u
  BY ONLY <1>4, u \in Nat
<1>6. QED
  BY <1>2, <1>3, <1>5

(* %d, %u, %x, %X, %o and %b.                                              *)
LEMMA NumberKeeps ==
  ASSUME UINT_MAX \notin Widths, IInv, Number
  PROVE  IInv'
<1>1. PICK f \in Directives, conv \in DOMAIN Bases \ {"p"} :
        \E own \in Values[ArgType(f.len)] :
          \E arg \in Delivered(Pass(ArgType(f.len), own), ArgType(f.len)) :
            /\ print_number(memory, buffer, NumberText(f.flags, f.width, conv, arg))
            /\ full' = full \o NumberText(f.flags, f.width, conv, own)
            /\ late' = Tail(Pass(ArgType(f.len), own))
  BY DEF Number
<1>2. PICK type : type = ArgType(f.len)
  OBVIOUS
<1>3. PICK own \in Values[type] : \E arg \in Delivered(Pass(type, own), type) :
        /\ print_number(memory, buffer, NumberText(f.flags, f.width, conv, arg))
        /\ full' = full \o NumberText(f.flags, f.width, conv, own)
        /\ late' = Tail(Pass(type, own))
  BY <1>1, <1>2
<1>4. PICK arg \in Delivered(Pass(type, own), type) :
        /\ print_number(memory, buffer, NumberText(f.flags, f.width, conv, arg))
        /\ full' = full \o NumberText(f.flags, f.width, conv, own)
        /\ late' = Tail(Pass(type, own))
  BY <1>3
<1>5. type \in DOMAIN Values /\ Values[type] \subseteq Int
  BY <1>2, IntegerValues
<1>6. /\ arg \in Values[type] /\ late' \in Seq(Args)
      /\ late = <<>> => arg = own /\ late' = late
      /\ late # <<>> => late' # <<>>
  BY <1>4, <1>5, Delivery
<1>7. PICK t, w : /\ t = NumberText(f.flags, f.width, conv, arg)
                  /\ w = NumberText(f.flags, f.width, conv, own)
  OBVIOUS
<1>8. t \in Seq(Chars) /\ Len(t) < UINT_MAX /\ w \in Seq(Chars)
  <2>1. f.width \in Nat /\ f.width < UINT_MAX
    BY DirectiveWidth
  <2>2. arg \in Int /\ own \in Int /\ conv \in DOMAIN Bases
    BY <1>5, <1>6
  <2>3. QED
    BY <2>1, <2>2, <1>7, NumberTextType
<1>9. print_number(memory, buffer, t) /\ full' = full \o w /\ Item
  BY <1>4, <1>7 DEF Number
<1>10. /\ limit \in Nat /\ buffer \in Nat /\ memory \in [Addresses -> Contents]
       /\ Len(t) \in Nat
  BY <1>8, Basics, LenProperties
<1>11. /\ memory' \in [Addresses -> Contents]
       /\ \A a \in Addresses :
            a < buffer \/ a \notin 0 .. limit - 1 => memory'[a] = memory[a]
       /\ buffer + Len(t) < limit =>
            \A k \in 1 .. Len(t) : memory'[buffer + k - 1] = t[k]
       /\ buffer' = buffer + Len(t)
  BY <1>8, <1>9, <1>10, PrintNumber
<1>12. buffer + Len(t) + Slack(t) < limit => buffer + Len(t) < limit
  <2>1. Slack(t) \in Nat
    BY DEF Slack
  <2>2. QED
    BY <2>1, <1>10
<1>13. buffer' \in Nat /\ buffer' >= buffer
  BY <1>10, <1>11
<1>14. CASE late = <<>>
  <2>1. w = t /\ late' = late
    BY <1>6, <1>7, <1>14
  <2>2. QED
    BY <2>1, <1>6, <1>8, <1>9, <1>11, <1>12, <1>13, <1>14, ItemKeeps
<1>15. CASE late # <<>>
  BY <1>6, <1>8, <1>9, <1>11, <1>13, <1>15, BehindKeeps
<1>16. QED
  BY <1>14, <1>15

(* %p: the number goes behind the prefix, or to its place when the prefix  *)
(* does not fit; then the output does not fit either.                      *)
LEMMA PointerKeeps ==
  ASSUME UINT_MAX \notin Widths, IInv, Pointer
  PROVE  IInv'
<1> DEFINE prefix == <<"0", "x">>
           at == IF buffer + 2 < limit THEN buffer + 2 ELSE buffer
           mem == IF buffer + 2 < limit THEN Put(memory, buffer, prefix) ELSE memory
           Prints(f, own, arg) ==
             /\ print_number(mem, at, NumberText(f.flags, f.width, "p", arg))
             /\ full' = full \o prefix \o NumberText(f.flags, f.width, "p", own)
             /\ late' = Tail(Pass("long", own))
<1>1. PICK f \in Directives, own \in LongArgs :
        \E arg \in Delivered(Pass("long", own), "long") : Prints(f, own, arg)
  BY DEF Pointer
<1>2. PICK arg \in Delivered(Pass("long", own), "long") : Prints(f, own, arg)
  BY <1>1
<1>3. /\ arg \in LongArgs /\ late' \in Seq(Args)
      /\ late = <<>> => arg = own /\ late' = late
      /\ late # <<>> => late' # <<>>
  <2>1. late' = Tail(Pass("long", own))
    BY <1>2
  <2>2. QED
    BY <2>1, IntegerValues, Delivery
<1> DEFINE text == NumberText(f.flags, f.width, "p", arg)
           word == NumberText(f.flags, f.width, "p", own)
           t == prefix \o text
           u == prefix \o word
<1>4. /\ text \in Seq(Chars) /\ Len(text) \in Nat /\ Len(text) >= 1
      /\ Len(text) < UINT_MAX
      /\ word \in Seq(Chars) /\ Len(word) \in Nat /\ Len(word) >= 1
  <2>1. f.width \in Nat /\ f.width < UINT_MAX
    BY DirectiveWidth
  <2>2. arg \in Int /\ own \in Int
    <3>1. arg \in LongArgs /\ own \in LongArgs /\ LongArgs \subseteq Int
      BY <1>3, IntegerValues
    <3>2. QED
      BY ONLY <3>1
  <2>3. "p" \in DOMAIN Bases
    BY DEF Bases
  <2>4. /\ text \in Seq(Chars) /\ Len(text) >= 1 /\ Len(text) < UINT_MAX
        /\ word \in Seq(Chars) /\ Len(word) >= 1
    BY <2>1, <2>2, <2>3, NumberTextType
  <2>5. QED
    BY <2>4, LenProperties
<1>5. late = <<>> => u = t
  <2>1. SUFFICES ASSUME late = <<>> PROVE word = text
    OBVIOUS
  <2>2. arg = own
    BY <2>1, <1>3
  <2>3. QED
    BY <2>2
<1>6. prefix \in Seq(Chars) /\ prefix \in Seq(Contents) /\ Len(prefix) = 2
  <2>1. "0" \in Chars
    BY DigitChars DEF Lower
  <2>2. "x" \in Chars
    BY DEF Chars
  <2>3. QED
    BY <2>1, <2>2, TwoType
<1> HIDE DEF text, word, prefix, mem, at
<1>7. /\ limit \in Nat /\ buffer \in Nat /\ memory \in [Addresses -> Contents]
      /\ full \in Seq(Chars)
  BY Basics
<1>8. /\ t \in Seq(Chars) /\ Len(t) = 2 + Len(text)
      /\ \A k \in 1 .. 2 : t[k] = prefix[k]
      /\ \A k \in 1 .. Len(text) : t[2 + k] = text[k]
  <2>1. /\ prefix \o text \in Seq(Chars)
        /\ Len(prefix \o text) = Len(prefix) + Len(text)
        /\ \A k \in 1 .. Len(prefix) : (prefix \o text)[k] = prefix[k]
        /\ \A k \in 1 .. Len(text) : (prefix \o text)[Len(prefix) + k] = text[k]
    <3> HIDE DEF t
    <3>1. prefix \in Seq(Chars) /\ text \in Seq(Chars)
      BY <1>4, <1>6
    <3>2. QED
      BY <3>1, Concat
  <2>2. QED
    BY <2>1, <1>6
<1>9. Item /\ print_number(mem, at, text) /\ full' = full \o u /\ u \in Seq(Chars)
  <2>1. (full \o prefix) \o word = full \o (prefix \o word)
    BY <1>4, <1>6, <1>7, ConcatAssociative, SMTT(30)
  <2>2. Item
    BY DEF Pointer
  <2>3. u \in Seq(Chars)
    BY <1>4, <1>6, Concat
  <2>4. QED
    BY <2>1, <2>2, <2>3, <1>2 DEF text, word
<1> HIDE DEF t, u
<1>10. Slack(t) \in Nat
  BY DEF Slack
<1>11. CASE buffer + 2 < limit
  <2>1. late = <<>>
    BY <1>7, <1>11 DEF IInv, Counted
  <2>2. at = buffer + 2 /\ at \in Nat /\ mem = Put(memory, buffer, prefix)
    BY <1>7, <1>11 DEF at, mem
  <2>3. buffer + Len(prefix) <= limit
    BY <1>6, <1>7, <1>11
  <2>4. Inside(memory, buffer, prefix, mem)
    BY <2>2, <2>3, <1>6, <1>7, StoreInside
  <2>5. mem \in [Addresses -> Contents]
    BY <2>4 DEF Inside
  <2>6. /\ memory' \in [Addresses -> Contents]
        /\ \A a \in Addresses :
             a < at \/ a \notin 0 .. limit - 1 => memory'[a] = mem[a]
        /\ at + Len(text) < limit =>
             \A k \in 1 .. Len(text) : memory'[at + k - 1] = text[k]
        /\ buffer' = at + Len(text)
    BY <2>2, <2>5, <1>4, <1>9, PrintNumber
  <2>7. buffer' \in Nat /\ buffer' = buffer + Len(t)
    BY <2>2, <2>6, <1>4, <1>7, <1>8
  <2>8. ASSUME NEW a \in Addresses, a < buffer \/ a \notin 0 .. limit - 1
        PROVE  memory'[a] = memory[a]
    <3>1. a < at \/ a \notin 0 .. limit - 1
      BY <2>2, <2>8, <1>7, Basics
    <3>2. mem[a] = memory[a]
      BY <2>4, <2>8 DEF Inside
    <3>3. QED
      BY <3>1, <3>2, <2>6
  <2>9. ASSUME buffer + Len(t) + Slack(t) < limit, NEW k \in 1 .. Len(t)
        PROVE  memory'[buffer + k - 1] = t[k]
    <3>1. at + Len(text) < limit
      BY <2>2, <2>9, <1>4, <1>7, <1>8, <1>10
    <3>2. CASE k <= 2
      <4> DEFINE a == buffer + k - 1
      <4>1. k \in 1 .. 2 /\ a \in Addresses /\ a < at
        BY <3>2, <2>2, <1>7, <1>11 DEF Addresses
      <4>2. mem[a] = prefix[k]
        BY <4>1, <2>4, <1>6 DEF Inside
      <4> HIDE DEF a
      <4>3. memory'[a] = mem[a]
        BY <4>1, <2>6
      <4>4. QED
        BY <4>1, <4>2, <4>3, <1>8 DEF a
    <3>3. CASE k > 2
      <4> DEFINE j == k - 2
      <4>1. j \in 1 .. Len(text) /\ at + j - 1 = buffer + k - 1 /\ 2 + j = k
        BY <3>3, <2>2, <1>4, <1>7, <1>8
      <4> HIDE DEF j
      <4>2. memory'[at + j - 1] = text[j] /\ t[2 + j] = text[j]
        BY <4>1, <3>1, <2>6, <1>8
      <4>3. QED
        BY <4>1, <4>2
    <3>4. QED
      BY <3>2, <3>3, <1>4, <1>8
  <2>10. QED
    <3>1. full' = full \o t /\ late' = late /\ late' \in Seq(Args)
      BY <2>1, <1>3, <1>5, <1>9
    <3>2. Item /\ t \in Seq(Chars)
      BY <1>8, <1>9
    <3>3. QED
      BY <3>1, <3>2, <2>1, <2>6, <2>7, <2>8, <2>9, ItemKeeps
<1>12. CASE ~(buffer + 2 < limit)
  <2>1. at = buffer /\ mem = memory
    BY <1>12 DEF at, mem
  <2>2. print_number(memory, buffer, text)
    BY <2>1, <1>9
  <2>3. /\ memory' \in [Addresses -> Contents]
        /\ \A a \in Addresses :
             a < buffer \/ a \notin 0 .. limit - 1 => memory'[a] = memory[a]
        /\ buffer' = buffer + Len(text)
    BY <2>2, <1>4, <1>7, PrintNumber
  <2>4. buffer' \in Nat /\ buffer' >= buffer /\ buffer' >= limit - 1 /\ buffer' <= buffer + Len(t)
    BY <2>3, <1>4, <1>7, <1>8, <1>12
  <2>5. ~(buffer + Len(t) + Slack(t) < limit)
    BY <1>4, <1>7, <1>8, <1>10, <1>12
  <2>6. CASE late = <<>>
    <3>1. full' = full \o t /\ late' = late /\ late' \in Seq(Args)
      BY <2>6, <1>3, <1>5, <1>9
    <3>2. Item /\ t \in Seq(Chars)
      BY <1>8, <1>9
    <3>3. QED
      BY <3>1, <3>2, <2>3, <2>4, <2>5, <2>6, ItemKeeps
  <2>7. CASE late # <<>>
    <3>1. full' = full \o u /\ u \in Seq(Chars) /\ Item
      BY <1>9
    <3>2. late' \in Seq(Args) /\ late' # <<>>
      BY <2>7, <1>3
    <3>3. QED
      BY <3>1, <3>2, <2>3, <2>4, <2>7, BehindKeeps
  <2>8. QED
    BY <2>6, <2>7
<1>13. QED
  BY <1>11, <1>12

(* The terminator goes behind output that fits, and else to the last byte. *)
LEMMA ReturnKeeps == IInv /\ Return => IInv'
<1> SUFFICES ASSUME IInv, Return
             PROVE  IInv'
  OBVIOUS
<1> DEFINE end == IF buffer < limit THEN buffer ELSE limit - 1
           nul == <<NUL>>
<1>1. /\ limit \in Nat /\ limit >= 1 /\ buffer \in Nat
      /\ memory \in [Addresses -> Contents] /\ Addresses \subseteq Int
      /\ full \in Seq(Chars) /\ Len(full) \in Nat
      /\ items \in 0 .. MaxItems /\ limit \in Lengths /\ late \in Seq(Args)
  BY Basics
<1>2. /\ returned' = TRUE /\ memory' = Put(memory, end, nul)
      /\ buffer' = buffer /\ limit' = limit /\ items' = items /\ full' = full
      /\ late' = late
  BY DEF Return
<1>3. nul \in Seq(Contents) /\ Len(nul) = 1 /\ nul[1] = NUL
  BY DEF Contents
<1>4. end \in 0 .. limit - 1 /\ end \in Nat /\ end + 1 <= limit
  BY <1>1
<1> HIDE DEF end, nul
<1>5. Inside(memory, end, nul, memory')
  <2>1. end + Len(nul) <= limit
    BY <1>3, <1>4
  <2>2. QED
    BY <2>1, <1>1, <1>2, <1>3, <1>4, StoreInside
<1>6. /\ memory' \in [Addresses -> Contents]
      /\ \A a \in Addresses : a < end \/ a \notin 0 .. limit - 1 => memory'[a] = memory[a]
  BY <1>5 DEF Inside
<1>7. memory'[end] = NUL
  <2>1. 1 \in 1 .. Len(nul) /\ end + 1 - 1 = end
    BY <1>3, <1>4
  <2>2. memory'[end + 1 - 1] = nul[1]
    BY <2>1, <1>5 DEF Inside
  <2>3. QED
    BY <2>1, <2>2, <1>3
<1>8. TypeOK'
  BY <1>1, <1>2, <1>6 DEF TypeOK, Addresses, Contents
<1>9. Outside'
  <2>1. \A a \in Addresses : a \notin 0 .. limit - 1 => memory[a] = Unset
    BY <1>1 DEF IInv, Outside
  <2>2. \A a \in Addresses : a \notin 0 .. limit - 1 => memory'[a] = Unset
    BY <2>1, <1>6
  <2>3. DOMAIN memory' = Addresses
    BY <1>6
  <2>4. QED
    BY <2>2, <2>3, <1>2 DEF Outside
<1>10. Ended'
  BY <1>2, <1>4, <1>7 DEF Ended
<1>11. Counted'
  BY <1>2 DEF IInv, Counted
<1>12. Kept'
  <2>1. SUFFICES ASSUME Len(full) + Slack(full) < limit
                 PROVE  /\ \A k \in 1 .. Len(full) : memory'[k - 1] = full[k]
                        /\ memory'[Len(full)] = NUL
    BY <1>2 DEF Kept, Slack
  <2>2. Slack(full) \in Nat
    BY DEF Slack
  <2>3. buffer = Len(full)
    <3>1. Len(full) < limit
      BY <2>1, <2>2, <1>1
    <3>2. QED
      BY <3>1, CountExact
  <2>4. end = Len(full)
    BY <2>1, <2>2, <2>3, <1>1 DEF end
  <2>5. \A k \in 1 .. Len(full) : memory[k - 1] = full[k]
    BY <2>1 DEF IInv, Kept
  <2>6. \A k \in 1 .. Len(full) : k - 1 \in Addresses /\ k - 1 < end
    BY <2>4, <1>1, <1>4 DEF Addresses
  <2>7. QED
    BY <2>4, <2>5, <2>6, <1>6, <1>7
<1>13. QED
  BY <1>1, <1>2, <1>8, <1>9, <1>10, <1>11, <1>12 DEF IInv

(* Nothing is written yet.                                                 *)
LEMMA InitKeeps == Init => IInv
<1> SUFFICES ASSUME Init
             PROVE  IInv
  OBVIOUS
<1>1. limit \in Nat /\ limit >= 1
  BY SnprintfAssumption DEF Init
<1>2. full = <<>> /\ full \in Seq(Chars) /\ Len(full) = 0
  BY DEF Init
<1>3. memory \in [-1 .. limit + 2 -> Chars \cup {NUL, Unset}]
  BY DEF Init
<1>4. TypeOK
  <2>1. /\ limit \in Lengths /\ buffer \in Nat /\ items \in 0 .. MaxItems
        /\ returned \in BOOLEAN
    <3>1. MaxItems \in Nat
      BY SnprintfAssumption
    <3>2. limit \in Lengths /\ buffer = 0 /\ items = 0 /\ returned = FALSE
      BY DEF Init
    <3>3. buffer \in Nat /\ items \in 0 .. MaxItems
      BY <3>1, <3>2
    <3>4. returned \in BOOLEAN
      BY <3>2
    <3>5. QED
      BY <3>2, <3>3, <3>4
  <2>2. late \in Seq(Args)
    BY DEF Init
  <2>3. QED
    BY <2>1, <2>2, <1>3 DEF TypeOK
<1>5. Outside
  BY DEF Init, Outside
<1>6. Ended /\ ~returned
  BY DEF Init, Ended
<1>7. Counted
  BY <1>1, <1>2 DEF Init, Counted
<1>8. Kept
  BY <1>2, <1>6 DEF Kept
<1>9. QED
  BY <1>2, <1>4, <1>5, <1>6, <1>7, <1>8 DEF IInv

(* A step keeps the invariant.                                             *)
LEMMA StepKeeps ==
  ASSUME UINT_MAX \notin Widths, IInv, [Next]_vars
  PROVE  IInv'
<1>1. CASE Literal
  BY <1>1, LiteralKeeps
<1>2. CASE String
  BY <1>2, StringKeeps
<1>3. CASE Char
  BY <1>3, CharKeeps
<1>4. CASE Percent
  <2>1. "%" \in Chars
    BY DEF Chars
  <2>2. QED
    BY <1>4, <2>1, OneCharKeeps DEF Percent
<1>5. CASE Number
  BY <1>5, NumberKeeps
<1>6. CASE Pointer
  BY <1>6, PointerKeeps
<1>7. CASE Unknown
  BY <1>7, UnknownKeeps
<1>8. CASE Return
  BY <1>8, ReturnKeeps
<1>9. CASE UNCHANGED vars
  BY <1>9 DEF vars, IInv, TypeOK, Outside, Ended, Counted, Kept, Slack
<1>10. QED
  BY <1>1, <1>2, <1>3, <1>4, <1>5, <1>6, <1>7, <1>8, <1>9 DEF Next

(* The invariant holds of every call, for widths below the largest         *)
(* unsigned int.                                                           *)
THEOREM SnprintfInvariant ==
  ASSUME UINT_MAX \notin Widths
  PROVE  Spec => []IInv
<1>1. Init => IInv
  BY InitKeeps
<1>2. IInv /\ [Next]_vars => IInv'
  BY StepKeeps
<1>3. QED
  BY <1>1, <1>2, PTL DEF Spec

(* vsnprintf writes no byte outside the caller's buffer, whatever its      *)
(* length, and the string it leaves ends inside it: for widths below the   *)
(* largest unsigned int, with which the length it tests would wrap.        *)
THEOREM StaysInBuffer ==
  ASSUME UINT_MAX \notin Widths
  PROVE  Spec => []Contained
<1>1. IInv => Contained
  BY DEF IInv, Outside, Ended, Contained
<1>2. QED
  BY <1>1, SnprintfInvariant, PTL

(* The count vsnprintf returns reaches the end of the buffer when output   *)
(* was dropped, and exceeds the length needed only where a %c that did not *)
(* fit left its argument behind.                                           *)
THEOREM CountShowsTruncation ==
  ASSUME UINT_MAX \notin Widths
  PROVE  Spec => []TruncationShows
<1>1. ASSUME IInv
      PROVE  TruncationShows
  <2>1. limit \in Nat /\ buffer \in Nat /\ Len(full) \in Nat
    BY <1>1, Basics
  <2>2. /\ late = <<>> => buffer <= Len(full)
        /\ buffer < Len(full) => buffer >= limit - 1
        /\ late # <<>> => buffer >= limit
    BY <1>1 DEF IInv, Counted
  <2>3. Len(full) >= limit => buffer >= limit - 1
    BY <2>1, <2>2
  <2>4. QED
    BY <2>2, <2>3 DEF TruncationShows
<1>2. QED
  BY <1>1, SnprintfInvariant, PTL

(* Output that fits is what the caller's reader finds in the buffer before *)
(* the first terminator, and the count is its length.                      *)
THEOREM OutputThatFitsIsComplete ==
  ASSUME UINT_MAX \notin Widths
  PROVE  Spec => []Exact
<1>1. ASSUME IInv
      PROVE  Exact
  <2>1. SUFFICES ASSUME returned, Len(full) + Slack(full) < limit
                 PROVE  Printed = full /\ buffer = Len(full)
    BY DEF Exact, Slack
  <2> DEFINE n == Len(full)
             First(a) == memory[a] = NUL /\ \A c \in 0 .. a - 1 : memory[c] # NUL
  <2>2. /\ limit \in Nat /\ buffer \in Nat /\ n \in Nat /\ full \in Seq(Chars)
        /\ Slack(full) \in Nat
    BY <1>1, Basics DEF Slack
  <2>3. n \in 0 .. limit - 1
    BY <2>1, <2>2
  <2>4. /\ \A k \in 1 .. n : memory[k - 1] = full[k]
        /\ memory[n] = NUL
    BY <1>1, <2>1 DEF IInv, Kept
  <2>5. \A k \in 1 .. n : full[k] # NUL
    BY <2>2, ElementOfSeq, NoNul
  <2>6. \A c \in 0 .. n - 1 : memory[c] # NUL
    <3>1. SUFFICES ASSUME NEW c \in 0 .. n - 1
                   PROVE  memory[c] # NUL
      OBVIOUS
    <3>2. c + 1 \in 1 .. n /\ c + 1 - 1 = c
      BY <2>2
    <3>3. memory[c + 1 - 1] = full[c + 1]
      BY <3>2, <2>4
    <3>4. QED
      BY <3>2, <3>3, <2>5
  <2>7. \A a \in 0 .. limit - 1 : First(a) <=> a = n
    <3>1. ASSUME NEW a \in 0 .. limit - 1, First(a), a # n
          PROVE  FALSE
      <4>1. CASE a < n
        <5>1. a \in 0 .. n - 1
          BY <4>1, <2>2
        <5>2. QED
          BY <5>1, <3>1, <2>6
      <4>2. CASE n < a
        <5>1. n \in 0 .. a - 1
          BY <4>2, <2>2
        <5>2. QED
          BY <5>1, <3>1, <2>4
      <4>3. QED
        BY <4>1, <4>2, <3>1, <2>2
    <3>2. First(n)
      BY <2>4, <2>6
    <3>3. QED
      BY <3>1, <3>2
  <2>8. Printed = Bytes(0, n)
    <3>1. (CHOOSE a \in 0 .. limit - 1 : First(a)) = n
      <4> HIDE DEF First, n
      <4>1. QED
        BY <2>3, <2>7
    <3>2. QED
      BY <3>1 DEF Printed
  <2>9. Bytes(0, n) = [k \in 1 .. n |-> full[k]]
    <3>1. n - 0 = n
      BY <2>2
    <3>2. \A k \in 1 .. n : 0 + k - 1 = k - 1
      BY <2>2
    <3>3. QED
      BY <3>1, <3>2, <2>4 DEF Bytes
  <2>10. full = [k \in 1 .. n |-> full[k]]
    BY <2>2
  <2>11. buffer = n
    <3>1. Len(full) < limit
      BY <2>1, <2>2
    <3>2. QED
      BY <3>1, <1>1, CountExact
  <2>12. QED
    BY <2>8, <2>9, <2>10, <2>11
<1>2. QED
  BY <1>1, SnprintfInvariant, PTL

-----------------------------------------------------------------------------
(***************************************************************************)
(* Numbers read back.                                                      *)
(***************************************************************************)
(* No two digits have the same character.                                  *)
LEMMA DigitsDiffer ==
  \A i, d \in 0 .. 15 :
    /\ Lower[d + 1] = Lower[i + 1] \/ Lower[d + 1] = Upper[i + 1] => i = d
    /\ Upper[d + 1] = Lower[i + 1] \/ Upper[d + 1] = Upper[i + 1] => i = d
  BY DEF Lower, Upper

(* What a digit's character stands for.                                    *)
LEMMA DigitValue ==
  ASSUME NEW digits \in {Lower, Upper}, NEW d \in 0 .. 15
  PROVE  IsDigit(digits[d + 1]) /\ Value(digits[d + 1]) = d
<1>1. PICK c : c = digits[d + 1]
  OBVIOUS
<1>2. c = Lower[d + 1] \/ c = Upper[d + 1]
  BY <1>1
<1>3. \A i \in 0 .. 15 : c \in {Lower[i + 1], Upper[i + 1]} => i = d
  BY <1>2, DigitsDiffer
<1>4. c \in {Lower[d + 1], Upper[d + 1]}
  BY <1>2
<1>5. Value(c) = d
  BY <1>3, <1>4 DEF Value
<1>6. IsDigit(c)
  BY <1>4 DEF IsDigit
<1>7. QED
  BY <1>1, <1>5, <1>6

(* A blank and a sign are no digits.                                       *)
LEMMA NoDigits == ~IsDigit("blank") /\ ~IsDigit("-")
<1>1. \A i \in 0 .. 15 : /\ Lower[i + 1] # "blank" /\ Upper[i + 1] # "blank"
                         /\ Lower[i + 1] # "-" /\ Upper[i + 1] # "-"
  BY DEF Lower, Upper
<1>2. QED
  BY <1>1 DEF IsDigit

Sums(f, t, base, n) ==
  f = [i \in 0 .. n |->
         IF i = 0 THEN 0
         ELSE IF IsDigit(t[i]) THEN f[i - 1] * base + Value(t[i]) ELSE f[i - 1]]

(* Horner's rule has a result on every text, as with DivisorsExist.        *)
LEMMA SumsExist ==
  ASSUME NEW t, NEW base, NEW n \in Nat
  PROVE  \E f : Sums(f, t, base, n)
<1> DEFINE Bad == {m \in Nat : ~ \E f : Sums(f, t, base, m)}
           step(v, i) == IF IsDigit(t[i]) THEN v * base + Value(t[i]) ELSE v
<1>1. SUFFICES ASSUME Bad # {} PROVE FALSE
  OBVIOUS
<1>2. PICK m \in Bad : \A j \in Bad : m <= j
  <2> HIDE DEF Bad
  <2>1. Bad \subseteq Nat
    BY DEF Bad
  <2>2. QED
    BY <2>1, <1>1, LeastElement
<1>3. m # 0
  <2> DEFINE f == [i \in 0 .. 0 |-> 0]
  <2>1. Sums(f, t, base, 0)
    BY DEF Sums
  <2>2. QED
    BY <2>1
<1>4. m \in Nat /\ m - 1 \in Nat /\ m - 1 \notin Bad
  BY <1>2, <1>3
<1>5. PICK f : Sums(f, t, base, m - 1)
  BY <1>4
<1> HIDE DEF step
<1>6. \A i \in 0 .. m - 1 : f[i] = IF i = 0 THEN 0 ELSE step(f[i - 1], i)
  BY <1>5 DEF Sums, step
<1> DEFINE g == [i \in 0 .. m |-> IF i < m THEN f[i] ELSE step(f[m - 1], m)]
<1>7. ASSUME NEW i \in 0 .. m
      PROVE  g[i] = IF i = 0 THEN 0 ELSE step(g[i - 1], i)
  <2>1. CASE i = 0
    <3>1. i \in 0 .. m - 1 /\ i < m
      BY <2>1, <1>3, <1>4
    <3>2. QED
      BY <2>1, <3>1, <1>6
  <2>2. CASE i # 0 /\ i < m
    <3>1. i \in 0 .. m - 1 /\ i - 1 \in 0 .. m /\ i - 1 < m
      BY <2>2, <1>4
    <3>2. g[i] = f[i] /\ g[i - 1] = f[i - 1]
      BY <2>2, <3>1
    <3>3. QED
      BY <2>2, <3>1, <3>2, <1>6
  <2>3. CASE i = m
    <3>1. m - 1 \in 0 .. m /\ m - 1 < m /\ ~(m < m) /\ m \in 0 .. m
      BY <1>4
    <3>2. g[m] = step(f[m - 1], m) /\ g[m - 1] = f[m - 1]
      BY <3>1
    <3>3. QED
      BY <2>3, <3>2, <1>3
  <2>4. QED
    BY <2>1, <2>2, <2>3, <1>4
<1>8. Sums(g, t, base, m)
  <2>1. g = [i \in 0 .. m |-> g[i]]
    OBVIOUS
  <2> HIDE DEF g
  <2>2. QED
    BY <2>1, <1>7 DEF Sums, step
<1>9. QED
  BY <1>8, <1>2

(* f takes the steps of Horner's rule over t.                              *)
Follows(f, t, base) ==
  /\ f[0] = 0
  /\ \A i \in 1 .. Len(t) :
       f[i] = IF IsDigit(t[i]) THEN f[i - 1] * base + Value(t[i]) ELSE f[i - 1]

(* Horner's rule, position by position.                                    *)
LEMMA HornerSteps ==
  ASSUME NEW t, Len(t) \in Nat, NEW base
  PROVE  \E f : Horner(t, base) = f[Len(t)] /\ Follows(f, t, base)
<1>1. \E f : Sums(f, t, base, Len(t))
  BY SumsExist
<1>2. PICK f : f = CHOOSE h : Sums(h, t, base, Len(t))
  OBVIOUS
<1>3. Sums(f, t, base, Len(t))
  BY <1>1, <1>2
<1>4. Horner(t, base) = f[Len(t)]
  BY <1>2 DEF Horner, Sums
<1>5. \A i \in 0 .. Len(t) :
        f[i] = IF i = 0 THEN 0
               ELSE IF IsDigit(t[i]) THEN f[i - 1] * base + Value(t[i]) ELSE f[i - 1]
  BY <1>3 DEF Sums
<1>6. f[0] = 0
  BY <1>5
<1>7. \A i \in 1 .. Len(t) : i \in 0 .. Len(t) /\ i # 0
  OBVIOUS
<1>8. \A i \in 1 .. Len(t) :
        f[i] = IF IsDigit(t[i]) THEN f[i - 1] * base + Value(t[i]) ELSE f[i - 1]
  BY <1>5, <1>7, Zenon
<1>9. QED
  BY <1>4, <1>6, <1>8 DEF Follows

(* A value that no position changes.                                       *)
Holds(f, v, lo, hi) == \A i \in lo + 1 .. hi : f[i - 1] = v => f[i] = v

(* It is still there at the end.                                           *)
LEMMA Unchanging ==
  ASSUME NEW f, NEW v, NEW lo \in Nat, NEW hi \in Nat, lo <= hi, f[lo] = v,
         Holds(f, v, lo, hi)
  PROVE  f[hi] = v
<1> DEFINE Bad == {i \in lo .. hi : f[i] # v}
<1>1. SUFFICES ASSUME Bad # {} PROVE FALSE
  OBVIOUS
<1>2. PICK m \in Bad : \A j \in Bad : m <= j
  <2>1. Bad \subseteq Nat
    OBVIOUS
  <2> HIDE DEF Bad
  <2>2. QED
    BY <2>1, <1>1, LeastElement
<1>3. m \in lo .. hi /\ f[m] # v /\ m # lo
  BY <1>2
<1>4. m \in lo + 1 .. hi /\ m - 1 \in lo .. hi /\ ~(m <= m - 1)
  BY <1>3
<1>5. f[m - 1] = v
  BY <1>2, <1>4
<1>6. QED
  BY <1>3, <1>4, <1>5 DEF Holds

(* f adds up the remainders of n, the last one first, from s on.           *)
AddsUp(f, s, base, n) ==
  LET r == Remainders(base)[n]
  IN  /\ f[s] = 0
      /\ \A i \in 1 .. Len(r) : f[s + i] = f[s + i - 1] * base + r[Len(r) - i + 1]

(* The remainders of a number are its last digit and those of the rest.    *)
LEMMA RemaindersParts ==
  ASSUME NEW base \in Nat, base >= 2, NEW n \in 0 .. Numbers - 1, n # 0
  PROVE  LET r == Remainders(base)[n]
             q == n \div base
             p == Remainders(base)[q]
         IN  /\ q \in 0 .. n - 1 /\ q \in 0 .. Numbers - 1 /\ n = q * base + (n % base)
             /\ n % base \in 0 .. base - 1
             /\ Len(p) \in Nat /\ Len(r) = Len(p) + 1 /\ r[1] = n % base
             /\ \A i \in 1 .. Len(p) : r[i + 1] = p[i]
<1> DEFINE r == Remainders(base)[n]
           q == n \div base
           p == Remainders(base)[q]
           t == <<n % base>>
<1>1. n \in Nat /\ n >= 1
  BY NumbersPositive
<1>2. q \in 0 .. n - 1 /\ n = q * base + (n % base) /\ n % base \in 0 .. base - 1
  <2>1. q \in 0 .. n - 1
    BY <1>1, QuotientSmaller
  <2>2. QED
    BY <1>1, <2>1, Division
<1>3. q \in 0 .. Numbers - 1
  BY <1>1, <1>2, NumbersPositive
<1>4. r = t \o p
  BY RemaindersStep
<1>5. p \in Seq(0 .. base - 1)
  BY <1>3, RemaindersType
<1>6. t \in Seq(0 .. base - 1) /\ Len(t) = 1 /\ t[1] = n % base
  BY <1>2
<1> HIDE DEF r, q, p, t
<1>7. /\ Len(t \o p) = Len(t) + Len(p) /\ Len(p) \in Nat
      /\ \A i \in 1 .. Len(t) : (t \o p)[i] = t[i]
      /\ \A i \in 1 .. Len(p) : (t \o p)[Len(t) + i] = p[i]
  <2>1. t \in Seq(0 .. base - 1) /\ p \in Seq(0 .. base - 1)
    BY <1>5, <1>6
  <2>2. PICK S : S = 0 .. base - 1
    OBVIOUS
  <2>3. t \in Seq(S) /\ p \in Seq(S)
    BY <2>1, <2>2
  <2>4. QED
    BY ONLY <2>3, Concat
<1>8. r[1] = n % base
  <2>1. 1 \in 1 .. Len(t)
    BY <1>6
  <2>2. QED
    BY <2>1, <1>4, <1>6, <1>7
<1>9. \A i \in 1 .. Len(p) : r[i + 1] = p[i]
  <2>1. \A i \in 1 .. Len(p) : 1 + i = i + 1
    BY <1>7
  <2>2. QED
    BY <2>1, <1>4, <1>6, <1>7
<1>10. Len(r) = Len(p) + 1
  BY <1>4, <1>6, <1>7
<1>11. QED
  BY <1>2, <1>3, <1>7, <1>8, <1>9, <1>10 DEF r, q, p

(* They add up to the number: the least one for which they did not would   *)
(* be its last digit behind a smaller one for which they do.               *)
LEMMA RemaindersRead ==
  ASSUME NEW base \in Nat, base >= 2, NEW n \in 0 .. Numbers - 1,
         NEW f, NEW s \in Nat, AddsUp(f, s, base, n)
  PROVE  f[s + Len(Remainders(base)[n])] = n
<1> DEFINE R(m) == Remainders(base)[m]
           Reads(m) == AddsUp(f, s, base, m) => f[s + Len(R(m))] = m
           Bad == {m \in 0 .. Numbers - 1 : ~Reads(m)}
<1>1. SUFFICES ASSUME Bad # {} PROVE FALSE
  OBVIOUS
<1>2. PICK m \in Bad : \A j \in Bad : m <= j
  <2>1. Bad \subseteq Nat
    BY NumbersPositive
  <2> HIDE DEF Bad
  <2>2. QED
    BY <2>1, <1>1, LeastElement
<1>3. m \in 0 .. Numbers - 1 /\ AddsUp(f, s, base, m) /\ f[s + Len(R(m))] # m
  BY <1>2
<1>4. m # 0
  <2>1. SUFFICES ASSUME m = 0 PROVE FALSE
    OBVIOUS
  <2>2. R(m) = <<>>
    BY <2>1, <1>3, RemaindersStep
  <2>3. s + Len(R(m)) = s
    BY <2>2
  <2>4. f[s] = 0
    BY <1>3 DEF AddsUp
  <2>5. QED
    BY <2>1, <2>3, <2>4, <1>3
<1>5. PICK r, q, p : r = R(m) /\ q = m \div base /\ p = R(q)
  OBVIOUS
<1>6. /\ q \in 0 .. m - 1 /\ q \in 0 .. Numbers - 1 /\ m = q * base + (m % base)
      /\ m % base \in 0 .. base - 1
      /\ Len(p) \in Nat /\ Len(r) = Len(p) + 1 /\ r[1] = m % base
      /\ \A i \in 1 .. Len(p) : r[i + 1] = p[i]
  BY <1>3, <1>4, <1>5, RemaindersParts
<1>7. Reads(q)
  <2>1. ~(m <= q)
    BY <1>3, <1>6, NumbersPositive
  <2>2. QED
    BY <2>1, <1>2, <1>6
<1>8. /\ f[s] = 0
      /\ \A i \in 1 .. Len(r) : f[s + i] = f[s + i - 1] * base + r[Len(r) - i + 1]
  BY <1>3, <1>5 DEF AddsUp
<1>9. ASSUME NEW i \in 1 .. Len(p)
      PROVE  f[s + i] = f[s + i - 1] * base + p[Len(p) - i + 1]
  <2>1. PICK j \in 1 .. Len(p) : j = Len(p) - i + 1
    <3>1. Len(p) \in Nat
      BY <1>6
    <3>2. Len(p) - i + 1 \in 1 .. Len(p)
      BY <3>1
    <3>3. QED
      BY <3>2
  <2>2. i \in 1 .. Len(r) /\ Len(r) - i + 1 = j + 1
    BY <1>6, <2>1
  <2>3. f[s + i] = f[s + i - 1] * base + r[j + 1]
    BY <1>8, <2>2
  <2>4. r[j + 1] = p[j]
    BY <1>6
  <2>5. QED
    BY <2>1, <2>3, <2>4
<1>10. f[s + Len(p)] = q
  <2>1. AddsUp(f, s, base, q)
    BY <1>5, <1>8, <1>9 DEF AddsUp
  <2>2. QED
    BY <2>1, <1>5, <1>7
<1>11. f[s + Len(r)] = m
  <2>1. /\ Len(r) \in 1 .. Len(r) /\ Len(r) - Len(r) + 1 = 1
        /\ s + Len(r) - 1 = s + Len(p)
    BY <1>6
  <2>2. f[s + Len(r)] = f[s + Len(r) - 1] * base + r[Len(r) - Len(r) + 1]
    BY <1>8, <2>1
  <2>3. f[s + Len(r)] = f[s + Len(p)] * base + r[1]
    BY <2>1, <2>2
  <2>4. QED
    BY <2>3, <1>6, <1>10
<1>12. QED
  BY <1>3, <1>5, <1>11

(* Digits of the base.                                                     *)
InBase(D, base) ==
  \A k \in 1 .. Len(D) : IsDigit(D[k]) /\ Value(D[k]) \in Nat /\ Value(D[k]) < base

(* Horner's rule over D gives n, wherever D begins.                        *)
Yields(D, base, n) ==
  \A f : \A s \in Nat :
    /\ f[s] = 0
    /\ \A k \in 1 .. Len(D) : f[s + k] = f[s + k - 1] * base + Value(D[k])
    => f[s + Len(D)] = n

(* The characters of a number, and that Horner's rule gives it back.       *)
LEMMA DigitsRead ==
  ASSUME NEW n \in 0 .. Numbers - 1, NEW base \in {2, 8, 10, 16},
         NEW digits \in {Lower, Upper}
  PROVE  /\ InBase(Digits(n, base, digits), base)
         /\ Yields(Digits(n, base, digits), base, n)
<1>1. PICK tmp : tmp = IF n = 0 THEN <<0>> ELSE Remainders(base)[n]
  OBVIOUS
<1>2. PICK D : D = Digits(n, base, digits)
  OBVIOUS
<1>3. base \in Nat /\ base >= 2 /\ base <= 16
  OBVIOUS
<1>4. tmp \in Seq(0 .. base - 1) /\ Len(tmp) \in Nat
  <2>1. <<0>> \in Seq(0 .. base - 1)
    BY <1>3
  <2>2. tmp \in Seq(0 .. base - 1)
    BY <2>1, <1>1, <1>3, RemaindersType
  <2>3. QED
    BY <2>2, LenProperties
<1>5. D = [i \in 1 .. Len(tmp) |-> digits[Reverse(tmp)[i] + 1]]
  BY <1>1, <1>2 DEF Digits
<1>6. Len(D) = Len(tmp)
  BY <1>4, <1>5
<1>7. ASSUME NEW i \in 1 .. Len(tmp)
      PROVE  /\ IsDigit(D[i]) /\ Value(D[i]) = tmp[Len(tmp) - i + 1]
             /\ Value(D[i]) \in 0 .. base - 1
  <2>1. PICK j \in 1 .. Len(tmp) : j = Len(tmp) - i + 1
    <3>1. Len(tmp) - i + 1 \in 1 .. Len(tmp)
      BY <1>4
    <3>2. QED
      BY <3>1
  <2>2. Reverse(tmp)[i] = tmp[j]
    BY <2>1 DEF Reverse
  <2>3. PICK d \in 0 .. base - 1 : d = tmp[j]
    BY <1>4, ElementOfSeq
  <2>4. d \in 0 .. 15
    BY <1>3
  <2>5. D[i] = digits[d + 1]
    BY <1>5, <2>2, <2>3
  <2>6. QED
    BY <2>1, <2>3, <2>4, <2>5, DigitValue
<1>8. ASSUME NEW f, NEW s \in Nat, f[s] = 0,
             \A i \in 1 .. Len(D) : f[s + i] = f[s + i - 1] * base + Value(D[i])
      PROVE  f[s + Len(D)] = n
  <2>1. \A i \in 1 .. Len(tmp) : f[s + i] = f[s + i - 1] * base + tmp[Len(tmp) - i + 1]
    BY <1>6, <1>7, <1>8
  <2>2. CASE n = 0
    <3>1. tmp = <<0>> /\ Len(tmp) = 1 /\ tmp[1] = 0
      BY <1>1, <2>2
    <3>2. s + 1 - 1 = s /\ Len(tmp) - 1 + 1 = 1 /\ 1 \in 1 .. Len(tmp)
      BY <3>1
    <3>3. f[s + 1] = f[s + 1 - 1] * base + tmp[Len(tmp) - 1 + 1]
      BY <2>1, <3>2
    <3>4. f[s + 1] = 0
      BY <3>1, <3>2, <3>3, <1>3, <1>8
    <3>5. QED
      BY <2>2, <3>1, <3>4, <1>6
  <2>3. CASE n # 0
    <3>1. tmp = Remainders(base)[n]
      BY <1>1, <2>3
    <3>2. AddsUp(f, s, base, n)
      BY <2>1, <3>1, <1>8 DEF AddsUp
    <3>3. QED
      BY <3>1, <3>2, <1>3, <1>6, RemaindersRead
  <2>4. QED
    BY <2>2, <2>3
<1>9. InBase(D, base)
  BY <1>3, <1>6, <1>7 DEF InBase
<1>10. Yields(D, base, n)
  BY <1>8 DEF Yields
<1>11. QED
  BY <1>2, <1>9, <1>10

(* Where the characters of three texts are when they are joined.           *)
LEMMA Joined ==
  ASSUME NEW S, NEW a \in Seq(S), NEW b \in Seq(S), NEW c \in Seq(S), NEW t, t = a \o b \o c
  PROVE  /\ t \in Seq(S) /\ Len(a) \in Nat /\ Len(b) \in Nat /\ Len(c) \in Nat
         /\ Len(t) = Len(a) + Len(b) + Len(c)
         /\ \A k \in 1 .. Len(a) : t[k] = a[k]
         /\ \A k \in 1 .. Len(b) : t[Len(a) + k] = b[k]
         /\ \A k \in 1 .. Len(c) : t[Len(a) + Len(b) + k] = c[k]
<1>1. PICK u : u = a \o b
  OBVIOUS
<1>2. /\ u \in Seq(S) /\ Len(u) = Len(a) + Len(b)
      /\ Len(a) \in Nat /\ Len(b) \in Nat
      /\ \A k \in 1 .. Len(a) : u[k] = a[k]
      /\ \A k \in 1 .. Len(b) : u[Len(a) + k] = b[k]
  BY <1>1, Concat
<1>3. t = u \o c
  BY <1>1
<1>4. /\ t \in Seq(S) /\ Len(t) = Len(u) + Len(c) /\ Len(c) \in Nat
      /\ \A k \in 1 .. Len(u) : t[k] = u[k]
      /\ \A k \in 1 .. Len(c) : t[Len(u) + k] = c[k]
  <2>1. u \in Seq(S) /\ c \in Seq(S)
    BY <1>2
  <2>2. QED
    BY ONLY <2>1, <1>3, Concat
<1>5. \A k \in 1 .. Len(a) : k \in 1 .. Len(u)
  BY <1>2
<1>6. \A k \in 1 .. Len(b) : Len(a) + k \in 1 .. Len(u)
  BY <1>2
<1>7. QED
  BY <1>2, <1>4, <1>5, <1>6

(* The text holds digits D behind position a, which begin, with a sign or  *)
(* zeros before them, at i and have blanks around them.                    *)
Shape(text, D, i, a, negative) ==
  /\ a \in Nat /\ i \in Nat /\ Len(text) \in Nat /\ Len(D) \in Nat /\ Len(D) >= 1
  /\ a + Len(D) <= Len(text)
  /\ i >= 1 /\ i <= a + 1 /\ (negative => i <= a)
  /\ \A k \in 1 .. Len(text) :
       /\ k < i \/ k > a + Len(D) => text[k] = "blank"
       /\ negative /\ k = i => text[k] = "-"
       /\ i < k /\ k <= a => text[k] = "0"
       /\ ~negative /\ k = i /\ k <= a => text[k] = "0"
  /\ \A k \in 1 .. Len(D) : text[a + k] = D[k]

(* The three ways to lay out a number.                                     *)
LEMMA LeftShape ==
  ASSUME NEW M \in Seq(Chars), NEW D \in Seq(Chars), NEW F \in Seq(Chars),
         NEW negative, Len(D) >= 1,
         negative => Len(M) = 1 /\ M[1] = "-", ~negative => Len(M) = 0,
         \A k \in 1 .. Len(F) : F[k] = "blank",
         NEW t, t = M \o D \o F
  PROVE  Shape(t, D, 1, Len(M), negative)
<1>1. /\ Len(M) \in Nat /\ Len(D) \in Nat /\ Len(F) \in Nat
      /\ Len(t) = Len(M) + Len(D) + Len(F)
      /\ \A k \in 1 .. Len(M) : t[k] = M[k]
      /\ \A k \in 1 .. Len(D) : t[Len(M) + k] = D[k]
      /\ \A k \in 1 .. Len(F) : t[Len(M) + Len(D) + k] = F[k]
  BY Joined
<1>2. ASSUME NEW k \in 1 .. Len(t)
      PROVE  /\ k < 1 \/ k > Len(M) + Len(D) => t[k] = "blank"
             /\ negative /\ k = 1 => t[k] = "-"
             /\ ~(1 < k /\ k <= Len(M)) /\ ~(~negative /\ k = 1 /\ k <= Len(M))
  <2>1. ASSUME k > Len(M) + Len(D)
        PROVE  t[k] = "blank"
    <3>1. PICK j \in 1 .. Len(F) : k = Len(M) + Len(D) + j
      <4>1. k - (Len(M) + Len(D)) \in 1 .. Len(F) /\ k = Len(M) + Len(D) + (k - (Len(M) + Len(D)))
        BY <1>1, <2>1
      <4>2. QED
        BY <4>1
    <3>2. QED
      BY <1>1, <3>1
  <2>2. ASSUME negative, k = 1
        PROVE  t[k] = "-"
    <3>1. 1 \in 1 .. Len(M) /\ M[1] = "-"
      <4>1. Len(M) = 1 /\ M[1] = "-"
        BY <2>2, Zenon
      <4>2. 1 \in 1 .. Len(M)
        BY <4>1
      <4>3. QED
        BY <4>1, <4>2
    <3>2. QED
      BY <1>1, <2>2, <3>1
  <2>3. QED
    BY <1>1, <2>1, <2>2
<1>3. QED
  BY <1>1, <1>2 DEF Shape

(* Zeros between the sign and the digits.                                  *)
LEMMA ZeroShape ==
  ASSUME NEW M \in Seq(Chars), NEW D \in Seq(Chars), NEW F \in Seq(Chars),
         NEW negative, Len(D) >= 1,
         negative => Len(M) = 1 /\ M[1] = "-", ~negative => Len(M) = 0,
         \A k \in 1 .. Len(F) : F[k] = "0",
         NEW t, t = M \o F \o D
  PROVE  Shape(t, D, 1, Len(M) + Len(F), negative)
<1>1. /\ Len(M) \in Nat /\ Len(D) \in Nat /\ Len(F) \in Nat
      /\ Len(t) = Len(M) + Len(F) + Len(D)
      /\ \A k \in 1 .. Len(M) : t[k] = M[k]
      /\ \A k \in 1 .. Len(F) : t[Len(M) + k] = F[k]
      /\ \A k \in 1 .. Len(D) : t[Len(M) + Len(F) + k] = D[k]
  BY Joined
<1>2. ASSUME NEW k \in 1 .. Len(t)
      PROVE  /\ ~(k < 1) /\ ~(k > Len(M) + Len(F) + Len(D))
             /\ negative /\ k = 1 => t[k] = "-"
             /\ 1 < k /\ k <= Len(M) + Len(F) => t[k] = "0"
             /\ ~negative /\ k = 1 /\ k <= Len(M) + Len(F) => t[k] = "0"
  <2>1. ASSUME negative, k = 1
        PROVE  t[k] = "-"
    <3>1. 1 \in 1 .. Len(M) /\ M[1] = "-"
      <4>1. Len(M) = 1 /\ M[1] = "-"
        BY <2>1, Zenon
      <4>2. 1 \in 1 .. Len(M)
        BY <4>1
      <4>3. QED
        BY <4>1, <4>2
    <3>2. QED
      BY <1>1, <2>1, <3>1
  <2>2. ASSUME k > Len(M), k <= Len(M) + Len(F)
        PROVE  t[k] = "0"
    <3>1. PICK j \in 1 .. Len(F) : k = Len(M) + j
      <4>1. k - Len(M) \in 1 .. Len(F) /\ k = Len(M) + (k - Len(M))
        BY <1>1, <2>2
      <4>2. QED
        BY <4>1
    <3>2. QED
      BY <1>1, <3>1
  <2>3. QED
    BY <1>1, <2>1, <2>2
<1>3. QED
  BY <1>1, <1>2 DEF Shape

(* Blanks before the sign.                                                 *)
LEMMA RightShape ==
  ASSUME NEW M \in Seq(Chars), NEW D \in Seq(Chars), NEW F \in Seq(Chars),
         NEW negative, Len(D) >= 1,
         negative => Len(M) = 1 /\ M[1] = "-", ~negative => Len(M) = 0,
         \A k \in 1 .. Len(F) : F[k] = "blank",
         NEW t, t = F \o M \o D
  PROVE  Shape(t, D, Len(F) + 1, Len(F) + Len(M), negative)
<1>1. /\ Len(M) \in Nat /\ Len(D) \in Nat /\ Len(F) \in Nat
      /\ Len(t) = Len(F) + Len(M) + Len(D)
      /\ \A k \in 1 .. Len(F) : t[k] = F[k]
      /\ \A k \in 1 .. Len(M) : t[Len(F) + k] = M[k]
      /\ \A k \in 1 .. Len(D) : t[Len(F) + Len(M) + k] = D[k]
  BY Joined
<1>2. ASSUME NEW k \in 1 .. Len(t)
      PROVE  /\ k < Len(F) + 1 \/ k > Len(F) + Len(M) + Len(D) => t[k] = "blank"
             /\ negative /\ k = Len(F) + 1 => t[k] = "-"
             /\ ~(Len(F) + 1 < k /\ k <= Len(F) + Len(M))
             /\ ~(~negative /\ k = Len(F) + 1 /\ k <= Len(F) + Len(M))
  <2>1. ASSUME negative, k = Len(F) + 1
        PROVE  t[k] = "-"
    <3>1. 1 \in 1 .. Len(M) /\ M[1] = "-"
      <4>1. Len(M) = 1 /\ M[1] = "-"
        BY <2>1, Zenon
      <4>2. 1 \in 1 .. Len(M)
        BY <4>1
      <4>3. QED
        BY <4>1, <4>2
    <3>2. QED
      BY <1>1, <2>1, <3>1
  <2>2. ASSUME k < Len(F) + 1
        PROVE  t[k] = "blank"
    <3>1. k \in 1 .. Len(F)
      BY <1>1, <2>2
    <3>2. QED
      BY <1>1, <3>1
  <2>3. QED
    BY <1>1, <2>1, <2>2
<1>3. QED
  BY <1>1, <1>2 DEF Shape

(* What the character at k contributes before and behind the digits.       *)
LEMMA ZeroDigit == IsDigit("0") /\ Value("0") = 0
<1>1. Lower \in {Lower, Upper} /\ 0 \in 0 .. 15
  OBVIOUS
<1>2. Lower[0 + 1] = "0"
  BY DEF Lower
<1>3. QED
  BY <1>1, <1>2, DigitValue

(* A text of that shape reads back as the number its digits were made of,  *)
(* and the characters from the sign or the first digit to the last digit   *)
(* are the sign and digits of the base.                                    *)
LEMMA TextRead ==
  ASSUME NEW n \in 0 .. Numbers - 1, NEW base \in {2, 8, 10, 16},
         NEW digits \in {Lower, Upper}, NEW D, D = Digits(n, base, digits),
         NEW text, NEW i, NEW a, NEW negative, Shape(text, D, i, a, negative)
  PROVE  /\ Horner(text, base) = n
         /\ \E j \in 1 .. Len(text) :
              /\ i \in 1 .. Len(text) /\ i <= j /\ (negative => i < j)
              /\ \A k \in 1 .. Len(text) :
                   /\ k \notin i .. j => text[k] = "blank"
                   /\ k \in i .. j /\ negative /\ k = i => text[k] = "-"
                   /\ k \in i .. j /\ ~(negative /\ k = i) =>
                        IsDigit(text[k]) /\ Value(text[k]) < base
<1>1. /\ a \in Nat /\ i \in Nat /\ Len(text) \in Nat /\ Len(D) \in Nat /\ Len(D) >= 1
      /\ a + Len(D) <= Len(text) /\ i >= 1 /\ i <= a + 1
  BY DEF Shape
<1>2. negative => i <= a
  BY DEF Shape
<1>3. ASSUME NEW k \in 1 .. Len(text)
      PROVE  /\ k < i \/ k > a + Len(D) => text[k] = "blank"
             /\ negative /\ k = i => text[k] = "-"
             /\ i < k /\ k <= a => text[k] = "0"
             /\ ~negative /\ k = i /\ k <= a => text[k] = "0"
  BY DEF Shape
<1>4. \A k \in 1 .. Len(D) : text[a + k] = D[k]
  BY DEF Shape
<1>5. base \in Nat /\ base >= 2
  OBVIOUS
<1>6. InBase(D, base) /\ Yields(D, base, n)
  BY DigitsRead
<1>7. PICK f : Horner(text, base) = f[Len(text)] /\ Follows(f, text, base)
  BY <1>1, HornerSteps
<1>8. f[a] = 0
  <2>1. ASSUME NEW k \in 0 + 1 .. a, f[k - 1] = 0
        PROVE  f[k] = 0
    <3>1. k \in 1 .. Len(text) /\ k <= a
      BY <1>1
    <3>2. text[k] = "blank" \/ text[k] = "-" \/ text[k] = "0"
      <4>1. CASE k < i
        BY <4>1, <3>1, <1>3
      <4>2. CASE k = i
        BY <4>2, <3>1, <1>3
      <4>3. CASE i < k
        BY <4>3, <3>1, <1>3
      <4>4. QED
        BY <4>1, <4>2, <4>3, <1>1
    <3>3. f[k] = IF IsDigit(text[k]) THEN f[k - 1] * base + Value(text[k]) ELSE f[k - 1]
      BY <3>1, <1>7 DEF Follows
    <3>4. CASE text[k] = "0"
      <4>1. f[k] = 0 * base + 0
        BY <3>3, <3>4, <2>1, ZeroDigit
      <4>2. QED
        BY <4>1, <1>5
    <3>5. CASE text[k] = "blank" \/ text[k] = "-"
      BY <3>3, <3>5, <2>1, NoDigits
    <3>6. QED
      BY <3>2, <3>4, <3>5
  <2>2. 0 \in Nat /\ 0 <= a
    BY <1>1
  <2>3. f[0] = 0 /\ Holds(f, 0, 0, a)
    BY <2>1, <1>7 DEF Follows, Holds
  <2>4. QED
    BY <2>2, <2>3, <1>1, Unchanging
<1>9. f[a + Len(D)] = n
  <2>1. ASSUME NEW k \in 1 .. Len(D)
        PROVE  f[a + k] = f[a + k - 1] * base + Value(D[k])
    <3>1. a + k \in 1 .. Len(text)
      BY <1>1
    <3>2. text[a + k] = D[k] /\ IsDigit(D[k])
      BY <1>4, <1>6 DEF InBase
    <3>3. PICK m \in 1 .. Len(text) : m = a + k
      BY <3>1
    <3>4. f[m] = f[m - 1] * base + Value(text[m])
      BY <3>2, <3>3, <1>7 DEF Follows
    <3>5. text[m] = D[k]
      BY <3>2, <3>3
    <3>6. f[a + k] = f[m] /\ f[a + k - 1] = f[m - 1] /\ Value(D[k]) = Value(text[m])
      <4>1. a + k = m /\ a + k - 1 = m - 1
        BY <3>3, <1>1
      <4>2. QED
        BY ONLY <4>1, <3>5
    <3>7. QED
      BY ONLY <3>4, <3>6
  <2>2. QED
    BY <2>1, <1>1, <1>6, <1>8 DEF Yields
<1>10. PICK j \in Nat : j = a + Len(D)
  <2>1. a + Len(D) \in Nat
    BY <1>1
  <2>2. QED
    BY <2>1
<1>11. f[Len(text)] = n
  <2>1. ASSUME NEW k \in j + 1 .. Len(text), f[k - 1] = n
        PROVE  f[k] = n
    <3>1. k \in 1 .. Len(text) /\ k > a + Len(D)
      BY <1>1, <1>10
    <3>2. text[k] = "blank"
      BY <3>1, <1>3
    <3>3. QED
      BY <3>1, <3>2, <2>1, <1>7, NoDigits DEF Follows
  <2>2. j <= Len(text) /\ f[j] = n
    BY <1>1, <1>9, <1>10
  <2>3. Holds(f, n, j, Len(text))
    BY <2>1 DEF Holds
  <2>4. QED
    BY <2>2, <2>3, <1>1, Unchanging
<1>12. j \in 1 .. Len(text) /\ i \in 1 .. Len(text) /\ i <= j /\ a < j
  BY <1>1, <1>10
<1>13. negative => i < j
  BY <1>1, <1>2, <1>12
<1>14. ASSUME NEW k \in 1 .. Len(text)
       PROVE  /\ k \notin i .. j => text[k] = "blank"
              /\ k \in i .. j /\ negative /\ k = i => text[k] = "-"
              /\ k \in i .. j /\ ~(negative /\ k = i) =>
                   IsDigit(text[k]) /\ Value(text[k]) < base
  <2>1. ASSUME k \notin i .. j
        PROVE  text[k] = "blank"
    <3>1. k < i \/ k > a + Len(D)
      BY <2>1, <1>1, <1>10
    <3>2. QED
      BY <3>1, <1>3
  <2>2. ASSUME negative, k = i
        PROVE  text[k] = "-"
    BY <2>2, <1>3
  <2>3. ASSUME k \in i .. j, ~(negative /\ k = i)
        PROVE  IsDigit(text[k]) /\ Value(text[k]) < base
    <3>1. CASE k <= a
      <4>1. text[k] = "0"
        <5>1. CASE k = i
          BY <5>1, <3>1, <2>3, <1>3
        <5>2. CASE k # i
          <6>1. i < k
            BY <5>2, <2>3, <1>1
          <6>2. QED
            BY <6>1, <3>1, <1>3
        <5>3. QED
          BY <5>1, <5>2
      <4>2. 0 < base
        BY <1>5
      <4>3. QED
        BY <4>1, <4>2, ZeroDigit
    <3>2. CASE k > a
      <4>1. PICK m \in 1 .. Len(D) : k = a + m
        <5>1. k - a \in 1 .. Len(D) /\ k = a + (k - a)
          BY <3>2, <2>3, <1>1, <1>10
        <5>2. QED
          BY <5>1
      <4>2. text[k] = D[m]
        BY <4>1, <1>4
      <4>3. QED
        BY <4>2, <1>6 DEF InBase
    <3>3. QED
      BY <3>1, <3>2, <1>1
  <2>4. QED
    BY <2>1, <2>2, <2>3
<1>15. QED
  BY <1>7, <1>11, <1>12, <1>13, <1>14

(* print_number writes a text of that shape, at least as wide as asked.    *)
LEMMA NumberShape ==
  ASSUME NEW flags, NEW width \in Nat, NEW conv \in DOMAIN Bases, NEW arg \in Int,
         NEW t, t = NumberText(flags, width, conv, arg),
         NEW D, D = Digits(Magnitude(conv = "d", arg), Bases[conv],
                           IF conv = "x" THEN Lower ELSE Upper)
  PROVE  /\ Len(t) \in Nat /\ Len(t) >= width
         /\ \E i, a : Shape(t, D, i, a, conv = "d" /\ arg < 0)
<1>1. D \in Seq(Chars) /\ Len(D) >= 1 /\ Len(D) \in Nat
  <2>1. Magnitude(conv = "d", arg) \in 0 .. Numbers - 1
    BY MagnitudeType
  <2>2. (IF conv = "x" THEN Lower ELSE Upper) \in {Lower, Upper}
    OBVIOUS
  <2>3. Bases[conv] \in {2, 8, 10, 16}
    BY DEF Bases
  <2>4. D \in Seq(Chars) /\ Len(D) >= 1
    BY <2>1, <2>2, <2>3, DigitsType
  <2>5. QED
    BY <2>4, LenProperties
<1>2. PICK negative : negative = (conv = "d" /\ arg < 0)
  OBVIOUS
<1>3. PICK M : M = IF conv = "d" /\ arg < 0 THEN <<"-">> ELSE <<>>
  OBVIOUS
<1>4. M \in Seq(Chars) /\ Len(M) \in Nat
  <2>1. "-" \in Chars
    BY DEF Chars
  <2>2. <<"-">> \in Seq(Chars) /\ <<>> \in Seq(Chars)
    BY <2>1
  <2>3. M \in Seq(Chars)
    BY <2>2, <1>3
  <2>4. QED
    BY <2>3, LenProperties
<1>5. negative => Len(M) = 1 /\ M[1] = "-"
  BY <1>2, <1>3
<1>6. ~negative => Len(M) = 0
  BY <1>2, <1>3
<1>7. PICK pad : pad = IF width > Len(D) + Len(M) THEN width - (Len(D) + Len(M)) ELSE 0
  OBVIOUS
<1>8. pad \in Nat /\ pad + Len(D) + Len(M) >= width
  <2>1. PICK d \in Nat, m \in Nat : d = Len(D) /\ m = Len(M)
    BY <1>1, <1>4
  <2>2. pad = IF width > d + m THEN width - (d + m) ELSE 0
    BY <2>1, <1>7
  <2>3. pad \in Nat /\ pad + d + m >= width
    BY ONLY <2>2, width \in Nat, d \in Nat, m \in Nat
  <2>4. QED
    BY <2>1, <2>3
<1>9. PICK zero : zero = ("ZEROPAD" \in flags /\ "LEFTALIGN" \notin flags)
  OBVIOUS
<1>10. PICK ch : ch = IF zero THEN "0" ELSE "blank"
  OBVIOUS
<1>11. PICK F : F = Copies(ch, pad)
  OBVIOUS
<1>12. F \in Seq(Chars) /\ Len(F) = pad /\ \A k \in 1 .. Len(F) : F[k] = ch
  <2>1. "0" \in Chars
    BY DigitChars DEF Lower
  <2>2. "blank" \in Chars
    BY DEF Chars
  <2>3. ch \in Chars
    BY <2>1, <2>2, <1>10
  <2>4. QED
    BY <2>3, <1>8, <1>11, CopiesFacts
<1>13. M \in Seq(Chars) /\ D \in Seq(Chars) /\ F \in Seq(Chars)
  BY <1>1, <1>4, <1>12
<1>14. Len(M) \in Nat /\ Len(D) \in Nat /\ Len(F) = pad
  BY <1>1, <1>4, <1>12
<1>15. t = IF "LEFTALIGN" \in flags THEN M \o D \o F
           ELSE IF zero THEN M \o F \o D
           ELSE F \o M \o D
  BY <1>3, <1>7, <1>9, <1>10, <1>11 DEF NumberText
<1>16. CASE "LEFTALIGN" \in flags
  <2>1. t = M \o D \o F
    BY <1>15, <1>16
  <2>2. ch = "blank"
    BY <1>9, <1>10, <1>16
  <2>3. \A k \in 1 .. Len(F) : F[k] = "blank"
    BY <2>2, <1>12
  <2>4. Shape(t, D, 1, Len(M), negative)
    BY <2>1, <2>3, <1>1, <1>4, <1>5, <1>6, <1>12, LeftShape
  <2>5. Len(t) = Len(M) + Len(D) + Len(F)
    BY ONLY <1>13, <2>1, Joined
  <2>6. Len(t) \in Nat /\ Len(t) >= width
    BY ONLY <2>5, <1>8, <1>14, width \in Nat
  <2>7. QED
    BY <2>4, <2>6, <1>2
<1>17. CASE "LEFTALIGN" \notin flags /\ zero
  <2>1. t = M \o F \o D
    BY <1>15, <1>17
  <2>2. ch = "0"
    BY <1>10, <1>17
  <2>3. \A k \in 1 .. Len(F) : F[k] = "0"
    BY <2>2, <1>12
  <2>4. Shape(t, D, 1, Len(M) + Len(F), negative)
    BY <2>1, <2>3, <1>1, <1>4, <1>5, <1>6, <1>12, ZeroShape
  <2>5. Len(t) = Len(M) + Len(F) + Len(D)
    BY ONLY <1>13, <2>1, Joined
  <2>6. Len(t) \in Nat /\ Len(t) >= width
    BY ONLY <2>5, <1>8, <1>14, width \in Nat
  <2>7. QED
    BY <2>4, <2>6, <1>2
<1>18. CASE "LEFTALIGN" \notin flags /\ ~zero
  <2>1. t = F \o M \o D
    BY <1>15, <1>18
  <2>2. ch = "blank"
    BY <1>10, <1>18
  <2>3. \A k \in 1 .. Len(F) : F[k] = "blank"
    BY <2>2, <1>12
  <2>4. Shape(t, D, Len(F) + 1, Len(F) + Len(M), negative)
    BY <2>1, <2>3, <1>1, <1>4, <1>5, <1>6, <1>12, RightShape
  <2>5. Len(t) = Len(F) + Len(M) + Len(D)
    BY ONLY <1>13, <2>1, Joined
  <2>6. Len(t) \in Nat /\ Len(t) >= width
    BY ONLY <2>5, <1>8, <1>14, width \in Nat
  <2>7. QED
    BY <2>4, <2>6, <1>2
<1>19. QED
  BY <1>16, <1>17, <1>18

Longs == -LLONG_MAX - 1 .. LLONG_MAX

(* The number whose digits are printed: the argument, its negation behind  *)
(* a sign, or what an unsigned conversion makes of it.                     *)
LEMMA MagnitudeValue ==
  ASSUME NEW sign \in BOOLEAN, NEW arg \in Longs
  PROVE  Magnitude(sign, arg) = IF ~sign THEN arg % Numbers
                                ELSE IF sign /\ arg < 0 THEN -arg ELSE arg
<1>1. LLONG_MAX \in Nat /\ Numbers \in Nat /\ Numbers = 2 * (LLONG_MAX + 1)
  BY SnprintfAssumption DEF Numbers
<1>2. ASSUME NEW x \in Nat, x < Numbers
      PROVE  x % Numbers = x
  <2>1. (0 * Numbers + x) % Numbers = x
    BY <1>1, <1>2, DivMod
  <2>2. 0 * Numbers + x = x
    BY <1>1
  <2>3. QED
    BY <2>1, <2>2
<1>3. CASE ~sign
  BY <1>3 DEF Magnitude, Unsigned
<1>4. CASE sign /\ arg < 0
  <2>1. -arg \in Nat /\ -arg < Numbers
    BY <1>1, <1>4 DEF Longs
  <2>2. (-arg) % Numbers = -arg
    BY <2>1, <1>2
  <2>3. QED
    BY <2>2, <1>4 DEF Magnitude, Unsigned
<1>5. CASE sign /\ ~(arg < 0)
  <2>1. arg \in Nat /\ arg < Numbers
    BY <1>1, <1>5 DEF Longs
  <2>2. arg % Numbers = arg
    BY <2>1, <1>2
  <2>3. QED
    BY <2>2, <1>5 DEF Magnitude, Unsigned
<1>6. QED
  BY <1>3, <1>4, <1>5

(* What ReadsBack says of the characters of a number.                      *)
ReadsAs(text, base, sign, negative, arg, width) ==
  /\ Len(text) >= width
  /\ Horner(text, base) = IF ~sign THEN arg % Numbers
                          ELSE IF negative THEN -arg ELSE arg
  /\ \E i, j \in 1 .. Len(text) :
       /\ IF negative THEN i < j ELSE i <= j
       /\ \A k \in 1 .. Len(text) :
            IF k \notin i .. j THEN text[k] = "blank"
            ELSE IF negative /\ k = i THEN text[k] = "-"
            ELSE IsDigit(text[k]) /\ Value(text[k]) < base

(* It holds of the text print_number makes.                                *)
LEMMA NumberReads ==
  ASSUME NEW flags, NEW width \in Nat, NEW conv \in DOMAIN Bases, NEW arg \in Longs,
         NEW t, t = NumberText(flags, width, conv, arg)
  PROVE  ReadsAs(t, Bases[conv], conv = "d", conv = "d" /\ arg < 0, arg, width)
<1>1. PICK sign, base, digits, negative :
        /\ sign = (conv = "d") /\ base = Bases[conv]
        /\ digits = IF conv = "x" THEN Lower ELSE Upper
        /\ negative = (sign /\ arg < 0)
  OBVIOUS
<1>2. sign \in BOOLEAN /\ digits \in {Lower, Upper}
  BY <1>1
<1>3. base \in {2, 8, 10, 16}
  BY <1>1 DEF Bases
<1>4. arg \in Int
  BY SnprintfAssumption DEF Longs
<1>5. PICK n : n = Magnitude(sign, arg)
  OBVIOUS
<1>6. n \in 0 .. Numbers - 1
  BY <1>2, <1>4, <1>5, MagnitudeType
<1>7. n = IF ~sign THEN arg % Numbers ELSE IF sign /\ arg < 0 THEN -arg ELSE arg
  BY <1>2, <1>5, MagnitudeValue
<1>8. PICK D : D = Digits(n, base, digits)
  OBVIOUS
<1>9. D = Digits(Magnitude(conv = "d", arg), Bases[conv],
                 IF conv = "x" THEN Lower ELSE Upper)
  BY <1>1, <1>5, <1>8
<1>10. /\ Len(t) \in Nat /\ Len(t) >= width
       /\ \E i, a : Shape(t, D, i, a, conv = "d" /\ arg < 0)
  BY <1>4, <1>9, NumberShape
<1>11. PICK i, a : Shape(t, D, i, a, negative)
  BY <1>1, <1>10
<1>12. /\ Horner(t, base) = n
       /\ \E j \in 1 .. Len(t) :
            /\ i \in 1 .. Len(t) /\ i <= j /\ (negative => i < j)
            /\ \A k \in 1 .. Len(t) :
                 /\ k \notin i .. j => t[k] = "blank"
                 /\ k \in i .. j /\ negative /\ k = i => t[k] = "-"
                 /\ k \in i .. j /\ ~(negative /\ k = i) =>
                      IsDigit(t[k]) /\ Value(t[k]) < base
  BY ONLY <1>2, <1>3, <1>6, <1>8, <1>11, TextRead
<1>13. PICK j \in 1 .. Len(t) :
         /\ i \in 1 .. Len(t) /\ i <= j /\ (negative => i < j)
         /\ \A k \in 1 .. Len(t) :
              /\ k \notin i .. j => t[k] = "blank"
              /\ k \in i .. j /\ negative /\ k = i => t[k] = "-"
              /\ k \in i .. j /\ ~(negative /\ k = i) =>
                   IsDigit(t[k]) /\ Value(t[k]) < base
  BY <1>12
<1>14. IF negative THEN i < j ELSE i <= j
  BY <1>13
<1>15. \A k \in 1 .. Len(t) :
         IF k \notin i .. j THEN t[k] = "blank"
         ELSE IF negative /\ k = i THEN t[k] = "-"
         ELSE IsDigit(t[k]) /\ Value(t[k]) < base
  BY <1>13
<1>16. \E x, y \in 1 .. Len(t) :
         /\ IF negative THEN x < y ELSE x <= y
         /\ \A k \in 1 .. Len(t) :
              IF k \notin x .. y THEN t[k] = "blank"
              ELSE IF negative /\ k = x THEN t[k] = "-"
              ELSE IsDigit(t[k]) /\ Value(t[k]) < base
  BY <1>13, <1>14, <1>15, Zenon
<1>17. ReadsAs(t, base, sign, negative, arg, width)
  <2>1. Horner(t, base) = IF ~sign THEN arg % Numbers
                          ELSE IF negative THEN -arg ELSE arg
    BY <1>1, <1>7, <1>12, Zenon
  <2>2. QED
    BY <2>1, <1>10, <1>16, Zenon DEF ReadsAs
<1>18. QED
  BY <1>1, <1>17

-----------------------------------------------------------------------------
(***************************************************************************)
(* The last number stays in its place.                                     *)
(***************************************************************************)
Placed(at, text) ==
  /\ at \in Nat /\ text \in Seq(Chars) /\ at + Len(text) <= buffer
  /\ at + Len(text) < limit => \A k \in 1 .. Len(text) : memory[at + k - 1] = text[k]

FieldOf(flags, width, conv, arg, at) ==
  [base |-> Bases[conv], sign |-> conv = "d", arg |-> arg, width |-> width,
   at |-> at, end |-> at + Len(NumberText(flags, width, conv, arg))]

(* The field recorded is the text of a number, and it is in the buffer     *)
(* when it fits.                                                           *)
FieldOK ==
  \/ field = NoField
  \/ field.end \in Nat /\ field.end >= limit
  \/ \E flags : \E width \in Nat, conv \in DOMAIN Bases, arg \in Longs, at \in Nat :
       /\ field = FieldOf(flags, width, conv, arg, at)
       /\ Placed(at, NumberText(flags, width, conv, arg))

(* What every step does to the bytes before the pointer.                   *)
Onward ==
  /\ limit' = limit /\ buffer' \in Nat /\ buffer' >= buffer
  /\ \A a \in Addresses : a < buffer /\ a < limit - 1 => memory'[a] = memory[a]

(* A number that was placed stays.                                         *)
LEMMA PlacedStays ==
  ASSUME IInv, Onward, NEW at, NEW text, Placed(at, text)
  PROVE  Placed(at, text)'
<1>1. /\ limit \in Nat /\ buffer \in Nat /\ limit' = limit
      /\ buffer' \in Nat /\ buffer' >= buffer
  BY Basics DEF Onward
<1>2. /\ at \in Nat /\ text \in Seq(Chars) /\ Len(text) \in Nat
      /\ at + Len(text) <= buffer
  BY LenProperties DEF Placed
<1>3. at + Len(text) <= buffer'
  BY <1>1, <1>2
<1>4. ASSUME at + Len(text) < limit, NEW k \in 1 .. Len(text)
      PROVE  memory'[at + k - 1] = text[k]
  <2>1. PICK x : x = at + k - 1
    OBVIOUS
  <2>2. x \in Addresses /\ x < buffer /\ x < limit - 1
    BY <2>1, <1>1, <1>2, <1>4 DEF Addresses
  <2>3. memory'[x] = memory[x]
    BY <2>2 DEF Onward
  <2>4. memory[at + k - 1] = text[k]
    BY <1>4 DEF Placed
  <2>5. QED
    BY <2>1, <2>3, <2>4
<1>5. QED
  BY <1>1, <1>2, <1>3, <1>4 DEF Placed

(* So does the field of a step that prints no number.                      *)
LEMMA FieldStays ==
  ASSUME IInv, FieldOK, Onward, field' = field
  PROVE  FieldOK'
<1>1. CASE field = NoField
  BY <1>1 DEF FieldOK
<1>2. CASE field.end \in Nat /\ field.end >= limit
  BY <1>2 DEF FieldOK, Onward
<1>3. CASE field # NoField /\ ~(field.end \in Nat /\ field.end >= limit)
  <2>1. PICK flags : \E width \in Nat, conv \in DOMAIN Bases, arg \in Longs, at \in Nat :
          /\ field = FieldOf(flags, width, conv, arg, at)
          /\ Placed(at, NumberText(flags, width, conv, arg))
    BY <1>3 DEF FieldOK
  <2>2. PICK width \in Nat, conv \in DOMAIN Bases, arg \in Longs, at \in Nat :
          /\ field = FieldOf(flags, width, conv, arg, at)
          /\ Placed(at, NumberText(flags, width, conv, arg))
    BY <2>1
  <2>3. Placed(at, NumberText(flags, width, conv, arg))'
    BY <2>2, PlacedStays
  <2>4. field' = FieldOf(flags, width, conv, arg, at)
    BY <2>2
  <2>5. QED
    BY <2>3, <2>4 DEF FieldOK
<1>4. QED
  BY <1>1, <1>2, <1>3

(* A store leaves what is before it alone.                                 *)
LEMMA PutBefore ==
  ASSUME NEW mem, NEW at, NEW s, NEW a \in DOMAIN mem, ~(at <= a)
  PROVE  a \in DOMAIN Put(mem, at, s) /\ Put(mem, at, s)[a] = mem[a]
  BY DEF Put

(* A character, a string and an unknown conversion.                        *)
LEMMA TextOnward ==
  ASSUME IInv, Literal \/ String \/ Char \/ Percent \/ Unknown
  PROVE  Onward /\ field' = field
<1>1. /\ limit \in Nat /\ buffer \in Nat /\ memory \in [Addresses -> Contents]
      /\ Addresses \subseteq Int /\ DOMAIN memory = Addresses
  BY Basics
<1>2. limit' = limit /\ field' = field
  BY DEF Literal, String, Char, Percent, Unknown, Item
<1>3. (\E s : memory' = Put(memory, buffer, s)) \/ memory' = memory
  <2>1. CASE Literal
    BY <2>1 DEF Literal
  <2>2. CASE String
    BY <2>2 DEF String
  <2>3. CASE Char
    BY <2>3 DEF Char, OneChar
  <2>4. CASE Percent
    BY <2>4 DEF Percent, OneChar
  <2>5. CASE Unknown
    BY <2>5 DEF Unknown
  <2>6. QED
    BY <2>1, <2>2, <2>3, <2>4, <2>5
<1>4. \E d \in Nat : buffer' = buffer + d
  <2>1. CASE Literal
    <3>1. buffer' = buffer + 1 \/ buffer' = buffer + 0
      BY <2>1, <1>1 DEF Literal
    <3>2. QED
      BY <3>1
  <2>2. CASE String
    <3>1. PICK own \in Strings : \E str \in Delivered(Pass("str", own), "str") :
            buffer' = buffer + Len(str) /\ late' = Tail(Pass("str", own))
      BY <2>2 DEF String
    <3>2. PICK str \in Delivered(Pass("str", own), "str") :
            buffer' = buffer + Len(str) /\ late' = Tail(Pass("str", own))
      BY <3>1
    <3>3. "str" \in DOMAIN Values /\ Values["str"] = Strings
      BY DEF Values
    <3>4. str \in Seq(Letters)
      BY <3>2, <3>3, Delivery, SnprintfAssumption
    <3>5. Len(str) \in Nat
      BY <3>4, LenProperties
    <3>6. QED
      BY <3>2, <3>5
  <2>3. CASE Char
    BY <2>3 DEF Char, OneChar
  <2>4. CASE Percent
    BY <2>4 DEF Percent, OneChar
  <2>5. CASE Unknown
    BY <2>5 DEF Unknown
  <2>6. QED
    BY <2>1, <2>2, <2>3, <2>4, <2>5
<1>5. buffer' \in Nat /\ buffer' >= buffer
  BY <1>1, <1>4
<1>6. ASSUME NEW a \in Addresses, a < buffer
      PROVE  memory'[a] = memory[a]
  <2>1. a \in DOMAIN memory /\ ~(buffer <= a)
    BY <1>1, <1>6
  <2>2. QED
    BY <2>1, <1>3, PutBefore
<1>7. QED
  BY <1>2, <1>5, <1>6 DEF Onward

(* %p: the prefix and the number are both behind the pointer.              *)
LEMMA PointerOnward ==
  ASSUME UINT_MAX \notin Widths, IInv, Pointer
  PROVE  Onward /\ field' = field
<1> DEFINE prefix == <<"0", "x">>
           at == IF buffer + 2 < limit THEN buffer + 2 ELSE buffer
           mem == IF buffer + 2 < limit THEN Put(memory, buffer, prefix) ELSE memory
<1>1. PICK f \in Directives, own \in LongArgs :
        \E arg \in Delivered(Pass("long", own), "long") :
          /\ print_number(mem, at, NumberText(f.flags, f.width, "p", arg))
          /\ late' = Tail(Pass("long", own))
  BY DEF Pointer
<1>2. PICK arg \in Delivered(Pass("long", own), "long") :
        /\ print_number(mem, at, NumberText(f.flags, f.width, "p", arg))
        /\ late' = Tail(Pass("long", own))
  BY <1>1
<1>3. limit' = limit /\ field' = field
  BY DEF Pointer, Item
<1>4. PICK text : text = NumberText(f.flags, f.width, "p", arg)
  OBVIOUS
<1>5. text \in Seq(Chars) /\ Len(text) \in Nat /\ Len(text) < UINT_MAX
  <2>1. f.width \in Nat /\ f.width < UINT_MAX
    BY DirectiveWidth
  <2>2. arg \in Int
    BY <1>2, IntegerValues, Delivery
  <2>3. "p" \in DOMAIN Bases
    BY DEF Bases
  <2>4. text \in Seq(Chars) /\ Len(text) < UINT_MAX
    BY <2>1, <2>2, <2>3, <1>4, NumberTextType
  <2>5. QED
    BY <2>4, LenProperties
<1>6. /\ limit \in Nat /\ buffer \in Nat /\ memory \in [Addresses -> Contents]
      /\ Addresses \subseteq Int
  BY Basics
<1>7. prefix \in Seq(Contents) /\ Len(prefix) = 2
  <2>1. "0" \in Chars
    BY DigitChars DEF Lower
  <2>2. "x" \in Chars
    BY DEF Chars
  <2>3. QED
    BY <2>1, <2>2, TwoType
<1> HIDE DEF prefix
<1>8. at \in Nat /\ at >= buffer
  BY <1>6
<1>9. /\ mem \in [Addresses -> Contents]
      /\ \A a \in Addresses : a < buffer => mem[a] = memory[a]
  <2>1. CASE buffer + 2 < limit
    <3>1. mem = Put(memory, buffer, prefix)
      BY <2>1
    <3>2. buffer + Len(prefix) <= limit
      BY <2>1, <1>6, <1>7
    <3> HIDE DEF mem
    <3>3. Inside(memory, buffer, prefix, mem)
      BY <3>1, <3>2, <1>6, <1>7, StoreInside
    <3>4. QED
      BY <3>3 DEF Inside
  <2>2. CASE ~(buffer + 2 < limit)
    BY <2>2, <1>6
  <2>3. QED
    BY <2>1, <2>2
<1> HIDE DEF mem, at
<1>10. print_number(mem, at, text)
  BY <1>2, <1>4
<1>11. /\ \A a \in Addresses :
            a < at \/ a \notin 0 .. limit - 1 => memory'[a] = mem[a]
       /\ buffer' = at + Len(text)
  BY <1>5, <1>8, <1>9, <1>10, PrintNumber
<1>12. buffer' \in Nat /\ buffer' >= buffer
  BY <1>5, <1>6, <1>8, <1>11
<1>13. ASSUME NEW a \in Addresses, a < buffer
       PROVE  memory'[a] = memory[a]
  <2>1. a < at
    BY <1>6, <1>8, <1>13
  <2>2. QED
    BY <2>1, <1>9, <1>11, <1>13
<1>14. QED
  BY <1>3, <1>12, <1>13 DEF Onward

(* The last terminator goes to the pointer or to the last byte.            *)
LEMMA ReturnOnward ==
  ASSUME IInv, Return
  PROVE  Onward /\ field' = field
<1>1. /\ limit \in Nat /\ limit >= 1 /\ buffer \in Nat
      /\ memory \in [Addresses -> Contents] /\ Addresses \subseteq Int
      /\ DOMAIN memory = Addresses
  BY Basics
<1>2. PICK end : end = IF buffer < limit THEN buffer ELSE limit - 1
  OBVIOUS
<1>3. /\ memory' = Put(memory, end, <<NUL>>) /\ buffer' = buffer /\ limit' = limit
      /\ field' = field
  BY <1>2 DEF Return
<1>4. ASSUME NEW a \in Addresses, a < buffer, a < limit - 1
      PROVE  memory'[a] = memory[a]
  <2>1. a \in DOMAIN memory /\ ~(end <= a)
    BY <1>1, <1>2, <1>4
  <2>2. QED
    BY <2>1, <1>3, PutBefore
<1>5. buffer' \in Nat /\ buffer' >= buffer
  BY <1>1, <1>3
<1>6. QED
  BY <1>3, <1>4, <1>5 DEF Onward

(* A number is recorded where it was put.                                  *)
LEMMA NumberPlaced ==
  ASSUME UINT_MAX \notin Widths, IInv, Number
  PROVE  FieldOK'
<1> DEFINE Recorded(f, conv, own, arg) ==
             /\ print_number(memory, buffer, NumberText(f.flags, f.width, conv, arg))
             /\ late' = Tail(Pass(ArgType(f.len), own))
             /\ field' = [base |-> Bases[conv], sign |-> conv = "d", arg |-> own,
                          width |-> f.width, at |-> buffer, end |-> buffer']
<1>1. PICK f \in Directives, conv \in DOMAIN Bases \ {"p"} :
        \E own \in Values[ArgType(f.len)] :
          \E arg \in Delivered(Pass(ArgType(f.len), own), ArgType(f.len)) :
            Recorded(f, conv, own, arg)
  BY DEF Number
<1>2. PICK own \in Values[ArgType(f.len)] :
        \E arg \in Delivered(Pass(ArgType(f.len), own), ArgType(f.len)) :
          Recorded(f, conv, own, arg)
  BY <1>1
<1>3. PICK arg \in Delivered(Pass(ArgType(f.len), own), ArgType(f.len)) :
        Recorded(f, conv, own, arg)
  BY <1>2
<1>4. limit' = limit
  BY DEF Number, Item
<1>5. PICK flags, width : flags = f.flags /\ width = f.width
  OBVIOUS
<1>6. width \in Nat /\ width < UINT_MAX
  BY <1>5, DirectiveWidth
<1>7. arg \in Values[ArgType(f.len)] /\ (late = <<>> => arg = own)
  BY <1>3, IntegerValues, Delivery
<1>8. arg \in Int /\ own \in Int
  BY <1>7, IntegerValues
<1>9. own \in Longs
  <2>1. /\ INT_MAX \in Nat /\ LLONG_MAX \in Nat /\ INT_MAX <= LLONG_MAX
        /\ IntArgs \subseteq -INT_MAX - 1 .. INT_MAX
        /\ LongArgs \subseteq -LLONG_MAX - 1 .. LLONG_MAX
    BY SnprintfAssumption
  <2>2. own \in IntArgs \/ own \in LongArgs
    BY DEF ArgType, Values
  <2>3. PICK lo \in Nat, hi \in Nat : lo = INT_MAX /\ hi = LLONG_MAX
    BY <2>1
  <2>4. own \in -lo - 1 .. lo \/ own \in -hi - 1 .. hi
    BY <2>1, <2>2, <2>3
  <2>5. lo <= hi
    BY <2>1, <2>3
  <2>6. own \in -hi - 1 .. hi
    BY ONLY <2>4, <2>5, lo \in Nat, hi \in Nat
  <2>7. QED
    BY <2>3, <2>6 DEF Longs
<1>10. PICK text : text = NumberText(flags, width, conv, arg)
  OBVIOUS
<1>11. text \in Seq(Chars) /\ Len(text) \in Nat /\ Len(text) < UINT_MAX
  <2>1. text \in Seq(Chars) /\ Len(text) < UINT_MAX
    BY <1>6, <1>8, <1>10, NumberTextType
  <2>2. QED
    BY <2>1, LenProperties
<1>12. PICK at \in Nat : at = buffer
  BY Basics
<1>13. print_number(memory, at, text)
  BY <1>3, <1>5, <1>10, <1>12
<1>14. /\ at + Len(text) < limit =>
            \A k \in 1 .. Len(text) : memory'[at + k - 1] = text[k]
       /\ buffer' = at + Len(text)
  <2> HIDE DEF Recorded
  <2>1. memory \in [Addresses -> Contents]
    BY Basics
  <2>2. QED
    BY <2>1, <1>11, <1>13, PrintNumber
<1>15. CASE late = <<>>
  <2>1. at + Len(text) <= buffer'
    BY <1>11, <1>14
  <2>2. Placed(at, text)'
    BY <2>1, <1>4, <1>11, <1>14 DEF Placed
  <2>3. text = NumberText(flags, width, conv, own)
    BY <1>7, <1>10, <1>15
  <2>4. field' = FieldOf(flags, width, conv, own, at)
    BY <2>3, <1>3, <1>5, <1>12, <1>14 DEF FieldOf
  <2>5. conv \in DOMAIN Bases
    OBVIOUS
  <2>6. QED
    BY <2>2, <2>3, <2>4, <2>5, <1>6, <1>9 DEF FieldOK
<1>16. CASE late # <<>>
  <2>1. buffer >= limit
    BY <1>16 DEF IInv, Counted
  <2>2. buffer' \in Nat /\ buffer' >= limit
    BY <2>1, <1>11, <1>12, <1>14, Basics
  <2>3. field'.end = buffer'
    BY <1>3
  <2>4. QED
    BY <2>2, <2>3, <1>4 DEF FieldOK
<1>17. QED
  BY <1>15, <1>16

(* A step keeps it.                                                        *)
LEMMA FieldKeeps ==
  ASSUME UINT_MAX \notin Widths, IInv, FieldOK, [Next]_vars
  PROVE  FieldOK'
<1>1. CASE Literal \/ String \/ Char \/ Percent \/ Unknown
  BY <1>1, TextOnward, FieldStays
<1>2. CASE Number
  BY <1>2, NumberPlaced
<1>3. CASE Pointer
  BY <1>3, PointerOnward, FieldStays
<1>4. CASE Return
  BY <1>4, ReturnOnward, FieldStays
<1>5. CASE UNCHANGED vars
  <2>1. Onward /\ field' = field
    <3>1. /\ limit' = limit /\ buffer' = buffer /\ memory' = memory /\ field' = field
      BY <1>5 DEF vars
    <3>2. buffer' \in Nat /\ buffer' >= buffer
      BY <3>1, Basics
    <3>3. QED
      BY <3>1, <3>2 DEF Onward
  <2>2. QED
    BY <2>1, FieldStays
<1>6. QED
  BY <1>1, <1>2, <1>3, <1>4, <1>5 DEF Next

(* A number in its place reads back.                                       *)
LEMMA PlacedReads == IInv /\ FieldOK => ReadsBack
<1> SUFFICES ASSUME IInv, FieldOK, field # NoField, field.end < limit
             PROVE  ReadsAs(Bytes(field.at, field.end), field.base, field.sign,
                            field.sign /\ field.arg < 0, field.arg, field.width)
  BY Zenon DEF ReadsBack, ReadsAs
<1>1. ~(field.end \in Nat /\ field.end >= limit)
  BY Basics
<1>2. PICK flags : \E width \in Nat, conv \in DOMAIN Bases, arg \in Longs, at \in Nat :
        /\ field = FieldOf(flags, width, conv, arg, at)
        /\ Placed(at, NumberText(flags, width, conv, arg))
  BY <1>1 DEF FieldOK
<1>3. PICK width \in Nat, conv \in DOMAIN Bases, arg \in Longs, at \in Nat :
        /\ field = FieldOf(flags, width, conv, arg, at)
        /\ Placed(at, NumberText(flags, width, conv, arg))
  BY <1>2
<1>4. PICK text : text = NumberText(flags, width, conv, arg)
  OBVIOUS
<1>5. /\ field.base = Bases[conv] /\ field.sign = (conv = "d") /\ field.arg = arg
      /\ field.width = width /\ field.at = at /\ field.end = at + Len(text)
  BY <1>3, <1>4 DEF FieldOf
<1>6. Placed(at, text)
  BY <1>3, <1>4
<1>7. text \in Seq(Chars) /\ Len(text) \in Nat
  BY <1>6, LenProperties DEF Placed
<1>8. \A k \in 1 .. Len(text) : memory[at + k - 1] = text[k]
  BY <1>5, <1>6 DEF Placed
<1>9. Bytes(at, at + Len(text)) = text
  <2>1. (at + Len(text)) - at = Len(text)
    BY <1>7
  <2>2. Bytes(at, at + Len(text)) = [k \in 1 .. Len(text) |-> memory[at + k - 1]]
    BY <2>1 DEF Bytes
  <2>3. text = [k \in 1 .. Len(text) |-> text[k]]
    BY <1>7, LenProperties
  <2>4. QED
    BY <2>2, <2>3, <1>8
<1>10. ReadsAs(text, Bases[conv], conv = "d", conv = "d" /\ arg < 0, arg, width)
  BY <1>4, NumberReads
<1>11. QED
  BY <1>5, <1>9, <1>10

(* A number that fits in the buffer reads back as its argument, in its     *)
(* base and with its sign, and as wide as the format asks: what            *)
(* print_number computes from the remainders, the sign and the padding.    *)
THEOREM NumbersReadBack ==
  ASSUME UINT_MAX \notin Widths
  PROVE  Spec => []ReadsBack
<1>1. Init => FieldOK
  BY DEF Init, FieldOK
<1>2. IInv /\ FieldOK /\ [Next]_vars => FieldOK'
  BY FieldKeeps
<1>3. IInv /\ FieldOK => ReadsBack
  BY PlacedReads
<1>4. QED
  BY <1>1, <1>2, <1>3, SnprintfInvariant, PTL DEF Spec
=============================================================================
