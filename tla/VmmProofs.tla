----------------------------- MODULE VmmProofs ------------------------------
(***************************************************************************)
(* Proofs about the virtual memory manager (module Vmm), for any number of *)
(* levels, entries, frames, pages and address spaces.                      *)
(*                                                                         *)
(* Every theorem supposes that kernel_mm.pml4 is initial_pml4, as the      *)
(* comment of init_kernel_mm says.  The code does not make it so, and run  *)
(* vmm_kernel_half shows that the first swap_mm then resets the machine:   *)
(* the theorems are about the tables and the frames of a kernel that gets  *)
(* further.  KernelMapped, which only repeats the supposition for CR3, is  *)
(* a part of the invariant and no theorem.                                 *)
(*                                                                         *)
(* None of the properties is inductive: they are about what is found by    *)
(* following entries from the roots.  The invariant says the same from the *)
(* other side.  There is a placing of the frames, which gives each one the *)
(* address space that owns it, its level, and the entry that points to it; *)
(* tables then are trees because a frame has one place.  free_page_table   *)
(* leaves entries of freed frames behind, so the places of entries it has  *)
(* passed count no longer, except for the tables it is in.                 *)
(***************************************************************************)
EXTENDS Vmm, CommonLemmas, FiniteSetTheorems

-----------------------------------------------------------------------------
(***************************************************************************)
(* Recursion downwards over levels.                                        *)
(***************************************************************************)
(* f runs down from level n + 1, where it is a, to level k.                *)
Runs(f, n, k, a, G) ==
  f = [j \in k .. n + 1 |-> IF j = n + 1 THEN a ELSE G[j][f[j + 1]]]

(* Such a function exists for every k, and keeps within D.                 *)
LEMMA RunsExist ==
  ASSUME NEW n \in Nat, NEW D, NEW a \in D, NEW G,
         \A j \in 0 .. n, x \in D : G[j][x] \in D,
         NEW k \in 0 .. n + 1
  PROVE  \E f \in [k .. n + 1 -> D] : Runs(f, n, k, a, G)
<1> DEFINE Good(m) == \E f \in [m .. n + 1 -> D] : Runs(f, n, m, a, G)
           Bad == {m \in 0 .. n + 1 : ~Good(n + 1 - m)}
<1>1. ASSUME Bad # {}
      PROVE  FALSE
  <2>1. Bad \subseteq Nat
    OBVIOUS
  <2>2. PICK m \in Bad : \A i \in Bad : m <= i
    <3> HIDE DEF Bad
    <3>1. QED
      BY <1>1, <2>1, LeastElement
  <2>3. m # 0
    <3> DEFINE f == [j \in n + 1 .. n + 1 |-> a]
    <3>1. f \in [n + 1 .. n + 1 -> D]
      OBVIOUS
    <3>2. f = [j \in n + 1 .. n + 1 |-> IF j = n + 1 THEN a ELSE G[j][f[j + 1]]]
      OBVIOUS
    <3>3. Good(n + 1)
      BY <3>1, <3>2 DEF Runs
    <3>4. n + 1 - 0 = n + 1
      OBVIOUS
    <3>5. QED
      BY <2>2, <3>3, <3>4
  <2> DEFINE l == n + 1 - m
  <2>4. l \in 0 .. n /\ n + 1 - (m - 1) = l + 1 /\ m - 1 \in 0 .. n + 1
    BY <2>2, <2>3
  <2>5. m - 1 \notin Bad
    BY <2>2, <2>4
  <2>6. Good(l + 1) /\ ~Good(l)
    BY <2>2, <2>4, <2>5
  <2> HIDE DEF l
  <2>7. PICK f \in [l + 1 .. n + 1 -> D] : Runs(f, n, l + 1, a, G)
    BY <2>6
  <2> DEFINE g == [j \in l .. n + 1 |-> IF j = l THEN G[l][f[l + 1]] ELSE f[j]]
  <2>8. G[l][f[l + 1]] \in D
    BY <2>4
  <2>9. g \in [l .. n + 1 -> D]
    BY <2>4, <2>8
  <2>10. ASSUME NEW j \in l .. n + 1
         PROVE  g[j] = IF j = n + 1 THEN a ELSE G[j][g[j + 1]]
    <3>1. CASE j = l
      <4>1. j + 1 \in l .. n + 1 /\ j # n + 1 /\ j + 1 # l
        BY <3>1, <2>4
      <4>2. QED
        BY <3>1, <4>1
    <3>2. CASE j # l
      <4>1. j \in l + 1 .. n + 1
        BY <3>2, <2>4
      <4>2. f[j] = IF j = n + 1 THEN a ELSE G[j][f[j + 1]]
        BY <4>1, <2>7 DEF Runs
      <4>3. j # n + 1 => j + 1 \in l .. n + 1 /\ j + 1 # l
        BY <4>1, <2>4
      <4>4. QED
        BY <3>2, <4>2, <4>3
    <3>3. QED
      BY <3>1, <3>2
  <2>11. g = [j \in l .. n + 1 |-> g[j]]
    OBVIOUS
  <2> HIDE DEF g
  <2>12. Runs(g, n, l, a, G)
    BY <2>10, <2>11 DEF Runs
  <2>13. QED
    BY <2>6, <2>9, <2>12
<1>2. n + 1 - k \in 0 .. n + 1 /\ n + 1 - (n + 1 - k) = k
  OBVIOUS
<1>3. QED
  BY <1>1, <1>2

-----------------------------------------------------------------------------
(***************************************************************************)
(* Walks, with the memory as a parameter.                                  *)
(***************************************************************************)
Entries == Frames \cup {NoFrame, BootPdpt, Junk}
Memory  == [Tables -> [Index -> Entries]]
Places  == Entries \cup Tables

Descends(f, M, t, v, l) ==
  f = [j \in l .. Top + 1 |->
         IF j = Top + 1 THEN t
         ELSE IF f[j + 1] \in Tables THEN M[f[j + 1]][v[j]] ELSE NoFrame]

WalkIn(M, t, v, l) == (CHOOSE f : Descends(f, M, t, v, l))[l]

(* Walk in the present memory.                                             *)
LEMMA WalkNow ==
  ASSUME NEW t, NEW v, NEW l
  PROVE  Walk(t, v, l) = WalkIn(mem, t, v, l)
  BY DEF Walk, WalkIn, Descends

(* Paths of the kernel's half are no pages: a path is one of the other.    *)
Paths == {v \in [Levels -> Index] : v[Top] < KernelHalf}

(* Top, Fanout and KernelHalf are natural numbers in the right order.      *)
LEMMA Sizes ==
  /\ Top \in Nat /\ Top >= 1 /\ Fanout \in Nat /\ KernelHalf \in Nat
  /\ KernelHalf < Fanout
  /\ \A l \in Levels : l \in 0 .. Top + 1 /\ l + 1 \in 0 .. Top + 1
  BY VmmAssumption DEF Index, Levels

(* The walk's recursion has a solution.                                    *)
LEMMA DescendsExist ==
  ASSUME NEW M \in Memory, NEW t \in Places, NEW v \in [Levels -> Index],
         NEW l \in 0 .. Top + 1
  PROVE  \E f \in [l .. Top + 1 -> Places] : Descends(f, M, t, v, l)
<1> DEFINE Step1(j, x) == IF x \in Tables THEN M[x][v[j]] ELSE NoFrame
           G == [j \in 0 .. Top |-> [x \in Places |-> Step1(j, x)]]
<1>1. \A j \in 0 .. Top, x \in Places : G[j][x] = Step1(j, x) /\ G[j][x] \in Places
  BY DEF Memory, Entries, Places, Levels
<1> HIDE DEF G
<1>2. Top \in Nat
  BY Sizes
<1>3. \E f \in [l .. Top + 1 -> Places] : Runs(f, Top, l, t, G)
  BY <1>1, <1>2, RunsExist
<1>4. PICK f \in [l .. Top + 1 -> Places] : Runs(f, Top, l, t, G)
  BY <1>3
<1>5. ASSUME NEW j \in l .. Top + 1, j # Top + 1
      PROVE  G[j][f[j + 1]] = Step1(j, f[j + 1])
  <2>1. j \in 0 .. Top /\ j + 1 \in l .. Top + 1
    BY <1>2, <1>5
  <2>2. QED
    BY <2>1, <1>1
<1>6. Descends(f, M, t, v, l)
  BY <1>4, <1>5 DEF Runs, Descends
<1>7. QED
  BY <1>6

(* Two solutions agree where both are defined.                             *)
LEMMA DescendsAgree ==
  ASSUME NEW M, NEW t, NEW v, NEW f, NEW h,
         NEW l \in 0 .. Top + 1, NEW k \in 0 .. Top + 1,
         Descends(f, M, t, v, l), Descends(h, M, t, v, k),
         NEW j \in 0 .. Top + 1, j >= l, j >= k
  PROVE  f[j] = h[j]
<1>1. Top \in Nat
  BY Sizes
<1> DEFINE Bad == {m \in 0 .. Top + 1 : /\ Top + 1 - m >= l /\ Top + 1 - m >= k
                                        /\ f[Top + 1 - m] # h[Top + 1 - m]}
<1>2. ASSUME Bad # {}
      PROVE  FALSE
  <2>1. Bad \subseteq Nat
    BY <1>1
  <2>2. PICK m \in Bad : \A i \in Bad : m <= i
    <3> HIDE DEF Bad
    <3>1. QED
      BY <1>2, <2>1, LeastElement
  <2> DEFINE n == Top + 1 - m
  <2>3. n \in l .. Top + 1 /\ n \in k .. Top + 1 /\ f[n] # h[n] /\ m \in 0 .. Top + 1
    BY <1>1, <2>2
  <2>4. CASE m = 0
    <3>1. n = Top + 1
      BY <2>4, <1>1
    <3>2. QED
      BY <3>1, <2>3 DEF Descends
  <2>5. CASE m # 0
    <3>1. n # Top + 1 /\ m - 1 \in 0 .. Top + 1 /\ Top + 1 - (m - 1) = n + 1
      BY <2>5, <2>3, <1>1
    <3>2. m - 1 \notin Bad
      BY <2>2, <2>3, <3>1
    <3>3. f[n + 1] = h[n + 1]
      BY <3>1, <3>2, <2>3, <1>1
    <3> HIDE DEF n
    <3>4. f[n] = IF f[n + 1] \in Tables THEN M[f[n + 1]][v[n]] ELSE NoFrame
      BY <3>1, <2>3 DEF Descends
    <3>5. h[n] = IF h[n + 1] \in Tables THEN M[h[n + 1]][v[n]] ELSE NoFrame
      BY <3>1, <2>3 DEF Descends
    <3>6. QED
      BY <3>3, <3>4, <3>5, <2>3
  <2>6. QED
    BY <2>4, <2>5
<1>3. Top + 1 - j \in 0 .. Top + 1 /\ Top + 1 - (Top + 1 - j) = j
  BY <1>1
<1>4. QED
  BY <1>2, <1>3

(* A walk, one level at a time.                                            *)
LEMMA WalkStep ==
  ASSUME NEW M \in Memory, NEW t \in Places, NEW v \in [Levels -> Index]
  PROVE  /\ WalkIn(M, t, v, Top + 1) = t
         /\ \A l \in Levels :
              WalkIn(M, t, v, l) = IF WalkIn(M, t, v, l + 1) \in Tables
                                   THEN M[WalkIn(M, t, v, l + 1)][v[l]] ELSE NoFrame
<1>1. Top \in Nat /\ Top + 1 \in 0 .. Top + 1
  BY Sizes
<1> DEFINE at(l) == CHOOSE f : Descends(f, M, t, v, l)
<1>2. \A l \in 0 .. Top + 1 : Descends(at(l), M, t, v, l)
  BY DescendsExist
<1>3. \A l : WalkIn(M, t, v, l) = at(l)[l]
  BY DEF WalkIn
<1> HIDE DEF at
<1>4. at(Top + 1)[Top + 1] = t
  <2>1. Descends(at(Top + 1), M, t, v, Top + 1)
    BY <1>1, <1>2
  <2>2. Top + 1 \in Top + 1 .. Top + 1
    BY <1>1
  <2>3. QED
    BY <2>1, <2>2 DEF Descends
<1>5. ASSUME NEW l \in Levels
      PROVE  at(l)[l] = IF at(l + 1)[l + 1] \in Tables
                        THEN M[at(l + 1)[l + 1]][v[l]] ELSE NoFrame
  <2>1. /\ l \in 0 .. Top + 1 /\ l + 1 \in 0 .. Top + 1 /\ l + 1 >= l /\ l + 1 >= l + 1
        /\ l \in l .. Top + 1 /\ l # Top + 1
    BY <1>1 DEF Levels
  <2>2. Descends(at(l), M, t, v, l) /\ Descends(at(l + 1), M, t, v, l + 1)
    BY <1>2, <2>1
  <2>3. at(l)[l + 1] = at(l + 1)[l + 1]
    BY <2>1, <2>2, DescendsAgree
  <2>4. at(l)[l] = IF at(l)[l + 1] \in Tables THEN M[at(l)[l + 1]][v[l]] ELSE NoFrame
    BY <2>1, <2>2 DEF Descends
  <2>5. QED
    BY <2>3, <2>4
<1>6. QED
  BY <1>3, <1>4, <1>5

(* What a walk finds is a frame or one of the special values.              *)
LEMMA WalkType ==
  ASSUME NEW M \in Memory, NEW t \in Places, NEW v \in [Levels -> Index],
         NEW l \in 0 .. Top + 1
  PROVE  WalkIn(M, t, v, l) \in Places
<1>1. CASE l = Top + 1
  BY <1>1, WalkStep
<1>2. CASE l # Top + 1
  <2>1. l \in Levels
    BY <1>2, Sizes DEF Levels
  <2>2. WalkIn(M, t, v, l) = IF WalkIn(M, t, v, l + 1) \in Tables
                             THEN M[WalkIn(M, t, v, l + 1)][v[l]] ELSE NoFrame
    BY <2>1, WalkStep
  <2>3. QED
    BY <2>1, <2>2 DEF Memory, Entries, Places
<1>3. QED
  BY <1>1, <1>2

(* A statement about every level that holds at the top and goes down.      *)
LEMMA DownTo ==
  ASSUME NEW S, NEW k \in 0 .. Top + 1, Top + 1 \in S,
         \A l \in k .. Top : l + 1 \in S => l \in S
  PROVE  \A l \in k .. Top + 1 : l \in S
<1>1. Top \in Nat
  BY Sizes
<1> DEFINE Bad == {m \in 0 .. Top + 1 : Top + 1 - m >= k /\ Top + 1 - m \notin S}
<1>2. ASSUME Bad # {}
      PROVE  FALSE
  <2>1. Bad \subseteq Nat
    BY <1>1
  <2>2. PICK m \in Bad : \A i \in Bad : m <= i
    <3> HIDE DEF Bad
    <3>1. QED
      BY <1>2, <2>1, LeastElement
  <2> DEFINE n == Top + 1 - m
  <2>3. n \in k .. Top + 1 /\ n \notin S /\ m \in 0 .. Top + 1
    BY <1>1, <2>2
  <2>4. m # 0
    BY <2>3, <1>1
  <2>5. n \in k .. Top /\ m - 1 \in 0 .. Top + 1 /\ Top + 1 - (m - 1) = n + 1
    BY <2>4, <2>3, <1>1
  <2>6. m - 1 \notin Bad
    BY <2>2, <2>3, <2>5
  <2>7. n + 1 \in S
    BY <2>5, <2>6, <1>1
  <2>8. QED
    BY <2>3, <2>5, <2>7
<1>3. ASSUME NEW l \in k .. Top + 1
      PROVE  l \in S
  <2>1. PICK m \in 0 .. Top + 1 : Top + 1 - m = l
    <3>1. Top + 1 - l \in 0 .. Top + 1 /\ Top + 1 - (Top + 1 - l) = l
      BY <1>1
    <3>2. QED
      BY <3>1
  <2>2. m \notin Bad
    BY <1>2
  <2>3. QED
    BY <2>1, <2>2, <1>1
<1>4. QED
  BY <1>3

(* A walk that meets no changed entry down to level k finds the same.      *)
LEMMA WalkSame ==
  ASSUME NEW M \in Memory, NEW N \in Memory, NEW t \in Places,
         NEW v \in [Levels -> Index], NEW k \in 0 .. Top + 1,
         \A l \in k .. Top :
           WalkIn(M, t, v, l + 1) \in Tables =>
             N[WalkIn(M, t, v, l + 1)][v[l]] = M[WalkIn(M, t, v, l + 1)][v[l]]
  PROVE  \A l \in k .. Top + 1 : WalkIn(N, t, v, l) = WalkIn(M, t, v, l)
<1>1. Top \in Nat
  BY Sizes
<1> DEFINE S == {l \in 0 .. Top + 1 : WalkIn(N, t, v, l) = WalkIn(M, t, v, l)}
<1>2. Top + 1 \in S
  BY <1>1, WalkStep
<1>3. ASSUME NEW l \in k .. Top, l + 1 \in S
      PROVE  l \in S
  <2>1. l \in Levels /\ l \in 0 .. Top + 1
    BY <1>1 DEF Levels
  <2>2. WalkIn(N, t, v, l) = IF WalkIn(N, t, v, l + 1) \in Tables
                             THEN N[WalkIn(N, t, v, l + 1)][v[l]] ELSE NoFrame
    BY <2>1, WalkStep
  <2>3. WalkIn(M, t, v, l) = IF WalkIn(M, t, v, l + 1) \in Tables
                             THEN M[WalkIn(M, t, v, l + 1)][v[l]] ELSE NoFrame
    BY <2>1, WalkStep
  <2>4. QED
    BY <1>3, <2>1, <2>2, <2>3
<1> HIDE DEF S
<1>4. \A l \in k .. Top + 1 : l \in S
  BY <1>2, <1>3, DownTo
<1>5. QED
  BY <1>4 DEF S

(* A walk that has met a clear entry stays there.                          *)
LEMMA WalkStops ==
  ASSUME NEW M \in Memory, NEW t \in Places, NEW v \in [Levels -> Index],
         NEW k \in 0 .. Top, WalkIn(M, t, v, k) = NoFrame
  PROVE  WalkIn(M, t, v, 0) = NoFrame
<1>1. Top \in Nat /\ NoFrame \notin Tables
  BY Sizes, VmmAssumption
<1> DEFINE S == {l \in 0 .. Top + 1 : l <= k => WalkIn(M, t, v, l) = NoFrame}
<1>2. Top + 1 \in S
  BY <1>1
<1>3. ASSUME NEW l \in 0 .. Top, l + 1 \in S
      PROVE  l \in S
  <2>1. CASE l < k
    <3>1. l + 1 <= k /\ l \in Levels
      BY <1>1, <2>1 DEF Levels
    <3>2. WalkIn(M, t, v, l + 1) = NoFrame
      BY <3>1, <1>3
    <3>3. WalkIn(M, t, v, l) = NoFrame
      BY <3>1, <3>2, <1>1, WalkStep
    <3>4. QED
      BY <3>3, <1>1
  <2>2. CASE l = k
    BY <2>2, <1>1
  <2>3. CASE l > k
    BY <2>3, <1>1
  <2>4. QED
    BY <2>1, <2>2, <2>3, <1>1
<1> HIDE DEF S
<1>4. \A l \in 0 .. Top + 1 : l \in S
  BY <1>1, <1>2, <1>3, DownTo
<1>5. 0 \in S
  BY <1>1, <1>4
<1>6. QED
  BY <1>5 DEF S

-----------------------------------------------------------------------------
(***************************************************************************)
(* The inductive invariant.                                                *)
(***************************************************************************)
(* Where every frame is: the address space that owns it, its level there   *)
(* (-1 for the frame of a page), and the table and the entry that point    *)
(* to it.                                                                  *)
Placing ==
  [own : [Frames -> Mms \cup {NoMm}], rank : [Frames -> -1 .. Top],
   up : [Frames -> Frames], slot : [Frames -> Index]]

IsTable(g, t) == g.own[t] # NoMm /\ g.rank[t] >= 0

IsChild(g, t, i, f) ==
  /\ f \in Frames
  /\ g.own[f] = g.own[t] /\ g.rank[f] = g.rank[t] - 1
  /\ g.up[f] = t /\ g.slot[f] = i
  /\ g.rank[t] = Top => i < KernelHalf

(* A table's entries that are not in X point to what is placed below them, *)
(* or to initial_pdpt in the kernel's half.                                *)
Downwards(g, M, K, X) ==
  \A t \in Frames, i \in Index :
    IsTable(g, t) /\ <<t, i>> \notin X =>
      \/ M[t][i] = NoFrame
      \/ IsChild(g, t, i, M[t][i])
      \/ /\ M[t][i] = BootPdpt /\ g.own[t] \in K
         /\ g.rank[t] = Top /\ i >= KernelHalf

(* What an address space owns hangs from an entry of a table it owns; that *)
(* entry may be in X only for a frame of C.                                *)
Upwards(g, M, X, C) ==
  \A f \in Frames :
    g.own[f] # NoMm /\ g.rank[f] < Top =>
      /\ g.own[g.up[f]] = g.own[f] /\ g.rank[g.up[f]] = g.rank[f] + 1
      /\ M[g.up[f]][g.slot[f]] = f
      /\ <<g.up[f], g.slot[f]>> \in X => f \in C

(* The entries free_page_table is through with, and the tables it is in.   *)
PassedBy(s) == {x \in Frames \X Index :
                  \E k \in 1 .. Len(s) : s[k][1] = x[1] /\ x[2] < s[k][2]}
OnStack(s)  == {f \in Frames : \E k \in 1 .. Len(s) : s[k][1] = f}

Gone(m) == op = "delete" /\ m = mm

(* An mm owns the table it names, until free_page_table has freed it.      *)
Roots(g) ==
  /\ \A m \in Live :
       IF Gone(m) /\ stack = << >> THEN g.own[pml4[m]] # m
       ELSE g.own[pml4[m]] = m /\ g.rank[pml4[m]] = Top
  /\ \A f \in Frames :
       g.own[f] # NoMm /\ g.rank[f] = Top => pml4[g.own[f]] = f

Owners(g) ==
  \A f \in Frames :
    /\ g.own[f] = NoMm <=> f \in free \cup heap \cup loose
    /\ g.own[f] # NoMm => g.own[f] \in Live

(* The frame of a page is the frame of one of the callers' pages.          *)
Reached(g) ==
  \A f \in Frames :
    g.own[f] # NoMm /\ g.rank[f] = -1 /\ ~Gone(g.own[f]) =>
      \E v \in Pages : WalkIn(mem, pml4[g.own[f]], v, 0) = f

(* map_page is in the table that the walk to its page reaches.             *)
Mapping(g) ==
  op = "map" =>
    /\ mm \in Live /\ page \in Pages /\ frame \in loose
    /\ table \in Frames /\ g.own[table] = mm /\ g.rank[table] = level
    /\ WalkIn(mem, pml4[mm], page, level + 1) = table

(* free_page_table's calls are in tables that hang from one another.       *)
Deleting(g) ==
  op = "delete" =>
    /\ mm \in Live /\ mm # current_mm
    /\ Len(stack) <= Top + 1
    /\ \A k \in 1 .. Len(stack) :
         g.own[stack[k][1]] = mm /\ g.rank[stack[k][1]] = Depth + k - 1
    /\ \A k \in 2 .. Len(stack) :
         /\ g.up[stack[k - 1][1]] = stack[k][1]
         /\ g.slot[stack[k - 1][1]] < stack[k][2]

Forest(g) ==
  /\ Downwards(g, mem, kernel, PassedBy(stack))
  /\ Upwards(g, mem, PassedBy(stack), OnStack(stack))
  /\ Roots(g) /\ Owners(g) /\ Reached(g) /\ Mapping(g) /\ Deleting(g)

(* The heap's pages hold as many struct mm as there are, or room for them. *)
Counted ==
  /\ IsFiniteSet(Live)
  /\ room + Cardinality(Live) = PerPage * Cardinality(heap)

BootTable == [i \in Index |-> IF i \in {0, KernelHalf} THEN BootPdpt ELSE NoFrame]

KernelGiven ==
  \A m \in kernel, i \in KernelHalf .. Fanout - 1 :
    ~Gone(m) => mem[pml4[m]][i] = mem[Boot][i]

Apart == free \cap heap = {} /\ free \cap loose = {} /\ heap \cap loose = {}

(* TlbCoherent, in terms of WalkIn.                                        *)
Cached == \A x \in tlb : WalkIn(mem, cr3, x[1], 0) = x[2] \/ x[1] \in dropped

(* What holds also when the kernel has stopped.                            *)
CpuOK ==
  /\ KernelMapped /\ DeletesOwn /\ Cached
  /\ current_mm = NoMm => tlb = {}

(* What holds while it runs, and how its frames are placed.                *)
KernelOK ==
  /\ mem[Boot] = BootTable /\ kernel \subseteq Live /\ Apart
  /\ op # "delete" => stack = << >>
  /\ Counted /\ KernelGiven

Placed == \E g \in Placing : Forest(g)

IInv == TypeOK /\ CpuOK /\ (op \notin Stopped => KernelOK /\ Placed)

-----------------------------------------------------------------------------
(***************************************************************************)
(* Walks in a placing.                                                     *)
(***************************************************************************)
(* r is the root of the tables of m, none of whose entries is in X.        *)
TreeOf(g, M, K, X, m, r) ==
  /\ Downwards(g, M, K, X)
  /\ m \in Mms /\ r \in Frames /\ g.own[r] = m /\ g.rank[r] = Top
  /\ \A t \in Frames, i \in Index : <<t, i>> \in X => g.own[t] # m

(* Frames, tables and the special values are apart, and what the fields of *)
(* a placing are.                                                          *)
LEMMA Special ==
  /\ Frames \subseteq Tables /\ Frames \subseteq Places /\ Frames \subseteq Entries
  /\ NoFrame \in Places /\ NoFrame \notin Tables /\ BootPdpt \notin Tables
  /\ Junk \notin Tables /\ BootPdpt # NoFrame /\ Junk # NoFrame /\ Junk # BootPdpt
  /\ Boot \notin Frames /\ Boot \in Places /\ NoFrame \notin Frames
  /\ NoFrame \in Entries /\ NoMm \notin Mms
  /\ Paths \subseteq [Levels -> Index] /\ Pages \subseteq Paths
  BY VmmAssumption DEF Tables, Places, Entries, Paths

(* A page's index at a level.                                              *)
LEMMA PathIndex ==
  ASSUME NEW v \in Paths, NEW l \in Levels
  PROVE  v[l] \in Index /\ (l = Top => v[l] < KernelHalf) /\ v \in [Levels -> Index]
  BY DEF Paths

(* One step of a walk in a tree: the entry is clear or points to a child.  *)
LEMMA TreeStep ==
  ASSUME NEW g \in Placing, NEW M \in Memory, NEW K, NEW X, NEW m, NEW r,
         TreeOf(g, M, K, X, m, r), NEW v \in Paths, NEW l \in Levels,
         NEW t \in Frames, g.own[t] = m, g.rank[t] = l,
         WalkIn(M, r, v, l + 1) = t
  PROVE  /\ WalkIn(M, r, v, l) = M[t][v[l]]
         /\ WalkIn(M, r, v, l) = NoFrame \/ IsChild(g, t, v[l], WalkIn(M, r, v, l))
<1>1. v[l] \in Index /\ (l = Top => v[l] < KernelHalf) /\ v \in [Levels -> Index]
  BY PathIndex
<1>2. r \in Places /\ t \in Tables /\ m # NoMm /\ l >= 0
  BY Special, Sizes DEF TreeOf, Levels
<1>3. WalkIn(M, r, v, l) = M[t][v[l]]
  BY <1>1, <1>2, WalkStep
<1>4. IsTable(g, t) /\ <<t, v[l]>> \notin X
  BY <1>1, <1>2 DEF IsTable, TreeOf
<1>5. \/ M[t][v[l]] = NoFrame
      \/ IsChild(g, t, v[l], M[t][v[l]])
      \/ M[t][v[l]] = BootPdpt /\ g.rank[t] = Top /\ v[l] >= KernelHalf
  BY <1>1, <1>4 DEF Downwards, TreeOf
<1>6. ~(g.rank[t] = Top /\ v[l] >= KernelHalf)
  BY <1>1, Sizes DEF Index
<1>7. QED
  BY <1>3, <1>5, <1>6

(* A walk from the root of m stays in what m owns, one level at a time.    *)
LEMMA WalkPlaced ==
  ASSUME NEW g \in Placing, NEW M \in Memory, NEW K, NEW X, NEW m, NEW r,
         TreeOf(g, M, K, X, m, r), NEW v \in Paths
  PROVE  \A l \in 0 .. Top + 1 :
           \/ WalkIn(M, r, v, l) = NoFrame
           \/ /\ WalkIn(M, r, v, l) \in Frames
              /\ g.own[WalkIn(M, r, v, l)] = m /\ g.rank[WalkIn(M, r, v, l)] = l - 1
<1> DEFINE w(l) == WalkIn(M, r, v, l)
           S == {l \in 0 .. Top + 1 :
                   w(l) = NoFrame \/ (w(l) \in Frames /\ g.own[w(l)] = m /\ g.rank[w(l)] = l - 1)}
<1>1. Top \in Nat /\ v \in [Levels -> Index] /\ r \in Places /\ 0 \in 0 .. Top + 1
  BY Sizes, Special DEF TreeOf
<1>2. Top + 1 \in S
  <2>1. PICK n \in 0 .. Top + 1 : n = Top + 1 /\ n - 1 = Top
    BY <1>1
  <2>2. w(Top + 1) = r
    BY <1>1, WalkStep
  <2>3. w(n) = r
    BY <2>1, <2>2
  <2>4. n \in S
    BY <2>1, <2>3 DEF TreeOf
  <2>5. QED
    BY <2>1, <2>4
<1>3. ASSUME NEW l \in 0 .. Top, l + 1 \in S
      PROVE  l \in S
  <2>1. l \in Levels /\ l \in 0 .. Top + 1 /\ l + 1 - 1 = l
    BY <1>1 DEF Levels
  <2>2. CASE w(l + 1) = NoFrame
    <3>1. w(l) = NoFrame
      BY <1>1, <2>1, <2>2, WalkStep, Special
    <3>2. QED
      BY <3>1, <2>1
  <2>3. CASE w(l + 1) # NoFrame
    <3>1. w(l + 1) \in Frames /\ g.own[w(l + 1)] = m /\ g.rank[w(l + 1)] = l
      BY <1>3, <2>1, <2>3
    <3>2. w(l) = NoFrame \/ IsChild(g, w(l + 1), v[l], w(l))
      BY <3>1, <2>1, TreeStep
    <3>3. QED
      BY <3>1, <3>2, <2>1 DEF IsChild
  <2>4. QED
    BY <2>2, <2>3
<1> HIDE DEF S
<1>4. \A l \in 0 .. Top + 1 : l \in S
  BY <1>1, <1>2, <1>3, DownTo
<1>5. QED
  BY <1>4 DEF S

(* A frame that a walk finds hangs from the table the walk found before.   *)
LEMMA WalkChild ==
  ASSUME NEW g \in Placing, NEW M \in Memory, NEW K, NEW X, NEW m, NEW r,
         TreeOf(g, M, K, X, m, r), NEW v \in Paths, NEW l \in Levels,
         WalkIn(M, r, v, l) # NoFrame
  PROVE  /\ WalkIn(M, r, v, l + 1) \in Frames
         /\ g.own[WalkIn(M, r, v, l + 1)] = m
         /\ g.rank[WalkIn(M, r, v, l + 1)] = l
         /\ WalkIn(M, r, v, l) = M[WalkIn(M, r, v, l + 1)][v[l]]
         /\ IsChild(g, WalkIn(M, r, v, l + 1), v[l], WalkIn(M, r, v, l))
<1> DEFINE t == WalkIn(M, r, v, l + 1)
<1>1. l + 1 \in 0 .. Top + 1 /\ l + 1 - 1 = l
  BY Sizes DEF Levels
<1>2. t # NoFrame
  BY WalkStep, Special DEF TreeOf
<1>3. t \in Frames /\ g.own[t] = m /\ g.rank[t] = l
  <2>0. PICK k \in 0 .. Top + 1 : k - 1 = l /\ k = l + 1
    BY Sizes DEF Levels
  <2>3. t = WalkIn(M, r, v, k)
    BY <2>0
  <2> HIDE DEF t
  <2>1. t = NoFrame \/ (t \in Frames /\ g.own[t] = m /\ g.rank[t] = k - 1)
    BY <2>3, WalkPlaced
  <2>2. QED
    BY <2>0, <2>1, <1>2
<1>4. /\ WalkIn(M, r, v, l) = M[t][v[l]]
      /\ WalkIn(M, r, v, l) = NoFrame \/ IsChild(g, t, v[l], WalkIn(M, r, v, l))
  BY <1>3, TreeStep
<1>5. QED
  BY <1>3, <1>4

(* Two pages whose walks meet agree so far.                                *)
LEMMA WalkUnique ==
  ASSUME NEW g \in Placing, NEW M \in Memory, NEW K, NEW X, NEW m, NEW r,
         TreeOf(g, M, K, X, m, r), NEW v \in Paths, NEW u \in Paths,
         NEW k \in 0 .. Top + 1,
         WalkIn(M, r, v, k) = WalkIn(M, r, u, k), WalkIn(M, r, v, k) # NoFrame
  PROVE  \A j \in k .. Top : v[j] = u[j]
<1> DEFINE w(l) == WalkIn(M, r, v, l)
           x(l) == WalkIn(M, r, u, l)
           S == {l \in 0 .. Top + 1 :
                   w(l) = x(l) /\ w(l) # NoFrame => \A j \in l .. Top : v[j] = u[j]}
<1>1. Top \in Nat /\ 0 \in 0 .. Top + 1
  BY Sizes
<1>2. Top + 1 \in S
  <2>1. Top + 1 \in 0 .. Top + 1 /\ \A j \in Top + 1 .. Top : v[j] = u[j]
    BY <1>1
  <2>2. QED
    BY <2>1, Zenon
<1>3. ASSUME NEW l \in 0 .. Top, l + 1 \in S
      PROVE  l \in S
  <2>1. l \in Levels /\ l \in 0 .. Top + 1
    BY <1>1 DEF Levels
  <2>2. SUFFICES ASSUME w(l) = x(l), w(l) # NoFrame
                 PROVE  \A j \in l .. Top : v[j] = u[j]
    BY <2>1
  <2>3. w(l + 1) \in Frames /\ IsChild(g, w(l + 1), v[l], w(l))
    BY <2>1, <2>2, WalkChild
  <2>4. IsChild(g, x(l + 1), u[l], x(l))
    BY <2>1, <2>2, WalkChild
  <2>5. w(l + 1) = x(l + 1) /\ v[l] = u[l] /\ w(l + 1) # NoFrame
    BY <2>2, <2>3, <2>4, Special DEF IsChild
  <2>6. \A j \in l + 1 .. Top : v[j] = u[j]
    BY <2>5, <1>3
  <2>7. QED
    BY <2>5, <2>6, <1>1
<1> HIDE DEF S
<1>4. \A l \in 0 .. Top + 1 : l \in S
  BY <1>1, <1>2, <1>3, DownTo
<1>5. QED
  BY <1>4 DEF S

-----------------------------------------------------------------------------
(***************************************************************************)
(* Changes of a placing.                                                   *)
(***************************************************************************)
Put(g, f, m, l, t, i) ==
  [own |-> [g.own EXCEPT ![f] = m], rank |-> [g.rank EXCEPT ![f] = l],
   up |-> [g.up EXCEPT ![f] = t], slot |-> [g.slot EXCEPT ![f] = i]]

Take(g, f) ==
  [own |-> [g.own EXCEPT ![f] = NoMm], rank |-> g.rank, up |-> g.up, slot |-> g.slot]

SamePlace(g, h, x) ==
  /\ h.own[x] = g.own[x] /\ h.rank[x] = g.rank[x]
  /\ h.up[x] = g.up[x] /\ h.slot[x] = g.slot[x]

(* The fields of a placing.                                                *)
LEMMA PlacingFields ==
  ASSUME NEW g \in Placing, NEW f \in Frames
  PROVE  /\ g.own[f] \in Mms \cup {NoMm} /\ g.rank[f] \in -1 .. Top
         /\ g.up[f] \in Frames /\ g.slot[f] \in Index
  BY DEF Placing

(* Put places one frame.                                                   *)
LEMMA PutFields ==
  ASSUME NEW g \in Placing, NEW f \in Frames, NEW m \in Mms \cup {NoMm},
         NEW l \in -1 .. Top, NEW t \in Frames, NEW i \in Index
  PROVE  /\ Put(g, f, m, l, t, i) \in Placing
         /\ Put(g, f, m, l, t, i).own[f] = m /\ Put(g, f, m, l, t, i).rank[f] = l
         /\ Put(g, f, m, l, t, i).up[f] = t /\ Put(g, f, m, l, t, i).slot[f] = i
         /\ \A x \in Frames : x # f => SamePlace(g, Put(g, f, m, l, t, i), x)
  BY DEF Put, Placing, SamePlace

(* Take gives one frame back.                                              *)
LEMMA TakeFields ==
  ASSUME NEW g \in Placing, NEW f \in Frames
  PROVE  /\ Take(g, f) \in Placing /\ Take(g, f).own[f] = NoMm
         /\ \A x \in Frames : x # f => SamePlace(g, Take(g, f), x)
  BY DEF Take, Placing, SamePlace

(* The entries of tables other than entry i of t are the same.             *)
SameElsewhere(g, M, N, t, i) ==
  \A x \in Frames, j \in Index :
    g.own[x] # NoMm /\ <<x, j>> # <<t, i>> => N[x][j] = M[x][j]

(* A frame that nobody owned now hangs from the clear entry i of t; if it  *)
(* is a table, its entries are clear.                                      *)
Attaching(g, h, M, N, f, t, i) ==
  /\ g.own[f] = NoMm /\ IsTable(g, t) /\ (g.rank[t] = Top => i < KernelHalf)
  /\ M[t][i] = NoFrame /\ N[t][i] = f /\ SameElsewhere(g, M, N, t, i)
  /\ g.rank[t] > 0 => \A j \in Index : N[f][j] = NoFrame
  /\ h.own[f] = g.own[t] /\ h.rank[f] = g.rank[t] - 1 /\ h.up[f] = t /\ h.slot[f] = i
  /\ \A x \in Frames : x # f => SamePlace(g, h, x)

(* The tables are in order with that frame in them.                        *)
LEMMA Attach ==
  ASSUME NEW g \in Placing, NEW h \in Placing, NEW M, NEW N, NEW K,
         Downwards(g, M, K, {}), Upwards(g, M, {}, {}),
         NEW f \in Frames, NEW t \in Frames, NEW i \in Index,
         Attaching(g, h, M, N, f, t, i)
  PROVE  Downwards(h, N, K, {}) /\ Upwards(h, N, {}, {})
<1> USE DEF Attaching
<1>1. Top \in Nat /\ NoFrame \notin Frames
  BY Sizes, Special
<1>2. t # f /\ SamePlace(g, h, t) /\ g.rank[t] \in -1 .. Top
  BY PlacingFields DEF IsTable
<1>3. ASSUME NEW x \in Frames, NEW j \in Index, IsTable(h, x)
      PROVE  \/ N[x][j] = NoFrame
             \/ IsChild(h, x, j, N[x][j])
             \/ /\ N[x][j] = BootPdpt /\ h.own[x] \in K
                /\ h.rank[x] = Top /\ j >= KernelHalf
  <2>1. CASE x = f
    BY <1>1, <1>2, <1>3, <2>1 DEF IsTable
  <2>2. CASE x # f /\ <<x, j>> = <<t, i>>
    BY <1>2, <2>2 DEF IsChild, SamePlace
  <2>3. CASE x # f /\ <<x, j>> # <<t, i>>
    <3>1. SamePlace(g, h, x) /\ IsTable(g, x)
      BY <1>3, <2>3 DEF IsTable, SamePlace
    <3>2. N[x][j] = M[x][j]
      BY <2>3, <3>1 DEF SameElsewhere, IsTable
    <3>3. \/ M[x][j] = NoFrame
          \/ IsChild(g, x, j, M[x][j])
          \/ /\ M[x][j] = BootPdpt /\ g.own[x] \in K
             /\ g.rank[x] = Top /\ j >= KernelHalf
      BY <3>1 DEF Downwards
    <3>4. ASSUME IsChild(g, x, j, M[x][j])
          PROVE  IsChild(h, x, j, M[x][j])
      <4>1. M[x][j] \in Frames /\ M[x][j] # f
        BY <3>1, <3>4 DEF IsChild, IsTable
      <4>2. QED
        BY <3>1, <3>4, <4>1 DEF IsChild, SamePlace
    <3>5. QED
      BY <3>1, <3>2, <3>3, <3>4 DEF SamePlace
  <2>4. QED
    BY <2>1, <2>2, <2>3
<1>4. ASSUME NEW y \in Frames, h.own[y] # NoMm, h.rank[y] < Top
      PROVE  /\ h.own[h.up[y]] = h.own[y] /\ h.rank[h.up[y]] = h.rank[y] + 1
             /\ N[h.up[y]][h.slot[y]] = y
  <2>1. CASE y = f
    BY <1>2, <2>1 DEF SamePlace
  <2>2. CASE y # f
    <3>1. SamePlace(g, h, y) /\ g.up[y] \in Frames /\ g.slot[y] \in Index
      BY <2>2, PlacingFields
    <3>2. /\ g.own[g.up[y]] = g.own[y] /\ g.rank[g.up[y]] = g.rank[y] + 1
          /\ M[g.up[y]][g.slot[y]] = y /\ g.own[y] # NoMm
      BY <1>4, <3>1 DEF Upwards, SamePlace
    <3>3. g.up[y] # f /\ SamePlace(g, h, g.up[y])
      BY <3>1, <3>2
    <3>4. <<g.up[y], g.slot[y]>> # <<t, i>>
      BY <3>2, <1>1
    <3>5. N[g.up[y]][g.slot[y]] = y
      BY <3>1, <3>2, <3>4 DEF SameElsewhere
    <3>6. QED
      BY <3>1, <3>2, <3>3, <3>5 DEF SamePlace
  <2>3. QED
    BY <2>1, <2>2
<1>5. QED
  BY <1>3, <1>4 DEF Downwards, Upwards

(* The frame of a page that hung from entry i of t has been given back;    *)
(* the entry is clear.                                                     *)
Detaching(g, h, M, N, f, t, i) ==
  /\ M[t][i] = f /\ IsChild(g, t, i, f) /\ g.rank[f] = -1
  /\ N[t][i] = NoFrame /\ SameElsewhere(g, M, N, t, i)
  /\ h.own[f] = NoMm /\ \A x \in Frames : x # f => SamePlace(g, h, x)

(* The tables are in order without that frame.                             *)
LEMMA Detach ==
  ASSUME NEW g \in Placing, NEW h \in Placing, NEW M, NEW N, NEW K,
         Downwards(g, M, K, {}), Upwards(g, M, {}, {}),
         NEW f \in Frames, NEW t \in Frames, NEW i \in Index,
         Detaching(g, h, M, N, f, t, i)
  PROVE  Downwards(h, N, K, {}) /\ Upwards(h, N, {}, {})
<1> USE DEF Detaching
<1>1. Top \in Nat /\ NoFrame \notin Frames
  BY Sizes, Special
<1>2. ASSUME NEW x \in Frames, NEW j \in Index, IsTable(h, x)
      PROVE  \/ N[x][j] = NoFrame
             \/ IsChild(h, x, j, N[x][j])
             \/ /\ N[x][j] = BootPdpt /\ h.own[x] \in K
                /\ h.rank[x] = Top /\ j >= KernelHalf
  <2>1. x # f
    BY <1>2 DEF IsTable
  <2>2. CASE <<x, j>> = <<t, i>>
    BY <2>2
  <2>3. CASE <<x, j>> # <<t, i>>
    <3>1. SamePlace(g, h, x) /\ IsTable(g, x)
      BY <1>2, <2>1 DEF IsTable, SamePlace
    <3>2. N[x][j] = M[x][j]
      BY <2>3, <3>1 DEF SameElsewhere, IsTable
    <3>3. \/ M[x][j] = NoFrame
          \/ IsChild(g, x, j, M[x][j])
          \/ /\ M[x][j] = BootPdpt /\ g.own[x] \in K
             /\ g.rank[x] = Top /\ j >= KernelHalf
      BY <3>1 DEF Downwards
    <3>4. ASSUME IsChild(g, x, j, M[x][j])
          PROVE  IsChild(h, x, j, M[x][j])
      <4>1. M[x][j] \in Frames /\ M[x][j] # f
        BY <2>3, <3>4 DEF IsChild
      <4>2. QED
        BY <3>1, <3>4, <4>1 DEF IsChild, SamePlace
    <3>5. QED
      BY <3>1, <3>2, <3>3, <3>4 DEF SamePlace
  <2>4. QED
    BY <2>2, <2>3
<1>3. ASSUME NEW y \in Frames, h.own[y] # NoMm, h.rank[y] < Top
      PROVE  /\ h.own[h.up[y]] = h.own[y] /\ h.rank[h.up[y]] = h.rank[y] + 1
             /\ N[h.up[y]][h.slot[y]] = y
  <2>1. y # f
    BY <1>3
  <2>2. /\ SamePlace(g, h, y) /\ g.up[y] \in Frames /\ g.slot[y] \in Index
        /\ g.rank[y] \in -1 .. Top
    BY <2>1, PlacingFields
  <2>3. /\ g.own[g.up[y]] = g.own[y] /\ g.rank[g.up[y]] = g.rank[y] + 1
        /\ M[g.up[y]][g.slot[y]] = y /\ g.own[y] # NoMm
    BY <1>3, <2>2 DEF Upwards, SamePlace
  <2>4. g.up[y] # f /\ SamePlace(g, h, g.up[y])
    BY <2>2, <2>3
  <2>5. <<g.up[y], g.slot[y]>> # <<t, i>>
    BY <2>1, <2>3
  <2>6. N[g.up[y]][g.slot[y]] = y
    BY <2>2, <2>3, <2>5 DEF SameElsewhere
  <2>7. QED
    BY <2>2, <2>3, <2>4, <2>6 DEF SamePlace
<1>4. QED
  BY <1>2, <1>3 DEF Downwards, Upwards

(* A frame that nobody owned is the clear root of m's tables.              *)
LEMMA Plant ==
  ASSUME NEW g \in Placing, NEW h \in Placing, NEW M, NEW N, NEW K,
         Downwards(g, M, K, {}), Upwards(g, M, {}, {}),
         NEW t \in Frames, g.own[t] = NoMm,
         \A j \in Index : N[t][j] = NoFrame,
         \A x \in Frames : x # t => N[x] = M[x],
         h.rank[t] = Top,
         \A x \in Frames : x # t => SamePlace(g, h, x)
  PROVE  Downwards(h, N, K, {}) /\ Upwards(h, N, {}, {})
<1>1. ASSUME NEW x \in Frames, NEW j \in Index, IsTable(h, x)
      PROVE  \/ N[x][j] = NoFrame
             \/ IsChild(h, x, j, N[x][j])
             \/ /\ N[x][j] = BootPdpt /\ h.own[x] \in K
                /\ h.rank[x] = Top /\ j >= KernelHalf
  <2>1. CASE x = t
    BY <2>1
  <2>2. CASE x # t
    <3>1. SamePlace(g, h, x) /\ IsTable(g, x) /\ N[x] = M[x]
      BY <1>1, <2>2 DEF IsTable, SamePlace
    <3>2. \/ M[x][j] = NoFrame
          \/ IsChild(g, x, j, M[x][j])
          \/ /\ M[x][j] = BootPdpt /\ g.own[x] \in K
             /\ g.rank[x] = Top /\ j >= KernelHalf
      BY <3>1 DEF Downwards
    <3>3. ASSUME IsChild(g, x, j, M[x][j])
          PROVE  IsChild(h, x, j, M[x][j])
      <4>1. M[x][j] \in Frames /\ M[x][j] # t
        BY <3>1, <3>3 DEF IsChild, IsTable
      <4>2. QED
        BY <3>1, <3>3, <4>1 DEF IsChild, SamePlace
    <3>4. QED
      BY <3>1, <3>2, <3>3 DEF SamePlace
  <2>3. QED
    BY <2>1, <2>2
<1>2. ASSUME NEW y \in Frames, h.own[y] # NoMm, h.rank[y] < Top
      PROVE  /\ h.own[h.up[y]] = h.own[y] /\ h.rank[h.up[y]] = h.rank[y] + 1
             /\ N[h.up[y]][h.slot[y]] = y
  <2>1. y # t
    BY <1>2, Sizes
  <2>2. SamePlace(g, h, y) /\ g.up[y] \in Frames
    BY <2>1, PlacingFields
  <2>3. /\ g.own[g.up[y]] = g.own[y] /\ g.rank[g.up[y]] = g.rank[y] + 1
        /\ M[g.up[y]][g.slot[y]] = y /\ g.own[y] # NoMm
    BY <1>2, <2>2 DEF Upwards, SamePlace
  <2>4. g.up[y] # t
    BY <2>3
  <2>5. SamePlace(g, h, g.up[y]) /\ N[g.up[y]] = M[g.up[y]]
    BY <2>2, <2>4
  <2>6. QED
    BY <2>2, <2>3, <2>5 DEF SamePlace
<1>3. QED
  BY <1>1, <1>2 DEF Downwards, Upwards

(* The root r of m has been given the kernel's half.                       *)
LEMMA GiveKernel ==
  ASSUME NEW g \in Placing, NEW M, NEW N, NEW K, NEW L,
         Downwards(g, M, K, {}), Upwards(g, M, {}, {}),
         NEW r \in Frames, g.own[r] \in L, g.rank[r] = Top, K \subseteq L,
         \A x \in Frames : x # r => N[x] = M[x],
         \A j \in Index : j < KernelHalf => N[r][j] = M[r][j],
         \A j \in Index : j >= KernelHalf => N[r][j] \in {NoFrame, BootPdpt}
  PROVE  Downwards(g, N, L, {}) /\ Upwards(g, N, {}, {})
<1>1. /\ Top \in Nat /\ KernelHalf \in Nat /\ Index \subseteq Nat
      /\ NoFrame \notin Frames /\ BootPdpt \notin Frames
  BY Sizes, Special DEF Index
<1>2. ASSUME NEW x \in Frames, NEW j \in Index, IsTable(g, x)
      PROVE  \/ N[x][j] = NoFrame
             \/ IsChild(g, x, j, N[x][j])
             \/ /\ N[x][j] = BootPdpt /\ g.own[x] \in L
                /\ g.rank[x] = Top /\ j >= KernelHalf
  <2>1. \/ M[x][j] = NoFrame
        \/ IsChild(g, x, j, M[x][j])
        \/ /\ M[x][j] = BootPdpt /\ g.own[x] \in L
           /\ g.rank[x] = Top /\ j >= KernelHalf
    BY <1>2 DEF Downwards
  <2>2. CASE N[x][j] = M[x][j]
    BY <2>1, <2>2
  <2>3. CASE x = r /\ j >= KernelHalf
    BY <2>3
  <2>4. QED
    BY <2>2, <2>3, <1>1
<1>3. ASSUME NEW y \in Frames, g.own[y] # NoMm, g.rank[y] < Top
      PROVE  /\ g.own[g.up[y]] = g.own[y] /\ g.rank[g.up[y]] = g.rank[y] + 1
             /\ N[g.up[y]][g.slot[y]] = y
  <2> DEFINE t == g.up[y]
             i == g.slot[y]
  <2>1. t \in Frames /\ i \in Index /\ g.rank[y] \in -1 .. Top
    BY PlacingFields
  <2>2. g.own[t] = g.own[y] /\ g.rank[t] = g.rank[y] + 1 /\ M[t][i] = y
    BY <1>3 DEF Upwards
  <2>3. IsTable(g, t)
    BY <1>1, <1>3, <2>1, <2>2 DEF IsTable
  <2>4. IsChild(g, t, i, M[t][i])
    <3>1. M[t][i] \in Frames /\ M[t][i] # NoFrame /\ M[t][i] # BootPdpt
      BY <2>2, <1>1
    <3>2. \/ M[t][i] = NoFrame \/ M[t][i] = BootPdpt \/ IsChild(g, t, i, M[t][i])
      <4>1. <<t, i>> \notin {}
        OBVIOUS
      <4> HIDE DEF t, i
      <4>2. QED
        BY <2>1, <2>3, <4>1 DEF Downwards
    <3>3. QED
      BY <3>1, <3>2
  <2>5. N[t][i] = M[t][i]
    <3>1. CASE t = r
      BY <3>1, <2>1, <2>4 DEF IsChild
    <3>2. CASE t # r
      BY <3>2, <2>1
    <3>3. QED
      BY <3>1, <3>2
  <2>6. QED
    BY <2>2, <2>5
<1>4. QED
  BY <1>2, <1>3 DEF Downwards, Upwards

-----------------------------------------------------------------------------
(***************************************************************************)
(* Steps of free_page_table.                                               *)
(***************************************************************************)
(* A clear entry has been passed.                                          *)
LEMMA PassClear ==
  ASSUME NEW g, NEW M, NEW K, NEW X, NEW C, NEW t, NEW i, M[t][i] = NoFrame,
         Downwards(g, M, K, X), Upwards(g, M, X, C)
  PROVE  Downwards(g, M, K, X \cup {<<t, i>>}) /\ Upwards(g, M, X \cup {<<t, i>>}, C)
<1>1. NoFrame \notin Frames
  BY Special
<1>2. Downwards(g, M, K, X \cup {<<t, i>>})
  BY DEF Downwards
<1>3. ASSUME NEW y \in Frames, g.own[y] # NoMm, g.rank[y] < Top,
             <<g.up[y], g.slot[y]>> = <<t, i>>
      PROVE  FALSE
  BY <1>1, <1>3 DEF Upwards
<1>4. QED
  BY <1>2, <1>3 DEF Upwards

(* The entry of the table to be descended into has been passed.            *)
LEMMA PassTable ==
  ASSUME NEW g, NEW M, NEW K, NEW X, NEW C, NEW t, NEW i,
         Downwards(g, M, K, X), Upwards(g, M, X, C)
  PROVE  /\ Downwards(g, M, K, X \cup {<<t, i>>})
         /\ Upwards(g, M, X \cup {<<t, i>>}, C \cup {M[t][i]})
<1>1. Downwards(g, M, K, X \cup {<<t, i>>})
  BY DEF Downwards
<1>2. ASSUME NEW y \in Frames, g.own[y] # NoMm, g.rank[y] < Top,
             <<g.up[y], g.slot[y]>> = <<t, i>>
      PROVE  y = M[t][i]
  BY <1>2 DEF Upwards
<1>3. QED
  BY <1>1, <1>2 DEF Upwards

(* The frame of a page has been given back, its entry passed.              *)
LEMMA PassPage ==
  ASSUME NEW g \in Placing, NEW h \in Placing, NEW M, NEW K, NEW X, NEW C,
         NEW t \in Frames, NEW i \in Index, NEW f \in Frames, M[t][i] = f,
         Downwards(g, M, K, X), Upwards(g, M, X, C),
         IsChild(g, t, i, f), g.rank[f] = -1,
         h.own[f] = NoMm, \A x \in Frames : x # f => SamePlace(g, h, x)
  PROVE  /\ Downwards(h, M, K, X \cup {<<t, i>>})
         /\ Upwards(h, M, X \cup {<<t, i>>}, C)
<1>1. Top \in Nat
  BY Sizes
<1>2. ASSUME NEW x \in Frames, NEW j \in Index, IsTable(h, x),
             <<x, j>> \notin X \cup {<<t, i>>}
      PROVE  \/ M[x][j] = NoFrame
             \/ IsChild(h, x, j, M[x][j])
             \/ /\ M[x][j] = BootPdpt /\ h.own[x] \in K
                /\ h.rank[x] = Top /\ j >= KernelHalf
  <2>1. SamePlace(g, h, x) /\ IsTable(g, x)
    BY <1>2 DEF IsTable, SamePlace
  <2>2. \/ M[x][j] = NoFrame
        \/ IsChild(g, x, j, M[x][j])
        \/ /\ M[x][j] = BootPdpt /\ g.own[x] \in K
           /\ g.rank[x] = Top /\ j >= KernelHalf
    BY <1>2, <2>1 DEF Downwards
  <2>3. ASSUME IsChild(g, x, j, M[x][j])
        PROVE  IsChild(h, x, j, M[x][j])
    <3>1. M[x][j] \in Frames /\ M[x][j] # f
      BY <1>2, <2>3 DEF IsChild
    <3>2. QED
      BY <2>1, <2>3, <3>1 DEF IsChild, SamePlace
  <2>4. QED
    BY <2>1, <2>2, <2>3 DEF SamePlace
<1>3. ASSUME NEW y \in Frames, h.own[y] # NoMm, h.rank[y] < Top
      PROVE  /\ h.own[h.up[y]] = h.own[y] /\ h.rank[h.up[y]] = h.rank[y] + 1
             /\ M[h.up[y]][h.slot[y]] = y
             /\ <<h.up[y], h.slot[y]>> \in X \cup {<<t, i>>} => y \in C
  <2>1. y # f
    BY <1>3
  <2>2. /\ SamePlace(g, h, y) /\ g.up[y] \in Frames /\ g.slot[y] \in Index
        /\ g.rank[y] \in -1 .. Top
    BY <2>1, PlacingFields
  <2>3. /\ g.own[g.up[y]] = g.own[y] /\ g.rank[g.up[y]] = g.rank[y] + 1
        /\ M[g.up[y]][g.slot[y]] = y /\ g.own[y] # NoMm
        /\ <<g.up[y], g.slot[y]>> \in X => y \in C
    BY <1>3, <2>2 DEF Upwards, SamePlace
  <2>4. g.up[y] # f /\ SamePlace(g, h, g.up[y])
    BY <2>2, <2>3
  <2>5. <<g.up[y], g.slot[y]>> # <<t, i>>
    BY <2>1, <2>3
  <2>6. QED
    BY <2>2, <2>3, <2>4, <2>5 DEF SamePlace
<1>4. QED
  BY <1>2, <1>3 DEF Downwards, Upwards

(* The table t, all of whose entries are in X, is given back: X becomes Y, *)
(* C becomes B.                                                            *)
Dropping(g, h, M, N, X, C, Y, B, t) ==
  /\ \A x \in Frames : x # t => N[x] = M[x]
  /\ h.own[t] = NoMm /\ \A x \in Frames : x # t => SamePlace(g, h, x)
  /\ \A i \in Index : <<t, i>> \in X
  /\ \A x \in Frames, i \in Index : x # t => (<<x, i>> \in Y <=> <<x, i>> \in X)
  /\ \A f \in Frames : f # t => (f \in B <=> f \in C)
  /\ \A f \in C : g.up[f] # t \/ g.rank[f] >= g.rank[t]
  /\ g.rank[t] < Top => <<g.up[t], g.slot[t]>> \in X

(* A table all of whose entries were passed has been given back.           *)
LEMMA DropTable ==
  ASSUME NEW g \in Placing, NEW h \in Placing, NEW M, NEW N, NEW K,
         NEW X, NEW C, NEW Y, NEW B, NEW t \in Frames,
         Downwards(g, M, K, X), Upwards(g, M, X, C),
         Dropping(g, h, M, N, X, C, Y, B, t)
  PROVE  Downwards(h, N, K, Y) /\ Upwards(h, N, Y, B)
<1> USE DEF Dropping
<1>1. Top \in Nat
  BY Sizes
<1>2. ASSUME NEW x \in Frames, NEW j \in Index, IsTable(h, x), <<x, j>> \notin Y
      PROVE  \/ N[x][j] = NoFrame
             \/ IsChild(h, x, j, N[x][j])
             \/ /\ N[x][j] = BootPdpt /\ h.own[x] \in K
                /\ h.rank[x] = Top /\ j >= KernelHalf
  <2>0. x # t
    BY <1>2 DEF IsTable
  <2>1. SamePlace(g, h, x) /\ IsTable(g, x) /\ N[x] = M[x] /\ <<x, j>> \notin X
    BY <1>2, <2>0 DEF IsTable, SamePlace
  <2>2. \/ M[x][j] = NoFrame
        \/ IsChild(g, x, j, M[x][j])
        \/ /\ M[x][j] = BootPdpt /\ g.own[x] \in K
           /\ g.rank[x] = Top /\ j >= KernelHalf
    BY <1>2, <2>1 DEF Downwards
  <2>3. ASSUME IsChild(g, x, j, M[x][j])
        PROVE  IsChild(h, x, j, M[x][j])
    <3>1. M[x][j] \in Frames
      BY <2>3 DEF IsChild
    <3>2. CASE M[x][j] = t
      <4>1. g.rank[t] = g.rank[x] - 1 /\ g.up[t] = x /\ g.slot[t] = j
        BY <2>3, <3>2 DEF IsChild
      <4>2. g.rank[x] \in -1 .. Top
        BY PlacingFields
      <4>3. g.rank[t] < Top
        BY <4>1, <4>2, <1>1
      <4>4. QED
        BY <4>1, <4>3, <2>1
    <3>3. CASE M[x][j] # t
      BY <2>1, <2>3, <3>1, <3>3 DEF IsChild, SamePlace
    <3>4. QED
      BY <3>2, <3>3
  <2>4. QED
    BY <2>1, <2>2, <2>3 DEF SamePlace
<1>3. ASSUME NEW y \in Frames, h.own[y] # NoMm, h.rank[y] < Top
      PROVE  /\ h.own[h.up[y]] = h.own[y] /\ h.rank[h.up[y]] = h.rank[y] + 1
             /\ N[h.up[y]][h.slot[y]] = y
             /\ <<h.up[y], h.slot[y]>> \in Y => y \in B
  <2>1. y # t
    BY <1>3
  <2>2. /\ SamePlace(g, h, y) /\ g.up[y] \in Frames /\ g.slot[y] \in Index
        /\ g.rank[y] \in -1 .. Top
    BY <2>1, PlacingFields
  <2>3. /\ g.own[g.up[y]] = g.own[y] /\ g.rank[g.up[y]] = g.rank[y] + 1
        /\ M[g.up[y]][g.slot[y]] = y /\ g.own[y] # NoMm
        /\ <<g.up[y], g.slot[y]>> \in X => y \in C
    BY <1>3, <2>2 DEF Upwards, SamePlace
  <2>4. g.up[y] # t
    BY <2>2, <2>3, <1>1
  <2>5. SamePlace(g, h, g.up[y]) /\ N[g.up[y]] = M[g.up[y]]
    BY <2>2, <2>4
  <2>6. <<g.up[y], g.slot[y]>> \in Y => y \in B
    BY <2>1, <2>2, <2>3, <2>4
  <2>7. QED
    BY <2>2, <2>3, <2>5, <2>6 DEF SamePlace
<1>4. QED
  BY <1>2, <1>3 DEF Downwards, Upwards

-----------------------------------------------------------------------------
(***************************************************************************)
(* The stack of free_page_table.                                           *)
(***************************************************************************)
Calls == Frames \X (0 .. Fanout)

(* Every call has a table and an index.                                    *)
LEMMA StackCalls ==
  ASSUME NEW s \in Seq(Calls)
  PROVE  /\ Len(s) \in Nat
         /\ \A k \in 1 .. Len(s) : s[k][1] \in Frames /\ s[k][2] \in 0 .. Fanout
         /\ s # << >> => Len(s) >= 1
         /\ s = << >> => Len(s) = 0
<1>1. Len(s) \in Nat
  BY LenProperties
<1>2. ASSUME NEW k \in 1 .. Len(s)
      PROVE  s[k][1] \in Frames /\ s[k][2] \in 0 .. Fanout
  <2>1. s[k] \in Calls
    BY ElementOfSeq
  <2>2. QED
    BY <2>1 DEF Calls
<1>3. s # << >> => Len(s) >= 1
  BY <1>1, EmptySeq
<1>4. s = << >> => Len(s) = 0
  OBVIOUS
<1>5. QED
  BY <1>1, <1>2, <1>3, <1>4

(* The innermost call comes to its next entry.                             *)
Next1(s) == <<<<s[1][1], s[1][2] + 1>>>> \o Tail(s)

(* Only that call changes.                                                 *)
LEMMA AdvanceCall ==
  ASSUME NEW s \in Seq(Calls), s # << >>, s[1][2] < Fanout
  PROVE  /\ Next1(s) \in Seq(Calls) /\ Len(Next1(s)) = Len(s)
         /\ Next1(s)[1] = <<s[1][1], s[1][2] + 1>>
         /\ \A k \in 2 .. Len(s) : Next1(s)[k] = s[k]
<1> DEFINE c == <<s[1][1], s[1][2] + 1>>
<1>1. Len(s) \in Nat /\ Len(s) >= 1 /\ s[1][1] \in Frames /\ s[1][2] \in 0 .. Fanout
  BY StackCalls
<1>2. c \in Calls
  BY <1>1, Sizes DEF Calls
<1> HIDE DEF c
<1>3. <<c>> \in Seq(Calls) /\ Len(<<c>>) = 1 /\ <<c>>[1] = c
  BY <1>2
<1>4. /\ Tail(s) \in Seq(Calls) /\ Len(Tail(s)) = Len(s) - 1
      /\ \A k \in 1 .. Len(Tail(s)) : Tail(s)[k] = s[k + 1]
  BY HeadTailProperties
<1> DEFINE u == Tail(s)
           a == <<c>> \o u
<1>5. u \in Seq(Calls) /\ Len(u) = Len(s) - 1
  BY <1>4
<1>6. \A k \in 1 .. Len(u) : u[k] = s[k + 1]
  BY <1>4
<1> HIDE DEF u
<1>7. /\ a \in Seq(Calls) /\ Len(a) = Len(<<c>>) + Len(u)
      /\ \A k \in 1 .. Len(<<c>>) : a[k] = <<c>>[k]
      /\ \A k \in 1 .. Len(u) : a[Len(<<c>>) + k] = u[k]
  BY <1>3, <1>5, Concat
<1>8. a \in Seq(Calls) /\ Len(a) = Len(s) /\ a[1] = c
  BY <1>1, <1>3, <1>5, <1>7
<1>9. ASSUME NEW k \in 2 .. Len(s)
      PROVE  a[k] = s[k]
  <2>1. PICK n \in 1 .. Len(u) : n + 1 = k /\ 1 + n = k
    <3>1. k - 1 \in 1 .. Len(u) /\ (k - 1) + 1 = k /\ 1 + (k - 1) = k
      BY <1>1, <1>5
    <3>2. QED
      BY <3>1
  <2>2. a[1 + n] = u[n]
    BY <1>3, <1>7
  <2>3. QED
    BY <2>1, <2>2, <1>6
<1>10. Next1(s) = a
  BY DEF Next1, a, u, c
<1>11. QED
  BY <1>8, <1>9, <1>10 DEF c

(* A call for table f is made.                                             *)
LEMMA PushCall ==
  ASSUME NEW a \in Seq(Calls), NEW f \in Frames
  PROVE  /\ <<<<f, 0>>>> \o a \in Seq(Calls)
         /\ Len(<<<<f, 0>>>> \o a) = Len(a) + 1
         /\ (<<<<f, 0>>>> \o a)[1] = <<f, 0>>
         /\ \A k \in 1 .. Len(a) : (<<<<f, 0>>>> \o a)[k + 1] = a[k]
<1> DEFINE c == <<f, 0>>
<1>1. c \in Calls
  BY Sizes DEF Calls
<1> HIDE DEF c
<1>2. <<c>> \in Seq(Calls) /\ Len(<<c>>) = 1 /\ <<c>>[1] = c
  BY <1>1
<1> DEFINE p == <<c>> \o a
<1>3. /\ p \in Seq(Calls) /\ Len(p) = Len(<<c>>) + Len(a) /\ Len(a) \in Nat
      /\ \A k \in 1 .. Len(<<c>>) : p[k] = <<c>>[k]
      /\ \A k \in 1 .. Len(a) : p[Len(<<c>>) + k] = a[k]
  BY <1>2, Concat
<1> HIDE DEF p
<1>4. p[1] = c /\ Len(p) = Len(a) + 1
  BY <1>2, <1>3
<1>5. ASSUME NEW k \in 1 .. Len(a)
      PROVE  p[k + 1] = a[k]
  <2>1. p[1 + k] = a[k] /\ 1 + k = k + 1
    BY <1>2, <1>3
  <2>2. QED
    BY <2>1
<1>6. QED
  BY <1>3, <1>4, <1>5 DEF p, c

(* What the innermost call's next entry means for the sets.                *)
LEMMA AdvanceSets ==
  ASSUME NEW s \in Seq(Calls), s # << >>, s[1][2] < Fanout
  PROVE  /\ PassedBy(Next1(s)) = PassedBy(s) \cup {<<s[1][1], s[1][2]>>}
         /\ OnStack(Next1(s)) = OnStack(s)
<1> DEFINE a == Next1(s)
           t == s[1][1]
           i == s[1][2]
<1>1. /\ Len(s) \in Nat /\ Len(s) >= 1 /\ t \in Frames /\ i \in 0 .. Fanout
      /\ 1 \in 1 .. Len(s)
  BY StackCalls
<1>2. /\ Len(a) = Len(s) /\ a[1] = <<t, i + 1>>
      /\ \A k \in 2 .. Len(s) : a[k] = s[k]
  BY AdvanceCall
<1>3. a[1][1] = t /\ a[1][2] = i + 1
  BY <1>2
<1>4. i \in Index
  BY <1>1, Sizes DEF Index
<1> HIDE DEF a
<1>5. ASSUME NEW f \in Frames, NEW j \in Index
      PROVE  /\ (\E k \in 1 .. Len(a) : a[k][1] = f /\ j < a[k][2]) <=>
                 \/ \E k \in 1 .. Len(s) : s[k][1] = f /\ j < s[k][2]
                 \/ f = t /\ j = i
             /\ (\E k \in 1 .. Len(a) : a[k][1] = f) <=>
                \E k \in 1 .. Len(s) : s[k][1] = f
  <2>1. j \in Nat
    BY Sizes DEF Index
  <2>2. \A k \in 1 .. Len(s) : k = 1 \/ k \in 2 .. Len(s)
    BY <1>1
  <2>3. j < i + 1 <=> j < i \/ j = i
    BY <1>1, <2>1
  <2>4. QED
    BY <1>1, <1>2, <1>3, <2>2, <2>3
<1>6. 0 \in Index
  BY Sizes DEF Index
<1>7. \A f \in Frames, j \in Index : <<f, j>> \in PassedBy(a) <=> <<f, j>> \in PassedBy(s) \/ (f = t /\ j = i)
  BY <1>5 DEF PassedBy
<1>8. PassedBy(a) = PassedBy(s) \cup {<<t, i>>}
  <2>1. PassedBy(a) \subseteq Frames \X Index /\ PassedBy(s) \subseteq Frames \X Index
    BY DEF PassedBy
  <2>2. QED
    BY <2>1, <1>7, <1>1, <1>4
<1>9. OnStack(a) = OnStack(s)
  BY <1>5, <1>6 DEF OnStack
<1>10. QED
  BY <1>8, <1>9 DEF a

(* A stack with one call more.                                             *)
LEMMA ShiftedSets ==
  ASSUME NEW p \in Seq(Calls), NEW a \in Seq(Calls), Len(p) = Len(a) + 1,
         \A k \in 1 .. Len(a) : p[k + 1] = a[k]
  PROVE  /\ \A x \in Frames, j \in Index :
              <<x, j>> \in PassedBy(p) <=>
              <<x, j>> \in PassedBy(a) \/ (p[1][1] = x /\ j < p[1][2])
         /\ \A x \in Frames : x \in OnStack(p) <=> x \in OnStack(a) \/ p[1][1] = x
<1>1. Len(a) \in Nat /\ 1 \in 1 .. Len(p)
  BY StackCalls
<1>2. ASSUME NEW k \in 1 .. Len(p), k # 1
      PROVE  \E n \in 1 .. Len(a) : p[k] = a[n]
  <2>1. PICK n \in 1 .. Len(a) : k = n + 1
    <3>1. k - 1 \in 1 .. Len(a) /\ k = (k - 1) + 1
      BY <1>1, <1>2
    <3>2. QED
      BY <3>1
  <2>2. QED
    BY <2>1
<1>3. ASSUME NEW n \in 1 .. Len(a)
      PROVE  \E k \in 1 .. Len(p) : p[k] = a[n]
  <2>1. n + 1 \in 1 .. Len(p)
    BY <1>1
  <2>2. QED
    BY <2>1
<1>4. ASSUME NEW x \in Frames, NEW j \in Index
      PROVE  (\E k \in 1 .. Len(p) : p[k][1] = x /\ j < p[k][2]) <=>
             \/ \E k \in 1 .. Len(a) : a[k][1] = x /\ j < a[k][2]
             \/ p[1][1] = x /\ j < p[1][2]
  <2>1. ASSUME NEW k \in 1 .. Len(p), p[k][1] = x, j < p[k][2]
        PROVE  \/ \E n \in 1 .. Len(a) : a[n][1] = x /\ j < a[n][2]
               \/ p[1][1] = x /\ j < p[1][2]
    <3>1. CASE k = 1
      BY <2>1, <3>1
    <3>2. CASE k # 1
      <4>1. PICK n \in 1 .. Len(a) : p[k] = a[n]
        BY <1>2, <3>2
      <4>2. QED
        BY <2>1, <4>1
    <3>3. QED
      BY <3>1, <3>2
  <2>2. ASSUME NEW n \in 1 .. Len(a), a[n][1] = x, j < a[n][2]
        PROVE  \E k \in 1 .. Len(p) : p[k][1] = x /\ j < p[k][2]
    <3>1. PICK k \in 1 .. Len(p) : p[k] = a[n]
      BY <1>3
    <3>2. QED
      BY <2>2, <3>1
  <2>3. QED
    BY <1>1, <2>1, <2>2
<1>5. ASSUME NEW x \in Frames
      PROVE  (\E k \in 1 .. Len(p) : p[k][1] = x) <=>
             (\E k \in 1 .. Len(a) : a[k][1] = x) \/ p[1][1] = x
  <2>1. ASSUME NEW k \in 1 .. Len(p), p[k][1] = x
        PROVE  (\E n \in 1 .. Len(a) : a[n][1] = x) \/ p[1][1] = x
    <3>1. CASE k = 1
      BY <2>1, <3>1
    <3>2. CASE k # 1
      <4>1. PICK n \in 1 .. Len(a) : p[k] = a[n]
        BY <1>2, <3>2
      <4>2. QED
        BY <2>1, <4>1
    <3>3. QED
      BY <3>1, <3>2
  <2>2. ASSUME NEW n \in 1 .. Len(a), a[n][1] = x
        PROVE  \E k \in 1 .. Len(p) : p[k][1] = x
    <3>1. PICK k \in 1 .. Len(p) : p[k] = a[n]
      BY <1>3
    <3>2. QED
      BY <2>2, <3>1
  <2>3. QED
    BY <1>1, <2>1, <2>2
<1>6. QED
  BY <1>4, <1>5 DEF PassedBy, OnStack

(* What a new call means for the sets.                                     *)
LEMMA PushSets ==
  ASSUME NEW a \in Seq(Calls), NEW f \in Frames
  PROVE  /\ PassedBy(<<<<f, 0>>>> \o a) = PassedBy(a)
         /\ OnStack(<<<<f, 0>>>> \o a) = OnStack(a) \cup {f}
<1> DEFINE p == <<<<f, 0>>>> \o a
<1>1. /\ p \in Seq(Calls) /\ Len(p) = Len(a) + 1 /\ p[1] = <<f, 0>>
      /\ \A k \in 1 .. Len(a) : p[k + 1] = a[k]
  BY PushCall
<1>2. p[1][1] = f /\ p[1][2] = 0
  BY <1>1
<1> HIDE DEF p
<1>3. \A j \in Index : ~(j < 0)
  BY Sizes DEF Index
<1>4. /\ \A x \in Frames, j \in Index : <<x, j>> \in PassedBy(p) <=> <<x, j>> \in PassedBy(a)
      /\ \A x \in Frames : x \in OnStack(p) <=> x \in OnStack(a) \/ f = x
  <2>1. /\ \A x \in Frames, j \in Index :
             <<x, j>> \in PassedBy(p) <=>
             <<x, j>> \in PassedBy(a) \/ (p[1][1] = x /\ j < p[1][2])
        /\ \A x \in Frames : x \in OnStack(p) <=> x \in OnStack(a) \/ p[1][1] = x
    BY <1>1, ShiftedSets
  <2>2. QED
    BY <2>1, <1>2, <1>3
<1>5. /\ PassedBy(a) \subseteq Frames \X Index /\ PassedBy(p) \subseteq Frames \X Index
      /\ OnStack(a) \subseteq Frames /\ OnStack(p) \subseteq Frames
  BY DEF PassedBy, OnStack
<1>6. PassedBy(p) = PassedBy(a)
  <2>1. \A x \in Frames \X Index : x \in PassedBy(p) <=> x \in PassedBy(a)
    BY <1>4
  <2>2. QED
    BY <2>1, <1>5
<1>7. OnStack(p) = OnStack(a) \cup {f}
  BY <1>4, <1>5
<1>8. QED
  BY <1>6, <1>7 DEF p

(* The innermost call has returned.                                        *)
LEMMA PopSets ==
  ASSUME NEW s \in Seq(Calls), s # << >>, s[1][2] = Fanout
  PROVE  /\ Tail(s) \in Seq(Calls) /\ Len(Tail(s)) = Len(s) - 1
         /\ \A k \in 1 .. Len(Tail(s)) : Tail(s)[k] = s[k + 1]
         /\ \A i \in Index : <<s[1][1], i>> \in PassedBy(s)
         /\ \A x \in Frames, i \in Index :
              x # s[1][1] => (<<x, i>> \in PassedBy(Tail(s)) <=> <<x, i>> \in PassedBy(s))
         /\ \A x \in Frames :
              x # s[1][1] => (x \in OnStack(Tail(s)) <=> x \in OnStack(s))
<1> DEFINE u == Tail(s)
<1>1. Len(s) \in Nat /\ Len(s) >= 1 /\ s[1][1] \in Frames /\ 1 \in 1 .. Len(s)
  BY StackCalls
<1>2. /\ u \in Seq(Calls) /\ Len(u) = Len(s) - 1
      /\ \A k \in 1 .. Len(u) : u[k] = s[k + 1]
  BY HeadTailProperties
<1> HIDE DEF u
<1>3. Len(s) = Len(u) + 1
  BY <1>1, <1>2
<1>4. /\ \A x \in Frames, j \in Index :
           <<x, j>> \in PassedBy(s) <=>
           <<x, j>> \in PassedBy(u) \/ (s[1][1] = x /\ j < s[1][2])
      /\ \A x \in Frames : x \in OnStack(s) <=> x \in OnStack(u) \/ s[1][1] = x
  BY <1>2, <1>3, ShiftedSets
<1>5. \A i \in Index : i < Fanout
  BY Sizes DEF Index
<1>6. \A i \in Index : <<s[1][1], i>> \in PassedBy(s)
  BY <1>1, <1>4, <1>5
<1>7. QED
  BY <1>2, <1>4, <1>6 DEF u

-----------------------------------------------------------------------------
(***************************************************************************)
(* Actions that leave the tables alone.                                    *)
(***************************************************************************)
(* What the type invariant says of the memory and the roots.               *)
LEMMA TypeFacts ==
  ASSUME TypeOK
  PROVE  /\ mem \in Memory /\ stack \in Seq(Calls)
         /\ \A m \in Live : pml4[m] \in Frames /\ m \in Mms
         /\ op = "idle" => op \notin Stopped
         /\ op = "map" => op \notin Stopped
         /\ op = "delete" => op \notin Stopped
<1>1. mem \in Memory
  BY DEF TypeOK, Memory, Entries
<1>2. stack \in Seq(Calls)
  BY DEF TypeOK, Calls
<1>3. \A m \in Live : pml4[m] \in Frames /\ m \in Mms
  BY DEF TypeOK, Live
<1>4. QED
  BY <1>1, <1>2, <1>3 DEF Stopped

(* A live address space that is not being deleted is a tree.               *)
LEMMA Trees ==
  ASSUME TypeOK, op # "delete" => stack = << >>, NEW g \in Placing, Forest(g),
         NEW m \in Live, ~Gone(m)
  PROVE  TreeOf(g, mem, kernel, PassedBy(stack), m, pml4[m])
<1>1. m \in Mms /\ pml4[m] \in Frames /\ stack \in Seq(Calls)
  BY TypeFacts
<1>2. g.own[pml4[m]] = m /\ g.rank[pml4[m]] = Top
  BY DEF Forest, Roots
<1>3. ASSUME NEW t \in Frames, NEW i \in Index, <<t, i>> \in PassedBy(stack)
      PROVE  g.own[t] # m
  <2>1. PICK k \in 1 .. Len(stack) : stack[k][1] = t
    BY <1>3 DEF PassedBy
  <2>2. op = "delete"
    BY <1>1, StackCalls
  <2>3. g.own[t] = mm
    BY <2>1, <2>2 DEF Forest, Deleting
  <2>4. QED
    BY <2>2, <2>3 DEF Gone
<1>4. QED
  BY <1>1, <1>2, <1>3 DEF TreeOf, Forest

(* With no call of free_page_table, no entry is passed.                    *)
LEMMA NothingPassed == PassedBy(<< >>) = {} /\ OnStack(<< >>) = {}
<1>1. Len(<< >>) = 0
  OBVIOUS
<1>2. QED
  BY <1>1 DEF PassedBy, OnStack

(* The processor's view survives a step that keeps what the walks of the   *)
(* current address space find.                                             *)
LEMMA CpuStep ==
  ASSUME TypeOK, CpuOK, UNCHANGED <<current_mm, cr3, tlb>>,
         op' \notin {"reset", "corrupt"}, dropped \subseteq dropped',
         current_mm # NoMm => pml4'[current_mm] = pml4[current_mm],
         \A v \in Pages :
           current_mm # NoMm =>
             \/ v \in dropped' \/ WalkIn(mem, pml4[current_mm], v, 0) = NoFrame
             \/ WalkIn(mem', pml4[current_mm], v, 0) = WalkIn(mem, pml4[current_mm], v, 0)
  PROVE  CpuOK'
<1>1. KernelMapped'
  BY DEF CpuOK, KernelMapped
<1>2. DeletesOwn'
  BY DEF CpuOK, DeletesOwn
<1>3. (current_mm = NoMm => tlb = {})'
  BY DEF CpuOK
<1>4. Cached'
  <2>1. SUFFICES ASSUME NEW x \in tlb
                 PROVE  WalkIn(mem', cr3, x[1], 0) = x[2] \/ x[1] \in dropped'
    BY DEF Cached
  <2>2. x[1] \in Pages /\ current_mm # NoMm /\ x[2] # NoFrame
    BY Special DEF TypeOK, CpuOK
  <2>3. cr3 = pml4[current_mm]
    BY <2>2 DEF CpuOK, KernelMapped
  <2>4. WalkIn(mem, cr3, x[1], 0) = x[2] \/ x[1] \in dropped
    BY DEF CpuOK, Cached
  <2>5. QED
    BY <2>2, <2>3, <2>4
<1>5. QED
  BY <1>1, <1>2, <1>3, <1>4 DEF CpuOK

(* alloc_frames for a caller.                                              *)
LEMMA AllocDataStep ==
  ASSUME IInv, NEW f \in free, AllocData(f)
  PROVE  IInv'
<1> USE DEF AllocData, cpu, args
<1>1. TypeOK /\ CpuOK /\ KernelOK /\ Placed
  BY TypeFacts DEF IInv
<1>2. TypeOK'
  BY <1>1 DEF TypeOK, Live
<1>3. CpuOK'
  BY <1>1, CpuStep DEF TypeOK
<1>4. Live' = Live
  BY DEF Live
<1>5. KernelOK'
  <2>1. Apart'
    BY <1>1 DEF KernelOK, Apart, TypeOK
  <2>2. Counted' /\ KernelGiven'
    BY <1>1, <1>4 DEF KernelOK, Counted, KernelGiven, Gone
  <2>3. QED
    BY <1>1, <1>4, <2>1, <2>2 DEF KernelOK
<1>6. PICK g \in Placing : Forest(g)
  BY <1>1 DEF Placed
<1>7. Owners(g)'
  BY <1>1, <1>4, <1>6 DEF Owners, Forest, TypeOK
<1>8. Roots(g)' /\ Reached(g)' /\ Mapping(g)' /\ Deleting(g)'
  BY <1>4, <1>6 DEF Roots, Reached, Mapping, Deleting, Forest, Gone
<1>9. Forest(g)'
  BY <1>6, <1>7, <1>8 DEF Forest
<1>10. QED
  BY <1>2, <1>3, <1>5, <1>6, <1>9 DEF IInv, Placed

(* free_frame by a caller.                                                 *)
LEMMA FreeDataStep ==
  ASSUME IInv, NEW f \in loose, FreeData(f)
  PROVE  IInv'
<1> USE DEF FreeData, cpu, args
<1>1. TypeOK /\ CpuOK /\ KernelOK /\ Placed
  BY TypeFacts DEF IInv
<1>2. TypeOK'
  BY <1>1 DEF TypeOK, Live
<1>3. CpuOK'
  BY <1>1, CpuStep DEF TypeOK
<1>4. Live' = Live
  BY DEF Live
<1>5. KernelOK'
  <2>1. Apart'
    BY <1>1 DEF KernelOK, Apart, TypeOK
  <2>2. Counted' /\ KernelGiven'
    BY <1>1, <1>4 DEF KernelOK, Counted, KernelGiven, Gone
  <2>3. QED
    BY <1>1, <1>4, <2>1, <2>2 DEF KernelOK
<1>6. PICK g \in Placing : Forest(g)
  BY <1>1 DEF Placed
<1>7. Owners(g)'
  BY <1>1, <1>4, <1>6 DEF Owners, Forest, TypeOK
<1>8. Roots(g)' /\ Reached(g)' /\ Mapping(g)' /\ Deleting(g)'
  BY <1>4, <1>6 DEF Roots, Reached, Mapping, Deleting, Forest, Gone
<1>9. Forest(g)'
  BY <1>6, <1>7, <1>8 DEF Forest
<1>10. QED
  BY <1>2, <1>3, <1>5, <1>6, <1>9 DEF IInv, Placed

(* create_mm gives the table back.                                         *)
LEMMA CreateFailStep ==
  ASSUME IInv, NEW t \in free, create_mm_fail(t)
  PROVE  IInv'
<1> USE DEF create_mm_fail, cpu, args
<1>0. free' = free
  OBVIOUS
<1>1. TypeOK /\ CpuOK /\ KernelOK /\ Placed
  BY TypeFacts DEF IInv
<1>2. TypeOK'
  BY <1>0, <1>1 DEF TypeOK, Live
<1>3. CpuOK'
  BY <1>1, CpuStep DEF TypeOK
<1>4. Live' = Live
  BY DEF Live
<1>5. KernelOK'
  BY <1>0, <1>1, <1>4 DEF KernelOK, Apart, Counted, KernelGiven, Gone
<1>6. PICK g \in Placing : Forest(g)
  BY <1>1 DEF Placed
<1>7. Forest(g)'
  BY <1>0, <1>4, <1>6 DEF Owners, Roots, Reached, Mapping, Deleting, Forest, Gone
<1>8. QED
  BY <1>2, <1>3, <1>5, <1>6, <1>7 DEF IInv, Placed

(* map_page is called.                                                     *)
LEMMA MapCallStep ==
  ASSUME IInv, NEW m \in Live, NEW f \in loose, NEW v \in Pages, MapCall(m, f, v)
  PROVE  IInv'
<1> USE DEF MapCall, cpu
<1>1. TypeOK /\ CpuOK /\ KernelOK /\ Placed
  BY TypeFacts DEF IInv
<1>2. Top \in Levels /\ m \in Mms /\ pml4[m] \in Frames /\ Top + 1 \in 0 .. Top + 1
  BY <1>1, TypeFacts, Sizes DEF Levels
<1>3. TypeOK'
  BY <1>1, <1>2 DEF TypeOK, Live
<1>4. CpuOK'
  BY <1>1, CpuStep DEF TypeOK
<1>5. Live' = Live
  BY DEF Live
<1>6. KernelOK'
  BY <1>1, <1>5 DEF KernelOK, Apart, Counted, KernelGiven, Gone
<1>7. PICK g \in Placing : Forest(g)
  BY <1>1 DEF Placed
<1>8. Roots(g)' /\ Owners(g)' /\ Reached(g)' /\ Deleting(g)'
  BY <1>5, <1>7 DEF Roots, Owners, Reached, Deleting, Forest, Gone
<1>9. Mapping(g)'
  <2>1. g.own[pml4[m]] = m /\ g.rank[pml4[m]] = Top
    BY <1>7 DEF Forest, Roots, Gone
  <2>2. WalkIn(mem, pml4[m], v, Top + 1) = pml4[m]
    BY <1>1, <1>2, TypeFacts, WalkStep, Special
  <2>3. QED
    BY <1>2, <1>5, <2>1, <2>2 DEF Mapping
<1>10. Forest(g)'
  BY <1>7, <1>8, <1>9 DEF Forest
<1>11. QED
  BY <1>3, <1>4, <1>6, <1>7, <1>10 DEF IInv, Placed

(* The entry map_page looks at is clear or points to a child of its table. *)
LEMMA MapEntry ==
  ASSUME IInv, op = "map", NEW g \in Placing, Forest(g)
  PROVE  /\ stack = << >> /\ level \in Levels /\ page \in Paths /\ page[level] \in Index
         /\ mm \in Live /\ ~Gone(mm) /\ table \in Frames /\ frame \in Frames
         /\ frame \in loose /\ IsTable(g, table)
         /\ g.own[table] = mm /\ g.rank[table] = level
         /\ level = Top => page[level] < KernelHalf
         /\ TreeOf(g, mem, kernel, {}, mm, pml4[mm])
         /\ Upwards(g, mem, {}, {})
         /\ WalkIn(mem, pml4[mm], page, level + 1) = table
         /\ Entry = WalkIn(mem, pml4[mm], page, level)
         /\ Entry = NoFrame \/ IsChild(g, table, page[level], Entry)
<1>1. TypeOK /\ KernelOK
  BY TypeFacts DEF IInv
<1>2. /\ mm \in Live /\ page \in Pages /\ frame \in loose
      /\ table \in Frames /\ g.own[table] = mm /\ g.rank[table] = level
      /\ WalkIn(mem, pml4[mm], page, level + 1) = table
  BY DEF Forest, Mapping
<1>3. ~Gone(mm) /\ stack = << >> /\ level \in Levels
  BY <1>1 DEF Gone, KernelOK, TypeOK
<1>4. page \in Paths /\ mm \in Mms /\ mem \in Memory /\ frame \in Frames
  BY <1>1, <1>2, Special, TypeFacts DEF TypeOK
<1>5. page[level] \in Index /\ (level = Top => page[level] < KernelHalf)
  BY <1>3, <1>4, PathIndex
<1>6. TreeOf(g, mem, kernel, {}, mm, pml4[mm])
  <2>1. TreeOf(g, mem, kernel, PassedBy(stack), mm, pml4[mm])
    BY <1>1, <1>2, <1>3, Trees
  <2>2. QED
    BY <2>1, <1>3, NothingPassed
<1>7. /\ WalkIn(mem, pml4[mm], page, level) = Entry
      /\ Entry = NoFrame \/ IsChild(g, table, page[level], Entry)
  BY <1>2, <1>3, <1>4, <1>6, TreeStep DEF Entry
<1>8. IsTable(g, table)
  BY <1>2, <1>3, <1>4, Special, Sizes DEF IsTable, Levels
<1>9. Upwards(g, mem, {}, {})
  BY <1>3, NothingPassed DEF Forest
<1>10. QED
  BY <1>2, <1>3, <1>4, <1>5, <1>6, <1>7, <1>8, <1>9

(* map_page goes down one level.                                           *)
LEMMA MapWalkStep ==
  ASSUME IInv, MapWalk
  PROVE  IInv'
<1> USE DEF MapWalk, cpu
<1>1. TypeOK /\ CpuOK /\ KernelOK /\ Placed
  BY TypeFacts DEF IInv
<1>2. PICK g \in Placing : Forest(g)
  BY <1>1 DEF Placed
<1>3. IsChild(g, table, page[level], Entry)
  BY <1>2, MapEntry
<1>4. /\ Entry \in Frames /\ g.own[Entry] = mm /\ g.rank[Entry] = level - 1
      /\ level \in Levels /\ Entry = WalkIn(mem, pml4[mm], page, level)
  BY <1>2, <1>3, MapEntry DEF IsChild
<1>5. level - 1 \in Levels /\ level - 1 + 1 = level
  BY <1>4, Sizes DEF Levels
<1>6. table' = Entry /\ level' = level - 1 /\ op' = op
  BY <1>4
<1>7. TypeOK'
  BY <1>1, <1>4, <1>5, <1>6 DEF TypeOK, Live
<1>8. CpuOK'
  BY <1>1, <1>6, CpuStep DEF TypeOK
<1>9. Live' = Live
  BY DEF Live
<1>10. KernelOK'
  BY <1>1, <1>6, <1>9 DEF KernelOK, Apart, Counted, KernelGiven, Gone
<1>11. Roots(g)' /\ Owners(g)' /\ Reached(g)' /\ Deleting(g)'
  BY <1>2, <1>6, <1>9 DEF Roots, Owners, Reached, Deleting, Forest, Gone
<1>12. Mapping(g)'
  <2>1. WalkIn(mem, pml4[mm], page, level' + 1) = Entry
    BY <1>4, <1>5, <1>6
  <2>2. QED
    BY <1>2, <1>4, <1>6, <1>9, <2>1 DEF Mapping, Forest
<1>13. Forest(g)'
  BY <1>2, <1>11, <1>12 DEF Forest
<1>14. QED
  BY <1>7, <1>8, <1>10, <1>2, <1>13 DEF IInv, Placed

(* map_page has no memory for a table: the kernel stops.                   *)
LEMMA MapNoMemoryStep ==
  ASSUME IInv, MapNoMemory
  PROVE  IInv'
<1> USE DEF MapNoMemory, cpu, args
<1>1. TypeOK /\ CpuOK
  BY DEF IInv
<1>2. TypeOK'
  BY <1>1 DEF TypeOK, Live, Stopped
<1>3. CpuOK'
  BY <1>1, CpuStep DEF TypeOK
<1>4. QED
  BY <1>2, <1>3 DEF IInv, Stopped

(* swap_mm: the kernel's half is mapped in the new address space.          *)
LEMMA SwapStep ==
  ASSUME IInv, NEW m \in Live, swap_mm(m)
  PROVE  IInv'
<1> USE DEF swap_mm, args
<1>1. TypeOK /\ CpuOK /\ KernelOK /\ Placed
  BY TypeFacts DEF IInv
<1>2. \A i \in KernelHalf .. Fanout - 1 : mem[pml4[m]][i] = mem[Boot][i]
  BY <1>1 DEF KernelOK, KernelGiven, Gone
<1>3. KernelPart(pml4[m]) = KernelPart(Boot)
  BY <1>2 DEF KernelPart
<1>4. op' = "idle" /\ op' = op
  BY <1>3
<1>5. m \in Mms /\ pml4[m] \in Frames /\ pml4[m] \in Tables /\ m # NoMm
  BY <1>1, TypeFacts, Special
<1>6. Live' = Live
  BY DEF Live
<1>7. TypeOK'
  BY <1>1, <1>4, <1>5, <1>6 DEF TypeOK
<1>8. CpuOK'
  BY <1>4, <1>5 DEF CpuOK, KernelMapped, DeletesOwn, Cached
<1>9. KernelOK'
  BY <1>1, <1>4, <1>6 DEF KernelOK, Apart, Counted, KernelGiven, Gone
<1>10. PICK g \in Placing : Forest(g)
  BY <1>1 DEF Placed
<1>11. Forest(g)'
  BY <1>4, <1>6, <1>10 DEF Owners, Roots, Reached, Mapping, Deleting, Forest, Gone
<1>12. QED
  BY <1>7, <1>8, <1>9, <1>10, <1>11 DEF IInv, Placed

(* The processor caches a translation.                                     *)
LEMMA CacheStep ==
  ASSUME IInv, NEW v \in Pages, Cache(v)
  PROVE  IInv'
<1> USE DEF Cache, args
<1>1. TypeOK /\ CpuOK /\ KernelOK /\ Placed
  BY DEF IInv
<1>2. Live' = Live /\ op' = op
  BY DEF Live
<1>3. TypeOK'
  <2>1. <<v, Walk(cr3, v, 0)>> \in Pages \X Frames
    OBVIOUS
  <2>2. QED
    BY <1>1, <1>2, <2>1 DEF TypeOK
<1>4. CpuOK'
  <2>1. Walk(cr3, v, 0) = WalkIn(mem, cr3, v, 0)
    BY WalkNow
  <2>2. Cached'
    BY <1>1, <2>1 DEF CpuOK, Cached
  <2>3. QED
    BY <1>1, <1>2, <2>2 DEF CpuOK, KernelMapped, DeletesOwn
<1>5. KernelOK'
  BY <1>1, <1>2 DEF KernelOK, Apart, Counted, KernelGiven, Gone
<1>6. PICK g \in Placing : Forest(g)
  BY <1>1 DEF Placed
<1>7. Forest(g)'
  BY <1>2, <1>6 DEF Owners, Roots, Reached, Mapping, Deleting, Forest, Gone, Depth
<1>8. QED
  BY <1>3, <1>4, <1>5, <1>6, <1>7 DEF IInv, Placed

-----------------------------------------------------------------------------
(***************************************************************************)
(* delete_mm.                                                              *)
(***************************************************************************)
(* A walk in a tree finds the same, down to level k, in a memory with the  *)
(* same entries on its way.                                                *)
LEMMA TreeSame ==
  ASSUME NEW g \in Placing, NEW M \in Memory, NEW N \in Memory, NEW K, NEW X,
         NEW m, NEW r, TreeOf(g, M, K, X, m, r), NEW v \in Paths,
         NEW k \in 0 .. Top + 1,
         \A l \in k .. Top, x \in Frames :
           g.own[x] = m /\ g.rank[x] = l /\ WalkIn(M, r, v, l + 1) = x =>
             N[x][v[l]] = M[x][v[l]]
  PROVE  \A l \in k .. Top + 1 : WalkIn(N, r, v, l) = WalkIn(M, r, v, l)
<1>1. v \in [Levels -> Index] /\ r \in Places /\ Top \in Nat
  BY Special, Sizes DEF TreeOf
<1>2. ASSUME NEW l \in k .. Top, WalkIn(M, r, v, l + 1) \in Tables
      PROVE  N[WalkIn(M, r, v, l + 1)][v[l]] = M[WalkIn(M, r, v, l + 1)][v[l]]
  <2>1. PICK j \in 0 .. Top + 1 : j = l + 1 /\ j - 1 = l
    BY <1>1
  <2>2. \/ WalkIn(M, r, v, j) = NoFrame
        \/ /\ WalkIn(M, r, v, j) \in Frames
           /\ g.own[WalkIn(M, r, v, j)] = m /\ g.rank[WalkIn(M, r, v, j)] = j - 1
    BY WalkPlaced
  <2>3. WalkIn(M, r, v, l + 1) # NoFrame
    BY <1>2, Special
  <2>4. QED
    BY <2>1, <2>2, <2>3
<1>3. QED
  BY <1>1, <1>2, WalkSame

(* The same for a memory in which the tables of m are the same.            *)
LEMMA OthersSame ==
  ASSUME NEW g \in Placing, NEW M \in Memory, NEW N \in Memory, NEW K, NEW X,
         NEW m, NEW r, TreeOf(g, M, K, X, m, r), NEW v \in Paths,
         \A x \in Frames : g.own[x] = m => N[x] = M[x]
  PROVE  WalkIn(N, r, v, 0) = WalkIn(M, r, v, 0)
<1>1. 0 \in 0 .. Top + 1
  BY Sizes
<1>2. \A l \in 0 .. Top + 1 : WalkIn(N, r, v, l) = WalkIn(M, r, v, l)
  BY <1>1, TreeSame
<1>3. QED
  BY <1>1, <1>2

(* The same for the pages of a live address space and the next memory.     *)
LEMMA OtherMaps ==
  ASSUME TypeOK, op # "delete" => stack = << >>, NEW g \in Placing, Forest(g),
         NEW m \in Live, ~Gone(m), mem' \in Memory,
         \A x \in Frames : g.own[x] = m => mem'[x] = mem[x]
  PROVE  \A v \in Pages : WalkIn(mem', pml4[m], v, 0) = WalkIn(mem, pml4[m], v, 0)
<1>1. mem \in Memory /\ Pages \subseteq Paths
  BY TypeFacts, Special
<1>2. TreeOf(g, mem, kernel, PassedBy(stack), m, pml4[m])
  BY Trees
<1>3. QED
  BY <1>1, <1>2, OthersSame

(* delete_mm is called.                                                    *)
LEMMA DeleteCallStep ==
  ASSUME IInv, NEW m \in Live, DeleteCall(m)
  PROVE  IInv'
<1> USE DEF DeleteCall, cpu
<1>1. TypeOK /\ CpuOK /\ KernelOK /\ Placed
  BY TypeFacts DEF IInv
<1>2. m \in Mms /\ pml4[m] \in Frames
  BY <1>1, TypeFacts
<1> DEFINE c == <<pml4[m], 0>>
<1>3. c \in Calls /\ c[1] = pml4[m] /\ c[2] = 0 /\ stack' = <<c>>
  BY <1>2, Sizes DEF Calls
<1> HIDE DEF c
<1>4. <<c>> \in Seq(Calls) /\ Len(<<c>>) = 1 /\ <<c>>[1] = c /\ <<c>> # << >>
  BY <1>3
<1>5. TypeOK'
  BY <1>1, <1>2, <1>3, <1>4 DEF TypeOK, Live, Calls
<1>6. CpuOK'
  BY <1>1, CpuStep DEF TypeOK
<1>7. Live' = Live
  BY DEF Live
<1>8. KernelOK'
  BY <1>1, <1>7 DEF KernelOK, Apart, Counted, KernelGiven, Gone
<1>9. PICK g \in Placing : Forest(g)
  BY <1>1 DEF Placed
<1>10. PassedBy(stack) = {} /\ PassedBy(stack') = {}
  <2>1. PassedBy(stack) = {}
    BY <1>1, NothingPassed DEF KernelOK
  <2>2. \A k \in 1 .. Len(<<c>>) : <<c>>[k][2] = 0
    BY <1>3, <1>4
  <2>3. \A j \in Index : ~(j < 0)
    BY Sizes DEF Index
  <2>4. PassedBy(<<c>>) = {}
    BY <2>2, <2>3 DEF PassedBy
  <2>5. QED
    BY <2>1, <2>4, <1>3
<1>11. Downwards(g, mem', kernel', PassedBy(stack')) /\ Upwards(g, mem', PassedBy(stack'), OnStack(stack'))
  BY <1>9, <1>10 DEF Forest, Upwards
<1>12. g.own[pml4[m]] = m /\ g.rank[pml4[m]] = Top
  BY <1>9 DEF Forest, Roots, Gone
<1>13. Roots(g)'
  BY <1>3, <1>4, <1>7, <1>9 DEF Forest, Roots, Gone
<1>14. Owners(g)' /\ Reached(g)' /\ Mapping(g)'
  BY <1>7, <1>9 DEF Owners, Reached, Mapping, Forest, Gone
<1>15. Deleting(g)'
  <2>1. Len(stack') = 1 /\ stack'[1] = c /\ Depth' = Top
    BY <1>3, <1>4, Sizes DEF Depth
  <2>2. ASSUME NEW k \in 1 .. Len(stack')
        PROVE  g.own[stack'[k][1]] = m /\ g.rank[stack'[k][1]] = Depth' + k - 1
    BY <1>3, <1>12, <2>1, Sizes
  <2>3. Len(stack') <= Top + 1 /\ 2 .. Len(stack') = {}
    BY <2>1, Sizes
  <2>4. QED
    BY <1>7, <2>2, <2>3 DEF Deleting
<1>16. Forest(g)'
  BY <1>11, <1>13, <1>14, <1>15 DEF Forest
<1>17. QED
  BY <1>5, <1>6, <1>8, <1>9, <1>16 DEF IInv, Placed

(* The innermost call of free_page_table.                                  *)
LEMMA DeleteTable ==
  ASSUME IInv, op = "delete", stack # << >>, NEW g \in Placing, Forest(g)
  PROVE  /\ stack \in Seq(Calls) /\ Len(stack) \in Nat /\ Len(stack) >= 1
         /\ stack[1][1] \in Frames /\ stack[1][2] \in 0 .. Fanout
         /\ mm \in Live /\ mm \in Mms /\ mm # current_mm
         /\ g.own[stack[1][1]] = mm /\ g.rank[stack[1][1]] = Depth
         /\ Depth \in Levels /\ Depth = Top + 1 - Len(stack)
         /\ IsTable(g, stack[1][1])
         /\ \A k \in 1 .. Len(stack) :
              /\ stack[k][1] \in Frames /\ g.own[stack[k][1]] = mm
              /\ g.rank[stack[k][1]] = Depth + k - 1
              /\ stack[k][1] = stack[1][1] => k = 1
<1>1. TypeOK /\ stack \in Seq(Calls)
  BY TypeFacts DEF IInv
<1>2. /\ Len(stack) \in Nat /\ Len(stack) >= 1 /\ 1 \in 1 .. Len(stack)
      /\ \A k \in 1 .. Len(stack) : stack[k][1] \in Frames /\ stack[k][2] \in 0 .. Fanout
  BY <1>1, StackCalls
<1>3. /\ mm \in Live /\ mm # current_mm /\ Len(stack) <= Top + 1
      /\ \A k \in 1 .. Len(stack) :
           g.own[stack[k][1]] = mm /\ g.rank[stack[k][1]] = Depth + k - 1
  BY DEF Forest, Deleting
<1>4. mm \in Mms /\ mm # NoMm
  BY <1>1, <1>3, TypeFacts, Special
<1>5. Depth = Top + 1 - Len(stack) /\ Depth \in Levels /\ Depth \in Int /\ Depth >= 0
  BY <1>2, <1>3, Sizes DEF Depth, Levels
<1> HIDE DEF Depth
<1>6. g.own[stack[1][1]] = mm /\ g.rank[stack[1][1]] = Depth
  BY <1>2, <1>3, <1>5
<1>7. IsTable(g, stack[1][1])
  BY <1>4, <1>5, <1>6 DEF IsTable
<1>8. ASSUME NEW k \in 1 .. Len(stack), stack[k][1] = stack[1][1]
      PROVE  k = 1
  BY <1>2, <1>3, <1>5, <1>6, <1>8
<1>9. QED
  BY <1>1, <1>2, <1>3, <1>4, <1>5, <1>6, <1>7, <1>8

(* The entry it has come to.                                               *)
LEMMA DeleteEntry ==
  ASSUME IInv, InLoop, NEW g \in Placing, Forest(g)
  PROVE  /\ stack[1][2] \in Index
         /\ Slot = mem[stack[1][1]][stack[1][2]]
         /\ \/ Slot = NoFrame
            \/ IsChild(g, stack[1][1], stack[1][2], Slot)
            \/ Slot = BootPdpt /\ mm \in kernel /\ Depth = Top
<1> DEFINE t == stack[1][1]
           i == stack[1][2]
<1>1. op = "delete" /\ stack # << >> /\ i < Fanout
  BY DEF InLoop
<1>2. /\ t \in Frames /\ i \in 0 .. Fanout /\ g.own[t] = mm /\ g.rank[t] = Depth
      /\ IsTable(g, t) /\ Len(stack) \in Nat
      /\ \A k \in 1 .. Len(stack) : stack[k][1] = t => k = 1
  BY <1>1, DeleteTable
<1>3. i \in Index
  BY <1>1, <1>2, Sizes DEF Index
<1>4. <<t, i>> \notin PassedBy(stack)
  <2>1. ASSUME NEW k \in 1 .. Len(stack), stack[k][1] = t, i < stack[k][2]
        PROVE  FALSE
    <3>1. k = 1
      BY <2>1, <1>2
    <3>2. QED
      BY <3>1, <2>1, <1>2, Sizes
  <2>2. QED
    BY <2>1 DEF PassedBy
<1>5. \/ mem[t][i] = NoFrame
      \/ IsChild(g, t, i, mem[t][i])
      \/ /\ mem[t][i] = BootPdpt /\ g.own[t] \in kernel
         /\ g.rank[t] = Top /\ i >= KernelHalf
  BY <1>2, <1>3, <1>4 DEF Forest, Downwards
<1>6. Slot = mem[t][i]
  BY DEF Slot
<1>7. QED
  BY <1>2, <1>3, <1>5, <1>6

(* The stack is in order when its innermost call has come to the next      *)
(* entry.                                                                  *)
LEMMA AdvanceDeleting ==
  ASSUME TypeOK, NEW g, NEW h, Deleting(g), op = "delete", stack # << >>,
         stack[1][2] < Fanout, stack' = Advance,
         UNCHANGED <<op, mm, current_mm, pml4>>,
         \A k \in 1 .. Len(stack) : SamePlace(g, h, stack[k][1])
  PROVE  /\ Deleting(h)' /\ stack' # << >> /\ stack' \in Seq(Calls)
         /\ PassedBy(stack') = PassedBy(stack) \cup {<<stack[1][1], stack[1][2]>>}
         /\ OnStack(stack') = OnStack(stack)
<1>1. stack \in Seq(Calls) /\ stack' = Next1(stack)
  BY TypeFacts DEF Advance, Next1
<1>2. /\ Len(stack) \in Nat /\ Len(stack) >= 1 /\ 1 \in 1 .. Len(stack)
      /\ \A k \in 1 .. Len(stack) : stack[k][1] \in Frames /\ stack[k][2] \in 0 .. Fanout
  BY <1>1, StackCalls
<1>3. /\ stack' \in Seq(Calls) /\ Len(stack') = Len(stack)
      /\ stack'[1] = <<stack[1][1], stack[1][2] + 1>>
      /\ \A k \in 2 .. Len(stack) : stack'[k] = stack[k]
  BY <1>1, AdvanceCall
<1>4. /\ PassedBy(stack') = PassedBy(stack) \cup {<<stack[1][1], stack[1][2]>>}
      /\ OnStack(stack') = OnStack(stack)
  BY <1>1, AdvanceSets
<1>5. stack'[1][1] = stack[1][1]
  BY <1>3
<1>6. stack' # << >>
  BY <1>2, <1>3
<1>7. \A k \in 1 .. Len(stack) : stack'[k][1] = stack[k][1]
  <2>1. \A k \in 1 .. Len(stack) : k = 1 \/ k \in 2 .. Len(stack)
    BY <1>2
  <2>2. QED
    BY <2>1, <1>3, <1>5
<1>8. Depth' = Depth /\ Live' = Live
  BY <1>3 DEF Depth, Live
<1>9. ASSUME NEW k \in 1 .. Len(stack')
      PROVE  h.own[stack'[k][1]] = mm' /\ h.rank[stack'[k][1]] = Depth' + k - 1
  BY <1>3, <1>7, <1>8 DEF Deleting, SamePlace
<1>10. ASSUME NEW k \in 2 .. Len(stack')
       PROVE  /\ h.up[stack'[k - 1][1]] = stack'[k][1]
              /\ h.slot[stack'[k - 1][1]] < stack'[k][2]
  <2>1. PICK j \in 1 .. Len(stack) : j = k - 1
    BY <1>2, <1>3
  <2>2. /\ g.up[stack[k - 1][1]] = stack[k][1]
        /\ g.slot[stack[k - 1][1]] < stack[k][2]
    BY <1>3 DEF Deleting
  <2>3. stack'[j][1] = stack[j][1] /\ SamePlace(g, h, stack[j][1]) /\ stack'[k] = stack[k]
    BY <1>3, <1>7
  <2>4. QED
    BY <2>1, <2>2, <2>3 DEF SamePlace
<1>11. Deleting(h)'
  BY <1>3, <1>8, <1>9, <1>10 DEF Deleting
<1>12. QED
  BY <1>3, <1>4, <1>6, <1>11

(* A clear entry is skipped.                                               *)
LEMMA FreeSkipStep ==
  ASSUME IInv, FreeSkip
  PROVE  IInv'
<1> USE DEF FreeSkip, cpu
<1>1. TypeOK /\ CpuOK /\ KernelOK /\ Placed /\ op = "delete" /\ stack # << >>
      /\ stack[1][2] < Fanout
  BY TypeFacts DEF IInv, InLoop
<1>2. PICK g \in Placing : Forest(g)
  BY <1>1 DEF Placed
<1>3. /\ Deleting(g)' /\ stack' # << >> /\ stack' \in Seq(Calls)
      /\ PassedBy(stack') = PassedBy(stack) \cup {<<stack[1][1], stack[1][2]>>}
      /\ OnStack(stack') = OnStack(stack)
  <2>1. \A k \in 1 .. Len(stack) : SamePlace(g, g, stack[k][1])
    BY DEF SamePlace
  <2>2. QED
    BY <1>1, <1>2, <2>1, AdvanceDeleting DEF Forest
<1>4. TypeOK'
  BY <1>1, <1>3 DEF TypeOK, Live, Calls
<1>5. CpuOK'
  BY <1>1, CpuStep DEF TypeOK
<1>6. Live' = Live
  BY DEF Live
<1>7. KernelOK'
  BY <1>1, <1>6 DEF KernelOK, Apart, Counted, KernelGiven, Gone
<1>8. mem[stack[1][1]][stack[1][2]] = NoFrame
  BY <1>2, DeleteEntry
<1>9. /\ Downwards(g, mem, kernel, PassedBy(stack'))
      /\ Upwards(g, mem, PassedBy(stack'), OnStack(stack'))
  <2>1. /\ Downwards(g, mem, kernel, PassedBy(stack))
        /\ Upwards(g, mem, PassedBy(stack), OnStack(stack))
    BY <1>2 DEF Forest
  <2>2. /\ Downwards(g, mem, kernel, PassedBy(stack) \cup {<<stack[1][1], stack[1][2]>>})
        /\ Upwards(g, mem, PassedBy(stack) \cup {<<stack[1][1], stack[1][2]>>}, OnStack(stack))
    BY <1>8, <2>1, PassClear
  <2>3. QED
    BY <1>3, <2>2
<1>10. Roots(g)' /\ Owners(g)' /\ Reached(g)' /\ Mapping(g)'
  BY <1>1, <1>2, <1>3, <1>6 DEF Roots, Owners, Reached, Mapping, Forest, Gone
<1>11. Forest(g)'
  BY <1>3, <1>9, <1>10 DEF Forest
<1>12. QED
  BY <1>2, <1>4, <1>5, <1>7, <1>11 DEF IInv, Placed

(* A call for the table of an entry; initial_pdpt is taken for one only in *)
(* an address space with the kernel's half.                                *)
LEMMA FreeDescendStep ==
  ASSUME IInv, FreeDescend
  PROVE  IInv'
<1> USE DEF FreeDescend, cpu
<1>1. TypeOK /\ CpuOK /\ KernelOK /\ Placed /\ op = "delete" /\ stack # << >>
      /\ stack[1][2] < Fanout
  BY TypeFacts DEF IInv, InLoop
<1>2. PICK g \in Placing : Forest(g)
  BY <1>1 DEF Placed
<1> DEFINE t == stack[1][1]
           i == stack[1][2]
           a == Next1(stack)
<1>3. /\ i \in Index /\ Slot = mem[t][i]
      /\ IsChild(g, t, i, Slot) \/ (Slot = BootPdpt /\ mm \in kernel)
  BY <1>2, DeleteEntry
<1>4. Live' = Live
  BY DEF Live
<1>5. CASE Slot \notin Frames
  <2>1. mm \in kernel /\ op' = "corrupt" /\ stack' = stack
    BY <1>3, <1>5 DEF IsChild
  <2>2. TypeOK'
    BY <1>1, <1>4, <2>1 DEF TypeOK, Stopped
  <2>3. CpuOK'
    BY <1>1, <2>1 DEF CpuOK, KernelMapped, DeletesOwn, Cached
  <2>4. QED
    BY <2>1, <2>2, <2>3 DEF IInv, Stopped
<1>6. CASE Slot \in Frames
  <2>1. op' = op /\ stack' = <<<<Slot, 0>>>> \o a
    BY <1>6 DEF Advance, Next1
  <2>2. IsChild(g, t, i, Slot) /\ BootPdpt \notin Frames
    BY <1>3, <1>6, Special DEF Tables
  <2>3. /\ stack \in Seq(Calls) /\ Len(stack) \in Nat /\ Len(stack) >= 1
        /\ t \in Frames /\ g.own[t] = mm /\ g.rank[t] = Depth
        /\ Depth \in Levels /\ Depth = Top + 1 - Len(stack)
        /\ mm \in Live /\ mm # current_mm
        /\ \A k \in 1 .. Len(stack) :
             g.own[stack[k][1]] = mm /\ g.rank[stack[k][1]] = Depth + k - 1
    BY <1>1, <1>2, DeleteTable
  <2>4. /\ a \in Seq(Calls) /\ Len(a) = Len(stack) /\ a[1] = <<t, i + 1>>
        /\ \A k \in 2 .. Len(stack) : a[k] = stack[k]
    BY <1>1, <2>3, AdvanceCall
  <2>5. a[1][1] = t /\ a[1][2] = i + 1
    BY <2>4
  <2>6. /\ PassedBy(a) = PassedBy(stack) \cup {<<t, i>>}
        /\ OnStack(a) = OnStack(stack)
    BY <1>1, <2>3, AdvanceSets
  <2> HIDE DEF a
  <2>7. /\ stack' \in Seq(Calls) /\ Len(stack') = Len(a) + 1
        /\ stack'[1] = <<Slot, 0>>
        /\ \A k \in 1 .. Len(a) : stack'[k + 1] = a[k]
    BY <1>6, <2>1, <2>4, PushCall
  <2>8. stack'[1][1] = Slot /\ stack' # << >> /\ 1 \in 1 .. Len(stack')
    BY <2>3, <2>4, <2>7
  <2>9. PassedBy(stack') = PassedBy(a) /\ OnStack(stack') = OnStack(a) \cup {Slot}
    BY <1>6, <2>1, <2>4, PushSets
  <2>10. TypeOK'
    BY <1>1, <1>4, <2>1, <2>7 DEF TypeOK, Calls
  <2>11. CpuOK'
    BY <1>1, <2>1, CpuStep DEF TypeOK
  <2>12. KernelOK'
    BY <1>1, <1>4, <2>1 DEF KernelOK, Apart, Counted, KernelGiven, Gone
  <2>13. /\ Downwards(g, mem, kernel, PassedBy(stack'))
         /\ Upwards(g, mem, PassedBy(stack'), OnStack(stack'))
    <3>1. /\ Downwards(g, mem, kernel, PassedBy(stack))
          /\ Upwards(g, mem, PassedBy(stack), OnStack(stack))
      BY <1>2 DEF Forest
    <3>2. /\ Downwards(g, mem, kernel, PassedBy(stack) \cup {<<t, i>>})
          /\ Upwards(g, mem, PassedBy(stack) \cup {<<t, i>>}, OnStack(stack) \cup {mem[t][i]})
      BY <3>1, PassTable
    <3>3. QED
      BY <1>3, <2>6, <2>9, <3>2
  <2>14. Roots(g)' /\ Owners(g)' /\ Reached(g)' /\ Mapping(g)'
    BY <1>1, <1>2, <1>4, <2>1, <2>8 DEF Roots, Owners, Reached, Mapping, Forest, Gone
  <2>15. Depth' = Depth - 1 /\ Len(stack') <= Top + 1 /\ Depth \in Int
    BY <2>3, <2>4, <2>7, Sizes DEF Depth, Levels
  <2>16. ASSUME NEW n \in 1 .. Len(stack)
         PROVE  stack'[n + 1][1] = stack[n][1] /\ stack[n][2] <= stack'[n + 1][2]
    <3>1. stack'[n + 1] = a[n]
      BY <2>4, <2>7
    <3>2. stack[n][2] \in 0 .. Fanout
      BY <2>3, StackCalls
    <3>3. CASE n = 1
      BY <3>1, <3>2, <3>3, <2>5, Sizes
    <3>4. CASE n # 1
      <4>1. a[n] = stack[n]
        BY <2>3, <2>4, <3>4
      <4>2. QED
        BY <4>1, <3>1, <3>2, Sizes
    <3>5. QED
      BY <3>3, <3>4
  <2>17. ASSUME NEW k \in 1 .. Len(stack'), k # 1
         PROVE  \E n \in 1 .. Len(stack) : n + 1 = k /\ n = k - 1
    <3>1. k - 1 \in 1 .. Len(stack) /\ (k - 1) + 1 = k
      BY <2>3, <2>4, <2>7, <2>17
    <3>2. QED
      BY <3>1
  <2>18. ASSUME NEW k \in 1 .. Len(stack')
         PROVE  g.own[stack'[k][1]] = mm /\ g.rank[stack'[k][1]] = Depth' + k - 1
    <3>1. CASE k = 1
      BY <2>2, <2>3, <2>8, <2>15, <3>1 DEF IsChild
    <3>2. CASE k # 1
      <4>1. PICK n \in 1 .. Len(stack) : n + 1 = k /\ n = k - 1
        BY <2>17, <3>2
      <4>2. /\ stack'[k][1] = stack[n][1] /\ g.own[stack[n][1]] = mm
            /\ g.rank[stack[n][1]] = Depth + n - 1
        BY <2>3, <2>16, <4>1
      <4>3. QED
        BY <4>1, <4>2, <2>15
    <3>3. QED
      BY <3>1, <3>2
  <2>19. ASSUME NEW k \in 2 .. Len(stack')
         PROVE  /\ g.up[stack'[k - 1][1]] = stack'[k][1]
                /\ g.slot[stack'[k - 1][1]] < stack'[k][2]
    <3>1. PICK n \in 1 .. Len(stack) : n + 1 = k /\ n = k - 1
      <4>1. k \in 1 .. Len(stack') /\ k # 1
        OBVIOUS
      <4>2. QED
        BY <4>1, <2>17
    <3>2. CASE n = 1
      <4>1. k = 2 /\ k - 1 = 1 /\ n + 1 = 2
        BY <3>1, <3>2
      <4>2. stack'[2] = a[1]
        BY <2>3, <2>4, <2>7, <3>2, <4>1
      <4>3. i < i + 1
        BY <1>3, Sizes DEF Index
      <4>4. QED
        BY <4>1, <4>2, <4>3, <2>2, <2>5, <2>8 DEF IsChild
    <3>3. CASE n # 1
      <4>1. PICK j \in 1 .. Len(stack) : j + 1 = n /\ j = n - 1
        <5>1. n - 1 \in 1 .. Len(stack) /\ (n - 1) + 1 = n
          BY <2>3, <3>3
        <5>2. QED
          BY <5>1
      <4>2. stack'[n][1] = stack[j][1] /\ stack'[k][1] = stack[n][1] /\ stack[n][2] <= stack'[k][2]
        BY <2>16, <3>1, <4>1
      <4>3. g.up[stack[j][1]] = stack[n][1] /\ g.slot[stack[j][1]] < stack[n][2]
        <5>1. n \in 2 .. Len(stack)
          BY <2>3, <3>3
        <5>2. QED
          BY <1>1, <1>2, <4>1, <5>1 DEF Forest, Deleting
      <4>4. /\ stack[n][2] \in 0 .. Fanout /\ stack[j][1] \in Frames
            /\ g.slot[stack[j][1]] \in Index /\ stack'[k][2] \in 0 .. Fanout
        <5>1. k \in 1 .. Len(stack')
          OBVIOUS
        <5>2. stack'[k][2] \in 0 .. Fanout
          BY <2>7, <5>1, StackCalls
        <5>3. stack[n][2] \in 0 .. Fanout /\ stack[j][1] \in Frames
          BY <2>3, StackCalls
        <5>4. QED
          BY <5>2, <5>3, PlacingFields
      <4>5. g.slot[stack[j][1]] < stack'[k][2]
        <5>1. PICK x \in Int, y \in Int, z \in Int :
                x = g.slot[stack[j][1]] /\ y = stack[n][2] /\ z = stack'[k][2]
          <6>1. /\ g.slot[stack[j][1]] \in Int /\ stack[n][2] \in Int
                /\ stack'[k][2] \in Int
            BY ONLY <4>4, Sizes DEF Index
          <6>2. QED
            BY ONLY <6>1
        <5>2. x < y /\ y <= z
          BY <4>2, <4>3, <5>1
        <5>3. x < z
          BY ONLY <5>2, x \in Int, y \in Int, z \in Int
        <5>4. QED
          BY <5>1, <5>3
      <4>6. QED
        BY <3>1, <4>2, <4>3, <4>5
    <3>4. QED
      BY <3>2, <3>3
  <2>20. Deleting(g)'
    BY <1>4, <2>1, <2>3, <2>15, <2>18, <2>19 DEF Deleting
  <2>21. Forest(g)'
    BY <2>13, <2>14, <2>20 DEF Forest
  <2>22. QED
    BY <1>2, <2>10, <2>11, <2>12, <2>21 DEF IInv, Placed
<1>7. QED
  BY <1>5, <1>6

(* The frame of a page is given back.                                      *)
LEMMA FreeLeafStep ==
  ASSUME IInv, FreeLeaf
  PROVE  IInv'
<1> USE DEF FreeLeaf, cpu
<1>1. TypeOK /\ CpuOK /\ KernelOK /\ Placed /\ op = "delete" /\ stack # << >>
      /\ stack[1][2] < Fanout
  BY TypeFacts DEF IInv, InLoop
<1>2. PICK g \in Placing : Forest(g)
  BY <1>1 DEF Placed
<1> DEFINE t == stack[1][1]
           i == stack[1][2]
<1>3. /\ stack \in Seq(Calls) /\ Len(stack) \in Nat /\ t \in Frames /\ g.own[t] = mm
      /\ g.rank[t] = Depth /\ mm \in Live /\ mm \in Mms /\ mm # current_mm
      /\ \A k \in 1 .. Len(stack) :
           stack[k][1] \in Frames /\ g.rank[stack[k][1]] = Depth + k - 1
  BY <1>1, <1>2, DeleteTable
<1>4. i \in Index /\ Slot = mem[t][i] /\ IsChild(g, t, i, Slot)
  BY <1>2, DeleteEntry, Sizes
<1>5. Slot \in Frames /\ g.own[Slot] = mm /\ g.rank[Slot] = -1
  <2>1. /\ Slot \in Frames /\ g.own[Slot] = g.own[t]
        /\ g.rank[Slot] = g.rank[t] - 1
    BY ONLY <1>4 DEF IsChild
  <2>2. g.rank[t] = 0
    BY <1>3
  <2>3. QED
    BY ONLY <2>1, <2>2, <1>3
<1>6. mm # NoMm /\ Slot \notin free \cup heap \cup loose
  BY <1>2, <1>3, <1>5, Special DEF Forest, Owners
<1>7. free' = free \cup {Slot} /\ op' = op
  BY <1>5, <1>6 DEF free_frame
<1>8. PICK h \in Placing : /\ h.own[Slot] = NoMm
                          /\ \A x \in Frames : x # Slot => SamePlace(g, h, x)
  BY <1>5, TakeFields
<1>9. \A k \in 1 .. Len(stack) : SamePlace(g, h, stack[k][1])
  <2>1. \A k \in 1 .. Len(stack) : stack[k][1] # Slot
    BY <1>3, <1>5
  <2>2. QED
    BY <1>3, <1>8, <2>1
<1>10. /\ Deleting(h)' /\ stack' # << >> /\ stack' \in Seq(Calls)
       /\ PassedBy(stack') = PassedBy(stack) \cup {<<t, i>>}
       /\ OnStack(stack') = OnStack(stack)
  BY <1>1, <1>2, <1>7, <1>9, AdvanceDeleting DEF Forest
<1>11. Live' = Live
  BY DEF Live
<1>12. TypeOK'
  BY <1>1, <1>5, <1>7, <1>10, <1>11 DEF TypeOK, Calls
<1>13. CpuOK'
  BY <1>1, <1>7, CpuStep DEF TypeOK
<1>14. KernelOK'
  BY <1>1, <1>6, <1>7, <1>11 DEF KernelOK, Apart, Counted, KernelGiven, Gone
<1>15. /\ Downwards(h, mem, kernel, PassedBy(stack'))
       /\ Upwards(h, mem, PassedBy(stack'), OnStack(stack'))
  <2>1. /\ Downwards(g, mem, kernel, PassedBy(stack))
        /\ Upwards(g, mem, PassedBy(stack), OnStack(stack))
    BY <1>2 DEF Forest
  <2>2. /\ Downwards(h, mem, kernel, PassedBy(stack) \cup {<<t, i>>})
        /\ Upwards(h, mem, PassedBy(stack) \cup {<<t, i>>}, OnStack(stack))
    BY <1>3, <1>4, <1>5, <1>8, <2>1, PassPage
  <2>3. QED
    BY <1>10, <2>2
<1>16. Roots(h)'
  <2>1. ASSUME NEW m \in Live
        PROVE  h.own[pml4[m]] = m /\ h.rank[pml4[m]] = Top
    <3>1. pml4[m] \in Frames /\ g.own[pml4[m]] = m /\ g.rank[pml4[m]] = Top
      BY <1>1, <1>2, TypeFacts DEF Forest, Roots
    <3>2. pml4[m] # Slot
      BY <1>5, <3>1, Sizes
    <3>3. QED
      BY <1>8, <3>1, <3>2 DEF SamePlace
  <2>2. ASSUME NEW f \in Frames, h.own[f] # NoMm, h.rank[f] = Top
        PROVE  pml4[h.own[f]] = f
    BY <1>2, <1>8, <2>2 DEF Forest, Roots, SamePlace
  <2>3. QED
    BY <1>10, <1>11, <2>1, <2>2 DEF Roots
<1>17. Owners(h)'
  BY <1>2, <1>5, <1>7, <1>8, <1>11 DEF Owners, Forest, SamePlace
<1>18. Reached(h)'
  BY <1>2, <1>7, <1>8 DEF Reached, Forest, SamePlace, Gone
<1>19. Mapping(h)'
  BY <1>1, <1>7 DEF Mapping
<1>20. Forest(h)'
  BY <1>10, <1>15, <1>16, <1>17, <1>18, <1>19 DEF Forest
<1>21. QED
  BY <1>8, <1>12, <1>13, <1>14, <1>20 DEF IInv, Placed

(* What giving a table back changes: no other address space.               *)
LEMMA FreeTableFacts ==
  ASSUME IInv, FreeTable, NEW g \in Placing, Forest(g)
  PROVE  /\ mem' \in Memory
         /\ \A x \in Tables : x # stack[1][1] => mem'[x] = mem[x]
         /\ \A m \in Live, v \in Pages :
              m # mm => WalkIn(mem', pml4[m], v, 0) = WalkIn(mem, pml4[m], v, 0)
<1>1. /\ op = "delete" /\ stack # << >> /\ TypeOK /\ KernelOK
      /\ mem' = [mem EXCEPT ![stack[1][1]] = JunkPage]
  BY TypeFacts DEF IInv, FreeTable
<1>2. stack[1][1] \in Frames /\ g.own[stack[1][1]] = mm
  BY <1>1, DeleteTable
<1>3. mem' \in Memory /\ \A x \in Tables : x # stack[1][1] => mem'[x] = mem[x]
  <2>1. mem \in Memory /\ stack[1][1] \in Tables /\ JunkPage \in [Index -> Entries]
    BY <1>1, <1>2, TypeFacts, Special DEF JunkPage, Entries
  <2>2. QED
    BY <1>1, <2>1 DEF Memory
<1>4. ASSUME NEW m \in Live, m # mm
      PROVE  \A v \in Pages : WalkIn(mem', pml4[m], v, 0) = WalkIn(mem, pml4[m], v, 0)
  <2>1. \A x \in Frames : g.own[x] = m => mem'[x] = mem[x]
    BY <1>2, <1>3, <1>4, Special
  <2>2. ~Gone(m)
    BY <1>4 DEF Gone
  <2>3. QED
    BY <1>1, <1>3, <2>1, <2>2, OtherMaps
<1>5. QED
  BY <1>3, <1>4

(* A table is given back, and the call returns.                            *)
LEMMA FreeTableStep ==
  ASSUME IInv, FreeTable
  PROVE  IInv'
<1> USE DEF FreeTable, cpu
<1>1. TypeOK /\ CpuOK /\ KernelOK /\ Placed /\ op = "delete" /\ stack # << >>
      /\ stack[1][2] = Fanout
  BY TypeFacts DEF IInv
<1>2. PICK g \in Placing : Forest(g)
  BY <1>1 DEF Placed
<1> DEFINE t == stack[1][1]
<1>3. /\ stack \in Seq(Calls) /\ Len(stack) \in Nat /\ Len(stack) >= 1
      /\ t \in Frames /\ g.own[t] = mm
      /\ g.rank[t] = Depth /\ mm \in Live /\ mm \in Mms /\ mm # current_mm
      /\ Depth \in Levels /\ Depth = Top + 1 - Len(stack)
      /\ \A k \in 1 .. Len(stack) :
           /\ stack[k][1] \in Frames /\ g.own[stack[k][1]] = mm
           /\ g.rank[stack[k][1]] = Depth + k - 1 /\ (stack[k][1] = t => k = 1)
  BY <1>1, <1>2, DeleteTable
<1>4. mm # NoMm /\ t \notin free \cup heap \cup loose
  BY <1>2, <1>3, Special DEF Forest, Owners
<1>5. free' = free \cup {t} /\ op' = op
  BY <1>3, <1>4 DEF free_frame
<1>6. PICK h \in Placing : /\ h.own[t] = NoMm
                          /\ \A x \in Frames : x # t => SamePlace(g, h, x)
  BY <1>3, TakeFields
<1>7. Live' = Live
  BY DEF Live
<1>8. /\ stack' \in Seq(Calls) /\ Len(stack') = Len(stack) - 1
      /\ \A k \in 1 .. Len(stack') : stack'[k] = stack[k + 1]
      /\ \A j \in Index : <<t, j>> \in PassedBy(stack)
      /\ \A x \in Frames, j \in Index :
           x # t => (<<x, j>> \in PassedBy(stack') <=> <<x, j>> \in PassedBy(stack))
      /\ \A x \in Frames : x # t => (x \in OnStack(stack') <=> x \in OnStack(stack))
  BY <1>1, <1>3, PopSets
<1>9. mem' \in Memory /\ \A x \in Tables : x # t => mem'[x] = mem[x]
  BY <1>2, FreeTableFacts
<1>10. TypeOK'
  BY <1>1, <1>3, <1>5, <1>7, <1>8, <1>9 DEF TypeOK, Calls, Memory, Entries
<1>11. ASSUME NEW m \in Live, m # mm, NEW v \in Pages
       PROVE  WalkIn(mem', pml4[m], v, 0) = WalkIn(mem, pml4[m], v, 0)
  BY <1>2, <1>11, FreeTableFacts
<1>12. CpuOK'
  <2>1. current_mm # NoMm => current_mm \in Live /\ current_mm # mm
    BY <1>1, <1>3 DEF TypeOK
  <2>2. op' \notin {"reset", "corrupt"} /\ dropped \subseteq dropped'
    BY <1>1, <1>5
  <2>3. QED
    BY <1>1, <1>11, <2>1, <2>2, CpuStep
<1>13. KernelOK'
  <2>1. mem'[Boot] = mem[Boot]
    BY <1>3, <1>9, Special DEF Tables
  <2>2. ASSUME NEW m \in kernel, m # mm
        PROVE  mem'[pml4[m]] = mem[pml4[m]]
    <3>1. m \in Live /\ pml4[m] \in Frames /\ pml4[m] \in Tables
      BY <1>1, TypeFacts, Special DEF KernelOK
    <3>2. g.own[pml4[m]] = m
      BY <1>2, <2>2, <3>1 DEF Forest, Roots, Gone
    <3>3. QED
      BY <1>3, <1>9, <2>2, <3>1, <3>2
  <2>3. KernelGiven'
    BY <1>1, <1>5, <2>1, <2>2 DEF KernelOK, KernelGiven, Gone
  <2>4. Apart'
    BY <1>1, <1>4, <1>5 DEF KernelOK, Apart
  <2>5. QED
    BY <1>1, <1>5, <1>7, <2>1, <2>3, <2>4 DEF KernelOK, Counted
<1>14. /\ Downwards(h, mem', kernel, PassedBy(stack'))
       /\ Upwards(h, mem', PassedBy(stack'), OnStack(stack'))
  <2>1. /\ Downwards(g, mem, kernel, PassedBy(stack))
        /\ Upwards(g, mem, PassedBy(stack), OnStack(stack))
    BY <1>2 DEF Forest
  <2>2. \A f \in OnStack(stack) : g.up[f] # t \/ g.rank[f] >= g.rank[t]
    <3>1. ASSUME NEW f \in OnStack(stack)
          PROVE  g.rank[f] >= g.rank[t]
      <4>1. PICK k \in 1 .. Len(stack) : stack[k][1] = f
        BY DEF OnStack
      <4>2. QED
        BY <1>3, <4>1, Sizes DEF Levels
    <3>2. QED
      BY <3>1
  <2>3. ASSUME g.rank[t] < Top
        PROVE  <<g.up[t], g.slot[t]>> \in PassedBy(stack)
    <3>1. 2 \in 2 .. Len(stack) /\ 2 \in 1 .. Len(stack) /\ 2 - 1 = 1
      BY <1>3, <2>3, Sizes
    <3>2. g.up[t] = stack[2][1] /\ g.slot[t] < stack[2][2]
      BY <1>1, <1>2, <3>1 DEF Forest, Deleting
    <3>3. g.up[t] \in Frames /\ g.slot[t] \in Index
      BY <1>3, PlacingFields
    <3>4. QED
      BY <3>1, <3>2, <3>3 DEF PassedBy
  <2>4. \A x \in Frames : x # t => mem'[x] = mem[x]
    BY <1>9, Special
  <2>5. Dropping(g, h, mem, mem', PassedBy(stack), OnStack(stack),
                 PassedBy(stack'), OnStack(stack'), t)
    BY <1>6, <1>8, <2>2, <2>3, <2>4 DEF Dropping
  <2>6. QED
    BY <1>3, <2>1, <2>5, DropTable
<1>15. Roots(h)'
  <2>1. ASSUME NEW m \in Live, m # mm
        PROVE  h.own[pml4[m]] = m /\ h.rank[pml4[m]] = Top
    <3>1. pml4[m] \in Frames /\ g.own[pml4[m]] = m /\ g.rank[pml4[m]] = Top
      BY <1>1, <1>2, <2>1, TypeFacts DEF Forest, Roots
    <3>2. QED
      BY <1>3, <1>6, <2>1, <3>1 DEF SamePlace
  <2>2. ASSUME NEW f \in Frames, h.own[f] # NoMm, h.rank[f] = Top
        PROVE  pml4[h.own[f]] = f
    BY <1>2, <1>6, <2>2 DEF Forest, Roots, SamePlace
  <2>3. pml4[mm] \in Frames /\ g.own[pml4[mm]] = mm /\ g.rank[pml4[mm]] = Top
    BY <1>1, <1>2, <1>3, TypeFacts DEF Forest, Roots
  <2>4. CASE stack' = << >>
    <3>0. Len(stack') = 0
      BY <1>8, <2>4, StackCalls
    <3>1. g.rank[t] = Top
      BY <1>3, <1>8, <3>0, Sizes
    <3>2. pml4[mm] = t
      BY <1>2, <1>3, <1>4, <3>1 DEF Forest, Roots
    <3>3. h.own[pml4[mm]] # mm
      BY <1>4, <1>6, <3>2
    <3>4. QED
      BY <1>5, <1>7, <1>1, <2>1, <2>2, <2>4, <3>3 DEF Roots, Gone
  <2>5. CASE stack' # << >>
    <3>1. g.rank[t] # Top
      BY <1>3, <1>8, <2>5, StackCalls, Sizes
    <3>2. h.own[pml4[mm]] = mm /\ h.rank[pml4[mm]] = Top
      BY <1>6, <2>3, <3>1 DEF SamePlace
    <3>3. QED
      BY <1>7, <2>1, <2>2, <2>5, <3>2 DEF Roots
  <2>6. QED
    BY <2>4, <2>5
<1>16. Owners(h)'
  BY <1>2, <1>3, <1>5, <1>6, <1>7 DEF Owners, Forest, SamePlace
<1>17. Reached(h)'
  <2>1. SUFFICES ASSUME NEW f \in Frames, h.own[f] # NoMm, h.rank[f] = -1, h.own[f] # mm
                 PROVE  \E v \in Pages : WalkIn(mem', pml4[h.own[f]], v, 0) = f
    BY <1>1, <1>5 DEF Reached, Gone
  <2>2. f # t /\ SamePlace(g, h, f)
    BY <1>6, <2>1
  <2>3. g.own[f] \in Live /\ g.own[f] # mm /\ g.own[f] # NoMm /\ g.rank[f] = -1
    BY <1>2, <2>1, <2>2 DEF Forest, Owners, SamePlace
  <2>4. PICK v \in Pages : WalkIn(mem, pml4[g.own[f]], v, 0) = f
    BY <1>2, <2>3 DEF Forest, Reached, Gone
  <2>5. QED
    BY <1>11, <2>2, <2>3, <2>4 DEF SamePlace
<1>18. Mapping(h)'
  BY <1>1, <1>5 DEF Mapping
<1>19. Deleting(h)'
  <2>1. Depth' = Depth + 1 /\ Len(stack') <= Top + 1 /\ Depth \in Int
    BY <1>3, <1>8, Sizes DEF Depth, Levels
  <2>2. ASSUME NEW k \in 1 .. Len(stack')
        PROVE  /\ k + 1 \in 1 .. Len(stack) /\ stack'[k] = stack[k + 1]
               /\ SamePlace(g, h, stack[k + 1][1])
               /\ g.own[stack[k + 1][1]] = mm
               /\ g.rank[stack[k + 1][1]] = Depth' + k - 1
    <3>1. PICK n \in 1 .. Len(stack) : n = k + 1 /\ n # 1
      BY <1>3, <1>8
    <3>2. stack[n][1] # t /\ stack[n][1] \in Frames
      BY <1>3, <3>1
    <3>3. SamePlace(g, h, stack[n][1])
      BY <1>6, <3>2
    <3>4. g.own[stack[n][1]] = mm /\ g.rank[stack[n][1]] = Depth + n - 1
      BY <1>3
    <3>5. g.rank[stack[n][1]] = Depth' + k - 1
      BY <3>1, <3>4, <2>1
    <3>6. QED
      BY <1>8, <3>1, <3>3, <3>4, <3>5
  <2>3. ASSUME NEW k \in 1 .. Len(stack')
        PROVE  h.own[stack'[k][1]] = mm /\ h.rank[stack'[k][1]] = Depth' + k - 1
    BY <2>2 DEF SamePlace
  <2>4. ASSUME NEW k \in 2 .. Len(stack')
        PROVE  /\ h.up[stack'[k - 1][1]] = stack'[k][1]
               /\ h.slot[stack'[k - 1][1]] < stack'[k][2]
    <3>1. PICK j \in 1 .. Len(stack') : j = k - 1 /\ j + 1 = k
      <4>1. k - 1 \in 1 .. Len(stack') /\ (k - 1) + 1 = k
        BY <1>3, <1>8
      <4>2. QED
        BY <4>1
    <3>2. PICK n \in 2 .. Len(stack) : n = k + 1 /\ n - 1 = k
      BY <1>3, <1>8
    <3>3. g.up[stack[n - 1][1]] = stack[n][1] /\ g.slot[stack[n - 1][1]] < stack[n][2]
      BY <1>1, <1>2 DEF Forest, Deleting
    <3>4. stack'[j] = stack[k] /\ SamePlace(g, h, stack[k][1])
      BY <2>2, <3>1
    <3>5. stack'[k] = stack[n]
      <4>1. k \in 1 .. Len(stack')
        OBVIOUS
      <4>2. QED
        BY <4>1, <1>8, <3>2
    <3>6. QED
      BY <3>1, <3>2, <3>3, <3>4, <3>5 DEF SamePlace
  <2>5. QED
    BY <1>1, <1>3, <1>7, <2>1, <2>3, <2>4 DEF Deleting
<1>20. Forest(h)'
  BY <1>14, <1>15, <1>16, <1>17, <1>18, <1>19 DEF Forest
<1>21. QED
  BY <1>6, <1>10, <1>12, <1>13, <1>20 DEF IInv, Placed

(* When the outermost call has returned, nothing is left of the address    *)
(* space: a frame of it at the highest level would hang from another.      *)
LEMMA NoneLeft ==
  ASSUME IInv, op = "delete", stack = << >>, NEW g \in Placing, Forest(g)
  PROVE  /\ mm \in Live /\ mm # current_mm
         /\ \A f \in Frames : g.own[f] # mm
<1>1. TypeOK /\ mm \in Live /\ mm # current_mm
  BY DEF IInv, Forest, Deleting
<1>2. mm \in Mms /\ mm # NoMm /\ g.own[pml4[mm]] # mm /\ Top \in Nat
  BY <1>1, TypeFacts, Special, Sizes DEF Forest, Roots, Gone
<1> DEFINE Bad == {n \in Nat : \E f \in Frames : g.own[f] = mm /\ Top - g.rank[f] = n}
<1>3. ASSUME Bad # {}
      PROVE  FALSE
  <2>1. PICK n \in Bad : \A k \in Bad : n <= k
    <3>1. Bad \subseteq Nat
      OBVIOUS
    <3> HIDE DEF Bad
    <3>2. QED
      BY <1>3, <3>1, LeastElement
  <2>2. PICK f \in Frames : g.own[f] = mm /\ Top - g.rank[f] = n
    BY <2>1
  <2>3. g.rank[f] \in -1 .. Top /\ g.up[f] \in Frames
    BY PlacingFields
  <2>4. g.rank[f] # Top
    BY <1>2, <2>2 DEF Forest, Roots
  <2>5. g.own[g.up[f]] = mm /\ g.rank[g.up[f]] = g.rank[f] + 1
    <3>1. g.rank[f] < Top /\ g.own[f] # NoMm
      BY <1>2, <2>2, <2>3, <2>4
    <3>2. Upwards(g, mem, PassedBy(stack), OnStack(stack))
      BY DEF Forest
    <3>3. QED
      BY <2>2, <3>1, <3>2 DEF Upwards
  <2>6. Top - g.rank[g.up[f]] = n - 1 /\ n - 1 \in Nat
    BY <1>2, <2>2, <2>3, <2>4, <2>5
  <2>7. n - 1 \in Bad
    BY <2>3, <2>5, <2>6
  <2>8. QED
    BY <2>1, <2>6, <2>7
<1>4. ASSUME NEW f \in Frames, g.own[f] = mm
      PROVE  FALSE
  <2>1. g.rank[f] \in -1 .. Top
    BY PlacingFields
  <2>2. Top - g.rank[f] \in Nat
    BY <2>1, <1>2
  <2>3. QED
    BY <1>3, <1>4, <2>2
<1>5. QED
  BY <1>1, <1>4

(* The heap has no more room than its pages give.                          *)
LEMMA RoomBound ==
  ASSUME NEW r \in Int, r >= 0, NEW L, IsFiniteSet(L), NEW H \in SUBSET Frames,
         r + Cardinality(L) = PerPage * Cardinality(H)
  PROVE  r \in 0 .. PerPage * Cardinality(Frames)
<1> DEFINE a == Cardinality(L)
           b == Cardinality(H)
           c == Cardinality(Frames)
<1>1. IsFiniteSet(Frames) /\ PerPage \in Nat
  BY VmmAssumption
<1>2. a \in Nat /\ b \in Nat /\ c \in Nat /\ b <= c
  BY <1>1, FS_CardinalityType, FS_Subset
<1>3. r + a = PerPage * b
  OBVIOUS
<1> HIDE DEF a, b, c
<1>4. PerPage * b <= PerPage * c /\ PerPage * b \in Nat /\ PerPage * c \in Nat
  BY <1>1, <1>2, MulMonotonic
<1> DEFINE x == PerPage * b
           y == PerPage * c
<1>5. x <= y /\ x \in Nat /\ y \in Nat /\ r + a = x
  BY <1>3, <1>4
<1> HIDE DEF x, y
<1>6. r \in 0 .. y
  BY <1>2, <1>5
<1>7. QED
  BY <1>6 DEF y, c

(* delete_mm returns.                                                      *)
LEMMA DeleteDoneStep ==
  ASSUME IInv, DeleteDone
  PROVE  IInv'
<1> USE DEF DeleteDone, cpu, args
<1>1. TypeOK /\ CpuOK /\ KernelOK /\ Placed /\ op = "delete" /\ stack = << >>
  BY TypeFacts DEF IInv
<1>2. PICK g \in Placing : Forest(g)
  BY <1>1 DEF Placed
<1>3. mm \in Live /\ mm # current_mm /\ \A f \in Frames : g.own[f] # mm
  BY <1>1, <1>2, NoneLeft
<1>4. mm \in Mms /\ mm # NoMm
  BY <1>1, <1>3, TypeFacts, Special
<1>5. /\ pml4' \in [Mms -> Frames \cup {NoFrame}] /\ pml4'[mm] = NoFrame
      /\ \A m \in Mms : m # mm => pml4'[m] = pml4[m]
  BY <1>1, <1>4 DEF TypeOK
<1>6. Live' = Live \ {mm}
  BY <1>5 DEF Live
<1>7. CpuOK'
  <2>1. current_mm # NoMm => pml4'[current_mm] = pml4[current_mm]
    BY <1>1, <1>3, <1>5 DEF TypeOK, Live
  <2>2. op' \notin {"reset", "corrupt"}
    BY DEF Return
  <2>3. QED
    BY <1>1, <2>1, <2>2, CpuStep
<1>8. current_mm \in Live' \cup {NoMm}
  BY <1>1, <1>3, <1>6 DEF TypeOK
<1>9. CASE KfreePanics
  <2>1. TypeOK'
    BY <1>1, <1>5, <1>8, <1>9 DEF TypeOK, Stopped
  <2>2. QED
    BY <1>7, <1>9, <2>1 DEF IInv, Stopped
<1>10. CASE ~KfreePanics
  <2>1. op' = "idle" /\ stack' = << >> /\ room' = room + 1
    BY <1>10 DEF Return
  <2>2. IsFiniteSet(Live') /\ room' + Cardinality(Live') = PerPage * Cardinality(heap)
    <3>1. /\ IsFiniteSet(Live) /\ room + Cardinality(Live) = PerPage * Cardinality(heap)
          /\ room \in Int
      BY <1>1 DEF KernelOK, Counted, TypeOK
    <3>2. IsFiniteSet(Live \ {mm}) /\ Cardinality(Live \ {mm}) = Cardinality(Live) - 1
      BY <3>1, <1>3, FS_RemoveElement
    <3>3. Cardinality(Live) \in Nat
      BY <3>1, FS_CardinalityType
    <3>4. room + 1 + (Cardinality(Live) - 1) = room + Cardinality(Live)
      BY <3>1, <3>3
    <3>5. QED
      BY <1>6, <2>1, <3>1, <3>2, <3>4
  <2>3. TypeOK'
    <3>1. room' \in Int /\ room' >= 0 /\ heap \in SUBSET Frames
      BY <1>1, <2>1 DEF TypeOK
    <3>2. room' \in 0 .. PerPage * Cardinality(Frames)
      BY <2>2, <3>1, RoomBound
    <3>3. /\ mm' = NoMm /\ page' = << >> /\ frame' = NoFrame /\ table' = NoFrame
          /\ level' = 0 /\ 0 \in Levels
      BY <1>10, Sizes DEF Return, Levels
    <3>4. QED
      BY <1>1, <1>5, <1>8, <2>1, <3>2, <3>3 DEF TypeOK
  <2>4. KernelOK'
    <3>1. KernelGiven'
      BY <1>1, <1>5 DEF TypeOK, KernelOK, KernelGiven, Gone
    <3>2. QED
      BY <1>1, <1>6, <2>1, <2>2, <3>1 DEF KernelOK, Apart, Counted
  <2>5. Downwards(g, mem', kernel', PassedBy(stack'))
    BY <1>1, <1>2, <1>3, <2>1 DEF Forest, Downwards, IsTable
  <2>6. Upwards(g, mem', PassedBy(stack'), OnStack(stack'))
    BY <1>1, <1>2, <2>1 DEF Forest
  <2>7. Owners(g)'
    BY <1>2, <1>3, <1>6 DEF Forest, Owners
  <2>8. Roots(g)'
    <3>1. \A m \in Live' : pml4'[m] = pml4[m] /\ ~Gone(m) /\ m \in Live
      BY <1>5, <1>6 DEF Live, Gone
    <3>2. \A f \in Frames : g.own[f] # NoMm => pml4'[g.own[f]] = pml4[g.own[f]]
      BY <1>3, <1>5, PlacingFields
    <3>3. QED
      BY <1>2, <2>1, <3>1, <3>2 DEF Forest, Roots, Gone
  <2>9. Reached(g)'
    <3>1. \A f \in Frames : g.own[f] # NoMm => pml4'[g.own[f]] = pml4[g.own[f]] /\ ~Gone(g.own[f])
      BY <1>3, <1>5, PlacingFields DEF Gone
    <3>2. QED
      BY <1>2, <3>1 DEF Forest, Reached
  <2>10. Mapping(g)' /\ Deleting(g)'
    BY <2>1 DEF Mapping, Deleting
  <2>11. Forest(g)'
    BY <2>5, <2>6, <2>7, <2>8, <2>9, <2>10 DEF Forest
  <2>12. QED
    BY <1>2, <1>7, <2>3, <2>4, <2>11 DEF IInv, Placed
<1>11. QED
  BY <1>9, <1>10

-----------------------------------------------------------------------------
(***************************************************************************)
(* map_page.                                                               *)
(***************************************************************************)
(* A walk that does not use entry i of t does not notice its change.       *)
LEMMA EntryMissed ==
  ASSUME NEW g \in Placing, NEW M \in Memory, NEW N \in Memory, NEW K, NEW X,
         NEW m, NEW r, TreeOf(g, M, K, X, m, r), NEW v \in Paths,
         NEW t \in Frames, NEW i, SameElsewhere(g, M, N, t, i), NEW l \in Levels,
         g.rank[t] = l, WalkIn(M, r, v, l + 1) # t \/ v[l] # i
  PROVE  WalkIn(N, r, v, 0) = WalkIn(M, r, v, 0)
<1>1. 0 \in 0 .. Top + 1 /\ m # NoMm
  BY Sizes, Special DEF TreeOf
<1>2. ASSUME NEW j \in 0 .. Top, NEW x \in Frames, g.own[x] = m, g.rank[x] = j,
             WalkIn(M, r, v, j + 1) = x
      PROVE  N[x][v[j]] = M[x][v[j]]
  <2>1. j \in Levels
    BY DEF Levels
  <2>2. v[j] \in Index
    BY <2>1, PathIndex
  <2>3. <<x, v[j]>> # <<t, i>>
    BY <1>2
  <2>4. QED
    BY <1>1, <1>2, <2>2, <2>3 DEF SameElsewhere
<1>3. \A j \in 0 .. Top + 1 : WalkIn(N, r, v, j) = WalkIn(M, r, v, j)
  BY <1>1, <1>2, TreeSame
<1>4. QED
  BY <1>1, <1>3

(* A walk that uses it finds what it is now.                               *)
LEMMA EntryMet ==
  ASSUME NEW g \in Placing, NEW M \in Memory, NEW N \in Memory, NEW K, NEW X,
         NEW m, NEW r, TreeOf(g, M, K, X, m, r), NEW v \in Paths,
         NEW t \in Frames, NEW i, SameElsewhere(g, M, N, t, i), NEW l \in Levels,
         g.rank[t] = l, WalkIn(M, r, v, l + 1) = t, v[l] = i
  PROVE  WalkIn(M, r, v, l) = M[t][i] /\ WalkIn(N, r, v, l) = N[t][i]
<1>1. m # NoMm /\ r \in Places /\ v \in [Levels -> Index] /\ t \in Tables
  BY Sizes, Special, PathIndex DEF TreeOf
<1>2. PICK k \in 0 .. Top + 1 : k = l + 1 /\ k - 1 = l
  BY Sizes DEF Levels
<1>3. ASSUME NEW j \in k .. Top, NEW x \in Frames, g.own[x] = m, g.rank[x] = j,
             WalkIn(M, r, v, j + 1) = x
      PROVE  N[x][v[j]] = M[x][v[j]]
  <2>1. j \in Levels /\ j # l
    BY <1>2, Sizes DEF Levels
  <2>2. v[j] \in Index
    BY <2>1, PathIndex
  <2>3. <<x, v[j]>> # <<t, i>>
    BY <1>3, <2>1
  <2>4. QED
    BY <1>1, <1>3, <2>2, <2>3 DEF SameElsewhere
<1>4. \A j \in k .. Top + 1 : WalkIn(N, r, v, j) = WalkIn(M, r, v, j)
  BY <1>3, TreeSame
<1>5. k \in k .. Top + 1
  BY <1>2
<1>6. WalkIn(N, r, v, k) = t
  BY <1>2, <1>4, <1>5
<1>7. WalkIn(N, r, v, l + 1) = t
  BY <1>2, <1>6
<1>8. QED
  BY <1>1, <1>7, WalkStep

(* A clear entry of the table at level l of a walk, above the last level,  *)
(* now points to an empty table: no walk finds anything new.               *)
LEMMA EmptyTable ==
  ASSUME NEW g \in Placing, NEW M \in Memory, NEW N \in Memory, NEW K, NEW X,
         NEW m, NEW r, TreeOf(g, M, K, X, m, r), NEW v \in Paths,
         NEW t \in Frames, NEW i, SameElsewhere(g, M, N, t, i), NEW l \in Levels,
         g.rank[t] = l, l > 0, NEW f \in Frames, M[t][i] = NoFrame, N[t][i] = f,
         \A j \in Index : N[f][j] = NoFrame
  PROVE  WalkIn(N, r, v, 0) = WalkIn(M, r, v, 0)
<1>1. CASE WalkIn(M, r, v, l + 1) # t \/ v[l] # i
  BY <1>1, EntryMissed
<1>2. CASE WalkIn(M, r, v, l + 1) = t /\ v[l] = i
  <2>1. WalkIn(M, r, v, l) = NoFrame /\ WalkIn(N, r, v, l) = f
    BY <1>2, EntryMet
  <2>2. r \in Places /\ v \in [Levels -> Index] /\ f \in Tables /\ l \in 0 .. Top
    BY Special DEF TreeOf, Levels
  <2>3. PICK k \in Levels : k + 1 = l /\ k \in 0 .. Top
    <3>1. l - 1 \in Levels /\ l - 1 + 1 = l
      BY Sizes DEF Levels
    <3>2. QED
      BY <3>1 DEF Levels
  <2>4. WalkIn(N, r, v, k) = N[f][v[k]]
    BY <2>1, <2>2, <2>3, WalkStep
  <2>5. WalkIn(N, r, v, k) = NoFrame
    BY <2>4, PathIndex
  <2>6. WalkIn(N, r, v, 0) = NoFrame /\ WalkIn(M, r, v, 0) = NoFrame
    BY <2>1, <2>2, <2>3, <2>5, WalkStops
  <2>7. QED
    BY <2>6
<1>3. QED
  BY <1>1, <1>2

(* What map_page's new table changes.                                      *)
LEMMA MapTableFacts ==
  ASSUME IInv, NEW f \in free, MapTable(f), NEW g \in Placing, Forest(g)
  PROVE  /\ f \in Frames /\ g.own[f] = NoMm /\ f # table
         /\ mem' \in Memory /\ mem'[table][page[level]] = f
         /\ \A j \in Index : mem'[f][j] = NoFrame
         /\ SameElsewhere(g, mem, mem', table, page[level])
         /\ \A x \in Tables : x # f /\ x # table => mem'[x] = mem[x]
         /\ \A j \in Index : j # page[level] => mem'[table][j] = mem[table][j]
         /\ WalkIn(mem', pml4[mm], page, level) = f
         /\ \A m \in Live, v \in Pages :
              WalkIn(mem', pml4[m], v, 0) = WalkIn(mem, pml4[m], v, 0)
<1>1. /\ op = "map" /\ level > 0 /\ Entry = NoFrame
      /\ mem' = [mem EXCEPT ![f] = ZeroPage, ![table][page[level]] = f]
  BY DEF MapTable
<1>2. TypeOK /\ mem \in Memory /\ f \in Frames /\ KernelOK /\ stack = << >>
  BY <1>1, TypeFacts DEF IInv, TypeOK, KernelOK
<1>3. g.own[f] = NoMm
  BY <1>2 DEF Forest, Owners
<1>4. /\ level \in Levels /\ page \in Paths /\ page[level] \in Index /\ mm \in Live
      /\ table \in Frames /\ IsTable(g, table) /\ g.own[table] = mm
      /\ g.rank[table] = level /\ TreeOf(g, mem, kernel, {}, mm, pml4[mm])
      /\ WalkIn(mem, pml4[mm], page, level + 1) = table
  BY <1>1, MapEntry
<1>5. f # table /\ f \in Tables /\ table \in Tables /\ Pages \subseteq Paths
  BY <1>2, <1>3, <1>4, Special DEF IsTable
<1>6. /\ mem' \in Memory /\ mem'[table][page[level]] = f
      /\ \A j \in Index : mem'[f][j] = NoFrame
      /\ \A x \in Tables : x # f /\ x # table => mem'[x] = mem[x]
      /\ \A j \in Index : j # page[level] => mem'[table][j] = mem[table][j]
  <2>1. ZeroPage \in [Index -> Entries] /\ f \in Entries /\ \A j \in Index : ZeroPage[j] = NoFrame
    BY <1>2, Special DEF ZeroPage
  <2>2. QED
    BY <1>1, <1>2, <1>4, <1>5, <2>1 DEF Memory
<1>7. SameElsewhere(g, mem, mem', table, page[level])
  <2>1. ASSUME NEW x \in Frames, NEW j \in Index, g.own[x] # NoMm,
               <<x, j>> # <<table, page[level]>>
        PROVE  mem'[x][j] = mem[x][j]
    <3>1. x # f /\ x \in Tables
      BY <1>3, <2>1, Special
    <3>2. CASE x = table
      BY <3>2, <2>1, <1>6
    <3>3. CASE x # table
      BY <3>1, <3>3, <1>6
    <3>4. QED
      BY <3>2, <3>3
  <2>2. QED
    BY <2>1 DEF SameElsewhere
<1>8. mem[table][page[level]] = NoFrame
  BY <1>1 DEF Entry
<1>9. ASSUME NEW m \in Live, NEW v \in Pages
      PROVE  WalkIn(mem', pml4[m], v, 0) = WalkIn(mem, pml4[m], v, 0)
  <2>1. CASE m = mm
    <3>1. v \in Paths
      BY <1>5
    <3>2. /\ TreeOf(g, mem, kernel, {}, mm, pml4[mm])
          /\ SameElsewhere(g, mem, mem', table, page[level])
          /\ mem \in Memory /\ mem' \in Memory /\ table \in Frames /\ level \in Levels
          /\ g.rank[table] = level /\ level > 0 /\ f \in Frames
          /\ mem[table][page[level]] = NoFrame /\ mem'[table][page[level]] = f
          /\ \A j \in Index : mem'[f][j] = NoFrame
      BY <1>1, <1>2, <1>4, <1>6, <1>7, <1>8
    <3>3. WalkIn(mem', pml4[mm], v, 0) = WalkIn(mem, pml4[mm], v, 0)
      BY ONLY g \in Placing, <3>1, <3>2, EmptyTable
    <3>4. QED
      BY <2>1, <3>3
  <2>2. CASE m # mm
    <3>1. \A x \in Frames : g.own[x] = m => mem'[x] = mem[x]
      <4>1. m # NoMm
        BY <1>2, TypeFacts, Special
      <4>2. QED
        BY <1>3, <1>4, <1>6, <2>2, <4>1, Special
    <3>2. ~Gone(m)
      BY <1>1 DEF Gone
    <3>3. QED
      BY <1>2, <1>6, <3>1, <3>2, OtherMaps
  <2>3. QED
    BY <2>1, <2>2
<1>10. WalkIn(mem', pml4[mm], page, level) = f
  BY <1>2, <1>4, <1>6, <1>7, EntryMet
<1>11. QED
  BY <1>2, <1>3, <1>5, <1>6, <1>7, <1>9, <1>10

(* map_page adds a table.                                                  *)
LEMMA MapTableStep ==
  ASSUME IInv, NEW f \in free, MapTable(f)
  PROVE  IInv'
<1>0. /\ op = "map" /\ level > 0 /\ Entry = NoFrame /\ free' = free \ {f}
      /\ table' = f /\ level' = level - 1
      /\ UNCHANGED <<room, pml4, current_mm, cr3, tlb, dropped, op, mm, page, frame,
                     stack, heap, loose, kernel>>
  BY DEF MapTable, cpu
<1>1. TypeOK /\ CpuOK /\ KernelOK /\ Placed
  BY <1>0, TypeFacts DEF IInv
<1>2. PICK g \in Placing : Forest(g)
  BY <1>1 DEF Placed
<1>3. /\ f \in Frames /\ g.own[f] = NoMm /\ f # table
      /\ mem' \in Memory /\ mem'[table][page[level]] = f
      /\ \A j \in Index : mem'[f][j] = NoFrame
      /\ SameElsewhere(g, mem, mem', table, page[level])
      /\ \A x \in Tables : x # f /\ x # table => mem'[x] = mem[x]
      /\ \A j \in Index : j # page[level] => mem'[table][j] = mem[table][j]
      /\ WalkIn(mem', pml4[mm], page, level) = f
      /\ \A m \in Live, v \in Pages :
           WalkIn(mem', pml4[m], v, 0) = WalkIn(mem, pml4[m], v, 0)
  BY <1>2, MapTableFacts
<1>4. /\ stack = << >> /\ level \in Levels /\ page[level] \in Index /\ mm \in Live
      /\ page \in Paths /\ table \in Frames /\ IsTable(g, table) /\ g.own[table] = mm
      /\ g.rank[table] = level /\ (level = Top => page[level] < KernelHalf)
      /\ Upwards(g, mem, {}, {}) /\ TreeOf(g, mem, kernel, {}, mm, pml4[mm])
  BY <1>0, <1>2, MapEntry
<1>5. level - 1 \in Levels /\ level - 1 \in -1 .. Top /\ level - 1 # Top /\ level - 1 # -1
      /\ level - 1 + 1 = level
  BY <1>0, <1>4, Sizes DEF Levels
<1>6. mm \in Mms /\ mm # NoMm
  BY <1>1, <1>4, TypeFacts, Special
<1>7. PICK h \in Placing :
         /\ h.own[f] = mm /\ h.rank[f] = level - 1 /\ h.up[f] = table
         /\ h.slot[f] = page[level]
         /\ \A x \in Frames : x # f => SamePlace(g, h, x)
  BY <1>3, <1>4, <1>5, <1>6, PutFields
<1>8. Live' = Live
  BY <1>0 DEF Live
<1>9. TypeOK'
  BY <1>0, <1>1, <1>3, <1>5, <1>8 DEF TypeOK, Memory, Entries
<1>10. CpuOK'
  <2>1. current_mm # NoMm => current_mm \in Live
    BY <1>1 DEF TypeOK
  <2>2. QED
    BY <1>0, <1>1, <1>3, <2>1, CpuStep
<1>11. KernelOK'
  <2>1. mem'[Boot] = mem[Boot]
    BY <1>3, <1>4, Special DEF Tables
  <2>2. ASSUME NEW m \in kernel, NEW i \in KernelHalf .. Fanout - 1
        PROVE  mem'[pml4[m]][i] = mem[pml4[m]][i]
    <3>1. m \in Live /\ pml4[m] \in Frames /\ pml4[m] \in Tables /\ i \in Index
      BY <1>1, TypeFacts, Special, Sizes DEF KernelOK, Index
    <3>2. g.own[pml4[m]] = m /\ g.rank[pml4[m]] = Top /\ m # NoMm
      BY <1>0, <1>1, <1>2, <3>1, TypeFacts, Special DEF Forest, Roots, Gone
    <3>3. CASE pml4[m] = table
      <4>1. i # page[level]
        BY <1>4, <3>2, <3>3, Sizes DEF Index
      <4>2. QED
        BY <1>3, <3>1, <3>3, <4>1
    <3>4. CASE pml4[m] # table
      BY <1>3, <3>1, <3>2, <3>4
    <3>5. QED
      BY <3>3, <3>4
  <2>3. KernelGiven'
    BY <1>0, <1>1, <2>1, <2>2 DEF KernelOK, KernelGiven, Gone
  <2>4. QED
    BY <1>0, <1>1, <1>8, <2>1, <2>3 DEF KernelOK, Apart, Counted
<1>12. Downwards(h, mem', kernel, {}) /\ Upwards(h, mem', {}, {})
  <2>1. Downwards(g, mem, kernel, {}) /\ mem[table][page[level]] = NoFrame
    BY <1>0, <1>4 DEF TreeOf, Entry
  <2>2. Attaching(g, h, mem, mem', f, table, page[level])
    BY <1>3, <1>4, <1>7, <2>1 DEF Attaching
  <2>3. QED
    BY <1>3, <1>4, <2>1, <2>2, Attach
<1>13. Roots(h)'
  <2>1. ASSUME NEW m \in Live
        PROVE  h.own[pml4[m]] = m /\ h.rank[pml4[m]] = Top
    <3>1. /\ pml4[m] \in Frames /\ g.own[pml4[m]] = m /\ g.rank[pml4[m]] = Top
          /\ m # NoMm
      BY <1>0, <1>1, <1>2, TypeFacts, Special DEF Forest, Roots, Gone
    <3>2. QED
      BY <1>3, <1>7, <3>1 DEF SamePlace
  <2>2. ASSUME NEW x \in Frames, h.own[x] # NoMm, h.rank[x] = Top
        PROVE  pml4[h.own[x]] = x
    BY <1>2, <1>5, <1>7, <2>2 DEF Forest, Roots, SamePlace
  <2>3. QED
    BY <1>0, <1>8, <2>1, <2>2 DEF Roots, Gone
<1>14. Owners(h)'
  BY <1>0, <1>1, <1>2, <1>3, <1>4, <1>6, <1>7, <1>8
     DEF Owners, Forest, SamePlace, KernelOK, Apart
<1>15. Reached(h)'
  <2>1. SUFFICES ASSUME NEW x \in Frames, h.own[x] # NoMm, h.rank[x] = -1
                 PROVE  \E v \in Pages : WalkIn(mem', pml4[h.own[x]], v, 0) = x
    BY <1>0 DEF Reached
  <2>2. x # f /\ SamePlace(g, h, x)
    BY <1>5, <1>7, <2>1
  <2>3. g.own[x] \in Live /\ g.own[x] # NoMm /\ g.rank[x] = -1
    BY <1>2, <2>1, <2>2 DEF Forest, Owners, SamePlace
  <2>4. PICK v \in Pages : WalkIn(mem, pml4[g.own[x]], v, 0) = x
    BY <1>0, <1>2, <2>3 DEF Forest, Reached, Gone
  <2>5. QED
    BY <1>3, <2>2, <2>3, <2>4 DEF SamePlace
<1>16. Mapping(h)'
  <2>1. WalkIn(mem', pml4[mm], page, level' + 1) = f
    BY <1>0, <1>3, <1>5
  <2>2. page \in Pages /\ frame \in loose
    BY <1>0, <1>2 DEF Forest, Mapping
  <2>3. QED
    BY <1>0, <1>3, <1>4, <1>7, <1>8, <2>1, <2>2 DEF Mapping
<1>17. Deleting(h)'
  BY <1>0 DEF Deleting
<1>18. Forest(h)'
  BY <1>0, <1>4, <1>12, <1>13, <1>14, <1>15, <1>16, <1>17, NothingPassed DEF Forest
<1>19. QED
  BY <1>7, <1>9, <1>10, <1>11, <1>18 DEF IInv, Placed

(* What map_page's entry for the page changes: that page, and no other.    *)
LEMMA MapLeafFacts ==
  ASSUME IInv, MapLeaf, Entry = NoFrame, NEW g \in Placing, Forest(g)
  PROVE  /\ frame \in Frames /\ g.own[frame] = NoMm
         /\ mem' \in Memory /\ mem'[table][page[0]] = frame
         /\ SameElsewhere(g, mem, mem', table, page[0])
         /\ \A x \in Tables : x # table => mem'[x] = mem[x]
         /\ \A j \in Index : j # page[0] => mem'[table][j] = mem[table][j]
         /\ WalkIn(mem, pml4[mm], page, 0) = NoFrame
         /\ WalkIn(mem', pml4[mm], page, 0) = frame
         /\ \A m \in Live, v \in Pages :
              ~(m = mm /\ v = page) =>
                WalkIn(mem', pml4[m], v, 0) = WalkIn(mem, pml4[m], v, 0)
<1>1. /\ op = "map" /\ level = 0 /\ mem[table][page[0]] = NoFrame
      /\ mem' = [mem EXCEPT ![table][page[0]] = frame]
  BY DEF MapLeaf, Entry
<1>2. TypeOK /\ mem \in Memory /\ KernelOK /\ stack = << >>
  BY <1>1, TypeFacts DEF IInv, TypeOK, KernelOK
<1>3. /\ level \in Levels /\ page \in Paths /\ page[level] \in Index /\ mm \in Live
      /\ table \in Frames /\ IsTable(g, table) /\ g.own[table] = mm
      /\ frame \in loose /\ frame \in Frames
      /\ g.rank[table] = level /\ TreeOf(g, mem, kernel, {}, mm, pml4[mm])
      /\ WalkIn(mem, pml4[mm], page, level + 1) = table
      /\ WalkIn(mem, pml4[mm], page, level) = Entry
  BY <1>1, MapEntry
<1>4. g.own[frame] = NoMm
  BY <1>3 DEF Forest, Owners
<1>5. table \in Tables /\ Pages \subseteq Paths /\ frame \in Entries
  BY <1>3, Special
<1>6. page[0] \in Index
  BY <1>1, <1>3
<1>7. /\ mem' \in Memory /\ mem'[table][page[0]] = frame
      /\ \A x \in Tables : x # table => mem'[x] = mem[x]
      /\ \A j \in Index : j # page[0] => mem'[table][j] = mem[table][j]
  BY <1>1, <1>2, <1>5, <1>6 DEF Memory
<1>8. SameElsewhere(g, mem, mem', table, page[0])
  <2>1. ASSUME NEW x \in Frames, NEW j \in Index, <<x, j>> # <<table, page[0]>>
        PROVE  mem'[x][j] = mem[x][j]
    BY <1>7, <2>1, Special
  <2>2. QED
    BY <2>1 DEF SameElsewhere
<1>9. WalkIn(mem', pml4[mm], page, 0) = frame
  <2>1. page[level] = page[0] /\ SameElsewhere(g, mem, mem', table, page[level])
    BY <1>1, <1>8
  <2>2. WalkIn(mem', pml4[mm], page, level) = mem'[table][page[level]]
    BY <1>2, <1>3, <1>7, <2>1, EntryMet
  <2>3. QED
    BY <1>1, <1>7, <2>2
<1>10. ASSUME NEW m \in Live, NEW v \in Pages, ~(m = mm /\ v = page)
       PROVE  WalkIn(mem', pml4[m], v, 0) = WalkIn(mem, pml4[m], v, 0)
  <2>1. CASE m = mm
    <3>1. v \in Paths /\ v # page
      BY <1>5, <1>10, <2>1
    <3>2. WalkIn(mem, pml4[mm], v, level + 1) # table \/ v[level] # page[level]
      <4>1. SUFFICES ASSUME WalkIn(mem, pml4[mm], v, level + 1) = table,
                            v[level] = page[level]
                     PROVE  FALSE
        OBVIOUS
      <4>2. PICK k \in 0 .. Top + 1 : k = level + 1 /\ k = 1
        BY <1>1, Sizes
      <4>3. /\ WalkIn(mem, pml4[mm], v, k) = WalkIn(mem, pml4[mm], page, k)
            /\ WalkIn(mem, pml4[mm], v, k) # NoFrame
        BY <1>3, <4>1, <4>2, Special
      <4>4. \A j \in k .. Top : v[j] = page[j]
        BY <1>2, <1>3, <3>1, <4>3, WalkUnique
      <4>5. \A j \in Levels : v[j] = page[j]
        BY <1>1, <4>1, <4>2, <4>4, Sizes DEF Levels
      <4>6. v = page
        BY <1>3, <3>1, <4>5 DEF Paths
      <4>7. QED
        BY <3>1, <4>6
    <3>3. SameElsewhere(g, mem, mem', table, page[level])
      BY <1>1, <1>8
    <3>4. WalkIn(mem', pml4[mm], v, 0) = WalkIn(mem, pml4[mm], v, 0)
      BY <1>2, <1>3, <1>7, <3>1, <3>2, <3>3, EntryMissed
    <3>5. QED
      BY <2>1, <3>4
  <2>2. CASE m # mm
    <3>1. \A x \in Frames : g.own[x] = m => mem'[x] = mem[x]
      BY <1>3, <1>7, <2>2, Special
    <3>2. ~Gone(m)
      BY <1>1 DEF Gone
    <3>3. QED
      BY <1>2, <1>7, <3>1, <3>2, OtherMaps
  <2>3. QED
    BY <2>1, <2>2
<1>11. WalkIn(mem, pml4[mm], page, 0) = NoFrame
  BY <1>1, <1>3
<1>12. QED
  BY <1>3, <1>4, <1>7, <1>8, <1>9, <1>10, <1>11

(* map_page enters the page, or finds it taken.                            *)
LEMMA MapLeafStep ==
  ASSUME IInv, MapLeaf
  PROVE  IInv'
<1>0. /\ op = "map" /\ level = 0 /\ op' = "idle" /\ stack' = << >>
      /\ mm' = NoMm /\ page' = << >> /\ frame' = NoFrame /\ table' = NoFrame
      /\ level' = 0
      /\ UNCHANGED <<free, room, pml4, current_mm, cr3, tlb, dropped, heap, kernel>>
  BY DEF MapLeaf, Return, cpu
<1>1. TypeOK /\ CpuOK /\ KernelOK /\ Placed
  BY <1>0, TypeFacts DEF IInv
<1>2. PICK g \in Placing : Forest(g)
  BY <1>1 DEF Placed
<1>3. Live' = Live /\ 0 \in Levels /\ << >> \in Seq(Frames \X (0 .. Fanout))
  BY <1>0, Sizes DEF Live, Levels
<1>4. /\ stack = << >> /\ level \in Levels /\ page[level] \in Index /\ mm \in Live
      /\ page \in Paths /\ table \in Frames /\ IsTable(g, table) /\ g.own[table] = mm
      /\ g.rank[table] = level /\ (level = Top => page[level] < KernelHalf)
      /\ frame \in loose
      /\ Upwards(g, mem, {}, {}) /\ TreeOf(g, mem, kernel, {}, mm, pml4[mm])
  BY <1>0, <1>2, MapEntry
<1>5. CASE Entry # NoFrame
  <2>1. mem' = mem /\ loose' = loose
    BY <1>5 DEF MapLeaf
  <2>2. TypeOK'
    BY <1>0, <1>1, <1>3, <2>1 DEF TypeOK
  <2>3. CpuOK'
    BY <1>0, <1>1, <2>1, CpuStep
  <2>4. KernelOK'
    BY <1>0, <1>1, <1>3, <2>1 DEF KernelOK, Apart, Counted, KernelGiven, Gone
  <2>5. Forest(g)'
    BY <1>0, <1>2, <1>3, <1>4, <2>1 DEF Forest, Roots, Owners, Reached, Mapping, Deleting, Gone
  <2>6. QED
    BY <1>2, <2>2, <2>3, <2>4, <2>5 DEF IInv, Placed
<1>6. CASE Entry = NoFrame
  <2>1. loose' = loose \ {frame} /\ mem[table][page[0]] = NoFrame
    BY <1>0, <1>6 DEF MapLeaf, Entry
  <2>2. /\ frame \in Frames /\ g.own[frame] = NoMm
        /\ mem' \in Memory /\ mem'[table][page[0]] = frame
        /\ SameElsewhere(g, mem, mem', table, page[0])
        /\ \A x \in Tables : x # table => mem'[x] = mem[x]
        /\ \A j \in Index : j # page[0] => mem'[table][j] = mem[table][j]
        /\ WalkIn(mem, pml4[mm], page, 0) = NoFrame
        /\ WalkIn(mem', pml4[mm], page, 0) = frame
        /\ \A m \in Live, v \in Pages :
             ~(m = mm /\ v = page) =>
               WalkIn(mem', pml4[m], v, 0) = WalkIn(mem, pml4[m], v, 0)
    BY <1>2, <1>6, MapLeafFacts
  <2>3. mm \in Mms /\ mm # NoMm /\ page[0] \in Index /\ -1 \in -1 .. Top /\ Top # -1 /\ Top # 0
    BY <1>0, <1>1, <1>4, TypeFacts, Special, Sizes
  <2>4. PICK h \in Placing :
           /\ h.own[frame] = mm /\ h.rank[frame] = -1 /\ h.up[frame] = table
           /\ h.slot[frame] = page[0]
           /\ \A x \in Frames : x # frame => SamePlace(g, h, x)
    BY <1>4, <2>2, <2>3, PutFields
  <2>5. TypeOK'
    BY <1>0, <1>1, <1>3, <2>1, <2>2 DEF TypeOK, Memory, Entries
  <2>6. CpuOK'
    <3>1. current_mm # NoMm => current_mm \in Live
      BY <1>1 DEF TypeOK
    <3>2. QED
      BY <1>0, <1>1, <2>2, <3>1, CpuStep
  <2>7. KernelOK'
    <3>1. mem'[Boot] = mem[Boot]
      BY <1>4, <2>2, Special DEF Tables
    <3>2. ASSUME NEW m \in kernel
          PROVE  mem'[pml4[m]] = mem[pml4[m]]
      <4>1. m \in Live /\ pml4[m] \in Frames /\ pml4[m] \in Tables
        BY <1>1, TypeFacts, Special DEF KernelOK
      <4>2. g.rank[pml4[m]] = Top
        BY <1>0, <1>2, <4>1 DEF Forest, Roots, Gone
      <4>3. QED
        BY <1>0, <1>4, <2>2, <2>3, <4>1, <4>2
    <3>3. KernelGiven'
      BY <1>0, <1>1, <3>1, <3>2 DEF KernelOK, KernelGiven, Gone
    <3>4. QED
      BY <1>0, <1>1, <1>3, <2>1, <3>1, <3>3 DEF KernelOK, Apart, Counted
  <2>8. Downwards(h, mem', kernel, {}) /\ Upwards(h, mem', {}, {})
    <3>1. Downwards(g, mem, kernel, {}) /\ ~(g.rank[table] > 0) /\ g.rank[table] - 1 = -1
      BY <1>0, <1>4 DEF TreeOf
    <3>2. Attaching(g, h, mem, mem', frame, table, page[0])
      BY <1>0, <1>4, <2>1, <2>2, <2>3, <2>4, <3>1 DEF Attaching
    <3>3. QED
      BY <1>4, <2>2, <2>3, <3>1, <3>2, Attach
  <2>9. Roots(h)'
    <3>1. ASSUME NEW m \in Live
          PROVE  h.own[pml4[m]] = m /\ h.rank[pml4[m]] = Top
      <4>1. /\ pml4[m] \in Frames /\ g.own[pml4[m]] = m /\ g.rank[pml4[m]] = Top
            /\ m # NoMm
        BY <1>0, <1>1, <1>2, TypeFacts, Special DEF Forest, Roots, Gone
      <4>2. QED
        BY <2>2, <2>4, <4>1 DEF SamePlace
    <3>2. ASSUME NEW x \in Frames, h.own[x] # NoMm, h.rank[x] = Top
          PROVE  pml4[h.own[x]] = x
      BY <1>2, <2>3, <2>4, <3>2 DEF Forest, Roots, SamePlace
    <3>3. QED
      BY <1>0, <1>3, <3>1, <3>2 DEF Roots, Gone
  <2>10. Owners(h)'
    BY <1>0, <1>1, <1>2, <1>3, <1>4, <2>1, <2>2, <2>3, <2>4
       DEF Owners, Forest, SamePlace, KernelOK, Apart
  <2>11. Reached(h)'
    <3>1. SUFFICES ASSUME NEW x \in Frames, h.own[x] # NoMm, h.rank[x] = -1
                   PROVE  \E v \in Pages : WalkIn(mem', pml4[h.own[x]], v, 0) = x
      BY <1>0 DEF Reached
    <3>2. CASE x = frame
      <4>1. page \in Pages
        BY <1>0, <1>2 DEF Forest, Mapping
      <4>2. QED
        BY <2>2, <2>4, <3>2, <4>1
    <3>3. CASE x # frame
      <4>1. SamePlace(g, h, x)
        BY <2>4, <3>3
      <4>2. g.own[x] \in Live /\ g.own[x] # NoMm /\ g.rank[x] = -1
        BY <1>2, <3>1, <4>1 DEF Forest, Owners, SamePlace
      <4>3. PICK v \in Pages : WalkIn(mem, pml4[g.own[x]], v, 0) = x
        BY <1>0, <1>2, <4>2 DEF Forest, Reached, Gone
      <4>4. ~(g.own[x] = mm /\ v = page)
        BY <2>2, <4>3, Special
      <4>5. QED
        BY <2>2, <4>1, <4>2, <4>3, <4>4 DEF SamePlace
    <3>4. QED
      BY <3>2, <3>3
  <2>12. Mapping(h)' /\ Deleting(h)'
    BY <1>0 DEF Mapping, Deleting
  <2>13. Forest(h)'
    BY <1>0, <2>8, <2>9, <2>10, <2>11, <2>12, NothingPassed DEF Forest
  <2>14. QED
    BY <2>4, <2>5, <2>6, <2>7, <2>13 DEF IInv, Placed
<1>7. QED
  BY <1>5, <1>6

-----------------------------------------------------------------------------
(***************************************************************************)
(* unmap_page.                                                             *)
(***************************************************************************)
(* The frame f of page v of m, its table t, and what clearing its entry    *)
(* changes: that page, and no other.                                       *)
Unmapped(g, m, v, f, t) ==
  /\ WalkIn(mem, pml4[m], v, 0) = f /\ loose' = loose \cup {f}
  /\ mem[t][v[0]] = f /\ IsChild(g, t, v[0], f) /\ g.rank[f] = -1
  /\ g.own[t] = m /\ g.rank[t] = 0
  /\ mem' \in Memory /\ mem'[t][v[0]] = NoFrame
  /\ SameElsewhere(g, mem, mem', t, v[0])
  /\ \A x \in Tables : x # t => mem'[x] = mem[x]
  /\ WalkIn(mem', pml4[m], v, 0) = NoFrame
  /\ \A n \in Live, u \in Pages :
       ~(n = m /\ u = v) =>
         WalkIn(mem', pml4[n], u, 0) = WalkIn(mem, pml4[n], u, 0)

(* That is what unmap_page does.                                           *)
LEMMA UnmapFacts ==
  ASSUME IInv, NEW m \in Live, NEW v \in Pages, unmap_page(m, v),
         NEW g \in Placing, Forest(g)
  PROVE  \E f \in Frames, t \in Frames : Unmapped(g, m, v, f, t)
<1>1. /\ op = "idle" /\ virt_to_phys(m, v) # NoFrame
      /\ mem' = [mem EXCEPT ![Walk(pml4[m], v, 1)][v[0]] = NoFrame]
      /\ loose' = loose \cup {virt_to_phys(m, v)}
  BY DEF unmap_page
<1>2. TypeOK /\ mem \in Memory /\ KernelOK /\ stack = << >> /\ ~Gone(m)
  BY <1>1, TypeFacts DEF IInv, TypeOK, KernelOK, Gone
<1>3. TreeOf(g, mem, kernel, {}, m, pml4[m])
  <2>1. TreeOf(g, mem, kernel, PassedBy(stack), m, pml4[m])
    BY <1>2, Trees
  <2>2. QED
    BY <2>1, <1>2, NothingPassed
<1>4. PICK l \in Levels : l = 0 /\ l + 1 = 1
  BY Sizes DEF Levels
<1>5. v \in Paths /\ Pages \subseteq Paths /\ v[l] \in Index
  BY Special, PathIndex
<1>6. PICK f, t : f = WalkIn(mem, pml4[m], v, l) /\ t = WalkIn(mem, pml4[m], v, l + 1)
  OBVIOUS
<1>7. f # NoFrame
  BY <1>1, <1>4, <1>6, WalkNow DEF virt_to_phys
<1>8. t \in Frames /\ g.own[t] = m /\ g.rank[t] = l /\ f = mem[t][v[l]] /\ IsChild(g, t, v[l], f)
  BY <1>2, <1>3, <1>5, <1>6, <1>7, WalkChild
<1>9. f \in Frames /\ g.rank[f] = -1 /\ t \in Tables
  BY <1>4, <1>8, Special DEF IsChild
<1>10. mem' = [mem EXCEPT ![t][v[l]] = NoFrame] /\ loose' = loose \cup {f}
  BY <1>1, <1>4, <1>6, WalkNow DEF virt_to_phys
<1>11. /\ mem' \in Memory /\ mem'[t][v[l]] = NoFrame
       /\ \A x \in Tables : x # t => mem'[x] = mem[x]
       /\ \A j \in Index : j # v[l] => mem'[t][j] = mem[t][j]
  BY <1>2, <1>5, <1>9, <1>10, Special DEF Memory
<1>12. SameElsewhere(g, mem, mem', t, v[l])
  <2>1. ASSUME NEW x \in Frames, NEW j \in Index, <<x, j>> # <<t, v[l]>>
        PROVE  mem'[x][j] = mem[x][j]
    BY <1>11, <2>1, Special
  <2>2. QED
    BY <2>1 DEF SameElsewhere
<1>13. WalkIn(mem', pml4[m], v, l) = NoFrame
  BY <1>2, <1>3, <1>5, <1>6, <1>8, <1>11, <1>12, EntryMet
<1>14. ASSUME NEW n \in Live, NEW u \in Pages, ~(n = m /\ u = v)
       PROVE  WalkIn(mem', pml4[n], u, 0) = WalkIn(mem, pml4[n], u, 0)
  <2>1. CASE n = m
    <3>1. u \in Paths /\ u # v
      BY <1>5, <1>14, <2>1
    <3>2. WalkIn(mem, pml4[m], u, l + 1) # t \/ u[l] # v[l]
      <4>1. SUFFICES ASSUME WalkIn(mem, pml4[m], u, l + 1) = t, u[l] = v[l]
                     PROVE  FALSE
        OBVIOUS
      <4>2. PICK k \in 0 .. Top + 1 : k = l + 1 /\ k = 1
        BY <1>4, Sizes
      <4>3. /\ WalkIn(mem, pml4[m], u, k) = WalkIn(mem, pml4[m], v, k)
            /\ WalkIn(mem, pml4[m], u, k) # NoFrame
        BY <1>6, <1>8, <4>1, <4>2, Special
      <4>4. \A j \in k .. Top : u[j] = v[j]
        BY <1>2, <1>3, <1>5, <3>1, <4>3, WalkUnique
      <4>5. \A j \in Levels : u[j] = v[j]
        BY <1>4, <4>1, <4>2, <4>4, Sizes DEF Levels
      <4>6. u = v
        BY <1>5, <3>1, <4>5 DEF Paths
      <4>7. QED
        BY <3>1, <4>6
    <3>3. WalkIn(mem', pml4[m], u, 0) = WalkIn(mem, pml4[m], u, 0)
      BY <1>2, <1>3, <1>8, <1>11, <1>12, <3>1, <3>2, EntryMissed
    <3>4. QED
      BY <2>1, <3>3
  <2>2. CASE n # m
    <3>1. \A x \in Frames : g.own[x] = n => mem'[x] = mem[x]
      BY <1>8, <1>11, <2>2, Special
    <3>2. ~Gone(n)
      BY <1>1 DEF Gone
    <3>3. QED
      BY <1>2, <1>11, <3>1, <3>2, OtherMaps
  <2>3. QED
    BY <2>1, <2>2
<1>15. Unmapped(g, m, v, f, t)
  BY <1>4, <1>6, <1>8, <1>9, <1>10, <1>11, <1>12, <1>13, <1>14 DEF Unmapped
<1>16. QED
  BY <1>8, <1>9, <1>15

(* unmap_page takes a page out.                                            *)
LEMMA UnmapStep ==
  ASSUME IInv, NEW m \in Live, NEW v \in Pages, unmap_page(m, v)
  PROVE  IInv'
<1>0. /\ op = "idle" /\ dropped' = (IF m = current_mm THEN dropped \cup {v} ELSE dropped)
      /\ UNCHANGED <<free, room, pml4, current_mm, cr3, tlb, op, mm, page, frame, table,
                     level, stack, heap, kernel>>
  BY DEF unmap_page, args
<1>1. TypeOK /\ CpuOK /\ KernelOK /\ Placed
  BY <1>0, TypeFacts DEF IInv
<1>2. PICK g \in Placing : Forest(g)
  BY <1>1 DEF Placed
<1>3. PICK f \in Frames, t \in Frames : Unmapped(g, m, v, f, t)
  BY <1>2, UnmapFacts
<1>4. /\ loose' = loose \cup {f} /\ mem' \in Memory /\ g.own[f] = m /\ g.rank[f] = -1
      /\ g.own[t] = m /\ g.rank[t] = 0 /\ WalkIn(mem, pml4[m], v, 0) = f
      /\ \A x \in Tables : x # t => mem'[x] = mem[x]
      /\ \A n \in Live, u \in Pages :
           ~(n = m /\ u = v) =>
             WalkIn(mem', pml4[n], u, 0) = WalkIn(mem, pml4[n], u, 0)
  BY <1>3 DEF Unmapped, IsChild
<1>5. m \in Mms /\ m # NoMm /\ v[0] \in Index /\ Top # -1 /\ Top # 0 /\ stack = << >>
  <2>1. 0 \in Levels /\ v \in Paths
    BY Sizes, Special DEF Levels
  <2>2. QED
    BY <1>0, <1>1, <2>1, TypeFacts, Special, Sizes, PathIndex DEF KernelOK
<1>6. PICK h \in Placing : /\ h.own[f] = NoMm
                           /\ \A x \in Frames : x # f => SamePlace(g, h, x)
  BY TakeFields
<1>7. f \notin free \cup heap \cup loose
  BY <1>2, <1>4, <1>5 DEF Forest, Owners
<1>8. Live' = Live
  BY <1>0 DEF Live
<1>9. TypeOK'
  BY <1>0, <1>1, <1>4, <1>8 DEF TypeOK, Memory, Entries
<1>10. CpuOK'
  <2>1. current_mm # NoMm => current_mm \in Live
    BY <1>1 DEF TypeOK
  <2>2. dropped \subseteq dropped' /\ op' \notin {"reset", "corrupt"}
    BY <1>0
  <2>3. ASSUME NEW u \in Pages, current_mm # NoMm
        PROVE  \/ u \in dropped'
               \/ WalkIn(mem', pml4[current_mm], u, 0) = WalkIn(mem, pml4[current_mm], u, 0)
    BY <1>0, <1>4, <2>1, <2>3
  <2>4. QED
    BY <1>0, <1>1, <2>2, <2>3, CpuStep
<1>11. KernelOK'
  <2>1. mem'[Boot] = mem[Boot]
    BY <1>4, Special DEF Tables
  <2>2. ASSUME NEW n \in kernel
        PROVE  mem'[pml4[n]] = mem[pml4[n]]
    <3>1. n \in Live /\ pml4[n] \in Frames /\ pml4[n] \in Tables
      BY <1>1, TypeFacts, Special DEF KernelOK
    <3>2. g.rank[pml4[n]] = Top
      BY <1>0, <1>2, <3>1 DEF Forest, Roots, Gone
    <3>3. QED
      BY <1>4, <1>5, <3>1, <3>2
  <2>3. KernelGiven'
    BY <1>0, <1>1, <2>1, <2>2 DEF KernelOK, KernelGiven, Gone
  <2>4. Apart'
    BY <1>0, <1>1, <1>4, <1>7 DEF KernelOK, Apart
  <2>5. QED
    BY <1>0, <1>1, <1>8, <2>1, <2>3, <2>4 DEF KernelOK, Counted
<1>12. Downwards(h, mem', kernel, {}) /\ Upwards(h, mem', {}, {})
  <2>1. Downwards(g, mem, kernel, {}) /\ Upwards(g, mem, {}, {})
    BY <1>2, <1>5, NothingPassed DEF Forest
  <2>2. Detaching(g, h, mem, mem', f, t, v[0])
    BY <1>3, <1>6 DEF Detaching, Unmapped
  <2>3. QED
    BY <1>5, <2>1, <2>2, Detach
<1>13. Roots(h)'
  <2>1. ASSUME NEW n \in Live
        PROVE  h.own[pml4[n]] = n /\ h.rank[pml4[n]] = Top
    <3>1. pml4[n] \in Frames /\ g.own[pml4[n]] = n /\ g.rank[pml4[n]] = Top
      BY <1>0, <1>1, <1>2, TypeFacts DEF Forest, Roots, Gone
    <3>2. QED
      BY <1>4, <1>5, <1>6, <3>1 DEF SamePlace
  <2>2. ASSUME NEW x \in Frames, h.own[x] # NoMm, h.rank[x] = Top
        PROVE  pml4[h.own[x]] = x
    BY <1>2, <1>6, <2>2 DEF Forest, Roots, SamePlace
  <2>3. QED
    BY <1>0, <1>8, <2>1, <2>2 DEF Roots, Gone
<1>14. Owners(h)'
  BY <1>0, <1>2, <1>4, <1>6, <1>8 DEF Owners, Forest, SamePlace
<1>15. Reached(h)'
  <2>1. SUFFICES ASSUME NEW x \in Frames, h.own[x] # NoMm, h.rank[x] = -1
                 PROVE  \E u \in Pages : WalkIn(mem', pml4[h.own[x]], u, 0) = x
    BY <1>0 DEF Reached
  <2>2. x # f /\ SamePlace(g, h, x)
    BY <1>6, <2>1
  <2>3. g.own[x] \in Live /\ g.own[x] # NoMm /\ g.rank[x] = -1
    BY <1>2, <2>1, <2>2 DEF Forest, Owners, SamePlace
  <2>4. PICK u \in Pages : WalkIn(mem, pml4[g.own[x]], u, 0) = x
    BY <1>0, <1>2, <2>3 DEF Forest, Reached, Gone
  <2>5. ~(g.own[x] = m /\ u = v)
    BY <1>4, <2>2, <2>4
  <2>6. QED
    BY <1>4, <2>2, <2>3, <2>4, <2>5 DEF SamePlace
<1>16. Mapping(h)' /\ Deleting(h)'
  BY <1>0 DEF Mapping, Deleting
<1>17. Forest(h)'
  BY <1>0, <1>5, <1>12, <1>13, <1>14, <1>15, <1>16, NothingPassed DEF Forest
<1>18. QED
  BY <1>6, <1>9, <1>10, <1>11, <1>17 DEF IInv, Placed

-----------------------------------------------------------------------------
(***************************************************************************)
(* map_kernel_for_user_mm, with kernel_mm.pml4 being initial_pml4.         *)
(***************************************************************************)
(* It changes the kernel's half of one root, and nothing that the pages    *)
(* are reached through.                                                    *)
LEMMA KernelFacts ==
  ASSUME IInv, KernelPml4 = Boot, NEW m \in Live, map_kernel_for_user_mm(m),
         NEW g \in Placing, Forest(g)
  PROVE  /\ mem' \in Memory
         /\ \A x \in Tables : x # pml4[m] => mem'[x] = mem[x]
         /\ \A j \in Index : mem'[pml4[m]][j] = IF j >= KernelHalf THEN mem[Boot][j]
                                                ELSE mem[pml4[m]][j]
         /\ \A n \in Live, v \in Pages :
              WalkIn(mem', pml4[n], v, 0) = WalkIn(mem, pml4[n], v, 0)
<1>1. /\ op = "idle"
      /\ mem' = [mem EXCEPT ![pml4[m]] =
                   [i \in Index |-> IF i >= KernelHalf THEN mem[Boot][i]
                                    ELSE mem[pml4[m]][i]]]
  BY DEF map_kernel_for_user_mm
<1>2. TypeOK /\ mem \in Memory /\ KernelOK /\ stack = << >> /\ pml4[m] \in Frames
  BY <1>1, TypeFacts DEF IInv, TypeOK, KernelOK
<1>3. g.own[pml4[m]] = m /\ g.rank[pml4[m]] = Top
  BY <1>1 DEF Forest, Roots, Gone
<1>4. PICK r \in Frames : r = pml4[m]
  BY <1>2
<1>5. r \in Tables /\ Boot \in Tables /\ Pages \subseteq Paths
  BY Special DEF Tables
<1>6. /\ mem' \in Memory /\ \A x \in Tables : x # r => mem'[x] = mem[x]
      /\ \A j \in Index : mem'[r][j] = IF j >= KernelHalf THEN mem[Boot][j] ELSE mem[r][j]
  BY <1>1, <1>2, <1>4, <1>5 DEF Memory
<1>7. ASSUME NEW n \in Live, NEW v \in Pages
      PROVE  WalkIn(mem', pml4[n], v, 0) = WalkIn(mem, pml4[n], v, 0)
  <2>1. CASE n = m
    <3>1. TreeOf(g, mem, kernel, PassedBy(stack), m, r)
      BY <1>1, <1>2, <1>4, Trees DEF Gone
    <3>2. ASSUME NEW l \in 0 .. Top, NEW x \in Frames, g.rank[x] = l
          PROVE  mem'[x][v[l]] = mem[x][v[l]]
      <4>1. v[l] \in Index /\ (l = Top => v[l] < KernelHalf)
        BY <1>5, PathIndex DEF Levels
      <4>2. CASE x = r
        <5>1. ~(v[l] >= KernelHalf)
          BY <1>3, <1>4, <3>2, <4>1, <4>2, Sizes DEF Index
        <5>2. QED
          BY <1>6, <4>1, <4>2, <5>1
      <4>3. CASE x # r
        BY <1>6, <4>3, Special
      <4>4. QED
        BY <4>2, <4>3
    <3>3. 0 \in 0 .. Top + 1 /\ v \in Paths
      BY <1>5, Sizes
    <3>4. \A l \in 0 .. Top + 1 : WalkIn(mem', r, v, l) = WalkIn(mem, r, v, l)
      BY <1>2, <1>6, <3>1, <3>2, <3>3, TreeSame
    <3>5. QED
      BY <1>4, <2>1, <3>3, <3>4
  <2>2. CASE n # m
    <3>1. \A x \in Frames : g.own[x] = n => mem'[x] = mem[x]
      BY <1>3, <1>4, <1>6, <2>2, Special
    <3>2. ~Gone(n)
      BY <1>1 DEF Gone
    <3>3. QED
      BY <1>2, <1>6, <3>1, <3>2, OtherMaps
  <2>3. QED
    BY <2>1, <2>2
<1>8. QED
  BY <1>4, <1>6, <1>7

(* map_kernel_for_user_mm copies the kernel's half.                        *)
LEMMA MapKernelStep ==
  ASSUME IInv, KernelPml4 = Boot, NEW m \in Live, map_kernel_for_user_mm(m)
  PROVE  IInv'
<1>0. /\ op = "idle" /\ kernel' = kernel \cup {m}
      /\ UNCHANGED <<free, room, pml4, current_mm, cr3, tlb, dropped, op, mm, page, frame,
                     table, level, stack, heap, loose>>
  BY DEF map_kernel_for_user_mm, cpu, args
<1>1. TypeOK /\ CpuOK /\ KernelOK /\ Placed /\ stack = << >>
  BY <1>0, TypeFacts DEF IInv, KernelOK
<1>2. PICK g \in Placing : Forest(g)
  BY <1>1 DEF Placed
<1>3. PICK r \in Frames : r = pml4[m] /\ g.own[r] = m /\ g.rank[r] = Top
  BY <1>0, <1>1, <1>2, TypeFacts DEF Forest, Roots, Gone
<1>4. /\ mem' \in Memory /\ \A x \in Tables : x # r => mem'[x] = mem[x]
      /\ \A j \in Index : mem'[r][j] = IF j >= KernelHalf THEN mem[Boot][j] ELSE mem[r][j]
      /\ \A n \in Live, v \in Pages :
           WalkIn(mem', pml4[n], v, 0) = WalkIn(mem, pml4[n], v, 0)
  BY <1>2, <1>3, KernelFacts
<1>5. Live' = Live /\ m \in Mms
  BY <1>0 DEF Live
<1>6. TypeOK'
  BY <1>0, <1>1, <1>4, <1>5 DEF TypeOK, Memory, Entries
<1>7. CpuOK'
  <2>1. current_mm # NoMm => current_mm \in Live
    BY <1>1 DEF TypeOK
  <2>2. QED
    BY <1>0, <1>1, <1>4, <2>1, CpuStep
<1>8. mem'[Boot] = mem[Boot]
  BY <1>4, Special DEF Tables
<1>9. KernelOK'
  <2>1. ASSUME NEW n \in kernel', NEW i \in KernelHalf .. Fanout - 1
        PROVE  mem'[pml4[n]][i] = mem[Boot][i]
    <3>1. n \in Live /\ pml4[n] \in Tables /\ i \in Index /\ i >= KernelHalf
      BY <1>0, <1>1, TypeFacts, Special, Sizes DEF KernelOK, Index
    <3>2. CASE pml4[n] = r
      BY <1>4, <3>1, <3>2
    <3>3. CASE pml4[n] # r
      <4>1. n \in kernel /\ mem'[pml4[n]] = mem[pml4[n]]
        BY <1>0, <1>3, <1>4, <3>1, <3>3
      <4>2. mem[pml4[n]][i] = mem[Boot][i]
        BY <1>0, <1>1, <4>1 DEF KernelOK, KernelGiven, Gone
      <4>3. QED
        BY <4>1, <4>2
    <3>4. QED
      BY <3>2, <3>3
  <2>2. KernelGiven'
    BY <1>0, <1>8, <2>1 DEF KernelGiven
  <2>3. kernel' \subseteq Live
    BY <1>0, <1>1 DEF KernelOK
  <2>4. QED
    BY <1>0, <1>1, <1>5, <1>8, <2>2, <2>3 DEF KernelOK, Apart, Counted
<1>10. Downwards(g, mem', kernel', {}) /\ Upwards(g, mem', {}, {})
  <2>1. Downwards(g, mem, kernel, {}) /\ Upwards(g, mem, {}, {})
    BY <1>1, <1>2, NothingPassed DEF Forest
  <2>2. \A j \in Index : mem[Boot][j] \in {NoFrame, BootPdpt}
    BY <1>1 DEF KernelOK, BootTable
  <2>3. /\ \A x \in Frames : x # r => mem'[x] = mem[x]
        /\ \A j \in Index : j < KernelHalf => mem'[r][j] = mem[r][j]
        /\ \A j \in Index : j >= KernelHalf => mem'[r][j] \in {NoFrame, BootPdpt}
        /\ g.own[r] \in kernel' /\ g.rank[r] = Top /\ kernel \subseteq kernel'
    BY <1>0, <1>3, <1>4, <2>2, Special, Sizes DEF Index
  <2>4. QED
    BY <2>1, <2>3, GiveKernel
<1>11. Roots(g)' /\ Owners(g)' /\ Mapping(g)' /\ Deleting(g)'
  BY <1>0, <1>2, <1>5 DEF Roots, Owners, Mapping, Deleting, Forest, Gone
<1>12. Reached(g)'
  <2>1. SUFFICES ASSUME NEW x \in Frames, g.own[x] # NoMm, g.rank[x] = -1
                 PROVE  \E u \in Pages : WalkIn(mem', pml4[g.own[x]], u, 0) = x
    BY <1>0 DEF Reached
  <2>2. g.own[x] \in Live
    BY <1>2, <2>1 DEF Forest, Owners
  <2>3. PICK u \in Pages : WalkIn(mem, pml4[g.own[x]], u, 0) = x
    BY <1>0, <1>2, <2>1 DEF Forest, Reached, Gone
  <2>4. QED
    BY <1>4, <2>2, <2>3
<1>13. Forest(g)'
  BY <1>0, <1>1, <1>10, <1>11, <1>12, NothingPassed DEF Forest
<1>14. QED
  BY <1>2, <1>6, <1>7, <1>9, <1>13 DEF IInv, Placed

-----------------------------------------------------------------------------
(***************************************************************************)
(* create_mm.                                                              *)
(***************************************************************************)
(* The new address space is empty, the others are what they were.          *)
LEMMA CreateFacts ==
  ASSUME IInv, op = "idle", NEW m \in Mms, m \notin Live, NEW t \in free, NEW P,
         CreateWith(m, t, P), NEW g \in Placing, Forest(g)
  PROVE  /\ t \in Frames /\ g.own[t] = NoMm /\ mem' \in Memory
         /\ \A j \in Index : mem'[t][j] = NoFrame
         /\ \A x \in Tables : x # t => mem'[x] = mem[x]
         /\ pml4' \in [Mms -> Frames \cup {NoFrame}] /\ pml4'[m] = t
         /\ \A n \in Mms : n # m => pml4'[n] = pml4[n]
         /\ Live' = Live \cup {m}
         /\ \A v \in Pages : WalkIn(mem', t, v, 0) = NoFrame
         /\ \A n \in Live, v \in Pages :
              WalkIn(mem', pml4[n], v, 0) = WalkIn(mem, pml4[n], v, 0)
<1>1. /\ mem' = [mem EXCEPT ![t] = ZeroPage] /\ pml4' = [pml4 EXCEPT ![m] = t]
  BY DEF CreateWith
<1>2. TypeOK /\ mem \in Memory /\ KernelOK /\ stack = << >> /\ t \in Frames
  BY TypeFacts DEF IInv, TypeOK, KernelOK
<1>3. g.own[t] = NoMm /\ t \in Tables /\ t \in Places /\ t # NoFrame
  BY <1>2, Special DEF Forest, Owners
<1>4. /\ mem' \in Memory /\ \A j \in Index : mem'[t][j] = NoFrame
      /\ \A x \in Tables : x # t => mem'[x] = mem[x]
  <2>1. ZeroPage \in [Index -> Entries] /\ \A j \in Index : ZeroPage[j] = NoFrame
    BY Special DEF ZeroPage
  <2>2. QED
    BY <1>1, <1>2, <1>3, <2>1 DEF Memory
<1>5. /\ pml4' \in [Mms -> Frames \cup {NoFrame}] /\ pml4'[m] = t
      /\ \A n \in Mms : n # m => pml4'[n] = pml4[n]
  BY <1>1, <1>2 DEF TypeOK
<1>6. Live' = Live \cup {m}
  BY <1>3, <1>5 DEF Live
<1>7. ASSUME NEW v \in Pages
      PROVE  WalkIn(mem', t, v, 0) = NoFrame
  <2>1. v \in Paths /\ Top \in Levels /\ Top \in 0 .. Top
    BY Special, Sizes DEF Levels
  <2>2. v \in [Levels -> Index] /\ v[Top] \in Index
    BY <2>1, PathIndex
  <2>3. WalkIn(mem', t, v, Top + 1) = t
    BY <1>3, <1>4, <2>2, WalkStep
  <2>4. WalkIn(mem', t, v, Top) = mem'[t][v[Top]]
    BY <1>3, <1>4, <2>1, <2>2, <2>3, WalkStep
  <2>5. QED
    BY <1>3, <1>4, <2>1, <2>2, <2>4, WalkStops
<1>8. ASSUME NEW n \in Live
      PROVE  \A v \in Pages : WalkIn(mem', pml4[n], v, 0) = WalkIn(mem, pml4[n], v, 0)
  <2>1. n # NoMm /\ ~Gone(n)
    BY <1>2, TypeFacts, Special DEF Gone
  <2>2. \A x \in Frames : g.own[x] = n => mem'[x] = mem[x]
    BY <1>3, <1>4, <2>1, Special
  <2>3. QED
    BY <1>2, <1>4, <2>1, <2>2, OtherMaps
<1>9. QED
  BY <1>2, <1>3, <1>4, <1>5, <1>6, <1>7, <1>8

(* create_mm, whether the heap takes a page or not.                        *)
LEMMA CreateStep ==
  ASSUME IInv, op = "idle", NEW m \in Mms, m \notin Live, NEW t \in free,
         NEW P \in SUBSET free, t \notin P, CreateWith(m, t, P),
         room' \in Int, room' >= 0,
         room' + 1 + Cardinality(Live) = PerPage * Cardinality(heap \cup P)
  PROVE  IInv'
<1>0. /\ free' = free \ ({t} \cup P) /\ heap' = heap \cup P
      /\ UNCHANGED <<current_mm, cr3, tlb, dropped, op, mm, page, frame,
                     table, level, stack, loose, kernel>>
  BY DEF CreateWith, cpu, args
<1>1. TypeOK /\ CpuOK /\ KernelOK /\ Placed /\ stack = << >> /\ m # NoMm
  BY TypeFacts, Special DEF IInv, KernelOK
<1>2. PICK g \in Placing : Forest(g)
  BY <1>1 DEF Placed
<1>3. /\ t \in Frames /\ g.own[t] = NoMm /\ mem' \in Memory
      /\ \A j \in Index : mem'[t][j] = NoFrame
      /\ \A x \in Tables : x # t => mem'[x] = mem[x]
      /\ pml4' \in [Mms -> Frames \cup {NoFrame}] /\ pml4'[m] = t
      /\ \A n \in Mms : n # m => pml4'[n] = pml4[n]
      /\ Live' = Live \cup {m}
      /\ \A n \in Live, v \in Pages :
           WalkIn(mem', pml4[n], v, 0) = WalkIn(mem, pml4[n], v, 0)
  BY <1>2, CreateFacts
<1>4. \A n \in Live : n # m /\ pml4'[n] = pml4[n] /\ n \in Mms /\ n # NoMm
  BY <1>1, <1>3, TypeFacts, Special
<1>5. PICK h \in Placing : /\ h.own[t] = m /\ h.rank[t] = Top
                           /\ \A x \in Frames : x # t => SamePlace(g, h, x)
  <2>1. Top \in -1 .. Top /\ g.up[t] \in Frames /\ g.slot[t] \in Index
    BY <1>3, Sizes, PlacingFields
  <2>2. /\ g \in Placing /\ t \in Frames /\ m \in Mms \cup {NoMm}
        /\ Top \in -1 .. Top
    BY <1>3, <2>1
  <2> DEFINE h == Put(g, t, m, Top, g.up[t], g.slot[t])
  <2>3. /\ h \in Placing /\ h.own[t] = m /\ h.rank[t] = Top
        /\ \A x \in Frames : x # t => SamePlace(g, h, x)
    BY <2>1, <2>2, PutFields
  <2> HIDE DEF h
  <2>4. QED
    BY <2>3
<1>6. IsFiniteSet(Live') /\ room' + Cardinality(Live') = PerPage * Cardinality(heap')
  <2>1. IsFiniteSet(Live)
    BY <1>1 DEF KernelOK, Counted
  <2>2. IsFiniteSet(Live \cup {m}) /\ Cardinality(Live \cup {m}) = Cardinality(Live) + 1
    BY <2>1, FS_AddElement
  <2>3. Cardinality(Live) \in Nat
    BY <2>1, FS_CardinalityType
  <2>4. room' + (Cardinality(Live) + 1) = room' + 1 + Cardinality(Live)
    BY <2>3
  <2>5. QED
    BY <1>0, <1>3, <2>2, <2>4
<1>7. TypeOK'
  <2>1. heap' \in SUBSET Frames /\ free' \subseteq Frames
    BY <1>0, <1>1 DEF TypeOK
  <2>2. room' \in 0 .. PerPage * Cardinality(Frames)
    BY <1>6, <2>1, RoomBound
  <2>3. QED
    BY <1>0, <1>1, <1>3, <2>1, <2>2 DEF TypeOK, Memory, Entries
<1>8. CpuOK'
  <2>1. current_mm # NoMm => current_mm \in Live
    BY <1>1 DEF TypeOK
  <2>2. QED
    BY <1>0, <1>1, <1>3, <1>4, <2>1, CpuStep
<1>9. mem'[Boot] = mem[Boot]
  BY <1>3, Special DEF Tables
<1>10. ASSUME NEW n \in Live
       PROVE  /\ pml4[n] \in Frames /\ pml4[n] # t /\ pml4[n] \in Tables
              /\ g.own[pml4[n]] = n /\ g.rank[pml4[n]] = Top
  BY <1>1, <1>2, <1>3, <1>4, TypeFacts, Special DEF Forest, Roots, Gone
<1>11. KernelOK'
  <2>1. KernelGiven'
    BY <1>0, <1>1, <1>3, <1>4, <1>9, <1>10 DEF KernelOK, KernelGiven, Gone
  <2>2. Apart'
    BY <1>0, <1>1 DEF KernelOK, Apart
  <2>3. QED
    BY <1>0, <1>1, <1>3, <1>6, <1>9, <2>1, <2>2 DEF KernelOK, Counted
<1>12. Downwards(h, mem', kernel, {}) /\ Upwards(h, mem', {}, {})
  <2>1. Downwards(g, mem, kernel, {}) /\ Upwards(g, mem, {}, {})
    BY <1>1, <1>2, NothingPassed DEF Forest
  <2>2. \A x \in Frames : x # t => mem'[x] = mem[x]
    BY <1>3, Special
  <2>3. QED
    BY <1>3, <1>5, <2>1, <2>2, Plant
<1>13. Roots(h)'
  <2>1. ASSUME NEW n \in Live'
        PROVE  h.own[pml4'[n]] = n /\ h.rank[pml4'[n]] = Top
    <3>1. CASE n = m
      BY <1>3, <1>5, <3>1
    <3>2. CASE n # m
      BY <1>3, <1>4, <1>5, <1>10, <2>1, <3>2 DEF SamePlace
    <3>3. QED
      BY <3>1, <3>2
  <2>2. ASSUME NEW x \in Frames, h.own[x] # NoMm, h.rank[x] = Top
        PROVE  pml4'[h.own[x]] = x
    <3>1. CASE x = t
      BY <1>3, <1>5, <3>1
    <3>2. CASE x # t
      <4>1. SamePlace(g, h, x) /\ g.own[x] \in Live /\ pml4[g.own[x]] = x
        BY <1>2, <1>5, <2>2, <3>2 DEF Forest, Roots, Owners, SamePlace
      <4>2. QED
        BY <1>4, <4>1 DEF SamePlace
    <3>3. QED
      BY <3>1, <3>2
  <2>3. QED
    BY <1>0, <2>1, <2>2 DEF Roots, Gone
<1>14. Owners(h)'
  BY <1>0, <1>1, <1>2, <1>3, <1>5 DEF Owners, Forest, SamePlace, KernelOK, Apart
<1>15. Reached(h)'
  <2>1. SUFFICES ASSUME NEW x \in Frames, h.own[x] # NoMm, h.rank[x] = -1
                 PROVE  \E v \in Pages : WalkIn(mem', pml4'[h.own[x]], v, 0) = x
    BY <1>0 DEF Reached
  <2>2. x # t /\ SamePlace(g, h, x)
    BY <1>5, <2>1, Sizes
  <2>3. g.own[x] \in Live /\ g.own[x] # NoMm /\ g.rank[x] = -1
    BY <1>2, <2>1, <2>2 DEF Forest, Owners, SamePlace
  <2>4. PICK v \in Pages : WalkIn(mem, pml4[g.own[x]], v, 0) = x
    BY <1>2, <2>3 DEF Forest, Reached, Gone
  <2>5. QED
    BY <1>3, <1>4, <2>2, <2>3, <2>4 DEF SamePlace
<1>16. Mapping(h)' /\ Deleting(h)'
  BY <1>0 DEF Mapping, Deleting
<1>17. Forest(h)'
  BY <1>0, <1>1, <1>12, <1>13, <1>14, <1>15, <1>16, NothingPassed DEF Forest
<1>18. QED
  BY <1>5, <1>7, <1>8, <1>11, <1>17 DEF IInv, Placed

(* There is room in the heap.                                              *)
LEMMA CreateRoomStep ==
  ASSUME IInv, NEW m \in Mms, NEW t \in free, create_mm(m, t)
  PROVE  IInv'
<1>1. /\ op = "idle" /\ m \notin Live /\ room > 0 /\ CreateWith(m, t, {}) /\ room' = room - 1
      /\ TypeOK /\ Counted
  BY TypeFacts DEF create_mm, IInv, KernelOK
<1>2. room \in Int /\ room' \in Int /\ room' >= 0 /\ room' + 1 = room
  BY <1>1 DEF TypeOK
<1>3. {} \in SUBSET free /\ t \notin {} /\ heap \cup {} = heap
  OBVIOUS
<1>4. room' + 1 + Cardinality(Live) = PerPage * Cardinality(heap \cup {})
  BY <1>1, <1>2, <1>3 DEF Counted
<1>5. QED
  BY <1>1, <1>2, <1>3, <1>4, CreateStep

(* The heap takes a page.                                                  *)
LEMMA CreateExtendStep ==
  ASSUME IInv, NEW m \in Mms, NEW t \in free, NEW p \in free, create_mm_extend(m, t, p)
  PROVE  IInv'
<1>1. /\ op = "idle" /\ m \notin Live /\ room = 0 /\ CreateWith(m, t, {p})
      /\ p # t /\ room' = PerPage - 1 /\ TypeOK /\ Counted /\ p \notin heap
  BY TypeFacts DEF create_mm_extend, IInv, KernelOK, Apart
<1>2. PerPage \in Nat /\ PerPage # 0 /\ IsFiniteSet(Frames)
  BY VmmAssumption
<1>3. IsFiniteSet(heap) /\ IsFiniteSet(Live)
  BY <1>1, <1>2, FS_Subset DEF TypeOK, Counted
<1>4. Cardinality(heap \cup {p}) = Cardinality(heap) + 1
  BY <1>1, <1>3, FS_AddElement
<1> DEFINE a == Cardinality(Live)
           b == Cardinality(heap)
<1>5. a \in Nat /\ b \in Nat /\ 0 + a = PerPage * b
  BY <1>1, <1>3, FS_CardinalityType DEF Counted
<1> HIDE DEF a, b
<1>6. PerPage * (b + 1) = PerPage * b + PerPage
  BY <1>2, <1>5
<1>7. PerPage - 1 + 1 + a = PerPage * (b + 1)
  BY <1>2, <1>5, <1>6
<1>8. room' \in Int /\ room' >= 0
  BY <1>1, <1>2
<1>9. room' + 1 + Cardinality(Live) = PerPage * Cardinality(heap \cup {p})
  BY <1>1, <1>4, <1>7 DEF a, b
<1>10. {p} \in SUBSET free /\ t \notin {p}
  BY <1>1
<1>11. QED
  BY <1>1, <1>8, <1>9, <1>10, CreateStep

-----------------------------------------------------------------------------
(***************************************************************************)
(* The invariant holds.                                                    *)
(***************************************************************************)
(* At first no address space owns a frame.                                 *)
LEMMA InitStep ==
  ASSUME Init
  PROVE  IInv
<1> USE DEF Init
<1>1. PICK p \in Frames : heap = {p} /\ free = Frames \ {p}
  OBVIOUS
<1>2. Live = {} /\ op \notin Stopped
  BY DEF Live, Stopped
<1>3. /\ IsFiniteSet(Live) /\ Cardinality(Live) = 0 /\ Cardinality(heap) = 1
      /\ PerPage \in Nat /\ PerPage >= 0
  <2>1. IsFiniteSet({}) /\ Cardinality({}) = 0
    BY FS_EmptySet
  <2>2. Cardinality({p}) = 1
    BY FS_Singleton
  <2>3. PerPage \in Nat /\ PerPage >= 0
    BY VmmAssumption
  <2>4. QED
    BY <1>1, <1>2, <2>1, <2>2, <2>3
<1>4. room + Cardinality(Live) = PerPage * Cardinality(heap)
  BY <1>3
<1>5. 0 \in Index /\ KernelHalf \in Index /\ 0 \in Levels
  BY Sizes DEF Index, Levels
<1>6. TypeOK
  <2>1. mem \in [Tables -> [Index -> Frames \cup {NoFrame, BootPdpt, Junk}]]
    OBVIOUS
  <2>2. room \in Int /\ room >= 0 /\ heap \in SUBSET Frames
    BY <1>1, <1>3
  <2>3. room \in 0 .. PerPage * Cardinality(Frames)
    BY <1>3, <1>4, <2>2, RoomBound
  <2>4. pml4 \in [Mms -> Frames \cup {NoFrame}]
    OBVIOUS
  <2>5. cr3 \in Tables
    BY DEF Tables
  <2>6. << >> \in Seq(Frames \X (0 .. Fanout))
    OBVIOUS
  <2>7. QED
    BY <1>1, <1>5, <2>1, <2>3, <2>4, <2>5, <2>6 DEF TypeOK
<1>7. CpuOK
  BY DEF CpuOK, KernelMapped, DeletesOwn, Cached
<1>8. KernelOK
  <2>1. mem[Boot] = BootTable
    BY DEF BootTable, Tables
  <2>2. QED
    BY <1>1, <1>2, <1>3, <1>4, <2>1 DEF KernelOK, Apart, Counted, KernelGiven
<1>9. PICK g \in Placing : \A f \in Frames : g.own[f] = NoMm
  <2> DEFINE e == [own |-> [f \in Frames |-> NoMm], rank |-> [f \in Frames |-> -1],
                   up |-> [f \in Frames |-> p], slot |-> [f \in Frames |-> 0]]
  <2>1. e \in Placing
    BY <1>5, Sizes DEF Placing
  <2>2. \A f \in Frames : e.own[f] = NoMm
    OBVIOUS
  <2>3. QED
    BY <2>1, <2>2
<1>10. Forest(g)
  <2>1. /\ Downwards(g, mem, kernel, PassedBy(stack))
        /\ Upwards(g, mem, PassedBy(stack), OnStack(stack))
    BY <1>9 DEF Downwards, Upwards, IsTable
  <2>2. Roots(g) /\ Owners(g) /\ Reached(g)
    BY <1>1, <1>2, <1>9 DEF Roots, Owners, Reached
  <2>3. Mapping(g) /\ Deleting(g)
    BY DEF Mapping, Deleting
  <2>4. QED
    BY <2>1, <2>2, <2>3 DEF Forest
<1>11. QED
  BY <1>6, <1>7, <1>8, <1>9, <1>10 DEF IInv, Placed

(* Nothing happens.                                                        *)
LEMMA StutterStep ==
  ASSUME IInv, UNCHANGED vars
  PROVE  IInv'
<1> USE DEF vars, cpu, args
<1>1. Live' = Live
  BY DEF Live
<1>2. TypeOK'
  BY <1>1 DEF IInv, TypeOK
<1>3. CpuOK'
  BY DEF IInv, CpuOK, KernelMapped, DeletesOwn, Cached
<1>4. ASSUME op \notin Stopped
      PROVE  KernelOK' /\ Placed'
  <2>1. KernelOK /\ Placed
    BY <1>4 DEF IInv
  <2>2. KernelOK'
    BY <1>1, <2>1 DEF KernelOK, Apart, Counted, KernelGiven, Gone
  <2>3. PICK g \in Placing : Forest(g)
    BY <2>1 DEF Placed
  <2>4. Forest(g)'
    BY <1>1, <2>3 DEF Forest, Roots, Owners, Reached, Mapping, Deleting, Gone, Depth
  <2>5. QED
    BY <2>2, <2>3, <2>4 DEF Placed
<1>5. QED
  BY <1>2, <1>3, <1>4 DEF IInv

(* Every step keeps the invariant.                                         *)
LEMMA NextStep ==
  ASSUME IInv, KernelPml4 = Boot, [Next]_vars
  PROVE  IInv'
<1>1. ASSUME NEW f \in free, AllocData(f)
      PROVE  IInv'
  BY <1>1, AllocDataStep
<1>2. ASSUME NEW f \in loose, FreeData(f)
      PROVE  IInv'
  BY <1>2, FreeDataStep
<1>3. ASSUME NEW m \in Live, NEW f \in loose, NEW v \in Pages, MapCall(m, f, v)
      PROVE  IInv'
  BY <1>3, MapCallStep
<1>4. ASSUME NEW m \in Live, NEW v \in Pages, unmap_page(m, v)
      PROVE  IInv'
  BY <1>4, UnmapStep
<1>5. ASSUME NEW m \in Live, map_kernel_for_user_mm(m)
      PROVE  IInv'
  BY <1>5, MapKernelStep
<1>6. ASSUME NEW m \in Mms, NEW t \in free, create_mm(m, t)
      PROVE  IInv'
  BY <1>6, CreateRoomStep
<1>7. ASSUME NEW m \in Mms, NEW t \in free, NEW p \in free, create_mm_extend(m, t, p)
      PROVE  IInv'
  BY <1>7, CreateExtendStep
<1>8. ASSUME NEW t \in free, create_mm_fail(t)
      PROVE  IInv'
  BY <1>8, CreateFailStep
<1>9. ASSUME NEW m \in Live, swap_mm(m)
      PROVE  IInv'
  BY <1>9, SwapStep
<1>10. ASSUME NEW v \in Pages, Cache(v)
       PROVE  IInv'
  BY <1>10, CacheStep
<1>11. ASSUME NEW m \in Live, DeleteCall(m)
       PROVE  IInv'
  BY <1>11, DeleteCallStep
<1>12. CASE Step
  <2>1. ASSUME NEW f \in free, MapTable(f)
        PROVE  IInv'
    BY <2>1, MapTableStep
  <2>2. QED
    BY <1>12, <2>1, MapWalkStep, MapNoMemoryStep, MapLeafStep, FreeSkipStep,
       FreeDescendStep, FreeLeafStep, FreeTableStep, DeleteDoneStep DEF Step
<1>13. CASE UNCHANGED vars
  BY <1>13, StutterStep
<1>14. QED
  BY <1>1, <1>2, <1>3, <1>4, <1>5, <1>6, <1>7, <1>8, <1>9, <1>10, <1>11, <1>12, <1>13
     DEF Next

(* The inductive invariant of the virtual memory manager: every frame that *)
(* is not free, the heap's or a caller's hangs at one place in the tables  *)
(* of one address space, and free_page_table takes them apart in order.    *)
THEOREM Invariance ==
  ASSUME KernelPml4 = Boot
  PROVE  Spec => []IInv
<1>1. Init => IInv
  BY InitStep
<1>2. IInv /\ [Next]_vars => IInv'
  BY NextStep
<1>3. QED
  BY <1>1, <1>2, PTL DEF Spec

(* free_page_table frees each frame of its address space once and no other *)
(* frame, and map_page never takes for a table what is none; the only way  *)
(* to damage the allocator is to delete an mm with the kernel's half.      *)
THEOREM DeletesOnlyOwn ==
  ASSUME KernelPml4 = Boot
  PROVE  Spec => []DeletesOwn
<1>1. IInv => DeletesOwn
  BY DEF IInv, CpuOK
<1>2. QED
  BY <1>1, Invariance, PTL

(* The TLB holds what the tables in CR3 say, but for pages that unmap_page *)
(* took out of the current address space.                                  *)
THEOREM TlbIsCoherent ==
  ASSUME KernelPml4 = Boot
  PROVE  Spec => []TlbCoherent
<1>1. IInv => TlbCoherent
  BY WalkNow DEF IInv, CpuOK, Cached, TlbCoherent
<1>2. QED
  BY <1>1, Invariance, PTL

-----------------------------------------------------------------------------
(***************************************************************************)
(* The frames of an address space.                                         *)
(***************************************************************************)
Children(S) == {mem[t][i] : t \in S, i \in Index} \cap Frames

Below(b, m) ==
  b = [l \in Levels |-> IF l = Top THEN {pml4[m]} ELSE Children(b[l + 1])]

(* TablesOf's recursion.                                                   *)
LEMMA TablesAre ==
  ASSUME NEW m
  PROVE  TablesOf(m) = UNION {(CHOOSE b : Below(b, m))[l] : l \in Levels}
  BY DEF TablesOf, Below, Children

(* It has a solution.                                                      *)
LEMMA BelowExists ==
  ASSUME TypeOK, NEW m \in Live
  PROVE  \E b \in [Levels -> SUBSET Frames] : Below(b, m)
<1>1. PICK n \in Nat : n + 1 = Top /\ 0 \in 0 .. n + 1
  <2>1. Top - 1 \in Nat /\ (Top - 1) + 1 = Top /\ 0 \in 0 .. (Top - 1) + 1
    BY Sizes
  <2>2. QED
    BY <2>1
<1> DEFINE D == SUBSET Frames
           G == [j \in 0 .. n |-> [S \in D |-> Children(S)]]
<1>2. \A j \in 0 .. n, S \in D : G[j][S] = Children(S) /\ G[j][S] \in D
  <2>1. \A S \in D : Children(S) \in D
    BY DEF Children
  <2>2. QED
    BY <2>1
<1>3. PICK a \in D : a = {pml4[m]}
  BY TypeFacts
<1> HIDE DEF G, D
<1>4. PICK b \in [0 .. n + 1 -> D] : Runs(b, n, 0, a, G)
  <2>1. PICK z \in 0 .. n + 1 : z = 0
    BY <1>1
  <2>2. \A j \in 0 .. n, S \in D : G[j][S] \in D
    BY <1>2
  <2>3. \E b \in [z .. n + 1 -> D] : Runs(b, n, z, a, G)
    BY <2>2, RunsExist
  <2>4. QED
    BY <2>1, <2>3
<1>5. b = [j \in 0 .. n + 1 |-> IF j = n + 1 THEN {pml4[m]} ELSE G[j][b[j + 1]]]
  BY <1>3, <1>4 DEF Runs
<1>6. Levels = 0 .. n + 1
  BY <1>1 DEF Levels
<1>7. ASSUME NEW j \in Levels
      PROVE  b[j] = IF j = Top THEN {pml4[m]} ELSE Children(b[j + 1])
  <2>1. b[j] = IF j = n + 1 THEN {pml4[m]} ELSE G[j][b[j + 1]]
    BY <1>5, <1>6
  <2>2. CASE j = Top
    BY <1>1, <2>1, <2>2
  <2>3. CASE j # Top
    <3>1. j \in 0 .. n /\ j + 1 \in 0 .. n + 1
      BY <1>1, <1>6, <2>3
    <3>2. b[j + 1] \in D
      BY <1>4, <3>1
    <3>3. QED
      BY <1>1, <1>2, <2>1, <2>3, <3>1, <3>2
  <2>4. QED
    BY <2>2, <2>3
<1>8. b \in [Levels -> SUBSET Frames] /\ b = [j \in Levels |-> b[j]]
  BY <1>4, <1>6 DEF D
<1>9. Below(b, m)
  BY <1>7, <1>8 DEF Below
<1>10. QED
  BY <1>8, <1>9

(* The tables of m at a level are what it owns there.                      *)
LEMMA TablesPlaced ==
  ASSUME IInv, op \in {"idle", "map"}, NEW g \in Placing, Forest(g), NEW m \in Live
  PROVE  TablesOf(m) = {f \in Frames : g.own[f] = m /\ g.rank[f] >= 0}
<1>1. TypeOK /\ stack = << >> /\ m \in Mms /\ m # NoMm /\ pml4[m] \in Frames /\ Top \in Nat
  BY TypeFacts, Special, Sizes DEF IInv, KernelOK
<1>2. Downwards(g, mem, kernel, {}) /\ Upwards(g, mem, {}, {}) /\ Roots(g)
  BY <1>1, NothingPassed DEF Forest
<1>3. g.own[pml4[m]] = m /\ g.rank[pml4[m]] = Top
  BY <1>2 DEF Roots, Gone
<1> DEFINE b == CHOOSE b : Below(b, m)
           At(l) == {f \in Frames : g.own[f] = m /\ g.rank[f] = l}
<1>4. Below(b, m)
  BY <1>1, BelowExists
<1>5. TablesOf(m) = UNION {b[l] : l \in Levels}
  BY TablesAre
<1> HIDE DEF b
<1> DEFINE S == {l \in 0 .. Top + 1 : l = Top + 1 \/ b[l] = At(l)}
<1>6. Top + 1 \in S
  BY <1>1
<1>7. ASSUME NEW l \in 0 .. Top, l + 1 \in S
      PROVE  l \in S
  <2>1. l \in Levels /\ l \in 0 .. Top + 1
    BY <1>1 DEF Levels
  <2>2. CASE l = Top
    <3>1. b[l] = {pml4[m]}
      BY <1>4, <2>1, <2>2 DEF Below
    <3>2. At(l) = {pml4[m]}
      BY <1>1, <1>2, <1>3, <2>2 DEF Roots
    <3>3. QED
      BY <2>1, <3>1, <3>2
  <2>3. CASE l # Top
    <3>1. PICK k \in 0 .. Top : k = l + 1 /\ k - 1 = l /\ k # Top + 1
      BY <1>1, <2>3
    <3>2. b[k] = At(k)
      BY <1>7, <3>1
    <3>3. b[l] = Children(b[k])
      BY <1>4, <2>1, <2>3, <3>1 DEF Below
    <3>4. ASSUME NEW t \in At(k), NEW i \in Index, mem[t][i] \in Frames
          PROVE  mem[t][i] \in At(l)
      <4>1. IsTable(g, t) /\ t \in Frames
        BY <1>1, <3>1 DEF IsTable
      <4>2. IsChild(g, t, i, mem[t][i])
        BY <1>2, <3>4, <4>1, Special DEF Downwards, Tables
      <4>3. QED
        BY <3>1, <3>4, <4>2 DEF IsChild
    <3>5. ASSUME NEW f \in At(l)
          PROVE  \E t \in At(k), i \in Index : mem[t][i] = f
      <4>1. f \in Frames /\ g.own[f] # NoMm /\ g.rank[f] < Top /\ g.rank[f] = l
        BY <1>1, <2>3
      <4>2. g.own[g.up[f]] = g.own[f] /\ g.rank[g.up[f]] = l + 1 /\ mem[g.up[f]][g.slot[f]] = f
        BY <1>2, <4>1 DEF Upwards
      <4>3. g.up[f] \in Frames /\ g.slot[f] \in Index
        BY <4>1, PlacingFields
      <4>4. QED
        BY <3>1, <4>2, <4>3
    <3> HIDE DEF At
    <3>6. b[l] = At(l)
      <4>1. At(l) \subseteq Frames
        BY DEF At
      <4>2. QED
        BY <3>2, <3>3, <3>4, <3>5, <4>1 DEF Children
    <3>7. QED
      BY <2>1, <3>6
  <2>4. QED
    BY <2>2, <2>3
<1> HIDE DEF S
<1>8. 0 \in 0 .. Top + 1
  BY <1>1
<1>9. \A l \in 0 .. Top + 1 : l \in S
  BY <1>6, <1>7, <1>8, DownTo
<1>10. \A l \in Levels : b[l] = At(l)
  BY <1>1, <1>9 DEF S, Levels
<1>11. \A f \in Frames : g.rank[f] >= 0 <=> g.rank[f] \in Levels
  BY <1>1, PlacingFields DEF Levels
<1>12. QED
  BY <1>5, <1>10, <1>11

(* The frames its pages are in are what it owns below the tables.          *)
LEMMA DataPlaced ==
  ASSUME IInv, op \in {"idle", "map"}, NEW g \in Placing, Forest(g), NEW m \in Live
  PROVE  DataOf(m) = {f \in Frames : g.own[f] = m /\ g.rank[f] = -1}
<1>1. TypeOK /\ mem \in Memory /\ KernelOK /\ ~Gone(m) /\ m \in Mms /\ m # NoMm
  BY TypeFacts, Special DEF IInv, Gone
<1>2. TreeOf(g, mem, kernel, PassedBy(stack), m, pml4[m])
  BY <1>1, Trees DEF KernelOK
<1>3. ASSUME NEW v \in Pages, WalkIn(mem, pml4[m], v, 0) # NoFrame
      PROVE  /\ WalkIn(mem, pml4[m], v, 0) \in Frames
             /\ g.own[WalkIn(mem, pml4[m], v, 0)] = m
             /\ g.rank[WalkIn(mem, pml4[m], v, 0)] = -1
  <2>1. PICK l \in 0 .. Top + 1 : l = 0 /\ l - 1 = -1
    BY Sizes
  <2>2. v \in Paths
    BY Special
  <2>3. \/ WalkIn(mem, pml4[m], v, l) = NoFrame
        \/ /\ WalkIn(mem, pml4[m], v, l) \in Frames
           /\ g.own[WalkIn(mem, pml4[m], v, l)] = m /\ g.rank[WalkIn(mem, pml4[m], v, l)] = l - 1
    BY <1>1, <1>2, <2>2, WalkPlaced
  <2>4. QED
    BY <1>3, <2>1, <2>3
<1>4. ASSUME NEW f \in Frames, g.own[f] = m, g.rank[f] = -1
      PROVE  \E v \in Pages : WalkIn(mem, pml4[m], v, 0) = f
  BY <1>1, <1>4 DEF Forest, Reached
<1>5. DataOf(m) = {WalkIn(mem, pml4[m], v, 0) : v \in Pages} \ {NoFrame}
  BY WalkNow DEF DataOf, virt_to_phys
<1>6. NoFrame \notin Frames
  BY Special
<1>7. QED
  BY <1>3, <1>4, <1>5, <1>6

(* What an address space owns is what TablesOf and DataOf find.            *)
LEMMA FramesPlaced ==
  ASSUME IInv, op \in {"idle", "map"}, NEW g \in Placing, Forest(g), NEW m \in Live
  PROVE  FramesOf(m) = {f \in Frames : g.own[f] = m}
<1>1. TablesOf(m) = {f \in Frames : g.own[f] = m /\ g.rank[f] >= 0}
  BY TablesPlaced
<1>2. DataOf(m) = {f \in Frames : g.own[f] = m /\ g.rank[f] = -1}
  BY DataPlaced
<1>3. \A f \in Frames : g.rank[f] >= 0 \/ g.rank[f] = -1
  BY PlacingFields, Sizes
<1>4. QED
  BY <1>1, <1>2, <1>3 DEF FramesOf

(* Address spaces are trees that share no frame with one another, with     *)
(* alloc_frames, with the heap or with a caller; map_page and unmap_page   *)
(* keep them so at every step.                                             *)
THEOREM SpacesArePrivate ==
  ASSUME KernelPml4 = Boot
  PROVE  Spec => []Private
<1>1. IInv => Private
  <2>1. SUFFICES ASSUME IInv, op \in {"idle", "map"}
                 PROVE  /\ \A m, n \in Live : m # n => FramesOf(m) \cap FramesOf(n) = {}
                        /\ \A m \in Live :
                             /\ FramesOf(m) \cap (free \cup heap \cup loose) = {}
                             /\ \A x \in TablesOf(m) \X Index :
                                  mem[x[1]][x[2]] \notin {pml4[m], Junk}
                             /\ \A x, y \in TablesOf(m) \X Index :
                                  /\ mem[x[1]][x[2]] = mem[y[1]][y[2]]
                                  /\ mem[x[1]][x[2]] \in Frames
                                  => x = y
    BY DEF Private
  <2>2. TypeOK /\ stack = << >> /\ Placed
    BY <2>1, TypeFacts DEF IInv, KernelOK
  <2>3. PICK g \in Placing : Forest(g)
    BY <2>2 DEF Placed
  <2>4. Downwards(g, mem, kernel, {}) /\ Roots(g) /\ Owners(g)
    BY <2>2, <2>3, NothingPassed DEF Forest
  <2>5. \A m \in Live : FramesOf(m) = {f \in Frames : g.own[f] = m}
    BY <2>1, <2>3, FramesPlaced
  <2>6. ASSUME NEW m \in Live
        PROVE  FramesOf(m) \cap (free \cup heap \cup loose) = {}
    <3>1. m # NoMm
      BY <2>2, TypeFacts, Special
    <3>2. QED
      BY <2>4, <2>5, <3>1 DEF Owners
  <2>7. ASSUME NEW m \in Live, NEW x \in TablesOf(m) \X Index
        PROVE  /\ mem[x[1]][x[2]] \notin {pml4[m], Junk}
               /\ mem[x[1]][x[2]] \in Frames => IsChild(g, x[1], x[2], mem[x[1]][x[2]])
    <3>1. PICK t, i : t = x[1] /\ i = x[2] /\ t \in TablesOf(m) /\ i \in Index
      OBVIOUS
    <3>2. t \in Frames /\ g.own[t] = m /\ g.rank[t] >= 0
      BY <2>1, <2>3, <3>1, TablesPlaced
    <3>3. /\ m # NoMm /\ pml4[m] \in Frames /\ g.rank[pml4[m]] = Top
          /\ g.rank[t] \in -1 .. Top /\ Top \in Nat
      BY <2>1, <2>2, <2>4, <3>2, TypeFacts, Special, PlacingFields, Sizes DEF Roots, Gone
    <3>4. \/ mem[t][i] = NoFrame
          \/ IsChild(g, t, i, mem[t][i])
          \/ mem[t][i] = BootPdpt
      BY <2>4, <3>1, <3>2, <3>3 DEF Downwards, IsTable
    <3>5. IsChild(g, t, i, mem[t][i]) => mem[t][i] \in Frames /\ mem[t][i] # pml4[m]
      BY <3>2, <3>3 DEF IsChild
    <3>6. QED
      BY <3>1, <3>3, <3>4, <3>5, Special DEF Tables
  <2>8. ASSUME NEW m \in Live, NEW x \in TablesOf(m) \X Index, NEW y \in TablesOf(m) \X Index,
               mem[x[1]][x[2]] = mem[y[1]][y[2]], mem[x[1]][x[2]] \in Frames
        PROVE  x = y
    <3>1. IsChild(g, x[1], x[2], mem[x[1]][x[2]]) /\ IsChild(g, y[1], y[2], mem[y[1]][y[2]])
      BY <2>7, <2>8
    <3>2. x[1] = y[1] /\ x[2] = y[2]
      BY <2>8, <3>1 DEF IsChild
    <3>3. QED
      BY <3>2
  <2>9. QED
    BY <2>5, <2>6, <2>7, <2>8
<1>2. QED
  BY <1>1, Invariance, PTL

(* The types, and no frame is lost: between calls each is free, the        *)
(* heap's, with a caller, or found in the tables of an address space.      *)
THEOREM NothingLeaks ==
  ASSUME KernelPml4 = Boot
  PROVE  Spec => []NoLeak
<1>1. IInv => NoLeak
  <2>1. SUFFICES ASSUME IInv, op = "idle"
                 PROVE  Frames = free \cup heap \cup loose \cup UNION {FramesOf(m) : m \in Live}
    BY DEF NoLeak, IInv
  <2>2. TypeOK /\ Placed
    BY <2>1, TypeFacts DEF IInv
  <2>3. PICK g \in Placing : Forest(g)
    BY <2>2 DEF Placed
  <2>4. \A m \in Live : FramesOf(m) = {f \in Frames : g.own[f] = m}
    BY <2>1, <2>3, FramesPlaced
  <2>5. \A f \in Frames : f \in free \cup heap \cup loose \/ g.own[f] \in Live
    BY <2>3 DEF Forest, Owners
  <2>6. free \cup heap \cup loose \subseteq Frames
    BY <2>2 DEF TypeOK
  <2>7. QED
    BY <2>4, <2>5, <2>6
<1>2. QED
  BY <1>1, Invariance, PTL

-----------------------------------------------------------------------------
(***************************************************************************)
(* The page tables implement address spaces.                               *)
(***************************************************************************)
Absent(m) == pml4[m] = NoFrame \/ (op \notin {"idle", "map"} /\ m = mm)

Space(m) ==
  IF Absent(m) THEN NoFrame ELSE [v \in Pages |-> WalkIn(mem, pml4[m], v, 0)]

(* Maps, in terms of WalkIn.                                               *)
LEMMA MapsNow == Maps = [m \in Mms |-> Space(m)]
  BY WalkNow DEF Maps, Space, Absent, virt_to_phys

(* The same after a step.                                                  *)
LEMMA MapsNext == Maps' = [m \in Mms |-> Space(m)']
<1>1. (Maps = [m \in Mms |-> Space(m)])'
  BY MapsNow, PTL
<1>2. QED
  BY <1>1

(* An address space that a step does not touch.                            *)
Kept(m) ==
  /\ Absent(m)' <=> Absent(m)
  /\ ~Absent(m) => /\ pml4'[m] = pml4[m]
                   /\ \A v \in Pages :
                        WalkIn(mem', pml4[m], v, 0) = WalkIn(mem, pml4[m], v, 0)

(* It is the same map.                                                     *)
LEMMA KeptSpace ==
  ASSUME NEW m, Kept(m)
  PROVE  Space(m)' = Space(m)
<1>1. CASE Absent(m)
  BY <1>1 DEF Kept, Space
<1>2. CASE ~Absent(m)
  BY <1>2 DEF Kept, Space
<1>3. QED
  BY <1>1, <1>2

(* A step that touches none does nothing.                                  *)
LEMMA AllKept ==
  ASSUME \A m \in Mms : Kept(m)
  PROVE  [Abs!Next]_Maps
<1>1. \A m \in Mms : Space(m)' = Space(m)
  BY KeptSpace
<1>2. Maps' = Maps
  BY <1>1, MapsNow, MapsNext
<1>3. QED
  BY <1>2

(* A step that touches one.                                                *)
LEMMA OneChanged ==
  ASSUME NEW m \in Mms, \A n \in Mms : n # m => Kept(n)
  PROVE  /\ Maps \in [Mms -> {Space(n) : n \in Mms}]
         /\ \A n \in Mms : Maps[n] = Space(n)
         /\ Maps' = [Maps EXCEPT ![m] = Space(m)']
<1>1. \A n \in Mms : n # m => Space(n)' = Space(n)
  BY KeptSpace
<1>2. Maps \in [Mms -> {Space(n) : n \in Mms}] /\ \A n \in Mms : Maps[n] = Space(n)
  BY MapsNow
<1>3. Maps' = [Maps EXCEPT ![m] = Space(m)']
  BY <1>1, MapsNow, MapsNext
<1>4. QED
  BY <1>2, <1>3

(* A live address space is a map of pages to its own frames.               *)
LEMMA SpaceIs ==
  ASSUME IInv, op \in {"idle", "map"}, NEW g \in Placing, Forest(g), NEW m \in Live
  PROVE  /\ ~Absent(m) /\ Space(m) = [v \in Pages |-> WalkIn(mem, pml4[m], v, 0)]
         /\ Space(m) # NoFrame
         /\ \A v \in Pages :
              Space(m)[v] = NoFrame \/ (Space(m)[v] \in Frames /\ g.own[Space(m)[v]] = m)
<1>1. TypeOK /\ mem \in Memory /\ KernelOK /\ ~Gone(m) /\ ~Absent(m)
  BY TypeFacts DEF IInv, Gone, Absent, Live
<1>2. TreeOf(g, mem, kernel, PassedBy(stack), m, pml4[m])
  BY <1>1, Trees DEF KernelOK
<1>3. ASSUME NEW v \in Pages
      PROVE  \/ WalkIn(mem, pml4[m], v, 0) = NoFrame
             \/ /\ WalkIn(mem, pml4[m], v, 0) \in Frames
                /\ g.own[WalkIn(mem, pml4[m], v, 0)] = m
  <2>1. PICK l \in 0 .. Top + 1 : l = 0
    BY Sizes
  <2>2. v \in Paths
    BY Special
  <2>3. \/ WalkIn(mem, pml4[m], v, l) = NoFrame
        \/ WalkIn(mem, pml4[m], v, l) \in Frames /\ g.own[WalkIn(mem, pml4[m], v, l)] = m
    BY <1>1, <1>2, <2>2, WalkPlaced
  <2>4. QED
    BY <2>1, <2>3
<1>4. Space(m) = [v \in Pages |-> WalkIn(mem, pml4[m], v, 0)]
  BY <1>1 DEF Space
<1>5. Space(m) \in [Pages -> Frames \cup {NoFrame}]
  BY <1>3, <1>4
<1>6. NoFrame \notin [Pages -> Frames \cup {NoFrame}]
  BY VmmAssumption
<1>7. QED
  BY <1>1, <1>3, <1>4, <1>5, <1>6

(* Steps that leave the tables, the roots and what exists alone.           *)
LEMMA QuietStep ==
  ASSUME UNCHANGED <<mem, pml4>>, op \in {"idle", "map"}, op' \in {"idle", "map"}
  PROVE  [Abs!Next]_Maps
<1>1. \A m \in Mms : Kept(m)
  BY DEF Kept, Absent
<1>2. QED
  BY <1>1, AllKept

(* The same during delete_mm.                                              *)
LEMMA QuietDelete ==
  ASSUME UNCHANGED <<mem, pml4, mm>>, op = "delete", op' \in {"delete", "corrupt"}
  PROVE  [Abs!Next]_Maps
<1>1. \A m \in Mms : Kept(m)
  BY DEF Kept, Absent
<1>2. QED
  BY <1>1, AllKept

(* Steps that change tables and nothing that is found through them.        *)
LEMMA QuietTables ==
  ASSUME UNCHANGED pml4, op \in {"idle", "map"}, op' \in {"idle", "map"},
         \A m \in Live, v \in Pages :
           WalkIn(mem', pml4[m], v, 0) = WalkIn(mem, pml4[m], v, 0)
  PROVE  [Abs!Next]_Maps
<1>1. \A m \in Mms : Kept(m)
  BY DEF Kept, Absent, Live
<1>2. QED
  BY <1>1, AllKept

(* create_mm is Create.                                                    *)
LEMMA CreateIsCreate ==
  ASSUME IInv, op = "idle", NEW m \in Mms, m \notin Live, NEW t \in free, NEW P,
         CreateWith(m, t, P)
  PROVE  [Abs!Next]_Maps
<1>1. TypeOK /\ Placed /\ op' = op
  BY TypeFacts DEF IInv, CreateWith
<1>2. PICK g \in Placing : Forest(g)
  BY <1>1 DEF Placed
<1>3. /\ t \in Frames /\ pml4'[m] = t /\ \A n \in Mms : n # m => pml4'[n] = pml4[n]
      /\ \A v \in Pages : WalkIn(mem', t, v, 0) = NoFrame
      /\ \A n \in Live, v \in Pages :
           WalkIn(mem', pml4[n], v, 0) = WalkIn(mem, pml4[n], v, 0)
  BY <1>2, CreateFacts
<1>4. \A n \in Mms : n # m => Kept(n)
  BY <1>1, <1>3 DEF Kept, Absent, Live
<1>5. Space(m) = NoFrame
  BY DEF Space, Absent, Live
<1>6. Space(m)' = [v \in Pages |-> NoFrame]
  <2>1. ~Absent(m)'
    BY <1>1, <1>3, Special DEF Absent
  <2>2. QED
    BY <1>3, <2>1 DEF Space
<1>7. Maps[m] = Space(m) /\ Maps' = [Maps EXCEPT ![m] = Space(m)']
  BY <1>4, OneChanged
<1>8. Abs!Create(m)
  BY <1>5, <1>6, <1>7 DEF Abs!Create, Abs!NoSpace, Abs!Empty
<1>9. QED
  BY <1>8 DEF Abs!Next

(* delete_mm is Delete at once, and so is map_page without memory.         *)
LEMMA GoneIsDelete ==
  ASSUME IInv, op \in {"idle", "map"}, NEW m \in Live,
         UNCHANGED <<mem, pml4>>, op' \notin {"idle", "map"}, mm' = m
  PROVE  [Abs!Next]_Maps
<1>1. TypeOK /\ Placed /\ m \in Mms
  BY TypeFacts DEF IInv
<1>2. PICK g \in Placing : Forest(g)
  BY <1>1 DEF Placed
<1>3. Space(m) # NoFrame
  BY <1>2, SpaceIs
<1>4. \A n \in Mms : n # m => Kept(n)
  BY DEF Kept, Absent
<1>5. Space(m)' = NoFrame
  BY DEF Space, Absent
<1>6. Maps[m] = Space(m) /\ Maps' = [Maps EXCEPT ![m] = Space(m)']
  BY <1>1, <1>4, OneChanged
<1>7. Abs!Delete(m)
  BY <1>3, <1>5, <1>6 DEF Abs!Delete, Abs!NoSpace
<1>8. QED
  BY <1>1, <1>7 DEF Abs!Next

(* map_page's last step is Map, or nothing.                                *)
LEMMA MapLeafIsMap ==
  ASSUME IInv, MapLeaf
  PROVE  [Abs!Next]_Maps
<1>0. op = "map" /\ level = 0 /\ op' = "idle" /\ UNCHANGED pml4
  BY DEF MapLeaf, Return
<1>1. TypeOK /\ Placed
  BY <1>0, TypeFacts DEF IInv
<1>2. PICK g \in Placing : Forest(g)
  BY <1>1 DEF Placed
<1>3. mm \in Live /\ mm \in Mms /\ page \in Pages
  BY <1>0, <1>1, <1>2, TypeFacts DEF Forest, Mapping
<1>4. CASE Entry # NoFrame
  <2>1. mem' = mem
    BY <1>4 DEF MapLeaf
  <2>2. QED
    BY <1>0, <2>1, QuietStep
<1>5. CASE Entry = NoFrame
  <2>1. /\ frame \in Frames /\ g.own[frame] = NoMm
        /\ WalkIn(mem, pml4[mm], page, 0) = NoFrame
        /\ WalkIn(mem', pml4[mm], page, 0) = frame
        /\ \A m \in Live, v \in Pages :
             ~(m = mm /\ v = page) =>
               WalkIn(mem', pml4[m], v, 0) = WalkIn(mem, pml4[m], v, 0)
    BY <1>2, <1>5, MapLeafFacts
  <2>2. PICK m \in Mms, q \in Pages, f \in Frames : m = mm /\ q = page /\ f = frame
    BY <1>3, <2>1
  <2>3. \A n \in Mms : n # m => Kept(n)
    BY <1>0, <2>1, <2>2 DEF Kept, Absent, Live
  <2>4. /\ Space(m) = [v \in Pages |-> WalkIn(mem, pml4[m], v, 0)] /\ Space(m) # NoFrame
        /\ ~Absent(m)
    BY <1>0, <1>2, <1>3, <2>2, SpaceIs
  <2>5. Space(m)' = [v \in Pages |-> WalkIn(mem', pml4[m], v, 0)]
    BY <1>0, <2>4 DEF Space, Absent
  <2>6. Space(m)' = [Space(m) EXCEPT ![q] = f]
    BY <1>3, <2>1, <2>2, <2>4, <2>5
  <2>7. \A n \in Mms : Maps[n] = Space(n)
    BY MapsNow
  <2>8. Maps' = [Maps EXCEPT ![m] = Space(m)']
    BY <2>3, OneChanged
  <2>9. f \notin Abs!InUse
    <3>1. SUFFICES ASSUME NEW n \in Mms, Maps[n] # NoFrame, NEW v \in Pages,
                          Maps[n][v] = f
                   PROVE  FALSE
      BY DEF Abs!InUse, Abs!NoSpace
    <3>2. n \in Live /\ n # NoMm
      BY <2>7, <3>1, Special DEF Space, Absent, Live
    <3>3. Space(n)[v] = NoFrame \/ g.own[Space(n)[v]] = n
      BY <1>0, <1>2, <3>2, SpaceIs
    <3>4. QED
      BY <2>1, <2>2, <2>7, <3>1, <3>2, <3>3, Special
  <2>10. Maps' = [Maps EXCEPT ![m][q] = f]
    BY <2>2, <2>6, <2>7, <2>8
  <2>11. Maps[m] # NoFrame /\ Maps[m][q] = NoFrame
    BY <2>1, <2>2, <2>4, <2>7
  <2>12. Abs!Map(m, q)
    BY <2>9, <2>10, <2>11 DEF Abs!Map, Abs!NoSpace
  <2>13. QED
    BY <2>12 DEF Abs!Next
<1>6. QED
  BY <1>4, <1>5

(* unmap_page is Unmap.                                                    *)
LEMMA UnmapIsUnmap ==
  ASSUME IInv, NEW m \in Live, NEW v \in Pages, unmap_page(m, v)
  PROVE  [Abs!Next]_Maps
<1>0. op = "idle" /\ op' = op /\ UNCHANGED pml4
  BY DEF unmap_page
<1>1. TypeOK /\ Placed /\ m \in Mms
  BY <1>0, TypeFacts DEF IInv
<1>2. PICK g \in Placing : Forest(g)
  BY <1>1 DEF Placed
<1>3. PICK f \in Frames, t \in Frames : Unmapped(g, m, v, f, t)
  BY <1>2, UnmapFacts
<1>4. /\ WalkIn(mem, pml4[m], v, 0) = f /\ WalkIn(mem', pml4[m], v, 0) = NoFrame
      /\ \A n \in Live, u \in Pages :
           ~(n = m /\ u = v) =>
             WalkIn(mem', pml4[n], u, 0) = WalkIn(mem, pml4[n], u, 0)
  BY <1>3 DEF Unmapped
<1>5. \A n \in Mms : n # m => Kept(n)
  BY <1>0, <1>4 DEF Kept, Absent, Live
<1>6. /\ Space(m) = [u \in Pages |-> WalkIn(mem, pml4[m], u, 0)] /\ Space(m) # NoFrame
      /\ ~Absent(m)
  BY <1>0, <1>2, SpaceIs
<1>7. Space(m)' = [u \in Pages |-> WalkIn(mem', pml4[m], u, 0)]
  BY <1>0, <1>6 DEF Space, Absent
<1>8. Space(m)' = [Space(m) EXCEPT ![v] = NoFrame]
  BY <1>4, <1>6, <1>7
<1>9. Maps[m] = Space(m) /\ Maps' = [Maps EXCEPT ![m] = Space(m)']
  BY <1>1, <1>5, OneChanged
<1>10. Maps' = [Maps EXCEPT ![m][v] = NoFrame]
  BY <1>8, <1>9
<1>11. Maps[m] # NoFrame /\ Maps[m][v] # NoFrame
  BY <1>4, <1>6, <1>9, Special
<1>12. Abs!Unmap(m, v)
  BY <1>10, <1>11 DEF Abs!Unmap, Abs!NoSpace
<1>13. QED
  BY <1>1, <1>12 DEF Abs!Next

(* The rest of delete_mm touches no address space that is left.            *)
LEMMA DeleteIsQuiet ==
  ASSUME IInv, FreeTable \/ DeleteDone
  PROVE  [Abs!Next]_Maps
<1>1. TypeOK /\ Placed /\ op = "delete"
  BY TypeFacts DEF IInv, FreeTable, DeleteDone
<1>2. PICK g \in Placing : Forest(g)
  BY <1>1 DEF Placed
<1>3. mm \in Live /\ mm \in Mms
  BY <1>1, <1>2, TypeFacts DEF Forest, Deleting
<1>4. CASE FreeTable
  <2>1. /\ UNCHANGED <<pml4, mm>> /\ op' \in {"delete", "corrupt"}
        /\ \A m \in Live, v \in Pages :
             m # mm => WalkIn(mem', pml4[m], v, 0) = WalkIn(mem, pml4[m], v, 0)
    BY <1>1, <1>2, <1>4, FreeTableFacts DEF FreeTable, free_frame
  <2>2. \A m \in Mms : Kept(m)
    BY <1>1, <2>1 DEF Kept, Absent, Live
  <2>3. QED
    BY <2>2, AllKept
<1>5. CASE DeleteDone
  <2>1. /\ mem' = mem /\ pml4' = [pml4 EXCEPT ![mm] = NoFrame]
        /\ op' = "idle" \/ (op' = "panic" /\ mm' = mm)
    BY <1>5 DEF DeleteDone, Return, args
  <2>2. pml4'[mm] = NoFrame /\ \A m \in Mms : m # mm => pml4'[m] = pml4[m]
    BY <1>1, <1>3, <2>1 DEF TypeOK
  <2>3. \A m \in Mms : Kept(m)
    BY <1>1, <2>1, <2>2 DEF Kept, Absent
  <2>4. QED
    BY <2>3, AllKept
<1>6. QED
  BY <1>4, <1>5

(* Every step is a step of the address spaces, or none.                    *)
LEMMA NextImplements ==
  ASSUME IInv, KernelPml4 = Boot, [Next]_vars
  PROVE  [Abs!Next]_Maps
<1> USE DEF cpu, args
<1>1. ASSUME NEW f \in free, AllocData(f)
      PROVE  [Abs!Next]_Maps
  BY <1>1, QuietStep DEF AllocData
<1>2. ASSUME NEW f \in loose, FreeData(f)
      PROVE  [Abs!Next]_Maps
  BY <1>2, QuietStep DEF FreeData
<1>3. ASSUME NEW m \in Live, NEW f \in loose, NEW v \in Pages, MapCall(m, f, v)
      PROVE  [Abs!Next]_Maps
  BY <1>3, QuietStep DEF MapCall
<1>4. ASSUME NEW m \in Live, NEW v \in Pages, unmap_page(m, v)
      PROVE  [Abs!Next]_Maps
  BY <1>4, UnmapIsUnmap
<1>5. ASSUME NEW m \in Live, map_kernel_for_user_mm(m)
      PROVE  [Abs!Next]_Maps
  <2>1. op = "idle" /\ op' = op /\ UNCHANGED pml4 /\ Placed
    BY <1>5, TypeFacts DEF map_kernel_for_user_mm, IInv
  <2>2. PICK g \in Placing : Forest(g)
    BY <2>1 DEF Placed
  <2>3. \A n \in Live, v \in Pages :
          WalkIn(mem', pml4[n], v, 0) = WalkIn(mem, pml4[n], v, 0)
    BY <1>5, <2>2, KernelFacts
  <2>4. QED
    BY <2>1, <2>3, QuietTables
<1>6. ASSUME NEW m \in Mms, NEW t \in free, create_mm(m, t)
      PROVE  [Abs!Next]_Maps
  <2>1. op = "idle" /\ m \notin Live /\ CreateWith(m, t, {})
    BY <1>6 DEF create_mm
  <2>2. QED
    BY <2>1, CreateIsCreate
<1>7. ASSUME NEW m \in Mms, NEW t \in free, NEW p \in free, create_mm_extend(m, t, p)
      PROVE  [Abs!Next]_Maps
  <2>1. op = "idle" /\ m \notin Live /\ CreateWith(m, t, {p})
    BY <1>7 DEF create_mm_extend
  <2>2. QED
    BY <2>1, CreateIsCreate
<1>8. ASSUME NEW t \in free, create_mm_fail(t)
      PROVE  [Abs!Next]_Maps
  BY <1>8, QuietStep DEF create_mm_fail
<1>9. ASSUME NEW m \in Live, swap_mm(m)
      PROVE  [Abs!Next]_Maps
  <2>1. op' # "reset"
    BY <1>9, SwapStep DEF IInv, CpuOK, KernelMapped
  <2>2. UNCHANGED <<mem, pml4>> /\ op = "idle" /\ op' \in {"idle", "reset"}
    BY <1>9 DEF swap_mm
  <2>3. QED
    BY <2>1, <2>2, QuietStep
<1>10. ASSUME NEW v \in Pages, Cache(v)
       PROVE  [Abs!Next]_Maps
  <2>1. UNCHANGED <<mem, pml4, mm, op>> /\ op \in {"idle", "map", "delete"}
    BY <1>10 DEF Cache, IInv, TypeOK
  <2>2. QED
    BY <2>1, QuietStep, QuietDelete
<1>11. ASSUME NEW m \in Live, DeleteCall(m)
       PROVE  [Abs!Next]_Maps
  <2>1. UNCHANGED <<mem, pml4>> /\ op = "idle" /\ op' = "delete" /\ mm' = m
    BY <1>11 DEF DeleteCall
  <2>2. QED
    BY <2>1, GoneIsDelete
<1>12. CASE Step
  <2>1. CASE MapWalk
    <3>1. op = "map" /\ Placed /\ UNCHANGED <<mem, pml4>>
      BY <2>1, TypeFacts DEF MapWalk, IInv
    <3>2. PICK g \in Placing : Forest(g)
      BY <3>1 DEF Placed
    <3>3. Entry \in Frames
      BY <2>1, <3>1, <3>2, MapEntry DEF MapWalk, IsChild
    <3>4. op' = op
      BY <2>1, <3>3 DEF MapWalk
    <3>5. QED
      BY <3>1, <3>4, QuietStep
  <2>2. ASSUME NEW f \in free, MapTable(f)
        PROVE  [Abs!Next]_Maps
    <3>1. op = "map" /\ Placed /\ op' = op /\ UNCHANGED pml4
      BY <2>2, TypeFacts DEF MapTable, IInv
    <3>2. PICK g \in Placing : Forest(g)
      BY <3>1 DEF Placed
    <3>3. \A n \in Live, v \in Pages :
            WalkIn(mem', pml4[n], v, 0) = WalkIn(mem, pml4[n], v, 0)
      BY <2>2, <3>2, MapTableFacts
    <3>4. QED
      BY <3>1, <3>3, QuietTables
  <2>3. CASE MapNoMemory
    <3>1. UNCHANGED <<mem, pml4, mm>> /\ op = "map" /\ op' = "panic"
      BY <2>3 DEF MapNoMemory
    <3>2. mm \in Live
      BY <3>1, TypeFacts DEF IInv, Placed, Forest, Mapping
    <3>3. QED
      BY <3>1, <3>2, GoneIsDelete
  <2>4. CASE MapLeaf
    BY <2>4, MapLeafIsMap
  <2>5. CASE FreeSkip \/ FreeDescend \/ FreeLeaf
    <3>1. UNCHANGED <<mem, pml4, mm>> /\ op = "delete" /\ op' \in {"delete", "corrupt"}
      BY <2>5 DEF FreeSkip, FreeDescend, FreeLeaf, free_frame, InLoop
    <3>2. QED
      BY <3>1, QuietDelete
  <2>6. CASE FreeTable \/ DeleteDone
    BY <2>6, DeleteIsQuiet
  <2>7. QED
    BY <1>12, <2>1, <2>2, <2>3, <2>4, <2>5, <2>6 DEF Step
<1>13. CASE UNCHANGED vars
  <2>1. \A m \in Mms : Kept(m)
    BY <1>13 DEF vars, Kept, Absent
  <2>2. QED
    BY <2>1, AllKept
<1>14. QED
  BY <1>1, <1>2, <1>3, <1>4, <1>5, <1>6, <1>7, <1>8, <1>9, <1>10, <1>11, <1>12, <1>13
     DEF Next

(* create_mm, map_page, unmap_page and delete_mm on page tables behave as  *)
(* the same operations on independent maps from pages to frames: each      *)
(* changes its own address space only, at one page only, however many      *)
(* levels, entries, frames and address spaces there are.                   *)
THEOREM TablesImplementSpaces ==
  ASSUME KernelPml4 = Boot
  PROVE  Spec => Implements
<1>1. Init => Abs!Init
  <2>1. ASSUME Init
        PROVE  Abs!Init
    <3>1. \A m \in Mms : Space(m) = NoFrame
      BY <2>1 DEF Init, Space, Absent
    <3>2. QED
      BY <3>1, MapsNow DEF Abs!Init, Abs!NoSpace
  <2>2. QED
    BY <2>1
<1>2. IInv /\ [Next]_vars => [Abs!Next]_Maps
  BY NextImplements
<1>3. QED
  BY <1>1, <1>2, Invariance, PTL DEF Spec, Implements, Abs!Spec
=============================================================================
