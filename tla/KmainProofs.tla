---------------------------- MODULE KmainProofs -----------------------------
(***************************************************************************)
(* The start of the kernel, for every table of interrupt routines, every   *)
(* address of the TSS, every sequence of tags with a memory map, every     *)
(* page size, every place of the kernel image and every memory map a boot  *)
(* loader may pass.  The steps of init_memory come first, then the         *)
(* descriptors, the tags, and kmain around them.                           *)
(***************************************************************************)
EXTENDS Kmain, CommonLemmas

(***************************************************************************)
(* Pages.                                                                  *)
(***************************************************************************)
Aligned(a) == \E q \in Nat : a = q * PageSize

(* The page an address is in.                                              *)
LEMMA PageFacts ==
  ASSUME NEW a \in Nat
  PROVE  /\ Page(a) \in Nat /\ Page(a) * PageSize \in Nat
         /\ Page(a) * PageSize <= a /\ a < Page(a) * PageSize + PageSize
<1>1. PageSize \in Nat /\ PageSize >= 1
  BY MapsAssumption
<1>2. /\ a \div PageSize \in Nat /\ a % PageSize \in 0 .. PageSize - 1
      /\ a = (a \div PageSize) * PageSize + (a % PageSize)
  BY <1>1, Division
<1>3. (a \div PageSize) * PageSize \in Nat
  BY <1>1, <1>2
<1>4. QED
  BY <1>1, <1>2, <1>3 DEF Page

(* The page of the first address of a page.                                *)
LEMMA PageOfMultiple ==
  ASSUME NEW q \in Nat
  PROVE  Page(q * PageSize) = q
<1>1. PageSize \in Nat /\ PageSize >= 1
  BY MapsAssumption
<1>2. QED
  BY <1>1, Multiple DEF Page

(* ALIGN_UP yields the first page boundary that is not below a.            *)
LEMMA PageUpFacts ==
  ASSUME NEW a \in Nat
  PROVE  /\ PageUp(a) \in Nat /\ Aligned(PageUp(a))
         /\ a <= PageUp(a) /\ PageUp(a) < a + PageSize
<1>1. PageSize \in Nat /\ PageSize >= 1
  BY MapsAssumption
<1> DEFINE b == a + PageSize - 1
           q == b \div PageSize
<1>2. b \in Nat
  BY <1>1
<1>3. PageUp(a) = q * PageSize
  BY DEF PageUp
<1> HIDE DEF b
<1>4. q \in Nat /\ b % PageSize \in 0 .. PageSize - 1 /\ b = q * PageSize + (b % PageSize)
  BY <1>1, <1>2, Division
<1> HIDE DEF q
<1>5. q * PageSize \in Nat
  BY <1>1, <1>4
<1>6. a <= q * PageSize /\ q * PageSize < a + PageSize
  BY <1>1, <1>4, <1>5 DEF b
<1>7. QED
  BY <1>3, <1>4, <1>5, <1>6 DEF Aligned

(* The order of pages is the order of their first addresses.               *)
LEMMA PageOrder ==
  ASSUME NEW f \in Nat, NEW a \in Nat
  PROVE  /\ f < Page(a) => f * PageSize + PageSize <= a
         /\ Page(a) <= f => a < f * PageSize + PageSize
         /\ Aligned(a) /\ Page(a) <= f => a <= f * PageSize
         /\ f * PageSize \in Nat
<1>1. PageSize \in Nat /\ PageSize >= 1
  BY MapsAssumption
<1>2. /\ Page(a) \in Nat /\ Page(a) * PageSize \in Nat
      /\ Page(a) * PageSize <= a /\ a < Page(a) * PageSize + PageSize
  BY PageFacts
<1>3. f * PageSize \in Nat /\ (f + 1) * PageSize = f * PageSize + PageSize
  BY <1>1
<1>4. ASSUME f < Page(a)
      PROVE  f * PageSize + PageSize <= a
  <2>1. f + 1 \in Nat /\ f + 1 <= Page(a)
    BY <1>2, <1>4
  <2>2. (f + 1) * PageSize <= Page(a) * PageSize
    BY <2>1, <1>1, <1>2, MulMonotonic
  <2>3. QED
    BY <2>2, <1>1, <1>2, <1>3
<1>5. ASSUME Page(a) <= f
      PROVE  Page(a) * PageSize <= f * PageSize
  BY <1>1, <1>2, <1>5, MulMonotonic
<1>6. ASSUME Page(a) <= f
      PROVE  a < f * PageSize + PageSize
  BY <1>1, <1>2, <1>3, <1>5, <1>6
<1>7. ASSUME Aligned(a), Page(a) <= f
      PROVE  a <= f * PageSize
  <2>1. PICK q \in Nat : a = q * PageSize
    BY <1>7 DEF Aligned
  <2>2. Page(a) = q
    BY <2>1, PageOfMultiple
  <2>3. QED
    BY <2>1, <2>2, <1>5, <1>7
<1>8. QED
  BY <1>3, <1>4, <1>6, <1>7

(* A later address is not on an earlier page.                              *)
LEMMA PageMonotonic ==
  ASSUME NEW a \in Nat, NEW b \in Nat, a <= b
  PROVE  Page(a) <= Page(b)
<1>1. Page(a) \in Nat /\ Page(b) \in Nat
  BY PageFacts
<1>2. ASSUME Page(b) < Page(a)
      PROVE  FALSE
  <2>1. Page(b) * PageSize + PageSize <= a
    BY <1>1, <1>2, PageOrder
  <2>2. b < Page(b) * PageSize + PageSize /\ Page(b) * PageSize \in Nat
    BY PageFacts
  <2>3. PageSize \in Nat
    BY MapsAssumption
  <2>4. QED
    BY <2>1, <2>2, <2>3
<1>3. QED
  BY <1>1, <1>2

(* The addresses of the whole pages of a .. b - 1.                         *)
LEMMA WholePages ==
  ASSUME NEW a \in Nat, NEW b \in Nat, Aligned(a),
         NEW f \in Page(a) .. Page(b) - 1, NEW x \in Bytes(f)
  PROVE  a <= x /\ x < b /\ x \in Nat
<1>1. PageSize \in Nat /\ Page(a) \in Nat /\ Page(b) \in Nat
  BY MapsAssumption, PageFacts
<1>2. f \in Nat /\ Page(a) <= f /\ f < Page(b)
  BY <1>1
<1>3. a <= f * PageSize /\ f * PageSize + PageSize <= b /\ f * PageSize \in Nat
  BY <1>2, PageOrder
<1>4. x \in f * PageSize .. f * PageSize + PageSize - 1
  BY DEF Bytes
<1> DEFINE first == f * PageSize
<1> HIDE DEF first
<1>5. a <= first /\ first + PageSize <= b /\ first \in Nat /\ x \in first .. first + PageSize - 1
  BY <1>3, <1>4 DEF first
<1>6. QED
  BY <1>1, <1>5

(* A page that begins below an address rounded up begins below it.         *)
LEMMA BelowPageUp ==
  ASSUME NEW f \in Nat, NEW a \in Nat, f < Page(PageUp(a))
  PROVE  f * PageSize < a
<1>1. PageSize \in Nat /\ PageUp(a) \in Nat /\ PageUp(a) < a + PageSize
  BY MapsAssumption, PageUpFacts
<1>2. f * PageSize + PageSize <= PageUp(a) /\ f * PageSize \in Nat
  BY <1>1, PageOrder
<1>3. QED
  BY <1>1, <1>2

-----------------------------------------------------------------------------
(***************************************************************************)
(* The memory map.                                                         *)
(***************************************************************************)
Usables == {j \in DOMAIN entries : IsUsable(entries[j])}

(* The entries of a map.                                                   *)
LEMMA EntryFacts ==
  ASSUME entries \in Maps
  PROVE  /\ entries \in Seq([addr : Nat, len : Nat, type : Nat])
         /\ Len(entries) \in Nat /\ DOMAIN entries = 1 .. Len(entries)
         /\ \A j \in DOMAIN entries :
              /\ entries[j].addr \in Nat /\ entries[j].len \in Nat
              /\ Limit(entries[j]) \in Nat /\ entries[j].addr <= Limit(entries[j])
<1>1. entries \in Seq([addr : Nat, len : Nat, type : Nat])
  BY MapsAssumption
<1>2. Len(entries) \in Nat /\ DOMAIN entries = 1 .. Len(entries)
  BY <1>1, LenProperties
<1>3. \A j \in DOMAIN entries : entries[j] \in [addr : Nat, len : Nat, type : Nat]
  BY <1>1, <1>2, ElementOfSeq
<1>4. QED
  BY <1>1, <1>2, <1>3 DEF Limit

(* A usable entry starts on a page.                                        *)
LEMMA UsableAligned ==
  ASSUME entries \in Maps, NEW j \in Usables
  PROVE  /\ entries[j].addr \in Nat /\ Limit(entries[j]) \in Nat
         /\ entries[j].addr <= Limit(entries[j]) /\ Aligned(entries[j].addr)
<1>1. j \in DOMAIN entries /\ IsUsable(entries[j])
  BY DEF Usables
<1>2. /\ entries[j].addr \in Nat /\ Limit(entries[j]) \in Nat
      /\ entries[j].addr <= Limit(entries[j])
  BY <1>1, EntryFacts
<1>3. entries[j].addr % PageSize = 0
  BY <1>1, MapsAssumption
<1>4. PageSize \in Nat /\ PageSize >= 1
  BY MapsAssumption
<1>5. Aligned(entries[j].addr)
  BY <1>2, <1>3, <1>4, NoRemainder DEF Aligned
<1>6. QED
  BY <1>2, <1>5

(* Entries do not overlap.                                                 *)
LEMMA SameEntry ==
  ASSUME entries \in Maps, NEW j \in Usables, NEW k \in Usables, NEW x \in Int,
         entries[j].addr <= x, x < Limit(entries[j]),
         entries[k].addr <= x, x < Limit(entries[k])
  PROVE  j = k
<1>1. j \in DOMAIN entries /\ k \in DOMAIN entries
  BY DEF Usables
<1>2. j # k => Limit(entries[j]) <= entries[k].addr \/ Limit(entries[k]) <= entries[j].addr
  BY <1>1, MapsAssumption
<1>3. /\ entries[j].addr \in Nat /\ Limit(entries[j]) \in Nat
      /\ entries[k].addr \in Nat /\ Limit(entries[k]) \in Nat
  BY <1>1, EntryFacts
<1>4. QED
  BY <1>2, <1>3

HoldsImage(j) == entries[j].addr <= KernelStart /\ KernelEnd <= Limit(entries[j])

(* The image is in a usable entry.                                         *)
LEMMA ImageEntry ==
  ASSUME entries \in Maps
  PROVE  \E j \in Usables : HoldsImage(j)
  BY MapsAssumption DEF Usables, HoldsImage

(* The part of a usable entry behind the image begins on a page.           *)
LEMMA PastKernelFacts ==
  ASSUME entries \in Maps, NEW j \in Usables
  PROVE  LET begin == PastKernel(entries[j])
         IN  /\ begin \in Nat /\ entries[j].addr <= begin /\ Aligned(begin)
             /\ HoldsImage(j) => begin = PageUp(KernelEnd) /\ KernelEnd <= begin
             /\ ~HoldsImage(j) => begin = entries[j].addr
<1>1. /\ entries[j].addr \in Nat /\ Limit(entries[j]) \in Nat
      /\ Aligned(entries[j].addr)
  BY UsableAligned
<1>2. KernelStart \in Nat /\ KernelEnd \in Nat /\ KernelStart < KernelEnd
  BY MapsAssumption
<1>3. /\ PageUp(KernelEnd) \in Nat /\ Aligned(PageUp(KernelEnd))
      /\ KernelEnd <= PageUp(KernelEnd)
  BY <1>2, PageUpFacts
<1>4. CASE HoldsImage(j)
  <2>1. PastKernel(entries[j]) = PageUp(KernelEnd) /\ entries[j].addr <= KernelStart
    BY <1>1, <1>2, <1>4 DEF HoldsImage, PastKernel
  <2>2. entries[j].addr <= PageUp(KernelEnd)
    BY <2>1, <1>1, <1>2, <1>3
  <2>3. QED
    BY <2>1, <2>2, <1>3, <1>4
<1>5. CASE ~HoldsImage(j)
  <2>1. PastKernel(entries[j]) = entries[j].addr
    BY <1>1, <1>2, <1>5 DEF HoldsImage, PastKernel
  <2>2. QED
    BY <2>1, <1>1, <1>5
<1>6. QED
  BY <1>4, <1>5
-----------------------------------------------------------------------------
(***************************************************************************)
(* The invariant.                                                          *)
(***************************************************************************)
Later == {"unreserve", "buddy", "done"}

(* The usable entries a part has been through; all of them when it is over.*)
Seen(part) == IF pc = part THEN {j \in Usables : j < i} ELSE Usables

FramesOf(e) == Page(e.addr) .. Page(Limit(e)) - 1

RangeOf(e) == <<Page(PastBoot(e)), Page(Limit(e))>>

(* What a part finds as Start left it.                                     *)
Untouched ==
  /\ pc \in {"largest", "ram_limit"} => mm_frames_count = 0 /\ unreserved = {}
  /\ pc \notin {"buddy", "done"} => given = << >>

(* The first loop's candidate, and the region made of it: usable memory    *)
(* behind the image.                                                       *)
Largest ==
  pc = "largest" =>
    \/ len = 0
    \/ \E j \in Usables : boot_begin = entries[j].addr /\ boot_limit = Limit(entries[j])

IsRegion(j) == boot_begin = PastKernel(entries[j]) /\ boot_limit = Limit(entries[j])

Region == pc \notin {"largest", "panic"} => \E j \in Usables : IsRegion(j)

(* The frame table covers all usable memory and is at the region's start.  *)
Sized ==
  /\ pc = "ram_limit" => boot_tail = boot_begin
  /\ pc \in {"ram_limit"} \cup Later =>
       \A j \in Seen("ram_limit") : Limit(entries[j]) <= ram_limit
  /\ pc \in Later => /\ mm_frames_count = Page(ram_limit)
                     /\ boot_tail = boot_begin + mm_frames_count
                     /\ boot_tail < boot_limit

Unreserved ==
  pc \in Later => \A j \in Seen("unreserve") : FramesOf(entries[j]) \subseteq unreserved

(* The calls are those of the entries gone through, and do not overlap.    *)
Calls ==
  pc \in {"buddy", "done"} =>
    /\ \A k \in DOMAIN given : \E j \in Seen("buddy") : given[k] = RangeOf(entries[j])
    /\ \A j \in Seen("buddy") : \E k \in DOMAIN given : given[k] = RangeOf(entries[j])
    /\ \A k \in DOMAIN given : \A h \in 1 .. k - 1 :
         Frames(given[k]) \cap Frames(given[h]) = {}

MemInv ==
  /\ entries \in Maps /\ TypeOK
  /\ Untouched /\ Largest /\ Region /\ Sized /\ Unreserved /\ Calls

(* The types, one by one.                                                  *)
LEMMA Types ==
  ASSUME MemInv
  PROVE  /\ entries \in Maps /\ i \in Nat /\ i >= 1 /\ i <= Len(entries) + 1
         /\ Len(entries) \in Nat /\ DOMAIN entries = 1 .. Len(entries)
         /\ len \in Nat /\ boot_begin \in Nat /\ boot_limit \in Nat
         /\ boot_tail \in Nat /\ ram_limit \in Nat /\ mm_frames_count \in Nat
         /\ unreserved \subseteq 0 .. mm_frames_count - 1
         /\ given \in Seq(Nat \X Nat) /\ Len(given) \in Nat /\ DOMAIN given = 1 .. Len(given)
<1>1. entries \in Maps /\ TypeOK
  BY DEF MemInv
<1>2. Len(entries) \in Nat /\ DOMAIN entries = 1 .. Len(entries)
  BY <1>1, EntryFacts
<1>3. given \in Seq(Nat \X Nat)
  BY <1>1 DEF TypeOK
<1>4. Len(given) \in Nat /\ DOMAIN given = 1 .. Len(given)
  BY <1>3, LenProperties
<1>5. QED
  BY <1>1, <1>2, <1>3, <1>4 DEF TypeOK

(* What is nobody's of an entry: it begins behind boot memory in the entry *)
(* that boot memory is in, and behind the image in the others.             *)
LEMMA PastBootFacts ==
  ASSUME MemInv, pc \in Later, NEW b \in Usables, IsRegion(b), NEW j \in Usables
  PROVE  /\ j = b => PastBoot(entries[j]) = PageUp(boot_tail)
         /\ j # b => PastBoot(entries[j]) = PastKernel(entries[j])
         /\ PastBoot(entries[j]) \in Nat /\ Aligned(PastBoot(entries[j]))
         /\ entries[j].addr <= PastKernel(entries[j])
         /\ PastKernel(entries[j]) <= PastBoot(entries[j])
         /\ j = b => boot_tail <= PastBoot(entries[j])
<1>1. /\ boot_begin \in Nat /\ boot_limit \in Nat /\ boot_tail \in Nat
      /\ mm_frames_count \in Nat /\ entries \in Maps
  BY Types
<1>2. boot_begin <= boot_tail /\ boot_tail < boot_limit
  BY <1>1 DEF MemInv, Sized
<1>3. /\ PageUp(boot_tail) \in Nat /\ Aligned(PageUp(boot_tail))
      /\ boot_tail <= PageUp(boot_tail)
  BY <1>1, PageUpFacts
<1>4. boot_begin = PastKernel(entries[b]) /\ boot_limit = Limit(entries[b])
  BY DEF IsRegion
<1>5. ASSUME NEW k \in Usables
      PROVE  /\ PastKernel(entries[k]) \in Nat /\ entries[k].addr <= PastKernel(entries[k])
             /\ Aligned(PastKernel(entries[k]))
             /\ entries[k].addr \in Nat /\ Limit(entries[k]) \in Nat
  BY <1>1, PastKernelFacts, UsableAligned
<1>6. CASE j = b
  <2>1. PastBoot(entries[j]) = PageUp(boot_tail)
    BY <1>1, <1>4, <1>6 DEF PastBoot, BootEnd
  <2>2. PastKernel(entries[j]) <= PageUp(boot_tail)
    BY <1>1, <1>2, <1>3, <1>4, <1>6
  <2>3. QED
    BY <2>1, <2>2, <1>3, <1>5, <1>6
<1>7. CASE j # b
  <2>1. ~(PastKernel(entries[j]) <= boot_begin /\ Limit(entries[j]) >= boot_limit)
    <3>1. SUFFICES ASSUME PastKernel(entries[j]) <= boot_begin,
                          Limit(entries[j]) >= boot_limit
                   PROVE  FALSE
      OBVIOUS
    <3>2. entries[j].addr <= boot_begin /\ boot_begin < Limit(entries[j])
      BY <3>1, <1>1, <1>2, <1>5
    <3>3. entries[b].addr <= boot_begin /\ boot_begin < Limit(entries[b])
      BY <1>1, <1>2, <1>4, <1>5
    <3>4. boot_begin \in Int
      BY <1>1
    <3>5. QED
      BY <3>2, <3>3, <3>4, <1>1, <1>7, SameEntry
  <2>2. PastBoot(entries[j]) = PastKernel(entries[j])
    BY <2>1 DEF PastBoot
  <2>3. QED
    BY <2>2, <1>5, <1>7
<1>8. QED
  BY <1>6, <1>7

(* The frames of a call are in the entry it is made for, behind the image  *)
(* and boot memory if these are in it.                                     *)
LEMMA CallInside ==
  ASSUME MemInv, pc \in Later, NEW j \in Usables, NEW f \in Frames(RangeOf(entries[j])),
         NEW x \in Bytes(f)
  PROVE  /\ x \in Nat /\ PastBoot(entries[j]) <= x /\ x < Limit(entries[j])
         /\ entries[j].addr <= x
<1>1. PICK b \in Usables : IsRegion(b)
  BY DEF MemInv, Region, Later
<1>2. /\ PastBoot(entries[j]) \in Nat /\ Aligned(PastBoot(entries[j]))
      /\ entries[j].addr <= PastKernel(entries[j])
      /\ PastKernel(entries[j]) <= PastBoot(entries[j])
  BY <1>1, PastBootFacts
<1>3. /\ Limit(entries[j]) \in Nat /\ entries[j].addr \in Nat
      /\ PastKernel(entries[j]) \in Nat
  BY Types, UsableAligned, PastKernelFacts
<1>4. f \in Page(PastBoot(entries[j])) .. Page(Limit(entries[j])) - 1
  BY DEF Frames, RangeOf
<1>5. x \in Nat /\ PastBoot(entries[j]) <= x /\ x < Limit(entries[j])
  BY <1>2, <1>3, <1>4, WholePages
<1>6. QED
  BY <1>2, <1>3, <1>5

(* Calls for different entries have no frame in common.                    *)
LEMMA CallsDisjoint ==
  ASSUME MemInv, pc \in Later, NEW j \in Usables, NEW k \in Usables, j # k
  PROVE  Frames(RangeOf(entries[j])) \cap Frames(RangeOf(entries[k])) = {}
<1>1. SUFFICES ASSUME NEW f \in Frames(RangeOf(entries[j])), f \in Frames(RangeOf(entries[k]))
               PROVE  FALSE
  OBVIOUS
<1>2. PICK b \in Usables : IsRegion(b)
  BY DEF MemInv, Region, Later
<1>3. PastBoot(entries[j]) \in Nat /\ Limit(entries[j]) \in Nat /\ entries \in Maps
  BY <1>2, PastBootFacts, Types, UsableAligned
<1>4. f \in Nat
  <2>1. f \in Page(PastBoot(entries[j])) .. Page(Limit(entries[j])) - 1
    BY DEF Frames, RangeOf
  <2>2. Page(PastBoot(entries[j])) \in Nat /\ Page(Limit(entries[j])) \in Nat
    BY <1>3, PageFacts
  <2>3. QED
    BY <2>1, <2>2
<1> DEFINE x == f * PageSize
<1>5. x \in Bytes(f)
  <2>1. PageSize \in Nat /\ PageSize >= 1
    BY MapsAssumption
  <2>2. x \in Nat
    BY <2>1, <1>4
  <2> HIDE DEF x
  <2>3. x \in x .. x + PageSize - 1
    BY <2>1, <2>2
  <2>4. QED
    BY <2>3 DEF x, Bytes
<1> HIDE DEF x
<1>6. /\ x \in Nat /\ entries[j].addr <= x /\ x < Limit(entries[j])
      /\ entries[k].addr <= x /\ x < Limit(entries[k])
  BY <1>1, <1>5, CallInside
<1>7. QED
  BY <1>3, <1>6, SameEntry
-----------------------------------------------------------------------------
(***************************************************************************)
(* What the invariant implies.                                             *)
(***************************************************************************)
(* A call that was made was made for a usable entry.                       *)
LEMMA CallEntry ==
  ASSUME MemInv, NEW k \in DOMAIN given
  PROVE  /\ pc \in Later /\ pc \in {"buddy", "done"}
         /\ \E j \in Usables : given[k] = RangeOf(entries[j])
<1>1. pc \in {"buddy", "done"}
  BY DEF MemInv, Untouched
<1>2. \E j \in Seen("buddy") : given[k] = RangeOf(entries[j])
  BY <1>1 DEF MemInv, Calls
<1>3. QED
  BY <1>1, <1>2 DEF Seen, Later

(* Nothing in use is given to the allocator.                               *)
LEMMA GivesOnlyFree == MemInv => OnlyFreeMemory
<1> SUFFICES ASSUME MemInv, NEW k \in DOMAIN given, NEW f \in Frames(given[k]),
                    NEW a \in Bytes(f)
             PROVE  /\ a \notin KernelStart .. KernelEnd - 1
                    /\ a \notin boot_begin .. boot_tail - 1
                    /\ \E j \in DOMAIN entries : /\ IsUsable(entries[j])
                                                 /\ entries[j].addr <= a
                                                 /\ a < Limit(entries[j])
  BY DEF OnlyFreeMemory, Given
<1>1. pc \in Later
  BY CallEntry
<1>2. PICK j \in Usables : given[k] = RangeOf(entries[j])
  BY CallEntry
<1>3. PICK b \in Usables : IsRegion(b)
  BY <1>1 DEF MemInv, Region, Later
<1>4. /\ a \in Nat /\ PastBoot(entries[j]) <= a /\ a < Limit(entries[j])
      /\ entries[j].addr <= a
  BY <1>1, <1>2, CallInside
<1>5. /\ boot_begin \in Nat /\ boot_limit \in Nat /\ boot_tail \in Nat
      /\ entries \in Maps /\ KernelStart \in Nat /\ KernelEnd \in Nat
  BY Types, MapsAssumption
<1>6. /\ PastBoot(entries[j]) \in Nat
      /\ PastKernel(entries[j]) <= PastBoot(entries[j])
      /\ j = b => boot_tail <= PastBoot(entries[j])
  BY <1>1, <1>3, PastBootFacts
<1>7. a \notin KernelStart .. KernelEnd - 1
  <2>1. SUFFICES ASSUME KernelStart <= a, a < KernelEnd
                 PROVE  FALSE
    BY <1>4, <1>5
  <2>2. PICK m \in Usables : HoldsImage(m)
    BY <1>5, ImageEntry
  <2>3. /\ entries[m].addr \in Nat /\ Limit(entries[m]) \in Nat
        /\ entries[m].addr <= KernelStart /\ KernelEnd <= Limit(entries[m])
    BY <2>2, <1>5, UsableAligned DEF HoldsImage
  <2>4. entries[m].addr <= a /\ a < Limit(entries[m]) /\ a \in Int
    BY <2>1, <2>3, <1>4, <1>5
  <2>5. j = m
    BY <2>4, <1>4, <1>5, SameEntry
  <2>6. PastKernel(entries[j]) \in Nat /\ KernelEnd <= PastKernel(entries[j])
    BY <2>2, <2>5, <1>5, PastKernelFacts
  <2>7. QED
    BY <2>1, <2>6, <1>4, <1>5, <1>6
<1>8. a \notin boot_begin .. boot_tail - 1
  <2>1. SUFFICES ASSUME boot_begin <= a, a < boot_tail
                 PROVE  FALSE
    BY <1>4, <1>5
  <2>2. boot_begin = PastKernel(entries[b]) /\ boot_limit = Limit(entries[b])
    BY <1>3 DEF IsRegion
  <2>3. boot_tail < boot_limit
    BY <1>1 DEF MemInv, Sized
  <2>4. entries[b].addr \in Nat /\ entries[b].addr <= PastKernel(entries[b])
    BY <1>5, UsableAligned, PastKernelFacts
  <2>5. entries[b].addr <= a /\ a < Limit(entries[b]) /\ a \in Int
    BY <2>1, <2>2, <2>3, <2>4, <1>4, <1>5
  <2>6. j = b
    BY <2>5, <1>4, <1>5, SameEntry
  <2>7. QED
    BY <2>1, <2>6, <1>4, <1>5, <1>6
<1>9. QED
  BY <1>4, <1>7, <1>8 DEF Usables

(* The frames of a usable entry are in the table.                          *)
LEMMA FramesInTable ==
  ASSUME MemInv, pc \in Later, NEW j \in Usables
  PROVE  /\ FramesOf(entries[j]) \subseteq 0 .. mm_frames_count - 1
         /\ Frames(RangeOf(entries[j])) \subseteq FramesOf(entries[j])
         /\ RangeOf(entries[j]) \in Nat \X Nat
<1>1. PICK b \in Usables : IsRegion(b)
  BY DEF MemInv, Region, Later
<1>2. /\ entries[j].addr \in Nat /\ Limit(entries[j]) \in Nat
      /\ ram_limit \in Nat /\ PastBoot(entries[j]) \in Nat
      /\ PastKernel(entries[j]) \in Nat
  BY <1>1, Types, UsableAligned, PastBootFacts, PastKernelFacts
<1>3. entries[j].addr <= PastBoot(entries[j])
  <2>1. /\ entries[j].addr <= PastKernel(entries[j])
        /\ PastKernel(entries[j]) <= PastBoot(entries[j])
    BY <1>1, PastBootFacts
  <2>2. QED
    BY <2>1, <1>2
<1>4. Limit(entries[j]) <= ram_limit /\ mm_frames_count = Page(ram_limit)
  BY DEF MemInv, Sized, Seen, Later
<1>5. /\ Page(entries[j].addr) \in Nat /\ Page(Limit(entries[j])) \in Nat
      /\ Page(PastBoot(entries[j])) \in Nat /\ Page(ram_limit) \in Nat
  BY <1>2, PageFacts
<1>6. /\ Page(entries[j].addr) <= Page(PastBoot(entries[j]))
      /\ Page(Limit(entries[j])) <= Page(ram_limit)
  BY <1>2, <1>3, <1>4, PageMonotonic
<1>7. FramesOf(entries[j]) \subseteq 0 .. mm_frames_count - 1
  BY <1>4, <1>5, <1>6 DEF FramesOf
<1>8. Frames(RangeOf(entries[j])) \subseteq FramesOf(entries[j])
  BY <1>5, <1>6 DEF FramesOf, Frames, RangeOf
<1>9. RangeOf(entries[j]) \in Nat \X Nat
  BY <1>5 DEF RangeOf
<1>10. QED
  BY <1>7, <1>8, <1>9

(* Every call meets the allocator's precondition.                          *)
LEMMA MakesLegalCalls == MemInv => CallsLegal
<1> SUFFICES ASSUME MemInv, NEW k \in DOMAIN given
             PROVE  /\ Frames(given[k]) \subseteq unreserved
                    /\ Frames(given[k]) \subseteq 0 .. mm_frames_count - 1
                    /\ \A h \in 1 .. k - 1 : Frames(given[k]) \cap Frames(given[h]) = {}
  BY DEF CallsLegal, MemInv
<1>1. pc \in Later /\ pc \in {"buddy", "done"}
  BY CallEntry
<1>2. PICK j \in Usables : given[k] = RangeOf(entries[j])
  BY CallEntry
<1>3. Frames(given[k]) \subseteq FramesOf(entries[j])
  BY <1>1, <1>2, FramesInTable
<1>4. FramesOf(entries[j]) \subseteq unreserved
  BY <1>1 DEF MemInv, Unreserved, Seen
<1>5. unreserved \subseteq 0 .. mm_frames_count - 1
  BY Types
<1>6. \A h \in 1 .. k - 1 : Frames(given[k]) \cap Frames(given[h]) = {}
  BY <1>1 DEF MemInv, Calls
<1>7. QED
  BY <1>3, <1>4, <1>5, <1>6

(* The frame table is in usable memory and clear of the image.             *)
LEMMA PlacesTableSafely == MemInv => TableSafe
<1> SUFFICES ASSUME MemInv, mm_frames_count # 0, pc # "panic"
             PROVE  /\ boot_begin + mm_frames_count = boot_tail
                    /\ boot_tail <= KernelStart \/ KernelEnd <= boot_begin
                    /\ \E j \in DOMAIN entries : /\ IsUsable(entries[j])
                                                 /\ entries[j].addr <= boot_begin
                                                 /\ boot_tail <= Limit(entries[j])
  BY DEF TableSafe
<1>1. pc \in Later
  BY DEF MemInv, Untouched, TypeOK, Later
<1>2. /\ boot_begin \in Nat /\ boot_limit \in Nat /\ boot_tail \in Nat
      /\ mm_frames_count \in Nat /\ entries \in Maps
      /\ KernelStart \in Nat /\ KernelEnd \in Nat
  BY Types, MapsAssumption
<1>3. PICK b \in Usables : IsRegion(b)
  BY <1>1 DEF MemInv, Region, Later
<1>4. boot_tail = boot_begin + mm_frames_count /\ boot_tail < boot_limit
  BY <1>1 DEF MemInv, Sized
<1>5. /\ entries[b].addr \in Nat /\ entries[b].addr <= boot_begin
      /\ boot_limit = Limit(entries[b])
  BY <1>2, <1>3, UsableAligned, PastKernelFacts DEF IsRegion
<1>6. boot_tail <= KernelStart \/ KernelEnd <= boot_begin
  <2>1. PICK m \in Usables : HoldsImage(m)
    BY <1>2, ImageEntry
  <2>2. /\ entries[m].addr \in Nat /\ Limit(entries[m]) \in Nat
        /\ entries[m].addr <= KernelStart /\ KernelEnd <= Limit(entries[m])
    BY <2>1, <1>2, UsableAligned DEF HoldsImage
  <2>3. CASE m = b
    <3>1. KernelEnd <= PastKernel(entries[b])
      BY <2>1, <2>3, <1>2, PastKernelFacts
    <3>2. QED
      BY <3>1, <1>3 DEF IsRegion
  <2>4. CASE m # b
    <3>1. Limit(entries[m]) <= entries[b].addr \/ Limit(entries[b]) <= entries[m].addr
      BY <2>4, <1>2, MapsAssumption DEF Usables
    <3>2. QED
      BY <3>1, <2>2, <1>2, <1>4, <1>5
  <2>5. QED
    BY <2>3, <2>4
<1>7. b \in DOMAIN entries /\ IsUsable(entries[b]) /\ boot_tail <= Limit(entries[b])
  BY <1>2, <1>4, <1>5 DEF Usables
<1>8. QED
  BY <1>2, <1>4, <1>5, <1>6, <1>7

(* Every whole usable page is given, used by the image or boot memory, or  *)
(* below the image.                                                        *)
LEMMA ForgetsNothing == MemInv => NothingForgotten
<1> SUFFICES ASSUME MemInv, pc = "done", NEW j \in DOMAIN entries, IsUsable(entries[j]),
                    NEW f \in Page(entries[j].addr) .. Page(Limit(entries[j])) - 1
             PROVE  \/ f \in Given
                    \/ f * PageSize < KernelEnd /\ KernelEnd <= Limit(entries[j])
                    \/ \E a \in Bytes(f) : a \in boot_begin .. boot_tail - 1
  BY DEF NothingForgotten
<1>1. j \in Usables /\ pc \in Later
  BY DEF Usables, Later
<1>2. PICK b \in Usables : IsRegion(b)
  BY <1>1 DEF MemInv, Region, Later
<1>3. /\ entries[j].addr \in Nat /\ Limit(entries[j]) \in Nat /\ Aligned(entries[j].addr)
      /\ PastBoot(entries[j]) \in Nat /\ entries \in Maps
      /\ boot_begin \in Nat /\ boot_tail \in Nat
      /\ PageSize \in Nat /\ PageSize >= 1 /\ KernelEnd \in Nat
  BY <1>1, <1>2, Types, UsableAligned, PastBootFacts, MapsAssumption
<1>4. /\ Page(entries[j].addr) \in Nat /\ Page(Limit(entries[j])) \in Nat
      /\ Page(PastBoot(entries[j])) \in Nat
  BY <1>3, PageFacts
<1>5. f \in Nat /\ Page(entries[j].addr) <= f /\ f < Page(Limit(entries[j]))
  BY <1>4
<1>6. f * PageSize \in Nat /\ entries[j].addr <= f * PageSize
  BY <1>3, <1>5, PageOrder
<1>7. CASE Page(PastBoot(entries[j])) <= f
  <2>1. PICK k \in DOMAIN given : given[k] = RangeOf(entries[j])
    BY <1>1 DEF MemInv, Calls, Seen
  <2>2. f \in Frames(given[k])
    BY <2>1, <1>4, <1>5, <1>7 DEF Frames, RangeOf
  <2>3. QED
    BY <2>2 DEF Given
<1>8. ASSUME f < Page(PastKernel(entries[j]))
      PROVE  f * PageSize < KernelEnd /\ KernelEnd <= Limit(entries[j])
  <2>1. CASE HoldsImage(j)
    <3>1. PastKernel(entries[j]) = PageUp(KernelEnd)
      BY <2>1, <1>1, <1>3, PastKernelFacts
    <3>2. f * PageSize < KernelEnd
      BY <3>1, <1>3, <1>5, <1>8, BelowPageUp
    <3>3. QED
      BY <3>2, <2>1 DEF HoldsImage
  <2>2. CASE ~HoldsImage(j)
    <3>1. PastKernel(entries[j]) = entries[j].addr
      BY <2>2, <1>1, <1>3, PastKernelFacts
    <3>2. QED
      BY <3>1, <1>4, <1>5, <1>8
  <2>3. QED
    BY <2>1, <2>2
<1>9. CASE f < Page(PastBoot(entries[j])) /\ j # b
  <2>1. PastBoot(entries[j]) = PastKernel(entries[j])
    BY <1>1, <1>2, <1>9, PastBootFacts
  <2>2. QED
    BY <2>1, <1>8, <1>9
<1>10. CASE f < Page(PastBoot(entries[j])) /\ j = b
  <2>1. f * PageSize < boot_tail
    <3>1. PastBoot(entries[j]) = PageUp(boot_tail)
      BY <1>1, <1>2, <1>10, PastBootFacts
    <3>2. QED
      BY <3>1, <1>3, <1>5, <1>10, BelowPageUp
  <2> DEFINE a == f * PageSize
  <2>2. a \in Bytes(f)
    <3>1. \A c \in Nat : c \in c .. c + PageSize - 1
      BY <1>3
    <3>2. a \in a .. a + PageSize - 1
      BY <3>1, <1>6
    <3>3. QED
      BY <3>2 DEF Bytes
  <2> HIDE DEF a
  <2>3. a \in Nat /\ a < boot_tail
    BY <2>1, <1>6 DEF a
  <2>4. CASE boot_begin <= a
    <3>1. a \in boot_begin .. boot_tail - 1
      BY <2>3, <2>4, <1>3
    <3>2. QED
      BY <3>1, <2>2
  <2>5. CASE a < boot_begin
    <3>1. PastKernel(entries[j]) = boot_begin
      BY <1>2, <1>10 DEF IsRegion
    <3>2. Aligned(boot_begin) /\ Page(boot_begin) \in Nat
      BY <3>1, <1>1, <1>3, PastKernelFacts, PageFacts
    <3>3. f < Page(boot_begin)
      <4>1. Page(boot_begin) <= f => boot_begin <= f * PageSize
        BY <3>2, <1>3, <1>5, PageOrder
      <4>2. QED
        BY <4>1, <3>2, <2>3, <2>5, <1>3, <1>5 DEF a
    <3>4. QED
      BY <3>1, <3>3, <1>8
  <2>6. QED
    BY <2>3, <2>4, <2>5, <1>3
<1>11. QED
  BY <1>4, <1>5, <1>7, <1>9, <1>10
-----------------------------------------------------------------------------
(***************************************************************************)
(* The steps.                                                              *)
(***************************************************************************)
(* init_memory starts with nothing done.                                   *)
LEMMA StartKeeps == entries \in Maps /\ Start => MemInv
<1> SUFFICES ASSUME entries \in Maps, Start
             PROVE  MemInv
  OBVIOUS
<1>1. /\ entries \in Seq([addr : Nat, len : Nat, type : Nat])
      /\ Len(entries) \in Nat
  BY EntryFacts
<1>2. /\ pc = "largest" /\ i = 1 /\ len = 0 /\ boot_begin = 0 /\ boot_limit = 0
      /\ boot_tail = 0 /\ ram_limit = 0 /\ mm_frames_count = 0
      /\ unreserved = {} /\ given = << >>
  BY DEF Start
<1>3. TypeOK
  BY <1>1, <1>2 DEF TypeOK
<1>4. Untouched /\ Largest /\ Region /\ Sized /\ Unreserved /\ Calls
  BY <1>2 DEF Untouched, Largest, Region, Sized, Unreserved, Calls, Later
<1>5. QED
  BY <1>3, <1>4 DEF MemInv

(* A loop iteration moves on to the next entry, a part's end to the first. *)
LEMMA IndexKeeps ==
  ASSUME MemInv, entries' = entries, NEW part
  PROVE  /\ InLoop(part) /\ i' = i + 1 => /\ i \in DOMAIN entries
                                          /\ i' \in 1 .. Len(entries') + 1
         /\ i' = 1 => i' \in 1 .. Len(entries') + 1
         /\ pc = part /\ i > Len(entries) => Seen(part) = Usables
         /\ pc' = part /\ i' = 1 => Seen(part)' = {}
         /\ pc # part => Seen(part) = Usables
         /\ pc' # part => Seen(part)' = Usables
         /\ pc = part /\ pc' = part /\ i' = i + 1 =>
              Seen(part)' = Seen(part) \cup ({i} \cap Usables)
         /\ Usables' = Usables
<1>1. /\ i \in Nat /\ i >= 1 /\ i <= Len(entries) + 1 /\ Len(entries) \in Nat
      /\ DOMAIN entries = 1 .. Len(entries)
  BY Types
<1>2. Usables' = Usables
  BY DEF Usables
<1>3. Usables \subseteq 1 .. Len(entries)
  BY <1>1 DEF Usables
<1>4. InLoop(part) /\ i' = i + 1 => i \in DOMAIN entries /\ i' \in 1 .. Len(entries') + 1
  BY <1>1 DEF InLoop
<1>5. i' = 1 => i' \in 1 .. Len(entries') + 1
  BY <1>1
<1>6. pc = part /\ i > Len(entries) => Seen(part) = Usables
  <2>1. i > Len(entries) => \A j \in Usables : j < i
    BY <1>1, <1>3
  <2>2. QED
    BY <2>1 DEF Seen
<1>7. Seen(part)' = IF pc' = part THEN {j \in Usables : j < i'} ELSE Usables
  BY <1>2 DEF Seen
<1>8. pc' = part /\ i' = 1 => Seen(part)' = {}
  <2>1. \A j \in Usables : ~(j < 1)
    BY <1>1, <1>3
  <2>2. QED
    BY <2>1, <1>7
<1>9. pc = part /\ pc' = part /\ i' = i + 1 =>
        Seen(part)' = Seen(part) \cup ({i} \cap Usables)
  <2>1. SUFFICES ASSUME pc = part, pc' = part, i' = i + 1
                 PROVE  Seen(part)' = Seen(part) \cup ({i} \cap Usables)
    OBVIOUS
  <2>2. \A j \in Usables : j < i' <=> (j < i \/ j = i)
    BY <2>1, <1>1, <1>3
  <2>3. QED
    BY <2>1, <2>2, <1>7 DEF Seen
<1>10. (pc # part => Seen(part) = Usables) /\ (pc' # part => Seen(part)' = Usables)
  BY <1>7 DEF Seen
<1>11. QED
  BY <1>2, <1>4, <1>5, <1>6, <1>8, <1>9, <1>10

(* The largest usable entry so far is one of the entries.                  *)
LEMMA FindLargestKeeps == MemInv /\ FindLargest => MemInv'
<1> SUFFICES ASSUME MemInv, FindLargest
             PROVE  MemInv'
  OBVIOUS
<1> DEFINE e == entries[i]
<1>1. /\ InLoop("largest") /\ pc = "largest" /\ pc' = "largest" /\ i' = i + 1
      /\ entries' = entries /\ boot_tail' = boot_tail /\ ram_limit' = ram_limit
      /\ mm_frames_count' = mm_frames_count /\ unreserved' = unreserved /\ given' = given
      /\ IF e.len > len /\ IsUsable(e)
         THEN len' = e.len /\ boot_begin' = e.addr /\ boot_limit' = e.addr + e.len
         ELSE len' = len /\ boot_begin' = boot_begin /\ boot_limit' = boot_limit
  BY DEF FindLargest, InLoop
<1>2. i \in DOMAIN entries /\ i' \in 1 .. Len(entries') + 1 /\ Usables' = Usables
  BY <1>1, IndexKeeps
<1>3. e.addr \in Nat /\ e.len \in Nat /\ Limit(e) \in Nat /\ Limit(e) = e.addr + e.len
  BY <1>2, Types, EntryFacts DEF Limit
<1>4. TypeOK'
  BY <1>1, <1>2, <1>3 DEF MemInv, TypeOK
<1>5. Largest'
  <2>1. CASE e.len > len /\ IsUsable(e)
    <3>1. i \in Usables' /\ boot_begin' = entries'[i].addr /\ boot_limit' = Limit(entries'[i])
      BY <2>1, <1>1, <1>2, <1>3 DEF Usables
    <3>2. QED
      BY <3>1 DEF Largest
  <2>2. CASE ~(e.len > len /\ IsUsable(e))
    BY <2>2, <1>1, <1>2 DEF MemInv, Largest
  <2>3. QED
    BY <2>1, <2>2
<1>6. Untouched' /\ Region' /\ Sized' /\ Unreserved' /\ Calls'
  BY <1>1 DEF MemInv, Untouched, Region, Sized, Unreserved, Calls, Later
<1>7. QED
  BY <1>1, <1>4, <1>5, <1>6 DEF MemInv

(* Boot memory is what is behind the image in the largest entry.           *)
LEMMA BootAllocKeeps == MemInv /\ init_boot_alloc => MemInv'
<1> SUFFICES ASSUME MemInv, init_boot_alloc
             PROVE  MemInv'
  OBVIOUS
<1>1. /\ pc = "largest" /\ i' = 1 /\ pc' = (IF len = 0 THEN "panic" ELSE "ram_limit")
      /\ entries' = entries /\ len' = len /\ boot_limit' = boot_limit
      /\ boot_begin' = BootBegin /\ boot_tail' = boot_begin'
      /\ ram_limit' = ram_limit /\ mm_frames_count' = mm_frames_count
      /\ unreserved' = unreserved /\ given' = given
  BY DEF init_boot_alloc, LoopEnd
<1>2. /\ i' \in 1 .. Len(entries') + 1 /\ Usables' = Usables
      /\ pc' = "ram_limit" => Seen("ram_limit")' = {}
  BY <1>1, IndexKeeps
<1>3. BootBegin \in Nat
  BY Types, MapsAssumption, PageUpFacts DEF BootBegin
<1>4. TypeOK'
  BY <1>1, <1>2, <1>3 DEF MemInv, TypeOK
<1>5. Region'
  <2>1. SUFFICES ASSUME len # 0
                 PROVE  \E j \in Usables' : IsRegion(j)'
    BY <1>1 DEF Region
  <2>2. PICK j \in Usables : boot_begin = entries[j].addr /\ boot_limit = Limit(entries[j])
    BY <2>1, <1>1 DEF MemInv, Largest
  <2>3. BootBegin = PastKernel(entries[j])
    <3>1. /\ entries[j].addr \in Nat /\ Limit(entries[j]) \in Nat
          /\ KernelStart \in Nat /\ KernelEnd \in Nat
      BY Types, UsableAligned, MapsAssumption
    <3>2. QED
      BY <3>1, <2>2 DEF BootBegin, PastKernel
  <2>4. PastKernel(entries[j])' = PastKernel(entries[j])
    BY <1>1 DEF PastKernel
  <2>5. IsRegion(j)'
    BY <2>2, <2>3, <2>4, <1>1 DEF IsRegion
  <2>6. QED
    BY <2>2, <2>5, <1>2
<1>6. Sized'
  BY <1>1, <1>2 DEF Sized, Later
<1>7. Untouched' /\ Largest' /\ Unreserved' /\ Calls'
  BY <1>1 DEF MemInv, Untouched, Largest, Unreserved, Calls, Later
<1>8. QED
  BY <1>1, <1>4, <1>5, <1>6, <1>7 DEF MemInv

(* A region stays one while nothing about it changes.                      *)
LEMMA RegionStays ==
  ASSUME MemInv, pc \notin {"largest", "panic"}, entries' = entries,
         boot_begin' = boot_begin, boot_limit' = boot_limit
  PROVE  Region'
<1>1. PICK j \in Usables : IsRegion(j)
  BY DEF MemInv, Region
<1>2. Usables' = Usables
  BY DEF Usables
<1>3. IsRegion(j)'
  BY <1>1 DEF IsRegion, PastKernel, Limit
<1>4. QED
  BY <1>1, <1>2, <1>3 DEF Region

(* ram_limit is not below the end of an entry gone through.                *)
LEMMA FindRamLimitKeeps == MemInv /\ FindRamLimit => MemInv'
<1> SUFFICES ASSUME MemInv, FindRamLimit
             PROVE  MemInv'
  OBVIOUS
<1> DEFINE e == entries[i]
<1>1. /\ InLoop("ram_limit") /\ pc = "ram_limit" /\ pc' = "ram_limit" /\ i' = i + 1
      /\ entries' = entries /\ len' = len /\ boot_begin' = boot_begin
      /\ boot_limit' = boot_limit /\ boot_tail' = boot_tail
      /\ mm_frames_count' = mm_frames_count /\ unreserved' = unreserved /\ given' = given
      /\ ram_limit' = IF Limit(e) > ram_limit /\ IsUsable(e) THEN Limit(e) ELSE ram_limit
  BY DEF FindRamLimit, InLoop
<1>2. /\ i \in DOMAIN entries /\ i' \in 1 .. Len(entries') + 1 /\ Usables' = Usables
      /\ Seen("ram_limit")' = Seen("ram_limit") \cup ({i} \cap Usables)
  BY <1>1, IndexKeeps
<1>3. Limit(e) \in Nat /\ ram_limit \in Nat
  BY <1>2, Types, EntryFacts
<1>4. TypeOK'
  BY <1>1, <1>2, <1>3 DEF MemInv, TypeOK
<1>5. Sized'
  <2>1. boot_tail' = boot_begin'
    BY <1>1 DEF MemInv, Sized
  <2>2. ASSUME NEW j \in Seen("ram_limit")'
        PROVE  Limit(entries[j]) <= ram_limit'
    <3>1. Limit(entries[j]) \in Nat
      BY <2>2, <1>2, Types, UsableAligned DEF Seen
    <3>2. CASE j \in Seen("ram_limit")
      <4>1. Limit(entries[j]) <= ram_limit
        BY <3>2, <1>1 DEF MemInv, Sized
      <4>2. QED
        BY <4>1, <3>1, <1>1, <1>3
    <3>3. CASE j = i /\ i \in Usables
      BY <3>3, <1>1, <1>3 DEF Usables
    <3>4. QED
      BY <2>2, <3>2, <3>3, <1>2
  <2>3. \A j : Limit(entries[j])' = Limit(entries[j])
    BY <1>1 DEF Limit
  <2>4. QED
    BY <2>1, <2>2, <2>3, <1>1 DEF Sized, Later
<1>6. Region'
  BY <1>1, RegionStays
<1>7. Untouched' /\ Largest' /\ Unreserved' /\ Calls'
  BY <1>1 DEF MemInv, Untouched, Largest, Unreserved, Calls, Later
<1>8. QED
  BY <1>1, <1>4, <1>5, <1>6, <1>7 DEF MemInv

(* The frame table is taken from boot memory, or the kernel panics.        *)
LEMMA InitFramesKeeps == MemInv /\ init_frames => MemInv'
<1> SUFFICES ASSUME MemInv, init_frames
             PROVE  MemInv'
  OBVIOUS
<1>1. /\ pc = "ram_limit" /\ i > Len(entries) /\ i' = 1
      /\ pc' = (IF ram_limit # 0 /\ Fits(Page(ram_limit)) THEN "unreserve" ELSE "panic")
      /\ mm_frames_count' = Page(ram_limit)
      /\ boot_tail' = (IF Fits(Page(ram_limit)) THEN boot_tail + Page(ram_limit)
                                                ELSE boot_tail)
      /\ entries' = entries /\ len' = len /\ boot_begin' = boot_begin
      /\ boot_limit' = boot_limit /\ ram_limit' = ram_limit
      /\ unreserved' = unreserved /\ given' = given
  BY DEF init_frames, LoopEnd
<1>2. /\ i' \in 1 .. Len(entries') + 1 /\ Usables' = Usables
      /\ Seen("ram_limit") = Usables
      /\ pc' = "unreserve" => Seen("unreserve")' = {}
      /\ pc' # "ram_limit" => Seen("ram_limit")' = Usables
  BY <1>1, IndexKeeps
<1>3. Page(ram_limit) \in Nat /\ boot_tail \in Nat /\ unreserved = {}
  BY <1>1, Types, PageFacts DEF MemInv, Untouched
<1>4. TypeOK'
  <2>1. boot_tail' \in Nat /\ mm_frames_count' \in Nat
    BY <1>1, <1>3
  <2>2. pc' \in {"largest", "ram_limit", "unreserve", "buddy", "done", "panic"}
    BY <1>1
  <2>3. unreserved' \subseteq 0 .. mm_frames_count' - 1
    BY <1>1, <1>3
  <2>4. QED
    BY <2>1, <2>2, <2>3, <1>1, <1>2 DEF MemInv, TypeOK
<1>5. Sized'
  <2>1. SUFFICES ASSUME ram_limit # 0, Fits(Page(ram_limit)), pc' = "unreserve"
                 PROVE  Sized'
    BY <1>1 DEF Sized, Later
  <2>2. \A j \in Usables : Limit(entries[j]) <= ram_limit
    BY <1>1, <1>2 DEF MemInv, Sized
  <2>3. \A j : Limit(entries[j])' = Limit(entries[j])
    BY <1>1 DEF Limit
  <2>4. boot_tail = boot_begin
    BY <1>1 DEF MemInv, Sized
  <2>5. boot_tail' = boot_begin' + mm_frames_count' /\ boot_tail' < boot_limit'
    BY <2>1, <2>4, <1>1 DEF Fits
  <2>6. mm_frames_count' = Page(ram_limit)'
    BY <1>1 DEF Page
  <2>7. QED
    BY <2>1, <2>2, <2>3, <2>5, <2>6, <1>1, <1>2 DEF Sized, Later
<1>6. Unreserved'
  BY <1>1, <1>2 DEF Unreserved, Later
<1>7. Region'
  BY <1>1, RegionStays
<1>8. Untouched' /\ Largest' /\ Calls'
  BY <1>1 DEF MemInv, Untouched, Largest, Calls
<1>9. QED
  BY <1>1, <1>4, <1>5, <1>6, <1>7, <1>8 DEF MemInv

(* The size of the table stands while nothing about it changes.            *)
LEMMA SizedStays ==
  ASSUME MemInv, pc \in Later, pc' \in Later, entries' = entries,
         boot_begin' = boot_begin, boot_limit' = boot_limit, boot_tail' = boot_tail,
         ram_limit' = ram_limit, mm_frames_count' = mm_frames_count
  PROVE  Sized'
<1>1. Seen("ram_limit") = Usables /\ Seen("ram_limit")' = Usables
  <2>1. pc # "ram_limit" /\ pc' # "ram_limit"
    BY DEF Later
  <2>2. QED
    BY <2>1, IndexKeeps
<1>2. \A j \in Usables : Limit(entries[j]) <= ram_limit
  BY <1>1 DEF MemInv, Sized
<1>3. \A j : Limit(entries[j])' = Limit(entries[j])
  BY DEF Limit
<1>4. Page(ram_limit)' = Page(ram_limit)
  BY DEF Page
<1>5. pc' # "ram_limit"
  BY DEF Later
<1>6. QED
  BY <1>1, <1>2, <1>3, <1>4, <1>5 DEF MemInv, Sized

(* The frames of an entry are made available when its turn comes.          *)
LEMMA UnreserveKeeps == MemInv /\ unreserve_frame_region => MemInv'
<1> SUFFICES ASSUME MemInv, unreserve_frame_region
             PROVE  MemInv'
  OBVIOUS
<1> DEFINE e == entries[i]
<1>1. /\ InLoop("unreserve") /\ pc = "unreserve" /\ pc' = "unreserve" /\ i' = i + 1
      /\ entries' = entries /\ len' = len /\ boot_begin' = boot_begin
      /\ boot_limit' = boot_limit /\ boot_tail' = boot_tail
      /\ ram_limit' = ram_limit /\ mm_frames_count' = mm_frames_count /\ given' = given
      /\ unreserved' = IF IsUsable(e) THEN unreserved \cup FramesOf(e) ELSE unreserved
  BY DEF unreserve_frame_region, InLoop, FramesOf
<1>2. /\ i \in DOMAIN entries /\ i' \in 1 .. Len(entries') + 1 /\ Usables' = Usables
      /\ Seen("unreserve")' = Seen("unreserve") \cup ({i} \cap Usables)
  BY <1>1, IndexKeeps
<1>3. pc \in Later /\ pc' \in Later /\ pc \notin {"largest", "panic"}
  BY <1>1 DEF Later
<1>4. unreserved' \subseteq 0 .. mm_frames_count - 1
  <2>1. IsUsable(e) => FramesOf(e) \subseteq 0 .. mm_frames_count - 1
    BY <1>2, <1>3, FramesInTable DEF Usables
  <2>2. QED
    BY <2>1, <1>1, Types
<1>5. TypeOK'
  BY <1>1, <1>2, <1>4 DEF MemInv, TypeOK
<1>6. Unreserved'
  <2>1. ASSUME NEW j \in Seen("unreserve")'
        PROVE  FramesOf(entries[j]) \subseteq unreserved'
    <3>1. CASE j \in Seen("unreserve")
      <4>1. FramesOf(entries[j]) \subseteq unreserved
        BY <3>1, <1>3 DEF MemInv, Unreserved
      <4>2. QED
        BY <4>1, <1>1
    <3>2. CASE j = i /\ i \in Usables
      BY <3>2, <1>1 DEF Usables
    <3>3. QED
      BY <2>1, <3>1, <3>2, <1>2
  <2>2. \A j : FramesOf(entries[j])' = FramesOf(entries[j])
    BY <1>1 DEF FramesOf, Limit
  <2>3. QED
    BY <2>1, <2>2 DEF Unreserved
<1>7. Sized' /\ Region'
  BY <1>1, <1>3, SizedStays, RegionStays
<1>8. Untouched' /\ Largest' /\ Calls'
  BY <1>1 DEF MemInv, Untouched, Largest, Calls
<1>9. QED
  BY <1>1, <1>5, <1>6, <1>7, <1>8 DEF MemInv

(* Frames stay unreserved while nothing about them changes.                *)
LEMMA UnreservedStays ==
  ASSUME MemInv, pc \in {"buddy", "done"}, pc' \in {"buddy", "done"},
         entries' = entries, unreserved' = unreserved
  PROVE  Unreserved'
<1>1. Seen("unreserve") = Usables /\ Seen("unreserve")' = Usables
  BY IndexKeeps
<1>2. \A j \in Usables : FramesOf(entries[j]) \subseteq unreserved
  BY <1>1 DEF MemInv, Unreserved, Later
<1>3. \A j : FramesOf(entries[j])' = FramesOf(entries[j])
  BY DEF FramesOf, Limit
<1>4. QED
  BY <1>1, <1>2, <1>3 DEF Unreserved

(* The calls start when every usable frame is unreserved.                  *)
LEMMA KernelMmKeeps == MemInv /\ init_kernel_mm => MemInv'
<1> SUFFICES ASSUME MemInv, init_kernel_mm
             PROVE  MemInv'
  OBVIOUS
<1>1. /\ pc = "unreserve" /\ i > Len(entries) /\ i' = 1 /\ pc' = "buddy"
      /\ entries' = entries /\ len' = len /\ boot_begin' = boot_begin
      /\ boot_limit' = boot_limit /\ boot_tail' = boot_tail
      /\ ram_limit' = ram_limit /\ mm_frames_count' = mm_frames_count
      /\ unreserved' = unreserved /\ given' = given
  BY DEF init_kernel_mm, LoopEnd
<1>2. /\ i' \in 1 .. Len(entries') + 1 /\ Usables' = Usables
      /\ Seen("unreserve") = Usables /\ Seen("unreserve")' = Usables
      /\ Seen("buddy")' = {}
  BY <1>1, IndexKeeps
<1>3. pc \in Later /\ pc' \in Later /\ pc \notin {"largest", "panic"}
  BY <1>1 DEF Later
<1>4. TypeOK'
  BY <1>1, <1>2 DEF MemInv, TypeOK
<1>5. Unreserved'
  <2>1. \A j \in Usables : FramesOf(entries[j]) \subseteq unreserved
    BY <1>2, <1>3 DEF MemInv, Unreserved
  <2>2. \A j : FramesOf(entries[j])' = FramesOf(entries[j])
    BY <1>1 DEF FramesOf, Limit
  <2>3. QED
    BY <2>1, <2>2, <1>1, <1>2 DEF Unreserved
<1>6. Calls'
  <2>1. given' = << >>
    BY <1>1 DEF MemInv, Untouched
  <2>2. DOMAIN given' = {}
    BY <2>1
  <2>3. QED
    BY <2>2, <1>2 DEF Calls
<1>7. Sized' /\ Region'
  BY <1>1, <1>3, SizedStays, RegionStays
<1>8. Untouched' /\ Largest'
  BY <1>1 DEF Untouched, Largest
<1>9. QED
  BY <1>1, <1>4, <1>5, <1>6, <1>7, <1>8 DEF MemInv

(* A call for the next entry is disjoint from the earlier ones.            *)
LEMMA BuddyKeeps == MemInv /\ init_buddy_allocator => MemInv'
<1> SUFFICES ASSUME MemInv, init_buddy_allocator
             PROVE  MemInv'
  OBVIOUS
<1> DEFINE e == entries[i]
<1>1. /\ InLoop("buddy") /\ pc = "buddy" /\ pc' = "buddy" /\ i' = i + 1
      /\ entries' = entries /\ len' = len /\ boot_begin' = boot_begin
      /\ boot_limit' = boot_limit /\ boot_tail' = boot_tail
      /\ ram_limit' = ram_limit /\ mm_frames_count' = mm_frames_count
      /\ unreserved' = unreserved
      /\ given' = IF IsUsable(e) THEN Append(given, RangeOf(e)) ELSE given
  BY DEF init_buddy_allocator, InLoop, RangeOf, IsGiven
<1>2. /\ i \in DOMAIN entries /\ i' \in 1 .. Len(entries') + 1 /\ Usables' = Usables
      /\ Seen("buddy")' = Seen("buddy") \cup ({i} \cap Usables)
  BY <1>1, IndexKeeps
<1>3. pc \in Later /\ pc' \in Later /\ pc \notin {"largest", "panic"}
  BY <1>1 DEF Later
<1>4. \A j : RangeOf(entries[j])' = RangeOf(entries[j])
  BY <1>1 DEF RangeOf, PastBoot, BootEnd, PastKernel, Limit
<1>5. /\ given \in Seq(Nat \X Nat) /\ Len(given) \in Nat /\ DOMAIN given = 1 .. Len(given)
  BY Types
<1>6. /\ \A k \in DOMAIN given : \E j \in Seen("buddy") : given[k] = RangeOf(entries[j])
      /\ \A j \in Seen("buddy") : \E k \in DOMAIN given : given[k] = RangeOf(entries[j])
      /\ \A k \in DOMAIN given : \A h \in 1 .. k - 1 :
           Frames(given[k]) \cap Frames(given[h]) = {}
  BY <1>1 DEF MemInv, Calls
<1>7. given' \in Seq(Nat \X Nat) /\ Calls'
  <2>1. CASE ~IsUsable(e)
    <3>1. given' = given /\ Seen("buddy")' = Seen("buddy")
      BY <2>1, <1>1, <1>2 DEF Usables
    <3>2. QED
      BY <3>1, <1>4, <1>5, <1>6 DEF Calls
  <2>2. CASE IsUsable(e)
    <3> DEFINE r == RangeOf(e)
               n == Len(given) + 1
    <3>1. i \in Usables /\ r \in Nat \X Nat
      BY <2>2, <1>2, <1>3, FramesInTable DEF Usables
    <3>2. given' = Append(given, r) /\ Seen("buddy")' = Seen("buddy") \cup {i}
      BY <2>2, <3>1, <1>1, <1>2
    <3> HIDE DEF r
    <3>3. /\ given' \in Seq(Nat \X Nat) /\ Len(given') = n
          /\ \A k \in 1 .. Len(given) : given'[k] = given[k]
          /\ given'[n] = r
      BY <3>1, <3>2, <1>5, AppendProperties
    <3>4. n \in Nat /\ DOMAIN given' = 1 .. n
      BY <3>3, <1>5, LenProperties
    <3>5. ASSUME NEW k \in 1 .. n, k # n
          PROVE  k \in DOMAIN given /\ given'[k] = given[k]
      <4>1. k \in 1 .. Len(given)
        BY <3>5, <1>5
      <4>2. QED
        BY <4>1, <3>3, <1>5
    <3> HIDE DEF n
    <3>6. ASSUME NEW k \in 1 .. n
          PROVE  \E j \in Seen("buddy")' : given'[k] = RangeOf(entries[j])
      <4>1. CASE k = n
        BY <4>1, <3>2, <3>3 DEF r
      <4>2. CASE k # n
        BY <4>2, <3>2, <3>5, <1>6
      <4>3. QED
        BY <4>1, <4>2
    <3>7. ASSUME NEW j \in Seen("buddy")'
          PROVE  \E k \in 1 .. n : given'[k] = RangeOf(entries[j])
      <4>1. CASE j = i
        <5>1. n \in 1 .. n
          BY <3>4, <1>5 DEF n
        <5>2. QED
          BY <4>1, <5>1, <3>3 DEF r
      <4>2. CASE j \in Seen("buddy")
        <5>1. PICK k \in DOMAIN given : given[k] = RangeOf(entries[j])
          BY <4>2, <1>6
        <5>2. k \in 1 .. n /\ given'[k] = given[k]
          BY <3>3, <1>5 DEF n
        <5>3. QED
          BY <5>1, <5>2
      <4>3. QED
        BY <3>7, <4>1, <4>2, <3>2
    <3>8. ASSUME NEW k \in 1 .. n, NEW h \in 1 .. k - 1
          PROVE  Frames(given'[k]) \cap Frames(given'[h]) = {}
      <4>1. h \in 1 .. n /\ h # n
        BY <3>4
      <4>2. h \in DOMAIN given /\ given'[h] = given[h]
        BY <4>1, <3>5
      <4>3. CASE k = n
        <5>1. PICK j \in Seen("buddy") : given[h] = RangeOf(entries[j])
          BY <4>2, <1>6
        <5>2. j \in Usables /\ j # i
          BY <1>1, Types DEF Seen, Usables
        <5>3. Frames(RangeOf(entries[i])) \cap Frames(RangeOf(entries[j])) = {}
          BY <5>2, <3>1, <1>3, CallsDisjoint
        <5>4. QED
          BY <4>2, <4>3, <5>1, <5>3, <3>3 DEF r
      <4>4. CASE k # n
        <5>1. k \in DOMAIN given /\ given'[k] = given[k]
          BY <4>4, <3>5
        <5>2. QED
          BY <4>2, <5>1, <1>6
      <4>5. QED
        BY <4>3, <4>4
    <3>9. /\ \A k \in DOMAIN given' :
               \E j \in Seen("buddy")' : given'[k] = RangeOf(entries[j])'
          /\ \A j \in Seen("buddy")' :
               \E k \in DOMAIN given' : given'[k] = RangeOf(entries[j])'
      BY <3>4, <3>6, <3>7, <1>4, SMTT(30)
    <3>10. \A k \in DOMAIN given' : \A h \in 1 .. k - 1 :
             Frames(given'[k]) \cap Frames(given'[h]) = {}
      BY <3>4, <3>8
    <3>11. Calls'
      BY <3>9, <3>10 DEF Calls, Frames
    <3>12. QED
      BY <3>3, <3>11
  <2>3. QED
    BY <2>1, <2>2
<1>8. TypeOK'
  BY <1>1, <1>2, <1>7 DEF MemInv, TypeOK
<1>9. Sized' /\ Region' /\ Unreserved'
  BY <1>1, <1>3, SizedStays, RegionStays, UnreservedStays
<1>10. Untouched' /\ Largest'
  BY <1>1 DEF Untouched, Largest
<1>11. QED
  BY <1>1, <1>7, <1>8, <1>9, <1>10 DEF MemInv

(* init_memory returns when every entry had its call.                      *)
LEMMA ReturnKeeps == MemInv /\ Return => MemInv'
<1> SUFFICES ASSUME MemInv, Return
             PROVE  MemInv'
  OBVIOUS
<1>1. /\ pc = "buddy" /\ i > Len(entries) /\ i' = 1 /\ pc' = "done"
      /\ entries' = entries /\ len' = len /\ boot_begin' = boot_begin
      /\ boot_limit' = boot_limit /\ boot_tail' = boot_tail
      /\ ram_limit' = ram_limit /\ mm_frames_count' = mm_frames_count
      /\ unreserved' = unreserved /\ given' = given
  BY DEF Return, LoopEnd
<1>2. /\ i' \in 1 .. Len(entries') + 1 /\ Usables' = Usables
      /\ Seen("buddy") = Usables /\ Seen("buddy")' = Usables
  BY <1>1, IndexKeeps
<1>3. pc \in Later /\ pc' \in Later /\ pc \notin {"largest", "panic"}
  BY <1>1 DEF Later
<1>4. TypeOK'
  BY <1>1, <1>2 DEF MemInv, TypeOK
<1>5. Calls'
  <2>1. \A j : RangeOf(entries[j])' = RangeOf(entries[j])
    BY <1>1 DEF RangeOf, PastBoot, BootEnd, PastKernel, Limit
  <2>2. QED
    BY <2>1, <1>1, <1>2 DEF MemInv, Calls
<1>6. Sized' /\ Region' /\ Unreserved'
  BY <1>1, <1>3, SizedStays, RegionStays, UnreservedStays
<1>7. Untouched' /\ Largest'
  BY <1>1 DEF Untouched, Largest
<1>8. QED
  BY <1>1, <1>4, <1>5, <1>6, <1>7 DEF MemInv

(* Every step of init_memory keeps the invariant.                          *)
LEMMA InitMemoryKeeps == MemInv /\ init_memory => MemInv'
  BY FindLargestKeeps, BootAllocKeeps, FindRamLimitKeeps, InitFramesKeeps,
     UnreserveKeeps, KernelMmKeeps, BuddyKeeps, ReturnKeeps DEF init_memory

(* So does a step that changes nothing of it.                              *)
LEMMA StutterKeeps == MemInv /\ UNCHANGED vars => MemInv'
<1> SUFFICES ASSUME MemInv, UNCHANGED vars
             PROVE  MemInv'
  OBVIOUS
<1>1. /\ entries' = entries /\ pc' = pc /\ i' = i /\ len' = len
      /\ boot_begin' = boot_begin /\ boot_limit' = boot_limit /\ boot_tail' = boot_tail
      /\ ram_limit' = ram_limit /\ mm_frames_count' = mm_frames_count
      /\ unreserved' = unreserved /\ given' = given
  BY DEF vars
<1>2. TypeOK' /\ Untouched'
  BY <1>1 DEF MemInv, TypeOK, Untouched
<1>3. Usables' = Usables /\ \A part : Seen(part)' = Seen(part)
  BY <1>1 DEF Usables, Seen
<1>4. /\ \A j : Limit(entries[j])' = Limit(entries[j])
      /\ \A j : FramesOf(entries[j])' = FramesOf(entries[j])
      /\ \A j : RangeOf(entries[j])' = RangeOf(entries[j])
      /\ \A j : IsRegion(j)' = IsRegion(j)
      /\ Page(ram_limit)' = Page(ram_limit)
  BY <1>1 DEF FramesOf, RangeOf, IsRegion, PastBoot, BootEnd, PastKernel, Limit
<1>5. Largest' /\ Region'
  BY <1>1, <1>3, <1>4 DEF MemInv, Largest, Region
<1>6. Sized' /\ Unreserved'
  BY <1>1, <1>3, <1>4 DEF MemInv, Sized, Unreserved
<1>7. Calls'
  BY <1>1, <1>3, <1>4 DEF MemInv, Calls
<1>8. QED
  BY <1>1, <1>2, <1>5, <1>6, <1>7 DEF MemInv

-----------------------------------------------------------------------------

(***************************************************************************)
(* Descriptors.                                                            *)
(***************************************************************************)
(* The bits of a field.                                                    *)
LEMMA FieldBits ==
  ASSUME NEW w \in SUBSET Int, NEW lo \in Int, NEW hi \in Int, NEW by \in Int
  PROVE  /\ Field(w, lo, hi, by) \subseteq Int
         /\ \A x \in Int : x \in Field(w, lo, hi, by) <=>
                             x - by \in w /\ lo <= x - by /\ x - by <= hi
<1>1. Field(w, lo, hi, by) \subseteq Int
  BY DEF Field
<1>2. ASSUME NEW x \in Int, x \in Field(w, lo, hi, by)
      PROVE  x - by \in w /\ lo <= x - by /\ x - by <= hi
  <2>1. PICK b \in w \cap (lo .. hi) : x = b + by
    BY <1>2 DEF Field
  <2>2. x - by = b
    BY <2>1
  <2>3. QED
    BY <2>1, <2>2
<1>3. ASSUME NEW x \in Int, x - by \in w, lo <= x - by, x - by <= hi
      PROVE  x \in Field(w, lo, hi, by)
  <2>1. x - by \in w \cap (lo .. hi) /\ x = (x - by) + by
    BY <1>3
  <2>2. QED
    BY <2>1 DEF Field
<1>4. QED
  BY <1>1, <1>2, <1>3

(* Which bit of a descriptor comes from where.                             *)
LEMMA GdteBits ==
  ASSUME NEW base \in SUBSET (0 .. 31), NEW limit \in SUBSET (0 .. 19),
         NEW access \in SUBSET (0 .. 7), NEW flags \in SUBSET (0 .. 3)
  PROVE  LET d == MAKE_GDTE(base, limit, access, flags)
         IN  /\ d \subseteq Int
             /\ \A x \in Int :
                  x \in d <=> \/ x \in 0 .. 15 /\ x \in limit
                              \/ x \in 16 .. 39 /\ x - 16 \in base
                              \/ x \in 40 .. 47 /\ x - 40 \in access
                              \/ x \in 48 .. 51 /\ x - 32 \in limit
                              \/ x \in 52 .. 55 /\ x - 52 \in flags
                              \/ x \in 56 .. 63 /\ x - 32 \in base
<1> DEFINE d == MAKE_GDTE(base, limit, access, flags)
<1>1. /\ base \in SUBSET Int /\ limit \in SUBSET Int
      /\ access \in SUBSET Int /\ flags \in SUBSET Int
  OBVIOUS
<1>2. \A x : x \in d <=>
        \/ x \in Field(limit, 0, 15, 0) \/ x \in Field(base, 0, 15, 16)
        \/ x \in Field(base, 16, 23, 16) \/ x \in Field(access, 0, 7, 40)
        \/ x \in Field(limit, 16, 19, 32) \/ x \in Field(flags, 0, 3, 52)
        \/ x \in Field(base, 24, 31, 32)
  BY DEF MAKE_GDTE
<1> HIDE DEF d
<1>3. d \subseteq Int
  BY <1>1, <1>2, FieldBits
<1>4. ASSUME NEW x \in Int
      PROVE  /\ x \in Field(limit, 0, 15, 0) <=> x \in 0 .. 15 /\ x \in limit
             /\ x \in Field(base, 0, 15, 16) <=> x \in 16 .. 31 /\ x - 16 \in base
             /\ x \in Field(base, 16, 23, 16) <=> x \in 32 .. 39 /\ x - 16 \in base
             /\ x \in Field(access, 0, 7, 40) <=> x \in 40 .. 47 /\ x - 40 \in access
             /\ x \in Field(limit, 16, 19, 32) <=> x \in 48 .. 51 /\ x - 32 \in limit
             /\ x \in Field(flags, 0, 3, 52) <=> x \in 52 .. 55 /\ x - 52 \in flags
             /\ x \in Field(base, 24, 31, 32) <=> x \in 56 .. 63 /\ x - 32 \in base
  <2>1. x \in Field(limit, 0, 15, 0) <=> x \in 0 .. 15 /\ x \in limit
    <3>1. x \in Field(limit, 0, 15, 0) <=> x - 0 \in limit /\ 0 <= x - 0 /\ x - 0 <= 15
      BY <1>1, FieldBits
    <3>2. x - 0 = x
      OBVIOUS
    <3>3. QED
      BY <3>1, <3>2
  <2>2. x \in Field(base, 0, 15, 16) <=> x - 16 \in base /\ 0 <= x - 16 /\ x - 16 <= 15
    BY <1>1, FieldBits
  <2>3. x \in Field(base, 16, 23, 16) <=> x - 16 \in base /\ 16 <= x - 16 /\ x - 16 <= 23
    BY <1>1, FieldBits
  <2>4. x \in Field(access, 0, 7, 40) <=> x - 40 \in access /\ 0 <= x - 40 /\ x - 40 <= 7
    BY <1>1, FieldBits
  <2>5. x \in Field(limit, 16, 19, 32) <=> x - 32 \in limit /\ 16 <= x - 32 /\ x - 32 <= 19
    BY <1>1, FieldBits
  <2>6. x \in Field(flags, 0, 3, 52) <=> x - 52 \in flags /\ 0 <= x - 52 /\ x - 52 <= 3
    BY <1>1, FieldBits
  <2>7. x \in Field(base, 24, 31, 32) <=> x - 32 \in base /\ 24 <= x - 32 /\ x - 32 <= 31
    BY <1>1, FieldBits
  <2>8. QED
    BY <2>1, <2>2, <2>3, <2>4, <2>5, <2>6, <2>7
<1>5. \A x \in Int :
        x \in d <=> \/ x \in 0 .. 15 /\ x \in limit
                    \/ x \in 16 .. 39 /\ x - 16 \in base
                    \/ x \in 40 .. 47 /\ x - 40 \in access
                    \/ x \in 48 .. 51 /\ x - 32 \in limit
                    \/ x \in 52 .. 55 /\ x - 52 \in flags
                    \/ x \in 56 .. 63 /\ x - 32 \in base
  BY <1>2, <1>4
<1>6. QED
  BY <1>3, <1>5 DEF d

(* The segments of both tables the processor uses are what it needs.       *)
LEMMA KernelSegments ==
  /\ IsCode64(InitialGdt[1]) /\ IsData(InitialGdt[2])
  /\ IsCode64(GdtAtBoot[1]) /\ IsData(GdtAtBoot[2])
<1>1. IsCode64(InitialGdt[1]) /\ IsData(InitialGdt[2])
  BY DEF InitialGdt, IsCode64, IsData
<1> DEFINE code == MAKE_GDTE({}, Flat, GDTE_ACCESS_KERNEL_CODE, GDTE_FLAG_CODE)
           data == MAKE_GDTE({}, Flat, GDTE_ACCESS_KERNEL_DATA, GDTE_FLAG_DATA)
<1>2. GdtAtBoot[1] = code /\ GdtAtBoot[2] = data
  BY DEF GdtAtBoot
<1>3. /\ Flat \in SUBSET (0 .. 19) /\ {} \in SUBSET (0 .. 31)
      /\ GDTE_ACCESS_KERNEL_CODE \in SUBSET (0 .. 7) /\ GDTE_FLAG_CODE \in SUBSET (0 .. 3)
      /\ GDTE_ACCESS_KERNEL_DATA \in SUBSET (0 .. 7) /\ GDTE_FLAG_DATA \in SUBSET (0 .. 3)
  BY DEF Flat, GDTE_ACCESS_KERNEL_CODE, GDTE_FLAG_CODE, GDTE_ACCESS_KERNEL_DATA,
         GDTE_FLAG_DATA
<1>4. /\ \A x \in 40 .. 47 : x \in code <=> x - 40 \in GDTE_ACCESS_KERNEL_CODE
      /\ \A x \in 52 .. 55 : x \in code <=> x - 52 \in GDTE_FLAG_CODE
  <2>1. \A x \in Int :
          x \in code <=> \/ x \in 0 .. 15 /\ x \in Flat
                         \/ x \in 16 .. 39 /\ x - 16 \in {}
                         \/ x \in 40 .. 47 /\ x - 40 \in GDTE_ACCESS_KERNEL_CODE
                         \/ x \in 48 .. 51 /\ x - 32 \in Flat
                         \/ x \in 52 .. 55 /\ x - 52 \in GDTE_FLAG_CODE
                         \/ x \in 56 .. 63 /\ x - 32 \in {}
    BY <1>3, GdteBits
  <2> HIDE DEF code
  <2>2. QED
    BY <2>1
<1>5. \A x \in 40 .. 47 : x \in data <=> x - 40 \in GDTE_ACCESS_KERNEL_DATA
  <2>1. \A x \in Int :
          x \in data <=> \/ x \in 0 .. 15 /\ x \in Flat
                         \/ x \in 16 .. 39 /\ x - 16 \in {}
                         \/ x \in 40 .. 47 /\ x - 40 \in GDTE_ACCESS_KERNEL_DATA
                         \/ x \in 48 .. 51 /\ x - 32 \in Flat
                         \/ x \in 52 .. 55 /\ x - 52 \in GDTE_FLAG_DATA
                         \/ x \in 56 .. 63 /\ x - 32 \in {}
    BY <1>3, GdteBits
  <2> HIDE DEF data
  <2>2. QED
    BY <2>1
<1> HIDE DEF code, data
<1>6. /\ 43 \in code /\ 44 \in code /\ 47 \in code /\ 53 \in code /\ 54 \notin code
  BY <1>4 DEF GDTE_ACCESS_KERNEL_CODE, GDTE_FLAG_CODE
<1>7. /\ 41 \in data /\ 44 \in data /\ 47 \in data /\ 43 \notin data
  BY <1>5 DEF GDTE_ACCESS_KERNEL_DATA
<1>8. QED
  BY <1>1, <1>2, <1>6, <1>7 DEF IsCode64, IsData

TssLow == MAKE_GDTE(Tss \cap (0 .. 31), TssLimit, GDTE_ACCESS_TSS, {})
TssHigh == MAKE_SYSTEM_GDTE_HIGH(Tss)

(* The two entries of the TSS descriptor decode to its address, its size   *)
(* and an available TSS, whatever the address.                             *)
LEMMA TssDescriptor ==
  /\ IsTss(TssLow) /\ SystemBase(TssLow, TssHigh) = Tss
  /\ SegmentLimit(TssLow) = TssLimit
<1>1. Tss \subseteq 0 .. 63
  BY KmainAssumption
<1>2. /\ Tss \cap (0 .. 31) \in SUBSET (0 .. 31) /\ TssLimit \in SUBSET (0 .. 19)
      /\ GDTE_ACCESS_TSS \in SUBSET (0 .. 7) /\ {} \in SUBSET (0 .. 3)
  BY DEF TssLimit, GDTE_ACCESS_TSS
<1>3. /\ TssLow \subseteq Int
      /\ \A x \in Int :
           x \in TssLow <=> \/ x \in 0 .. 15 /\ x \in TssLimit
                            \/ x \in 16 .. 39 /\ x - 16 \in Tss \cap (0 .. 31)
                            \/ x \in 40 .. 47 /\ x - 40 \in GDTE_ACCESS_TSS
                            \/ x \in 48 .. 51 /\ x - 32 \in TssLimit
                            \/ x \in 52 .. 55 /\ x - 52 \in {}
                            \/ x \in 56 .. 63 /\ x - 32 \in Tss \cap (0 .. 31)
  BY <1>2, GdteBits DEF TssLow
<1>4. IsTss(TssLow)
  <2>1. \A x \in 40 .. 47 : x \in TssLow <=> x - 40 \in {0, 3, 7}
    BY <1>3 DEF GDTE_ACCESS_TSS
  <2>2. 47 \in TssLow /\ \A x \in 40 .. 44 : x \in TssLow <=> x \in {40, 43}
    BY <2>1
  <2>3. TssLow \cap (40 .. 44) = {40, 43}
    BY <2>2
  <2>4. QED
    BY <2>2, <2>3 DEF IsTss
<1>5. SegmentLimit(TssLow) = TssLimit
  <2>1. \A x \in Int : x \in Field(TssLow, 0, 15, 0) <=>
                         x - 0 \in TssLow /\ 0 <= x - 0 /\ x - 0 <= 15
    BY <1>3, FieldBits
  <2>2. \A x \in Int : x \in Field(TssLow, 48, 51, -32) <=>
                         x - (-32) \in TssLow /\ 48 <= x - (-32) /\ x - (-32) <= 51
    BY <1>3, FieldBits
  <2>3. Field(TssLow, 0, 15, 0) \subseteq Int /\ Field(TssLow, 48, 51, -32) \subseteq Int
    BY <1>3, FieldBits
  <2>4. \A x \in Int : x \in Field(TssLow, 0, 15, 0) <=> x \in TssLimit
    BY <2>1, <1>3 DEF TssLimit
  <2>5. \A x \in Int : x \notin Field(TssLow, 48, 51, -32)
    BY <2>2, <1>3 DEF TssLimit
  <2>6. TssLimit \subseteq Int
    BY DEF TssLimit
  <2>7. QED
    BY <2>3, <2>4, <2>5, <2>6 DEF SegmentLimit
<1>6. SystemBase(TssLow, TssHigh) = Tss
  <2>1. Tss \in SUBSET Int /\ TssLow \in SUBSET Int
    BY <1>1, <1>3
  <2>2. /\ TssHigh \subseteq Int
        /\ \A x \in Int : x \in TssHigh <=>
                            x - (-32) \in Tss /\ 32 <= x - (-32) /\ x - (-32) <= 63
    BY <2>1, FieldBits DEF TssHigh, MAKE_SYSTEM_GDTE_HIGH
  <2>3. \A x : x \in SystemBase(TssLow, TssHigh) <=>
          \/ x \in Field(TssLow, 16, 39, -16) \/ x \in Field(TssLow, 56, 63, -32)
          \/ x \in Field(TssHigh, 0, 31, 32)
    BY DEF SystemBase
  <2>4. \A x \in Int : x \in Field(TssLow, 16, 39, -16) <=>
                         x - (-16) \in TssLow /\ 16 <= x - (-16) /\ x - (-16) <= 39
    BY <2>1, FieldBits
  <2>5. \A x \in Int : x \in Field(TssLow, 56, 63, -32) <=>
                         x - (-32) \in TssLow /\ 56 <= x - (-32) /\ x - (-32) <= 63
    BY <2>1, FieldBits
  <2>6. \A x \in Int : x \in Field(TssHigh, 0, 31, 32) <=>
                         x - 32 \in TssHigh /\ 0 <= x - 32 /\ x - 32 <= 31
    BY <2>2, FieldBits
  <2>7. /\ Field(TssLow, 16, 39, -16) \subseteq Int /\ Field(TssLow, 56, 63, -32) \subseteq Int
        /\ Field(TssHigh, 0, 31, 32) \subseteq Int
    BY <2>1, <2>2, FieldBits
  <2>8. ASSUME NEW x \in Int
        PROVE  /\ x \in Field(TssLow, 16, 39, -16) <=> x \in 0 .. 23 /\ x \in Tss
               /\ x \in Field(TssLow, 56, 63, -32) <=> x \in 24 .. 31 /\ x \in Tss
               /\ x \in Field(TssHigh, 0, 31, 32) <=> x \in 32 .. 63 /\ x \in Tss
    <3>1. x - (-16) = x + 16 /\ x - (-32) = x + 32 /\ (x + 16) - 16 = x /\ (x + 32) - 32 = x
          /\ (x - 32) - (-32) = x
      OBVIOUS
    <3>2. x \in Field(TssLow, 16, 39, -16) <=> x \in 0 .. 23 /\ x \in Tss
      <4>1. 16 <= x + 16 /\ x + 16 <= 39 =>
              (x + 16 \in TssLow <=> x + 16 - 16 \in Tss \cap (0 .. 31))
        BY <1>3
      <4>2. QED
        BY <4>1, <3>1, <2>4
    <3>3. x \in Field(TssLow, 56, 63, -32) <=> x \in 24 .. 31 /\ x \in Tss
      <4>1. 56 <= x + 32 /\ x + 32 <= 63 =>
              (x + 32 \in TssLow <=> x + 32 - 32 \in Tss \cap (0 .. 31))
        BY <1>3
      <4>2. QED
        BY <4>1, <3>1, <2>5
    <3>4. x \in Field(TssHigh, 0, 31, 32) <=> x \in 32 .. 63 /\ x \in Tss
      <4>1. x - 32 \in TssHigh <=> x \in Tss /\ 32 <= x /\ x <= 63
        BY <3>1, <2>2
      <4>2. QED
        BY <4>1, <2>6
    <3>5. QED
      BY <3>2, <3>3, <3>4
  <2>9. \A x \in Int : x \in SystemBase(TssLow, TssHigh) <=> x \in Tss
    BY <2>3, <2>8, <1>1
  <2>10. SystemBase(TssLow, TssHigh) \subseteq Int
    BY <2>3, <2>7
  <2>11. QED
    BY <2>1, <2>9, <2>10
<1>7. QED
  BY <1>4, <1>5, <1>6

(* The three parts of an offset make the address of the routine again.     *)
LEMMA GateDecodes ==
  ASSUME NEW isr \in SUBSET (0 .. 63), NEW attributes, NEW ist
  PROVE  GateOffset(idte(isr, attributes, ist)) = isr
<1> DEFINE low == Field(isr, 0, 15, 0)
           mid == Field(isr, 16, 31, -16)
           high == Field(isr, 32, 63, -32)
<1>1. GateOffset(idte(isr, attributes, ist)) =
        low \cup Field(mid, 0, 15, 16) \cup Field(high, 0, 31, 32)
  BY DEF GateOffset, idte
<1>2. isr \in SUBSET Int
  OBVIOUS
<1>3. /\ low \subseteq Int /\ mid \subseteq Int /\ high \subseteq Int
      /\ \A x \in Int : x \in low <=> x - 0 \in isr /\ 0 <= x - 0 /\ x - 0 <= 15
      /\ \A x \in Int : x \in mid <=> x - (-16) \in isr /\ 16 <= x - (-16) /\ x - (-16) <= 31
      /\ \A x \in Int : x \in high <=> x - (-32) \in isr /\ 32 <= x - (-32) /\ x - (-32) <= 63
  BY <1>2, FieldBits
<1> HIDE DEF low, mid, high
<1>4. /\ Field(mid, 0, 15, 16) \subseteq Int /\ Field(high, 0, 31, 32) \subseteq Int
      /\ \A x \in Int : x \in Field(mid, 0, 15, 16) <=>
                          x - 16 \in mid /\ 0 <= x - 16 /\ x - 16 <= 15
      /\ \A x \in Int : x \in Field(high, 0, 31, 32) <=>
                          x - 32 \in high /\ 0 <= x - 32 /\ x - 32 <= 31
  BY <1>3, FieldBits
<1>5. ASSUME NEW x \in Int
      PROVE  /\ x \in low <=> x \in 0 .. 15 /\ x \in isr
             /\ x \in Field(mid, 0, 15, 16) <=> x \in 16 .. 31 /\ x \in isr
             /\ x \in Field(high, 0, 31, 32) <=> x \in 32 .. 63 /\ x \in isr
  <2>1. x - 0 = x /\ (x - 16) - (-16) = x /\ (x - 32) - (-32) = x
    OBVIOUS
  <2>2. x - 16 \in mid <=> x \in isr /\ 16 <= x /\ x <= 31
    BY <2>1, <1>3
  <2>3. x - 32 \in high <=> x \in isr /\ 32 <= x /\ x <= 63
    BY <2>1, <1>3
  <2>4. x \in low <=> x \in isr /\ 0 <= x /\ x <= 15
    BY <2>1, <1>3
  <2>5. QED
    BY <2>2, <2>3, <2>4, <1>4
<1>6. \A x \in Int : x \in low \cup Field(mid, 0, 15, 16) \cup Field(high, 0, 31, 32)
                       <=> x \in isr
  BY <1>5
<1>7. QED
  BY <1>1, <1>2, <1>3, <1>4, <1>6
-----------------------------------------------------------------------------
(***************************************************************************)
(* The loader's information.                                               *)
(***************************************************************************)
Words == Nat \X Nat

Header(t) == << <<t.type, t.size>> >>

(* f[k] holds the words of the first k tags.                               *)
Parts(f, tags, n) ==
  f = [k \in 0 .. n |-> IF k = 0 THEN <<>>
                        ELSE f[k - 1] \o Header(tags[k]) \o tags[k].words]

AllParts(tags) == CHOOSE f : Parts(f, tags, Len(tags))

(* The words of the tags of an information.                                *)
LEMMA TagFacts ==
  ASSUME NEW tags \in Infos
  PROVE  /\ Len(tags) \in Nat /\ DOMAIN tags = 1 .. Len(tags)
         /\ \A k \in 1 .. Len(tags) :
              /\ tags[k].type \in Nat \ {0} /\ tags[k].size \in Nat
              /\ tags[k].words \in Seq(Words) /\ Len(tags[k].words) \in Nat
              /\ Header(tags[k]) \in Seq(Words) /\ Len(Header(tags[k])) = 1
              /\ Header(tags[k])[1] = <<tags[k].type, tags[k].size>>
              /\ (tags[k].size + 7) \div 8 = 1 + Len(tags[k].words)
<1>1. tags \in Seq([type : Nat \ {0}, size : Nat, words : Seq(Words)])
  BY KmainAssumption DEF Words
<1>2. Len(tags) \in Nat /\ DOMAIN tags = 1 .. Len(tags)
  BY <1>1, LenProperties
<1>3. ASSUME NEW k \in 1 .. Len(tags)
      PROVE  /\ tags[k].type \in Nat \ {0} /\ tags[k].size \in Nat
             /\ tags[k].words \in Seq(Words) /\ Len(tags[k].words) \in Nat
             /\ Header(tags[k]) \in Seq(Words) /\ Len(Header(tags[k])) = 1
             /\ Header(tags[k])[1] = <<tags[k].type, tags[k].size>>
             /\ (tags[k].size + 7) \div 8 = 1 + Len(tags[k].words)
  <2>1. tags[k] \in [type : Nat \ {0}, size : Nat, words : Seq(Words)]
    BY <1>1, ElementOfSeq
  <2>2. /\ tags[k].type \in Nat \ {0} /\ tags[k].size \in Nat
        /\ tags[k].words \in Seq(Words)
    BY <2>1
  <2>3. Len(tags[k].words) \in Nat
    BY <2>2, LenProperties
  <2> DEFINE w == <<tags[k].type, tags[k].size>>
  <2>4. w \in Words /\ Header(tags[k]) = <<w>>
    BY <2>2 DEF Words, Header
  <2> HIDE DEF w
  <2>5. <<w>> \in Seq(Words) /\ Len(<<w>>) = 1 /\ <<w>>[1] = w
    BY <2>4
  <2>6. (tags[k].size + 7) \div 8 = 1 + Len(tags[k].words)
    BY <1>2, KmainAssumption
  <2>7. QED
    BY <2>2, <2>3, <2>4, <2>5, <2>6 DEF w
<1>4. QED
  BY <1>2, <1>3

(* The recursive definition has a solution on every range: the least range *)
(* without one would extend the solution on the one before.                *)
LEMMA PartsExist ==
  ASSUME NEW tags, NEW n \in Nat
  PROVE  \E f : Parts(f, tags, n)
<1> DEFINE Bad == {m \in Nat : ~ \E f : Parts(f, tags, m)}
<1>1. SUFFICES ASSUME Bad # {} PROVE FALSE
  OBVIOUS
<1>2. PICK m \in Bad : \A j \in Bad : m <= j
  <2> HIDE DEF Bad
  <2>1. Bad \subseteq Nat
    BY DEF Bad
  <2>2. QED
    BY <2>1, <1>1, LeastElement
<1>3. m # 0
  <2> DEFINE f == [k \in 0 .. 0 |-> <<>>]
  <2>1. Parts(f, tags, 0)
    BY DEF Parts
  <2>2. QED
    BY <2>1
<1>4. m \in Nat /\ m - 1 \in Nat /\ m - 1 \notin Bad
  BY <1>2, <1>3
<1>5. PICK f : Parts(f, tags, m - 1)
  BY <1>4
<1> DEFINE longest == f[m - 1] \o Header(tags[m]) \o tags[m].words
<1> HIDE DEF longest
<1> DEFINE g == [k \in 0 .. m |-> IF k < m THEN f[k] ELSE longest]
<1>6. ASSUME NEW k \in 0 .. m
      PROVE  g[k] = IF k = 0 THEN <<>> ELSE g[k - 1] \o Header(tags[k]) \o tags[k].words
  <2>1. k # 0 => k - 1 \in 0 .. m /\ k - 1 < m /\ g[k - 1] = f[k - 1]
    BY <1>4
  <2>2. CASE k < m
    <3>1. k \in 0 .. m - 1
      BY <2>2, <1>4
    <3>2. f[k] = IF k = 0 THEN <<>> ELSE f[k - 1] \o Header(tags[k]) \o tags[k].words
      BY <3>1, <1>5 DEF Parts
    <3>3. g[k] = f[k]
      BY <2>2
    <3>4. QED
      BY <3>2, <3>3, <2>1
  <2>3. CASE ~(k < m)
    <3>1. k = m
      BY <2>3, <1>4
    <3>2. g[m] = longest
      BY <1>4
    <3>3. QED
      BY <3>1, <3>2, <1>3, <2>1 DEF longest
  <2>4. QED
    BY <2>2, <2>3
<1>7. Parts(g, tags, m)
  <2>1. g = [k \in 0 .. m |-> g[k]]
    OBVIOUS
  <2> HIDE DEF g
  <2>2. QED
    BY <2>1, <1>6 DEF Parts
<1>8. QED
  BY <1>7, <1>2

(* The words of one tag more.                                              *)
LEMMA PartsStep ==
  ASSUME NEW tags \in Infos
  PROVE  /\ AllParts(tags)[0] = <<>>
         /\ \A k \in 1 .. Len(tags) :
              AllParts(tags)[k] = AllParts(tags)[k - 1] \o Header(tags[k]) \o tags[k].words
<1>1. Len(tags) \in Nat
  BY TagFacts
<1>2. \E f : Parts(f, tags, Len(tags))
  BY <1>1, PartsExist
<1>3. Parts(AllParts(tags), tags, Len(tags))
  BY <1>2 DEF AllParts
<1> DEFINE f == AllParts(tags)
<1> HIDE DEF f
<1>4. f = [k \in 0 .. Len(tags) |-> IF k = 0 THEN <<>>
                                    ELSE f[k - 1] \o Header(tags[k]) \o tags[k].words]
  BY <1>3 DEF Parts, f
<1>5. f[0] = <<>>
  BY <1>1, <1>4
<1>6. ASSUME NEW k \in 1 .. Len(tags)
      PROVE  f[k] = f[k - 1] \o Header(tags[k]) \o tags[k].words
  <2>1. k \in 0 .. Len(tags) /\ k # 0
    BY <1>1
  <2>2. QED
    BY <2>1, <1>4
<1>7. QED
  BY <1>5, <1>6 DEF f

(* One tag more: its header and its words follow.                          *)
Extends(s, t, r) ==
  /\ r \in Seq(Words) /\ Len(r) = Len(s) + 1 + Len(t.words)
  /\ \A q \in 1 .. Len(s) : r[q] = s[q]
  /\ r[Len(s) + 1] = <<t.type, t.size>>
  /\ \A q \in 1 .. Len(t.words) : r[Len(s) + 1 + q] = t.words[q]

(* The header and the words of a tag extend the words before it.           *)
LEMMA TagExtends ==
  ASSUME NEW tags \in Infos, NEW k \in 1 .. Len(tags), NEW s \in Seq(Words)
  PROVE  Extends(s, tags[k], s \o Header(tags[k]) \o tags[k].words)
<1> DEFINE h == Header(tags[k])
           w == tags[k].words
           u == s \o h
           r == u \o w
<1>1. /\ h \in Seq(Words) /\ Len(h) = 1 /\ h[1] = <<tags[k].type, tags[k].size>>
      /\ w \in Seq(Words) /\ Len(w) \in Nat
  BY TagFacts
<1> HIDE DEF h, w
<1>0. h \in Seq(Words) /\ w \in Seq(Words)
  BY <1>1
<1>2. /\ u \in Seq(Words) /\ Len(u) = Len(s) + Len(h) /\ Len(s) \in Nat
      /\ \A q \in 1 .. Len(s) : u[q] = s[q]
      /\ \A q \in 1 .. Len(h) : u[Len(s) + q] = h[q]
  BY <1>0, Concat
<1>3. u[Len(s) + 1] = <<tags[k].type, tags[k].size>>
  BY <1>1, <1>2
<1> HIDE DEF u
<1>4. /\ r \in Seq(Words) /\ Len(r) = Len(u) + Len(w)
      /\ \A q \in 1 .. Len(u) : r[q] = u[q]
      /\ \A q \in 1 .. Len(w) : r[Len(u) + q] = w[q]
  <2>1. u \in Seq(Words)
    BY <1>2
  <2>2. QED
    BY <2>1, <1>0, Concat
<1> HIDE DEF r
<1>5. Len(u) = Len(s) + 1
  BY <1>1, <1>2
<1>6. /\ Len(r) = Len(s) + 1 + Len(w)
      /\ \A q \in 1 .. Len(s) : r[q] = s[q]
      /\ r[Len(s) + 1] = <<tags[k].type, tags[k].size>>
      /\ \A q \in 1 .. Len(w) : r[Len(s) + 1 + q] = w[q]
  <2>1. \A q \in 1 .. Len(s) : q \in 1 .. Len(u)
    BY <1>2, <1>5
  <2>2. Len(s) + 1 \in 1 .. Len(u)
    BY <1>2, <1>5
  <2>3. QED
    BY <2>1, <2>2, <1>2, <1>3, <1>4, <1>5
<1>7. QED
  BY <1>4, <1>6 DEF Extends, r, u, h, w

(* Every prefix is a sequence of words.                                    *)
LEMMA PartsType ==
  ASSUME NEW tags \in Infos, NEW k \in 0 .. Len(tags)
  PROVE  AllParts(tags)[k] \in Seq(Words) /\ Len(AllParts(tags)[k]) \in Nat
<1> DEFINE f == AllParts(tags)
           Bad == {m \in 0 .. Len(tags) : f[m] \notin Seq(Words)}
<1>1. Len(tags) \in Nat
  BY TagFacts
<1>2. f[0] = <<>>
  BY PartsStep
<1>3. ASSUME NEW m \in 1 .. Len(tags), f[m - 1] \in Seq(Words)
      PROVE  f[m] \in Seq(Words)
  <2>1. f[m] = f[m - 1] \o Header(tags[m]) \o tags[m].words
    BY PartsStep
  <2> HIDE DEF f
  <2>2. Extends(f[m - 1], tags[m], f[m])
    BY <2>1, <1>3, TagExtends
  <2>3. QED
    BY <2>2 DEF Extends
<1> HIDE DEF f
<1>4. Bad = {}
  <2>1. SUFFICES ASSUME Bad # {} PROVE FALSE
    OBVIOUS
  <2>2. PICK m \in Bad : \A j \in Bad : m <= j
    <3>1. Bad \subseteq Nat
      BY <1>1
    <3> HIDE DEF Bad
    <3>2. QED
      BY <2>1, <3>1, LeastElement
  <2>3. m # 0
    <3>1. <<>> \in Seq(Words)
      OBVIOUS
    <3>2. QED
      BY <3>1, <2>2, <1>2
  <2>4. m \in 1 .. Len(tags) /\ m - 1 \in 0 .. Len(tags) /\ m - 1 \notin Bad
    BY <2>2, <2>3, <1>1
  <2>5. QED
    BY <2>2, <2>4, <1>3
<1>5. f[k] \in Seq(Words)
  BY <1>4
<1>6. QED
  BY <1>5, LenProperties DEF f

(* The words of the first k tags are a prefix of those of the first m.     *)
Prefix(s, r) == Len(s) <= Len(r) /\ \A q \in 1 .. Len(s) : r[q] = s[q]

(* The words of a tag stay where they are when later tags are added.       *)
LEMMA PartsPrefix ==
  ASSUME NEW tags \in Infos, NEW k \in 0 .. Len(tags), NEW n \in k .. Len(tags)
  PROVE  Prefix(AllParts(tags)[k], AllParts(tags)[n])
<1> DEFINE f == AllParts(tags)
           Bad == {m \in k .. Len(tags) : ~Prefix(f[k], f[m])}
<1>1. Len(tags) \in Nat /\ k \in Nat
  BY TagFacts
<1>2. \A m \in 0 .. Len(tags) : f[m] \in Seq(Words) /\ Len(f[m]) \in Nat
  BY PartsType
<1>3. ASSUME NEW m \in 1 .. Len(tags), k <= m - 1, Prefix(f[k], f[m - 1])
      PROVE  Prefix(f[k], f[m])
  <2>1. f[m] = f[m - 1] \o Header(tags[m]) \o tags[m].words
    BY PartsStep
  <2> HIDE DEF f
  <2>2. m - 1 \in 0 .. Len(tags) /\ m \in 0 .. Len(tags)
    BY <1>1
  <2>3. Extends(f[m - 1], tags[m], f[m])
    BY <2>1, <2>2, <1>2, TagExtends
  <2>4. Len(tags[m].words) \in Nat
    BY TagFacts
  <2>5. Len(f[k]) \in Nat /\ Len(f[m - 1]) \in Nat /\ Len(f[m]) \in Nat
    BY <2>2, <1>2
  <2>6. /\ Len(f[m]) = Len(f[m - 1]) + 1 + Len(tags[m].words)
        /\ \A q \in 1 .. Len(f[m - 1]) : f[m][q] = f[m - 1][q]
    BY <2>3 DEF Extends
  <2>7. /\ Len(f[k]) <= Len(f[m - 1])
        /\ \A q \in 1 .. Len(f[k]) : f[m - 1][q] = f[k][q]
    BY <1>3 DEF Prefix
  <2>8. Len(f[k]) <= Len(f[m]) /\ \A q \in 1 .. Len(f[k]) : q \in 1 .. Len(f[m - 1])
    <3> DEFINE a == Len(f[k])
               b == Len(f[m - 1])
               c == Len(f[m])
               d == Len(tags[m].words)
    <3>1. a \in Nat /\ b \in Nat /\ c \in Nat /\ d \in Nat /\ a <= b /\ c = b + 1 + d
      BY <2>4, <2>5, <2>6, <2>7
    <3> HIDE DEF a, b, c, d
    <3>2. a <= c /\ \A q \in 1 .. a : q \in 1 .. b
      BY <3>1
    <3>3. QED
      BY <3>2 DEF a, b, c
  <2>9. QED
    BY <2>6, <2>7, <2>8 DEF Prefix
<1> HIDE DEF f
<1>4. Prefix(f[k], f[k])
  BY <1>2 DEF Prefix
<1>5. Bad = {}
  <2>1. SUFFICES ASSUME Bad # {} PROVE FALSE
    OBVIOUS
  <2>2. PICK m \in Bad : \A j \in Bad : m <= j
    <3>1. Bad \subseteq Nat
      BY <1>1
    <3> HIDE DEF Bad
    <3>2. QED
      BY <2>1, <3>1, LeastElement
  <2>3. m # k
    BY <2>2, <1>4
  <2>4. m \in 1 .. Len(tags) /\ k <= m - 1 /\ m - 1 \in k .. Len(tags) /\ m - 1 \notin Bad
    BY <2>2, <2>3, <1>1
  <2>5. QED
    BY <2>2, <2>4, <1>3
<1>6. QED
  BY <1>5 DEF f

-----------------------------------------------------------------------------
(* The word at which tag k + 1 starts, or the end tag.                     *)
At(tags, k) == 2 + Len(AllParts(tags)[k])

(* Where the loader puts a tag and its words.                              *)
TagAt(tags, k) ==
  LET w == Layout(tags)
      t == tags[k]
      p == At(tags, k - 1)
  IN  /\ At(tags, k) = p + 1 + Len(t.words)
      /\ w[p] = <<t.type, t.size>>
      /\ \A q \in 1 .. Len(t.words) : w[p + q] = t.words[q]

(* The information begins with its size, which is all of it.               *)
LEMMA LayoutFacts ==
  ASSUME NEW tags \in Infos
  PROVE  LET w == Layout(tags)
             all == AllParts(tags)[Len(tags)]
         IN  /\ w \in Seq(Words) /\ Len(w) = Len(all) + 2
             /\ \A q \in 1 .. Len(all) : w[1 + q] = all[q]
             /\ w[Len(all) + 2] = <<0, 8>>
<1> DEFINE all == AllParts(tags)[Len(tags)]
           top == <<8 * (Len(all) + 2), 0>>
           end == <<0, 8>>
           first == <<top>>
           last == <<end>>
           u == first \o all
           w == u \o last
<1>1. Len(tags) \in Nat /\ Len(tags) \in 0 .. Len(tags)
  BY TagFacts
<1>2. all \in Seq(Words) /\ Len(all) \in Nat
  BY <1>1, PartsType
<1>3. Layout(tags) = w
  BY DEF Layout, AllParts, Parts, Header
<1> HIDE DEF all
<1>4. top \in Words /\ end \in Words
  BY <1>2 DEF Words
<1> HIDE DEF top, end
<1>5. /\ first \in Seq(Words) /\ Len(first) = 1
      /\ last \in Seq(Words) /\ Len(last) = 1 /\ last[1] = end
  BY <1>4
<1> HIDE DEF first, last
<1>6. /\ u \in Seq(Words) /\ Len(u) = Len(first) + Len(all)
      /\ \A q \in 1 .. Len(all) : u[Len(first) + q] = all[q]
  BY <1>2, <1>5, Concat
<1> HIDE DEF u
<1>7. /\ w \in Seq(Words) /\ Len(w) = Len(u) + Len(last)
      /\ \A q \in 1 .. Len(u) : w[q] = u[q]
      /\ \A q \in 1 .. Len(last) : w[Len(u) + q] = last[q]
  BY <1>5, <1>6, Concat
<1> HIDE DEF w
<1>8. Len(u) = Len(all) + 1 /\ Len(w) = Len(all) + 2
  BY <1>2, <1>5, <1>6, <1>7
<1>9. \A q \in 1 .. Len(all) : w[1 + q] = all[q]
  <2>1. SUFFICES ASSUME NEW q \in 1 .. Len(all)
                 PROVE  w[1 + q] = all[q]
    OBVIOUS
  <2>2. 1 + q \in 1 .. Len(u)
    BY <1>2, <1>8
  <2>3. w[1 + q] = u[1 + q] /\ u[1 + q] = all[q]
    BY <2>2, <1>5, <1>6, <1>7
  <2>4. QED
    BY <2>3
<1>10. w[Len(all) + 2] = <<0, 8>>
  <2>1. 1 \in 1 .. Len(last) /\ Len(u) + 1 = Len(all) + 2
    BY <1>2, <1>5, <1>8
  <2>2. w[Len(u) + 1] = last[1]
    BY <2>1, <1>7
  <2>3. QED
    BY <2>1, <2>2, <1>5 DEF end
<1>11. QED
  BY <1>3, <1>7, <1>8, <1>9, <1>10 DEF all

(* Every tag is where the walk looks for it, and the end tag is the last   *)
(* word.                                                                   *)
LEMMA WordsOfTags ==
  ASSUME NEW tags \in Infos
  PROVE  /\ \A k \in 1 .. Len(tags) : TagAt(tags, k)
         /\ At(tags, 0) = 2
         /\ Len(Layout(tags)) = At(tags, Len(tags))
         /\ Layout(tags)[At(tags, Len(tags))] = <<0, 8>>
         /\ \A k \in 0 .. Len(tags) : /\ At(tags, k) \in Nat /\ At(tags, k) >= 2
                                      /\ At(tags, k) <= At(tags, Len(tags))
<1> DEFINE f == AllParts(tags)
           all == f[Len(tags)]
           w == Layout(tags)
<1>1. Len(tags) \in Nat
  BY TagFacts
<1>2. \A m \in 0 .. Len(tags) : f[m] \in Seq(Words) /\ Len(f[m]) \in Nat
  BY PartsType
<1>3. \A m \in 0 .. Len(tags) : Prefix(f[m], all)
  <2>1. SUFFICES ASSUME NEW m \in 0 .. Len(tags)
                 PROVE  Prefix(f[m], all)
    OBVIOUS
  <2>2. Len(tags) \in m .. Len(tags)
    BY <1>1
  <2>3. QED
    BY <2>2, PartsPrefix
<1>4. /\ w \in Seq(Words) /\ Len(w) = Len(all) + 2
      /\ \A q \in 1 .. Len(all) : w[1 + q] = all[q]
      /\ w[Len(all) + 2] = <<0, 8>>
  BY LayoutFacts
<1>5. f[0] = <<>> /\ \A k \in 1 .. Len(tags) :
                       f[k] = f[k - 1] \o Header(tags[k]) \o tags[k].words
  BY PartsStep
<1>6. \A k \in 0 .. Len(tags) : At(tags, k) = 2 + Len(f[k])
  BY DEF At
<1> HIDE DEF f, w
<1>7. \A k \in 0 .. Len(tags) : /\ At(tags, k) \in Nat /\ At(tags, k) >= 2
                                /\ At(tags, k) <= At(tags, Len(tags))
  <2>1. SUFFICES ASSUME NEW k \in 0 .. Len(tags)
                 PROVE  /\ At(tags, k) \in Nat /\ At(tags, k) >= 2
                        /\ At(tags, k) <= At(tags, Len(tags))
    OBVIOUS
  <2>2. Len(tags) \in 0 .. Len(tags)
    BY <1>1
  <2>3. /\ At(tags, k) = 2 + Len(f[k]) /\ At(tags, Len(tags)) = 2 + Len(all)
        /\ Len(f[k]) \in Nat /\ Len(all) \in Nat /\ Len(f[k]) <= Len(all)
    BY <2>2, <1>2, <1>3, <1>6 DEF Prefix
  <2>4. QED
    BY <2>3
<1>8. At(tags, 0) = 2
  <2>1. 0 \in 0 .. Len(tags) /\ Len(f[0]) = 0
    BY <1>1, <1>5
  <2>2. QED
    BY <2>1, <1>6
<1>9. Len(w) = At(tags, Len(tags)) /\ w[At(tags, Len(tags))] = <<0, 8>>
  <2>1. Len(tags) \in 0 .. Len(tags) /\ Len(all) \in Nat
    BY <1>1, <1>2
  <2>2. At(tags, Len(tags)) = Len(all) + 2
    BY <2>1, <1>6
  <2>3. QED
    BY <2>2, <1>4
<1>10. ASSUME NEW k \in 1 .. Len(tags)
       PROVE  TagAt(tags, k)
  <2> DEFINE t == tags[k]
             s == f[k - 1]
             r == f[k]
             p == At(tags, k - 1)
             n == Len(t.words)
  <2>1. k - 1 \in 0 .. Len(tags) /\ k \in 0 .. Len(tags)
    BY <1>1
  <2>2. /\ s \in Seq(Words) /\ Len(s) \in Nat /\ r \in Seq(Words) /\ Len(r) \in Nat
        /\ Len(all) \in Nat /\ Prefix(r, all) /\ Len(t.words) \in Nat
    BY <2>1, <1>1, <1>2, <1>3, TagFacts
  <2>3. Extends(s, t, r)
    BY <2>1, <2>2, <1>5, TagExtends
  <2>4. p = 2 + Len(s) /\ At(tags, k) = 2 + Len(r)
    BY <2>1, <1>6
  <2>5. \A q \in 1 .. Len(r) : w[1 + q] = r[q]
    <3>1. \A q \in 1 .. Len(r) : q \in 1 .. Len(all) /\ all[q] = r[q]
      BY <2>2 DEF Prefix
    <3>2. QED
      BY <3>1, <1>4
  <2>6. Len(r) = Len(s) + 1 + n /\ Len(s) \in Nat /\ Len(r) \in Nat /\ n \in Nat
    BY <2>2, <2>3 DEF Extends
  <2> HIDE DEF s, r, p, t, n
  <2>7. At(tags, k) = p + 1 + n
    BY <2>4, <2>6
  <2>8. w[p] = <<t.type, t.size>>
    <3>1. Len(s) + 1 \in 1 .. Len(r) /\ 1 + (Len(s) + 1) = p
      BY <2>4, <2>6
    <3>2. w[1 + (Len(s) + 1)] = r[Len(s) + 1]
      BY <3>1, <2>5
    <3>3. QED
      BY <3>1, <3>2, <2>3 DEF Extends
  <2>9. ASSUME NEW q \in 1 .. n
        PROVE  w[p + q] = t.words[q]
    <3>1. Len(s) + 1 + q \in 1 .. Len(r) /\ 1 + (Len(s) + 1 + q) = p + q
      BY <2>4, <2>6
    <3>2. w[1 + (Len(s) + 1 + q)] = r[Len(s) + 1 + q]
      BY <3>1, <2>5
    <3>3. r[Len(s) + 1 + q] = t.words[q]
      BY <2>3 DEF Extends, n
    <3>4. QED
      BY <3>1, <3>2, <3>3
  <2>10. QED
    BY <2>7, <2>8, <2>9 DEF TagAt, p, t, w, n
<1>11. QED
  BY <1>7, <1>8, <1>9, <1>10 DEF w
-----------------------------------------------------------------------------
(***************************************************************************)
(* The memory map.                                                         *)
(***************************************************************************)
(* The words of a memory map's tag: three for each entry.                  *)
LEMMA MapWords ==
  ASSUME NEW m \in Maps
  PROVE  LET w == MmapTag(m).words
         IN  /\ Len(m) \in Nat /\ m \in Seq([addr : Nat, len : Nat, type : Nat])
             /\ Len(w) = 1 + 3 * Len(m) /\ w[1] = <<24, 0>>
             /\ \A n \in 1 .. Len(m) : /\ w[3 * n - 1] = <<m[n].addr, 0>>
                                       /\ w[3 * n] = <<m[n].len, 0>>
                                       /\ w[3 * n + 1] = <<m[n].type, 0>>
<1> DEFINE word(k) == LET e == m[(k + 2) \div 3]
                      IN  CASE k % 3 = 1 -> <<e.addr, 0>>
                            [] k % 3 = 2 -> <<e.len, 0>>
                            [] OTHER     -> <<e.type, 0>>
           g == [k \in 1 .. 3 * Len(m) |-> word(k)]
           c == <<24, 0>>
           first == <<c>>
           w == first \o g
<1>1. m \in Seq([addr : Nat, len : Nat, type : Nat])
  BY MapsAssumption
<1>2. Len(m) \in Nat /\ \A n \in 1 .. Len(m) : m[n] \in [addr : Nat, len : Nat, type : Nat]
  BY <1>1, LenProperties, ElementOfSeq
<1>3. MmapTag(m).words = w
  BY DEF MmapTag
<1>4. c \in Words
  BY DEF Words
<1> HIDE DEF c
<1>5. first \in Seq(Words) /\ Len(first) = 1 /\ first[1] = c
  BY <1>4
<1> HIDE DEF first
<1>6. ASSUME NEW k \in 1 .. 3 * Len(m)
      PROVE  word(k) \in Words
  <2>1. (k + 2) \div 3 \in 1 .. Len(m)
    BY <1>2
  <2> DEFINE e == m[(k + 2) \div 3]
  <2>2. e.addr \in Nat /\ e.len \in Nat /\ e.type \in Nat
    BY <2>1, <1>2
  <2> HIDE DEF e
  <2>3. <<e.addr, 0>> \in Words /\ <<e.len, 0>> \in Words /\ <<e.type, 0>> \in Words
    BY <2>2 DEF Words
  <2>4. word(k) = CASE k % 3 = 1 -> <<e.addr, 0>>
                    [] k % 3 = 2 -> <<e.len, 0>>
                    [] OTHER     -> <<e.type, 0>>
    BY DEF e
  <2> HIDE DEF word
  <2>5. QED
    BY <2>3, <2>4
<1>7. ASSUME NEW n \in 1 .. Len(m)
      PROVE  /\ word(3 * n - 2) = <<m[n].addr, 0>>
             /\ word(3 * n - 1) = <<m[n].len, 0>>
             /\ word(3 * n) = <<m[n].type, 0>>
  <2>1. /\ (3 * n - 2 + 2) \div 3 = n /\ (3 * n - 2) % 3 = 1
        /\ (3 * n - 1 + 2) \div 3 = n /\ (3 * n - 1) % 3 = 2
        /\ (3 * n + 2) \div 3 = n /\ (3 * n) % 3 = 0
    BY <1>2
  <2>2. ASSUME NEW k, (k + 2) \div 3 = n
        PROVE  /\ k % 3 = 1 => word(k) = <<m[n].addr, 0>>
               /\ k % 3 = 2 => word(k) = <<m[n].len, 0>>
               /\ k % 3 = 0 => word(k) = <<m[n].type, 0>>
    <3>1. word(k) = CASE k % 3 = 1 -> <<m[n].addr, 0>>
                      [] k % 3 = 2 -> <<m[n].len, 0>>
                      [] OTHER     -> <<m[n].type, 0>>
      BY <2>2
    <3> HIDE DEF word
    <3>2. QED
      BY <3>1
  <2> HIDE DEF word
  <2>3. word(3 * n - 2) = <<m[n].addr, 0>>
    BY <2>1, <2>2
  <2>4. word(3 * n - 1) = <<m[n].len, 0>>
    BY <2>1, <2>2
  <2>5. word(3 * n) = <<m[n].type, 0>>
    BY <2>1, <2>2
  <2>6. QED
    BY <2>3, <2>4, <2>5
<1> HIDE DEF word
<1>8. g \in [1 .. 3 * Len(m) -> Words]
  BY <1>6
<1>9. 3 * Len(m) \in Nat /\ \A k \in 1 .. 3 * Len(m) : g[k] = word(k)
  BY <1>2
<1> HIDE DEF g
<1>10. g \in Seq(Words) /\ Len(g) = 3 * Len(m)
  BY <1>8, <1>9, FunctionIsSeq
<1>11. /\ Len(w) = Len(first) + Len(g)
       /\ \A q \in 1 .. Len(first) : w[q] = first[q]
       /\ \A q \in 1 .. Len(g) : w[Len(first) + q] = g[q]
  <2>1. first \in Seq(Words) /\ g \in Seq(Words)
    BY <1>5, <1>10
  <2>2. QED
    BY <2>1, Concat
<1> HIDE DEF w
<1>12. Len(w) = 1 + 3 * Len(m) /\ w[1] = c
  BY <1>2, <1>5, <1>10, <1>11
<1>13. \A k \in 1 .. 3 * Len(m) : w[1 + k] = word(k)
  BY <1>5, <1>9, <1>10, <1>11
<1>14. ASSUME NEW n \in 1 .. Len(m)
       PROVE  /\ w[3 * n - 1] = <<m[n].addr, 0>>
              /\ w[3 * n] = <<m[n].len, 0>>
              /\ w[3 * n + 1] = <<m[n].type, 0>>
  <2>1. /\ 3 * n - 2 \in 1 .. 3 * Len(m) /\ 3 * n - 1 \in 1 .. 3 * Len(m)
        /\ 3 * n \in 1 .. 3 * Len(m)
        /\ 1 + (3 * n - 2) = 3 * n - 1 /\ 1 + (3 * n - 1) = 3 * n
        /\ 1 + 3 * n = 3 * n + 1
    BY <1>2
  <2>2. w[1 + (3 * n - 2)] = word(3 * n - 2)
    BY <2>1, <1>13
  <2>3. w[1 + (3 * n - 1)] = word(3 * n - 1)
    BY <2>1, <1>13
  <2>4. w[1 + 3 * n] = word(3 * n)
    BY <2>1, <1>13
  <2>5. QED
    BY <2>1, <2>2, <2>3, <2>4, <1>7
<1>15. QED
  BY <1>1, <1>2, <1>3, <1>12, <1>14 DEF c

(* init_memory's arguments are the loader's map.                           *)
LEMMA MapDecodes ==
  ASSUME info \in Infos, multiboot_info_buffer = Layout(info),
         NEW j \in 1 .. Len(info), NEW m \in Maps, info[j] = MmapTag(m)
  PROVE  EntriesOf(At(info, j - 1)) = m
<1> DEFINE p == At(info, j - 1)
           w == MmapTag(m).words
           L == Len(m)
<1>1. /\ L \in Nat /\ m \in Seq([addr : Nat, len : Nat, type : Nat])
      /\ Len(w) = 1 + 3 * L /\ w[1] = <<24, 0>>
      /\ \A n \in 1 .. L : /\ w[3 * n - 1] = <<m[n].addr, 0>>
                           /\ w[3 * n] = <<m[n].len, 0>>
                           /\ w[3 * n + 1] = <<m[n].type, 0>>
  BY MapWords
<1>2. /\ At(info, j) = p + 1 + Len(w)
      /\ Layout(info)[p] = <<6, 16 + 24 * L>>
      /\ \A q \in 1 .. Len(w) : Layout(info)[p + q] = w[q]
  <2>1. TagAt(info, j)
    BY WordsOfTags
  <2>2. info[j].words = w /\ info[j].type = 6 /\ info[j].size = 16 + 24 * L
    BY DEF MmapTag
  <2> HIDE DEF w
  <2>3. QED
    BY <2>1, <2>2 DEF TagAt
<1>3. /\ p \in Nat /\ p >= 2 /\ At(info, j) \in Nat
      /\ At(info, j) <= Len(multiboot_info_buffer)
      /\ Len(multiboot_info_buffer) \in Nat
  <2>1. Len(info) \in Nat
    BY TagFacts
  <2>2. j - 1 \in 0 .. Len(info) /\ j \in 0 .. Len(info) /\ Len(info) \in 0 .. Len(info)
    BY <2>1
  <2>3. QED
    BY <2>2, WordsOfTags
<1> HIDE DEF p, w
<1>4. Word(p) = <<6, 16 + 24 * L>> /\ \A q \in 1 .. Len(w) : Word(p + q) = w[q]
  <2>1. p <= Len(multiboot_info_buffer)
    BY <1>1, <1>2, <1>3
  <2>2. \A q \in 1 .. Len(w) : p + q <= Len(multiboot_info_buffer)
    BY <1>1, <1>2, <1>3
  <2>3. QED
    BY <2>1, <2>2, <1>2 DEF Word
<1>5. Word(p)[2] = 16 + 24 * L /\ Word(p + 1)[1] = 24
  <2>1. 1 \in 1 .. Len(w)
    BY <1>1
  <2>2. Word(p + 1) = <<24, 0>>
    BY <2>1, <1>1, <1>4
  <2>3. QED
    BY <2>2, <1>4
<1>6. MULTIBOOT2_MMAP_ENTRY_COUNT(p) = L
  <2>1. (16 + 24 * L - 8) \div 24 = L
    BY <1>1, SMTT(30)
  <2>2. QED
    BY <2>1, <1>5 DEF MULTIBOOT2_MMAP_ENTRY_COUNT
<1>7. ASSUME NEW n \in 1 .. L
      PROVE  [addr |-> Word(p + 3 * n - 1)[1], len |-> Word(p + 3 * n)[1],
              type |-> Word(p + 3 * n + 1)[1]] = m[n]
  <2>1. /\ 3 * n - 1 \in 1 .. Len(w) /\ 3 * n \in 1 .. Len(w) /\ 3 * n + 1 \in 1 .. Len(w)
        /\ p + (3 * n - 1) = p + 3 * n - 1 /\ p + (3 * n + 1) = p + 3 * n + 1
    <3> HIDE DEF L
    <3>1. L \in Nat /\ Len(w) = 1 + 3 * L /\ p \in Nat
      BY <1>1, <1>3
    <3>2. QED
      BY <3>1
  <2>2. Word(p + 3 * n - 1) = <<m[n].addr, 0>>
    BY <2>1, <1>1, <1>4
  <2>3. Word(p + 3 * n) = <<m[n].len, 0>>
    BY <2>1, <1>1, <1>4
  <2>4. Word(p + 3 * n + 1) = <<m[n].type, 0>>
    BY <2>1, <1>1, <1>4
  <2>5. m[n] \in [addr : Nat, len : Nat, type : Nat]
    BY <1>1, ElementOfSeq
  <2>6. /\ Word(p + 3 * n - 1)[1] = m[n].addr /\ Word(p + 3 * n)[1] = m[n].len
        /\ Word(p + 3 * n + 1)[1] = m[n].type
    BY <2>2, <2>3, <2>4
  <2>7. m[n] = [addr |-> m[n].addr, len |-> m[n].len, type |-> m[n].type]
    BY <2>5
  <2>8. QED
    BY <2>6, <2>7
<1>8. m = [n \in 1 .. L |-> m[n]]
  BY <1>1
<1>9. EntriesOf(p) = [n \in 1 .. L |-> m[n]]
  BY <1>6, <1>7 DEF EntriesOf
<1>10. QED
  BY <1>8, <1>9 DEF p
-----------------------------------------------------------------------------
(***************************************************************************)
(* The invariant.                                                          *)
(***************************************************************************)
Early == {"validate_multiboot", "init_gdt", "init_interrupt", "copy_multiboot_info"}

Walked == {"framebuffer_init", "fbcon_init", "init_memory", "halt"}

Phase == boot \in Early \cup {"parse_multiboot_info", "panic"} \cup Walked

NotStarted == Start /\ entries = <<>>

(* Memory is untouched before init_memory, which keeps its own invariant.  *)
MemoryPart ==
  /\ boot \in {"init_memory", "halt"} => MemInv
  /\ boot \notin {"init_memory", "halt", "panic"} => NotStarted
  /\ boot = "panic" => MemInv \/ NotStarted

(* The walk has been through the first k tags.                             *)
Visited(k) ==
  /\ tag = At(info, k)
  /\ \A j \in 1 .. k : info[j].type = 6 => multiboot_mmap_info = At(info, j - 1)
  /\ multiboot_framebuffer_info # NULL <=> \E j \in 1 .. k : info[j].type = 8

Copied == multiboot_info_buffer = Layout(info)

LoaderPart ==
  /\ info \in Infos
  /\ boot \in Early =>
       /\ multiboot_info_buffer = <<>> /\ tag = MULTIBOOT2_FIRST_TAG
       /\ multiboot_mmap_info = NULL /\ multiboot_framebuffer_info = NULL
  /\ boot = "parse_multiboot_info" => Copied /\ \E k \in 0 .. Len(info) : Visited(k)
  /\ boot \in Walked => Copied /\ Visited(Len(info))
  /\ boot = "panic" => \/ multiboot_info_buffer = <<>>
                       \/ Copied /\ Visited(Len(info))
  /\ boot \in {"init_memory", "halt"} => \E k \in DOMAIN info : info[k] = MmapTag(entries)

(* The tables before and after init_gdt.                                   *)
OldTables == gdtr = "initial_gdt" /\ gdt = GdtAtBoot /\ idt = <<>>

FullIdt ==
  [v \in 0 .. IDT_COUNT - 1 |-> idte(Isr[v], InterruptGate, IF v \in OwnStack THEN 1 ELSE 0)]

NewTables ==
  /\ gdtr = "gdt" /\ gdt = [GdtAtBoot EXCEPT ![5] = TssLow, ![6] = TssHigh]
  /\ tr = MAKE_SEGMENT_SELECTOR(5, 0) /\ ist1 = "top of ist1"
  /\ idt = <<>> \/ idt = FullIdt

TablePart ==
  /\ seg = Selectors
  /\ boot \in {"validate_multiboot", "init_gdt"} => OldTables
  /\ boot \notin {"validate_multiboot", "init_gdt", "panic"} => NewTables
  /\ boot = "panic" => OldTables \/ NewTables

KInv == Phase /\ MemoryPart /\ LoaderPart /\ TablePart

(* The parts stay as they are when nothing about them changes.             *)
LEMMA MemoryStays ==
  ASSUME UNCHANGED vars
  PROVE  /\ MemInv => MemInv'
         /\ NotStarted => NotStarted'
<1>1. MemInv => MemInv'
  BY StutterKeeps
<1>2. NotStarted => NotStarted'
  BY DEF NotStarted, Start, vars
<1>3. QED
  BY <1>1, <1>2

(* What speaks of the loader information only stays with it.               *)
LEMMA LoaderStays ==
  ASSUME UNCHANGED loader
  PROVE  /\ info' = info /\ (info \in Infos => info' \in Infos)
         /\ Copied => Copied'
         /\ \A k : Visited(k) => Visited(k)'
         /\ Visited(Len(info)) => Visited(Len(info))'
         /\ multiboot_info_buffer' = multiboot_info_buffer /\ tag' = tag
         /\ multiboot_mmap_info' = multiboot_mmap_info
         /\ multiboot_framebuffer_info' = multiboot_framebuffer_info
<1>1. /\ info' = info /\ multiboot_info_buffer' = multiboot_info_buffer /\ tag' = tag
      /\ multiboot_mmap_info' = multiboot_mmap_info
      /\ multiboot_framebuffer_info' = multiboot_framebuffer_info
  BY DEF loader
<1>2. Copied => Copied'
  BY <1>1 DEF Copied
<1>3. \A k : Visited(k) => Visited(k)'
  BY <1>1 DEF Visited
<1>4. Visited(Len(info)) => Visited(Len(info))'
  BY <1>1 DEF Visited
<1>5. QED
  BY <1>1, <1>2, <1>3, <1>4

(* And what speaks of the segment tables.                                  *)
LEMMA TablesStay ==
  ASSUME UNCHANGED tables
  PROVE  /\ seg' = seg /\ (OldTables => OldTables') /\ (NewTables => NewTables')
  BY DEF tables, OldTables, NewTables

(* _start leaves its own tables, and no information is copied yet.         *)
LEMMA InitHolds == Init => KInv
<1> SUFFICES ASSUME Init
             PROVE  KInv
  OBVIOUS
<1>1. boot = "validate_multiboot"
  BY DEF Init
<1>2. Phase
  BY <1>1 DEF Phase, Early
<1>3. MemoryPart
  BY <1>1 DEF Init, MemoryPart, NotStarted
<1>4. LoaderPart
  BY <1>1 DEF Init, LoaderPart, Walked
<1>5. TablePart
  BY <1>1 DEF Init, TablePart, OldTables
<1>6. QED
  BY <1>2, <1>3, <1>4, <1>5 DEF KInv

(* The magic number is checked before anything else.                       *)
LEMMA ValidateKeeps == KInv /\ validate_multiboot => KInv'
<1> SUFFICES ASSUME KInv, validate_multiboot
             PROVE  KInv'
  OBVIOUS
<1>1. /\ boot = "validate_multiboot" /\ boot' \in {"init_gdt", "panic"}
      /\ UNCHANGED vars /\ UNCHANGED loader /\ UNCHANGED tables
  BY DEF validate_multiboot, Call
<1>2. Phase'
  BY <1>1 DEF Phase, Early
<1>3. MemoryPart'
  BY <1>1, MemoryStays DEF KInv, MemoryPart
<1>4. LoaderPart'
  BY <1>1, LoaderStays DEF KInv, LoaderPart, Early, Walked
<1>5. TablePart'
  BY <1>1, TablesStay DEF KInv, TablePart
<1>6. QED
  BY <1>2, <1>3, <1>4, <1>5 DEF KInv

(* init_gdt completes the table before it loads it.                        *)
LEMMA InitGdtKeeps == KInv /\ init_gdt => KInv'
<1> SUFFICES ASSUME KInv, init_gdt
             PROVE  KInv'
  OBVIOUS
<1>1. /\ boot = "init_gdt" /\ boot' = "init_interrupt"
      /\ UNCHANGED vars /\ UNCHANGED loader
      /\ ist1' = "top of ist1" /\ gdtr' = "gdt" /\ seg' = Selectors
      /\ gdt' = [gdt EXCEPT ![5] = TssLow, ![6] = TssHigh]
      /\ tr' = MAKE_SEGMENT_SELECTOR(5, 0) /\ idt' = idt
  BY DEF init_gdt, Call, TssLow, TssHigh
<1>2. Phase'
  BY <1>1 DEF Phase, Early
<1>3. MemoryPart'
  BY <1>1, MemoryStays DEF KInv, MemoryPart
<1>4. LoaderPart'
  BY <1>1, LoaderStays DEF KInv, LoaderPart, Early, Walked
<1>5. TablePart'
  <2>1. OldTables
    BY <1>1 DEF KInv, TablePart
  <2>2. NewTables'
    BY <2>1, <1>1 DEF OldTables, NewTables
  <2>3. QED
    BY <2>2, <1>1 DEF TablePart
<1>6. QED
  BY <1>2, <1>3, <1>4, <1>5 DEF KInv

(* init_interrupt fills the IDT.                                           *)
LEMMA InitInterruptKeeps == KInv /\ init_interrupt => KInv'
<1> SUFFICES ASSUME KInv, init_interrupt
             PROVE  KInv'
  OBVIOUS
<1>1. /\ boot = "init_interrupt" /\ boot' = "copy_multiboot_info"
      /\ UNCHANGED vars /\ UNCHANGED loader
      /\ idt' = FullIdt /\ gdt' = gdt /\ gdtr' = gdtr /\ seg' = seg /\ tr' = tr
      /\ ist1' = ist1
  BY DEF init_interrupt, Call, FullIdt
<1>2. Phase'
  BY <1>1 DEF Phase, Early
<1>3. MemoryPart'
  BY <1>1, MemoryStays DEF KInv, MemoryPart
<1>4. LoaderPart'
  BY <1>1, LoaderStays DEF KInv, LoaderPart, Early, Walked
<1>5. TablePart'
  <2>1. NewTables /\ seg = Selectors
    BY <1>1 DEF KInv, TablePart
  <2>2. NewTables'
    BY <2>1, <1>1 DEF NewTables
  <2>3. QED
    BY <2>1, <2>2, <1>1 DEF TablePart
<1>6. QED
  BY <1>2, <1>3, <1>4, <1>5 DEF KInv

(* The information is copied whole, or the kernel panics.                  *)
LEMMA CopyKeeps == KInv /\ copy_multiboot_info => KInv'
<1> SUFFICES ASSUME KInv, copy_multiboot_info
             PROVE  KInv'
  OBVIOUS
<1>1. /\ boot = "copy_multiboot_info" /\ boot' \in {"parse_multiboot_info", "panic"}
      /\ multiboot_info_buffer' = (IF boot' = "panic" THEN <<>> ELSE Layout(info))
      /\ UNCHANGED vars /\ UNCHANGED tables /\ info' = info /\ tag' = tag
      /\ multiboot_mmap_info' = multiboot_mmap_info
      /\ multiboot_framebuffer_info' = multiboot_framebuffer_info
  BY DEF copy_multiboot_info, Call
<1>2. Phase'
  BY <1>1 DEF Phase, Early
<1>3. MemoryPart'
  BY <1>1, MemoryStays DEF KInv, MemoryPart
<1>4. LoaderPart'
  <2>1. /\ info \in Infos /\ tag = 2 /\ multiboot_framebuffer_info = NULL
    BY <1>1 DEF KInv, LoaderPart, Early, MULTIBOOT2_FIRST_TAG
  <2>2. ASSUME boot' = "parse_multiboot_info"
        PROVE  Copied' /\ \E k \in 0 .. Len(info') : Visited(k)'
    <3>1. Copied'
      BY <2>2, <1>1 DEF Copied
    <3>2. Visited(0)'
      <4>1. At(info, 0) = 2
        BY <2>1, WordsOfTags
      <4>2. tag' = At(info', 0)
        BY <4>1, <2>1, <1>1
      <4>3. 1 .. 0 = {}
        OBVIOUS
      <4>4. QED
        BY <4>2, <4>3, <2>1, <1>1 DEF Visited
    <3>3. 0 \in 0 .. Len(info')
      BY <2>1, <1>1, TagFacts
    <3>4. QED
      BY <3>1, <3>2, <3>3
  <2>3. boot' = "panic" => multiboot_info_buffer' = <<>>
    BY <1>1
  <2>4. QED
    BY <2>1, <2>2, <2>3, <1>1 DEF LoaderPart, Early, Walked
<1>5. TablePart'
  BY <1>1, TablesStay DEF KInv, TablePart
<1>6. QED
  BY <1>2, <1>3, <1>4, <1>5 DEF KInv

(* What the walk reads where it is: the next tag's header, or the end tag. *)
LEMMA WalkReads ==
  ASSUME info \in Infos, Copied, NEW k \in 0 .. Len(info), tag = At(info, k)
  PROVE  /\ k = Len(info) => Word(tag)[1] = 0
         /\ k # Len(info) => /\ k + 1 \in 1 .. Len(info)
                             /\ Word(tag)[1] = info[k + 1].type
                             /\ Word(tag)[1] # 0
                             /\ MULTIBOOT2_NEXT_TAG(tag) = At(info, k + 1)
<1>1. /\ Len(info) \in Nat /\ At(info, k) \in Nat
      /\ At(info, k) <= Len(multiboot_info_buffer)
      /\ Layout(info)[At(info, Len(info))] = <<0, 8>>
  BY TagFacts, WordsOfTags DEF Copied
<1>2. Word(tag) = Layout(info)[tag]
  BY <1>1 DEF Word, Copied
<1>3. ASSUME k = Len(info)
      PROVE  Word(tag)[1] = 0
  <2>1. Word(tag) = <<0, 8>>
    BY <1>1, <1>2, <1>3
  <2>2. QED
    BY <2>1
<1>4. ASSUME k # Len(info)
      PROVE  /\ k + 1 \in 1 .. Len(info) /\ Word(tag)[1] = info[k + 1].type
             /\ Word(tag)[1] # 0 /\ MULTIBOOT2_NEXT_TAG(tag) = At(info, k + 1)
  <2> DEFINE n == k + 1
  <2>1. n \in 1 .. Len(info) /\ n - 1 = k
    BY <1>1, <1>4
  <2> HIDE DEF n
  <2>2. TagAt(info, n)
    BY <2>1, WordsOfTags
  <2>3. /\ At(info, n) = tag + 1 + Len(info[n].words)
        /\ Word(tag) = <<info[n].type, info[n].size>>
    BY <2>1, <2>2, <1>2 DEF TagAt
  <2>4. Word(tag)[1] = info[n].type /\ Word(tag)[2] = info[n].size
    BY <2>3
  <2>5. /\ info[n].type \in Nat \ {0} /\ Len(info[n].words) \in Nat
        /\ (info[n].size + 7) \div 8 = 1 + Len(info[n].words)
    BY <2>1, TagFacts
  <2>6. MULTIBOOT2_NEXT_TAG(tag) = tag + (1 + Len(info[n].words))
    BY <2>4, <2>5 DEF MULTIBOOT2_NEXT_TAG
  <2>7. MULTIBOOT2_NEXT_TAG(tag) = At(info, n)
    <3> DEFINE w == Len(info[n].words)
    <3>1. /\ MULTIBOOT2_NEXT_TAG(tag) = tag + (1 + w) /\ At(info, n) = tag + 1 + w
          /\ w \in Nat /\ tag \in Nat
      <4>1. tag \in Nat
        BY <1>1
      <4>2. At(info, n) = tag + 1 + w
        BY <2>3
      <4>3. QED
        BY <4>1, <4>2, <2>5, <2>6
    <3> HIDE DEF w
    <3>2. tag + (1 + w) = tag + 1 + w
      BY <3>1
    <3>3. QED
      BY <3>1, <3>2
  <2>8. QED
    BY <2>1, <2>4, <2>5, <2>7 DEF n
<1>5. QED
  BY <1>3, <1>4

(* A step of the walk goes over one tag.                                   *)
LEMMA ParseKeeps == KInv /\ parse_multiboot_info => KInv'
<1> SUFFICES ASSUME KInv, parse_multiboot_info
             PROVE  KInv'
  OBVIOUS
<1>1. /\ boot = "parse_multiboot_info" /\ boot' = "parse_multiboot_info"
      /\ UNCHANGED vars /\ UNCHANGED tables
      /\ info' = info /\ multiboot_info_buffer' = multiboot_info_buffer
      /\ Word(tag)[1] # 0
      /\ multiboot_mmap_info' = (IF Word(tag)[1] = 6 THEN tag ELSE multiboot_mmap_info)
      /\ multiboot_framebuffer_info' = (IF Word(tag)[1] = 8 THEN tag
                                                            ELSE multiboot_framebuffer_info)
      /\ tag' = MULTIBOOT2_NEXT_TAG(tag)
  BY DEF parse_multiboot_info, Call
<1>2. Phase'
  BY <1>1 DEF Phase
<1>3. MemoryPart'
  BY <1>1, MemoryStays DEF KInv, MemoryPart
<1>4. LoaderPart'
  <2>1. info \in Infos /\ Copied
    BY <1>1 DEF KInv, LoaderPart
  <2>2. PICK k \in 0 .. Len(info) : Visited(k)
    BY <1>1 DEF KInv, LoaderPart
  <2>3. /\ tag = At(info, k)
        /\ \A j \in 1 .. k : info[j].type = 6 => multiboot_mmap_info = At(info, j - 1)
        /\ multiboot_framebuffer_info # NULL <=> \E j \in 1 .. k : info[j].type = 8
    BY <2>2 DEF Visited
  <2> DEFINE n == k + 1
  <2>4. /\ n \in 1 .. Len(info) /\ Word(tag)[1] = info[n].type
        /\ MULTIBOOT2_NEXT_TAG(tag) = At(info, n)
    BY <2>1, <2>3, <1>1, WalkReads
  <2>5. Len(info) \in Nat /\ k \in Nat
    BY <2>1, TagFacts
  <2>6. At(info, k) # 0
    BY <2>1, <2>5, WordsOfTags
  <2>7. n - 1 = k /\ \A j \in 1 .. n : j = n \/ j \in 1 .. k
    BY <2>5
  <2>8. n \in 0 .. Len(info) /\ n \in 1 .. n /\ \A j \in 1 .. k : j \in 1 .. n
    BY <2>4, <2>5
  <2> HIDE DEF n
  <2>9. ASSUME NEW j \in 1 .. n, info[j].type = 6
        PROVE  multiboot_mmap_info' = At(info, j - 1)
    <3>1. CASE j = n
      BY <3>1, <2>3, <2>4, <2>7, <2>9, <1>1
    <3>2. CASE j # n
      <4>1. j \in 1 .. k
        BY <3>2, <2>7
      <4>2. info[n].type # 6
        <5>1. DOMAIN info = 1 .. Len(info)
          BY <2>1, TagFacts
        <5>2. j \in DOMAIN info /\ n \in DOMAIN info
          BY <4>1, <5>1, <2>4, <2>5
        <5>3. PICK h \in DOMAIN info : \A q \in DOMAIN info : info[q].type = 6 <=> q = h
          BY <2>1, KmainAssumption
        <5>4. QED
          BY <5>2, <5>3, <3>2, <2>9
      <4>3. QED
        BY <4>1, <4>2, <2>3, <2>4, <2>9, <1>1
    <3>3. QED
      BY <3>1, <3>2
  <2>10. multiboot_framebuffer_info' # NULL <=> \E j \in 1 .. n : info[j].type = 8
    <3>1. CASE info[n].type = 8
      BY <3>1, <2>3, <2>4, <2>6, <2>8, <1>1 DEF NULL
    <3>2. CASE info[n].type # 8
      BY <3>2, <2>3, <2>4, <2>7, <2>8, <1>1
    <3>3. QED
      BY <3>1, <3>2
  <2>11. Visited(n)'
    BY <2>4, <2>9, <2>10, <1>1 DEF Visited
  <2>12. Copied'
    BY <2>1, <1>1 DEF Copied
  <2>13. QED
    BY <2>1, <2>8, <2>11, <2>12, <1>1 DEF LoaderPart, Early, Walked
<1>5. TablePart'
  BY <1>1, TablesStay DEF KInv, TablePart
<1>6. QED
  BY <1>2, <1>3, <1>4, <1>5 DEF KInv

(* The walk ends at the end tag, which is behind the last one.             *)
LEMMA ParseEndKeeps == KInv /\ ParseEnd => KInv'
<1> SUFFICES ASSUME KInv, ParseEnd
             PROVE  KInv'
  OBVIOUS
<1>1. /\ boot = "parse_multiboot_info" /\ boot' = "framebuffer_init"
      /\ UNCHANGED vars /\ UNCHANGED tables /\ UNCHANGED loader
      /\ Word(tag)[1] = 0
  BY DEF ParseEnd, Call
<1>2. Phase'
  BY <1>1 DEF Phase, Walked
<1>3. MemoryPart'
  BY <1>1, MemoryStays DEF KInv, MemoryPart
<1>4. LoaderPart'
  <2>1. info \in Infos /\ Copied
    BY <1>1 DEF KInv, LoaderPart
  <2>2. PICK k \in 0 .. Len(info) : Visited(k)
    BY <1>1 DEF KInv, LoaderPart
  <2>3. k = Len(info)
    BY <2>1, <2>2, <1>1, WalkReads DEF Visited
  <2>4. Visited(Len(info))'
    BY <2>2, <2>3, <1>1, LoaderStays
  <2>5. info' \in Infos /\ Copied'
    BY <2>1, <1>1, LoaderStays
  <2>6. QED
    BY <2>4, <2>5, <1>1 DEF LoaderPart, Early, Walked
<1>5. TablePart'
  BY <1>1, TablesStay DEF KInv, TablePart
<1>6. QED
  BY <1>2, <1>3, <1>4, <1>5 DEF KInv

(* The framebuffer's initialization changes nothing else.                  *)
LEMMA FramebufferKeeps == KInv /\ framebuffer_init => KInv'
<1> SUFFICES ASSUME KInv, framebuffer_init
             PROVE  KInv'
  OBVIOUS
<1>1. /\ boot = "framebuffer_init" /\ boot' = "fbcon_init"
      /\ UNCHANGED vars /\ UNCHANGED tables /\ UNCHANGED loader
  BY DEF framebuffer_init, Call
<1>2. Phase'
  BY <1>1 DEF Phase, Walked
<1>3. MemoryPart'
  BY <1>1, MemoryStays DEF KInv, MemoryPart
<1>4. LoaderPart'
  BY <1>1, LoaderStays DEF KInv, LoaderPart, Early, Walked
<1>5. TablePart'
  BY <1>1, TablesStay DEF KInv, TablePart
<1>6. QED
  BY <1>2, <1>3, <1>4, <1>5 DEF KInv

(* init_memory is called with the loader's map, and memory untouched.      *)
LEMMA FbconKeeps == KInv /\ fbcon_init => KInv'
<1> SUFFICES ASSUME KInv, fbcon_init
             PROVE  KInv'
  OBVIOUS
<1>1. /\ boot = "fbcon_init" /\ boot' = "init_memory"
      /\ UNCHANGED tables /\ UNCHANGED loader
      /\ entries' = EntriesOf(multiboot_mmap_info)
      /\ UNCHANGED <<pc, i, len, boot_begin, boot_limit, boot_tail, ram_limit,
                     mm_frames_count, unreserved, given>>
  BY DEF fbcon_init, Call
<1>2. info \in Infos /\ Copied /\ Visited(Len(info))
  BY <1>1 DEF KInv, LoaderPart, Walked
<1>3. DOMAIN info = 1 .. Len(info)
  BY <1>2, TagFacts
<1>4. PICK j \in 1 .. Len(info) : info[j].type = 6
  BY <1>2, <1>3, KmainAssumption
<1>5. PICK m \in Maps : info[j] = MmapTag(m)
  <2>1. info[j] \in {t \in UNION {{tags[k] : k \in DOMAIN tags} : tags \in Infos} : t.type = 6}
    BY <1>2, <1>3, <1>4
  <2>2. QED
    BY <2>1, KmainAssumption
<1>6. entries' = m
  <2>1. multiboot_mmap_info = At(info, j - 1)
    BY <1>2, <1>4 DEF Visited
  <2>2. EntriesOf(At(info, j - 1)) = m
    BY <1>2, <1>5, MapDecodes DEF Copied
  <2>3. QED
    BY <2>1, <2>2, <1>1
<1>7. MemInv'
  <2>1. Start
    BY <1>1 DEF KInv, MemoryPart, NotStarted
  <2>2. Start'
    BY <2>1, <1>1 DEF Start
  <2>3. (entries \in Maps)'
    BY <1>5, <1>6
  <2>4. (entries \in Maps /\ Start => MemInv)'
    BY StartKeeps, PTL
  <2>5. QED
    BY <2>2, <2>3, <2>4
<1>8. Phase'
  BY <1>1 DEF Phase, Walked
<1>9. MemoryPart'
  BY <1>1, <1>7 DEF MemoryPart
<1>10. LoaderPart'
  <2>1. /\ info' \in Infos /\ Copied' /\ Visited(Len(info))' /\ info' = info
    BY <1>1, <1>2, LoaderStays
  <2>2. \E k \in DOMAIN info' : info'[k] = MmapTag(entries')
    BY <2>1, <1>3, <1>5, <1>6
  <2>3. QED
    BY <2>1, <2>2, <1>1 DEF LoaderPart, Early, Walked
<1>11. TablePart'
  BY <1>1, TablesStay DEF KInv, TablePart
<1>12. QED
  BY <1>8, <1>9, <1>10, <1>11 DEF KInv

(* init_memory keeps its invariant, and the map it was given.              *)
LEMMA MemoryStepKeeps == KInv /\ InitMemoryStep => KInv'
<1> SUFFICES ASSUME KInv, InitMemoryStep
             PROVE  KInv'
  OBVIOUS
<1>1. /\ boot = "init_memory" /\ init_memory
      /\ boot' \in {"init_memory", "halt", "panic"}
      /\ UNCHANGED tables /\ UNCHANGED loader
  BY DEF InitMemoryStep
<1>2. MemInv
  BY <1>1 DEF KInv, MemoryPart
<1>3. MemInv'
  BY <1>1, <1>2, InitMemoryKeeps
<1>4. entries' = entries
  BY <1>1 DEF init_memory, FindLargest, init_boot_alloc, FindRamLimit, init_frames,
              unreserve_frame_region, init_kernel_mm, init_buddy_allocator, Return
<1>5. Phase'
  BY <1>1 DEF Phase, Walked
<1>6. MemoryPart'
  BY <1>1, <1>3 DEF MemoryPart
<1>7. LoaderPart'
  <2>1. info \in Infos /\ Copied /\ Visited(Len(info))
    BY <1>1 DEF KInv, LoaderPart, Walked
  <2>2. info' \in Infos /\ Copied' /\ Visited(Len(info))' /\ info' = info
    BY <2>1, <1>1, LoaderStays
  <2>3. \E k \in DOMAIN info : info[k] = MmapTag(entries)
    BY <1>1 DEF KInv, LoaderPart
  <2>4. \E k \in DOMAIN info' : info'[k] = MmapTag(entries')
    BY <2>2, <2>3, <1>4
  <2>5. QED
    BY <2>2, <2>4, <1>1 DEF LoaderPart, Early, Walked
<1>8. TablePart'
  BY <1>1, TablesStay DEF KInv, TablePart
<1>9. QED
  BY <1>5, <1>6, <1>7, <1>8 DEF KInv

(* A step that changes nothing keeps the invariant.                        *)
LEMMA HaltedKeeps == KInv /\ UNCHANGED kvars => KInv'
<1> SUFFICES ASSUME KInv, UNCHANGED kvars
             PROVE  KInv'
  OBVIOUS
<1>1. boot' = boot /\ UNCHANGED vars /\ UNCHANGED loader /\ UNCHANGED tables
  BY DEF kvars
<1>2. entries' = entries
  BY <1>1 DEF vars
<1>3. Phase'
  BY <1>1 DEF KInv, Phase
<1>4. MemoryPart'
  BY <1>1, MemoryStays DEF KInv, MemoryPart
<1>5. LoaderPart'
  <2>1. /\ info' = info /\ info' \in Infos /\ (Copied => Copied')
        /\ \A k : Visited(k) => Visited(k)'
        /\ Visited(Len(info)) => Visited(Len(info))'
        /\ multiboot_info_buffer' = multiboot_info_buffer /\ tag' = tag
        /\ multiboot_mmap_info' = multiboot_mmap_info
        /\ multiboot_framebuffer_info' = multiboot_framebuffer_info
    BY <1>1, LoaderStays DEF KInv, LoaderPart
  <2>2. QED
    BY <2>1, <1>1, <1>2 DEF KInv, LoaderPart, MULTIBOOT2_FIRST_TAG
<1>6. TablePart'
  BY <1>1, TablesStay DEF KInv, TablePart
<1>7. QED
  BY <1>3, <1>4, <1>5, <1>6 DEF KInv

(* Every step keeps the invariant.                                         *)
LEMMA StepKeeps == KInv /\ [Next]_kvars => KInv'
  BY ValidateKeeps, InitGdtKeeps, InitInterruptKeeps, CopyKeeps, ParseKeeps, ParseEndKeeps,
     FramebufferKeeps, FbconKeeps, MemoryStepKeeps, HaltedKeeps
     DEF Next, Halted

(* Every reachable state of the start satisfies the invariant.             *)
THEOREM KmainInvariant == Spec => []KInv
  BY InitHolds, StepKeeps, PTL DEF Spec
-----------------------------------------------------------------------------
(***************************************************************************)
(* What the invariant says of memory.                                      *)
(***************************************************************************)
LEMMA MemoryPhases == KInv => MemInv \/ NotStarted
  BY DEF KInv, MemoryPart

(* Before init_memory starts nothing is given to the allocator.            *)
LEMMA NothingGiven ==
  ASSUME NotStarted
  PROVE  Given = {} /\ DOMAIN given = {} /\ DOMAIN entries = {} /\ TypeOK
<1>1. given = <<>> /\ entries = <<>>
  BY DEF NotStarted, Start
<1>2. DOMAIN given = {} /\ DOMAIN entries = {}
  BY <1>1
<1>3. Given = {}
  BY <1>2 DEF Given
<1>4. TypeOK
  <2>1. given \in Seq(Nat \X Nat) /\ entries \in Seq([addr : Nat, len : Nat, type : Nat])
    BY <1>1
  <2>2. Len(entries) = 0
    BY <1>1
  <2>3. QED
    BY <2>1, <2>2 DEF NotStarted, Start, TypeOK
<1>5. QED
  BY <1>2, <1>3, <1>4

(* From the loader's call to the idle loop, init_memory never gives the    *)
(* allocator the kernel image, the frame table or memory that is not RAM.  *)
THEOREM OnlyFreeMemoryIsGiven == Spec => []OnlyFreeMemory
<1>1. KInv => OnlyFreeMemory
  <2>1. NotStarted => OnlyFreeMemory
    BY NothingGiven DEF OnlyFreeMemory
  <2>2. QED
    BY <2>1, MemoryPhases, GivesOnlyFree
<1>2. QED
  BY <1>1, KmainInvariant, PTL

(* init_memory's calls of init_buddy_allocator are the ones module Pmm     *)
(* assumes: unreserved frames of the table, each in one call only.         *)
THEOREM AllocatorCallsLegal == Spec => []CallsLegal
<1>1. KInv => CallsLegal
  <2>1. NotStarted => CallsLegal
    BY NothingGiven DEF CallsLegal
  <2>2. QED
    BY <2>1, MemoryPhases, MakesLegalCalls
<1>2. QED
  BY <1>1, KmainInvariant, PTL

(* init_frames puts the frame table in usable memory clear of the image.   *)
THEOREM FrameTableSafe == Spec => []TableSafe
<1>1. KInv => TableSafe
  <2>1. NotStarted => TableSafe
    BY DEF NotStarted, Start, TableSafe
  <2>2. QED
    BY <2>1, MemoryPhases, PlacesTableSafely
<1>2. QED
  BY <1>1, KmainInvariant, PTL

(* When init_memory returns, no usable page outside the image, what        *)
(* precedes it, and boot memory has been left out.                         *)
THEOREM NoMemoryForgotten == Spec => []NothingForgotten
<1>1. KInv => NothingForgotten
  <2>1. NotStarted => NothingForgotten
    BY DEF NotStarted, Start, NothingForgotten
  <2>2. QED
    BY <2>1, MemoryPhases, ForgetsNothing
<1>2. QED
  BY <1>1, KmainInvariant, PTL
-----------------------------------------------------------------------------
(* parse_multiboot_info never leaves the copied information, and           *)
(* init_memory is called with the map the loader passed, for every order   *)
(* and every content of the tags.                                          *)
THEOREM LoaderInfoParsed == Spec => []InfoParsed
<1>1. KInv => InfoParsed
  <2> SUFFICES ASSUME KInv
               PROVE  InfoParsed
    OBVIOUS
  <2>1. info \in Infos /\ Phase
    BY DEF KInv, LoaderPart
  <2>2. Len(info) \in Nat /\ DOMAIN info = 1 .. Len(info)
    BY <2>1, TagFacts
  <2>3. ASSUME Copied, NEW k \in 0 .. Len(info), Visited(k)
        PROVE  tag <= Len(multiboot_info_buffer)
    <3>1. /\ At(info, k) <= At(info, Len(info))
          /\ Len(Layout(info)) = At(info, Len(info))
      BY <2>1, WordsOfTags
    <3>2. tag = At(info, k) /\ multiboot_info_buffer = Layout(info)
      BY <2>3 DEF Visited, Copied
    <3>3. QED
      BY <3>1, <3>2
  <2>4. Len(info) \in 0 .. Len(info)
    BY <2>2
  <2>5. tag <= Len(multiboot_info_buffer) \/ multiboot_info_buffer = <<>>
    BY <2>1, <2>3, <2>4 DEF KInv, LoaderPart, Phase
  <2>6. ASSUME boot \in {"fbcon_init", "init_memory", "halt"}
        PROVE  /\ multiboot_framebuffer_info # NULL <=>
                     \E k \in DOMAIN info : info[k].type = 8
               /\ boot # "fbcon_init" => \E k \in DOMAIN info : info[k] = MmapTag(entries)
    <3>1. Visited(Len(info))
      BY <2>6 DEF KInv, LoaderPart, Walked
    <3>2. boot # "fbcon_init" => \E k \in DOMAIN info : info[k] = MmapTag(entries)
      BY <2>6 DEF KInv, LoaderPart
    <3>3. QED
      BY <3>1, <3>2, <2>2 DEF Visited
  <2>7. QED
    BY <2>5, <2>6 DEF InfoParsed
<1>2. QED
  BY <1>1, KmainInvariant, PTL
-----------------------------------------------------------------------------
(* At every moment of the start the loaded segments are valid, and once    *)
(* init_interrupt has filled the IDT every vector can be delivered to its  *)
(* own routine, the three that need one on a stack of their own.           *)
THEOREM VectorsDeliverable == Spec => []Deliverable
<1>1. Selectors.cs \div 8 = 1 /\ Selectors.ds \div 8 = 2
  BY DEF Selectors, MAKE_SEGMENT_SELECTOR
<1>2. ASSUME seg = Selectors, OldTables
      PROVE  Deliverable
  <2>1. Loaded = InitialGdt
    BY <1>2 DEF OldTables, Loaded
  <2>2. IsCode64(Loaded[seg.cs \div 8]) /\ IsData(Loaded[seg.ds \div 8])
    BY <2>1, <1>1, <1>2, KernelSegments
  <2>3. DOMAIN idt = {}
    BY <1>2 DEF OldTables
  <2>4. QED
    BY <2>2, <2>3 DEF Deliverable
<1>3. ASSUME seg = Selectors, NewTables
      PROVE  Deliverable
  <2>1. Loaded = [GdtAtBoot EXCEPT ![5] = TssLow, ![6] = TssHigh]
    BY <1>3 DEF NewTables, Loaded
  <2>2. DOMAIN GdtAtBoot = 0 .. 6
    BY DEF GdtAtBoot
  <2>3. /\ DOMAIN Loaded = 0 .. 6
        /\ Loaded[1] = GdtAtBoot[1] /\ Loaded[2] = GdtAtBoot[2]
        /\ Loaded[5] = TssLow /\ Loaded[6] = TssHigh
    BY <2>1, <2>2
  <2>4. IsCode64(Loaded[1]) /\ IsData(Loaded[2])
    BY <2>3, KernelSegments
  <2>5. tr \div 8 = 5 /\ ist1 = "top of ist1"
    <3>1. tr = MAKE_SEGMENT_SELECTOR(5, 0) /\ ist1 = "top of ist1"
      BY <1>3 DEF NewTables
    <3>2. MAKE_SEGMENT_SELECTOR(5, 0) \div 8 = 5
      BY DEF MAKE_SEGMENT_SELECTOR
    <3>3. QED
      BY <3>1, <3>2
  <2>6. /\ 5 + 1 \in DOMAIN Loaded /\ IsTss(Loaded[5])
        /\ SystemBase(Loaded[5], Loaded[5 + 1]) = Tss
        /\ SegmentLimit(Loaded[5]) = TssLimit
    <3>1. 5 + 1 = 6
      OBVIOUS
    <3>2. QED
      BY <3>1, <2>3, TssDescriptor
  <2>7. ASSUME NEW v \in DOMAIN idt
        PROVE  /\ idt[v].attributes \cap (0 .. 4) = {1, 2, 3} /\ 7 \in idt[v].attributes
               /\ GateOffset(idt[v]) = Isr[v]
               /\ idt[v].selector \div 8 = 1
               /\ v \in OwnStack <=> idt[v].ist = 1
    <3>1. idt = FullIdt
      <4>1. idt = <<>> \/ idt = FullIdt
        BY <1>3 DEF NewTables
      <4>2. idt # <<>>
        BY <2>7
      <4>3. QED
        BY <4>1, <4>2
    <3>2. v \in 0 .. IDT_COUNT - 1
      BY <3>1 DEF FullIdt
    <3> DEFINE s == IF v \in OwnStack THEN 1 ELSE 0
    <3>3. idt[v] = idte(Isr[v], InterruptGate, s)
      BY <3>1, <3>2 DEF FullIdt
    <3>4. Isr[v] \in SUBSET (0 .. 63)
      BY <3>2, KmainAssumption
    <3>5. GateOffset(idt[v]) = Isr[v]
      BY <3>3, <3>4, GateDecodes
    <3>6. /\ idt[v].attributes = InterruptGate /\ idt[v].ist = s
          /\ idt[v].selector = MAKE_SEGMENT_SELECTOR(1, 0)
      BY <3>3 DEF idte
    <3>7. InterruptGate \cap (0 .. 4) = {1, 2, 3} /\ 7 \in InterruptGate
      BY DEF InterruptGate
    <3>8. idt[v].selector \div 8 = 1
      BY <3>6 DEF MAKE_SEGMENT_SELECTOR
    <3>9. QED
      BY <3>5, <3>6, <3>7, <3>8
  <2>8. IsCode64(Loaded[seg.cs \div 8]) /\ IsData(Loaded[seg.ds \div 8])
    BY <2>4, <1>1, <1>3
  <2>9. QED
    BY <2>4, <2>5, <2>6, <2>7, <2>8 DEF Deliverable
<1>4. KInv => Deliverable
  BY <1>2, <1>3 DEF KInv, TablePart
<1>5. QED
  BY <1>4, KmainInvariant, PTL
=============================================================================
