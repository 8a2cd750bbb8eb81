-------------------------------- MODULE Pmm --------------------------------
(***************************************************************************)
(* The physical memory manager of mm/pmm.c: the frame table and the buddy  *)
(* allocator over it.                                                      *)
(*                                                                         *)
(* A frame is its index in mm_frames.  The fields order and flags of       *)
(* struct frame are functions of the frame (the flag bits are a set), and  *)
(* the singly linked list mm_free_region[k] is the sequence of the frames  *)
(* it chains, head first.  Every C function is executed to its end before  *)
(* another one starts: op says which one is running, and each iteration of *)
(* its loop is one step.  Interrupts during these functions are out of     *)
(* this module's scope.                                                    *)
(***************************************************************************)
EXTENDS Integers, Sequences, SequencesExt

CONSTANTS
  NFrames,     \* mm_frames_count
  MaxOrder,    \* FRAME_MAX_ORDER
  Pow2,        \* Pow2[k] is 1ULL << k
  Regions      \* page ranges <<begin, limit>> init_memory may pass on

Frames == 0 .. NFrames - 1
Orders == 0 .. MaxOrder

ASSUME SizeAssumption ==
  /\ NFrames \in Nat
  /\ MaxOrder \in Nat

ASSUME Pow2Assumption ==
  /\ Pow2 \in [Orders -> Nat]
  /\ Pow2[0] = 1
  /\ \A k \in Orders : k < MaxOrder => Pow2[k + 1] = 2 * Pow2[k]

ASSUME RegionsAssumption ==
  Regions \subseteq (0 .. NFrames) \X (0 .. NFrames)

ALLOCATED == "FRAME_ALLOCATED"
RESERVED  == "FRAME_RESERVED"
Flags     == {ALLOCATED, RESERVED}

NoOrder == -1   \* the order of a frame that never headed a block
Invalid == -1   \* INVALID_ADDRESS

VARIABLES
  order,            \* mm_frames[f].order
  flags,            \* mm_frames[f].flags
  mm_free_region,   \* mm_free_region[k], the frames on the list, head first
  op,               \* the function being executed, or "idle", or "panic"
  begin, limit,     \* arguments of init_buddy_allocator, begin advancing
  want, cur,        \* order and current_order of alloc_frames
  frame,            \* frame of merge_buddy
  ret,              \* what the last call of alloc_frames returned
  held,             \* history: blocks <<frame, order>> callers have and owe
  managed           \* history: frames given to the allocator at boot

table  == <<order, flags>>
locals == <<begin, limit, want, cur, frame>>
vars   == <<order, flags, mm_free_region, op, begin, limit, want, cur, frame,
            ret, held, managed>>

(* The frames of the block of order k whose first frame is p.              *)
Pages(p, k) == p .. (p + Pow2[k] - 1)

(* pfn ^ (1ULL << k): the block that pfn's block was or can be one half    *)
(* of a larger block with.                                                 *)
BuddyOf(pfn, k) ==
  IF (pfn \div Pow2[k]) % 2 = 0 THEN pfn + Pow2[k] ELSE pfn - Pow2[k]

TypeOK ==
  /\ order \in [Frames -> Orders \cup {NoOrder}]
  /\ flags \in [Frames -> SUBSET Flags]
  /\ mm_free_region \in [Orders -> Seq(Frames)]
  /\ op \in {"idle", "init_buddy", "alloc", "merge", "panic"}
  /\ begin \in 0 .. NFrames /\ limit \in 0 .. NFrames
  /\ want \in Orders /\ cur \in Orders
  /\ frame \in 0 .. NFrames
  /\ ret \in Frames \cup {Invalid}
  /\ held \subseteq Frames \X Orders
  /\ managed \subseteq Frames

(***************************************************************************)
(* init_frames: every frame is reserved and heads no block.                *)
(***************************************************************************)
Init ==
  /\ order = [f \in Frames |-> NoOrder]
  /\ flags = [f \in Frames |-> {RESERVED}]
  /\ mm_free_region = [k \in Orders |-> << >>]
  /\ op = "idle"
  /\ begin = 0 /\ limit = 0
  /\ want = 0 /\ cur = 0
  /\ frame = 0
  /\ ret = Invalid
  /\ held = {}
  /\ managed = {}

(* Return of the running function: its local variables are dead.           *)
Return ==
  /\ op' = "idle"
  /\ begin' = 0 /\ limit' = 0 /\ want' = 0 /\ cur' = 0 /\ frame' = 0

(* frame->next = mm_free_region[k]; mm_free_region[k] = frame;             *)
Push(lists, k, f) == [lists EXCEPT ![k] = Cons(f, @)]

unreserve_frame_region(b, l) ==
  /\ op = "idle"
  /\ flags' = [f \in Frames |->
                 IF f \in b .. l - 1 THEN flags[f] \ {RESERVED} ELSE flags[f]]
  /\ UNCHANGED <<order, mm_free_region, op, locals, ret, held, managed>>

(***************************************************************************)
(* init_buddy_allocator(begin, limit).  init_memory owes that the range    *)
(* was unreserved before and was not passed before.                        *)
(***************************************************************************)
InitBuddyCall(b, l) ==
  /\ op = "idle"
  /\ \A f \in b .. l - 1 : flags[f] = {} /\ f \notin managed
  /\ op' = "init_buddy"
  /\ begin' = b /\ limit' = l
  /\ UNCHANGED <<table, mm_free_region, want, cur, frame, ret, held, managed>>

(* Mutant: get_max_order without its alignment test.                       *)
GetMaxOrder_NoAlign(b, l, k) ==
  LET fits == {j \in Orders : b + Pow2[j] < l}
  IN  \/ k \in fits /\ \A j \in fits : j <= k
      \/ fits = {} /\ k = 0

(* get_max_order(b, l) returns k: the largest order that is aligned at b   *)
(* and ends before l, or 0 when there is none.                             *)
GetMaxOrder(b, l, k) ==
  LET fits == {j \in Orders : b % Pow2[j] = 0 /\ b + Pow2[j] < l}
  IN  \/ k \in fits /\ \A j \in fits : j <= k
      \/ fits = {} /\ k = 0

InitBuddyStep ==
  /\ op = "init_buddy" /\ begin < limit
  /\ \E k \in Orders :
       /\ GetMaxOrder(begin, limit, k)
       /\ order' = [order EXCEPT ![begin] = k]
       /\ mm_free_region' = Push(mm_free_region, k, begin)
       /\ begin' = begin + Pow2[k]
       /\ managed' = managed \cup Pages(begin, k)
  /\ UNCHANGED <<flags, op, limit, want, cur, frame, ret, held>>

InitBuddyDone ==
  /\ op = "init_buddy" /\ begin >= limit
  /\ Return
  /\ UNCHANGED <<table, mm_free_region, ret, held, managed>>

(***************************************************************************)
(* alloc_frames(k).                                                        *)
(***************************************************************************)
AllocFail(k) ==
  /\ op = "idle"
  /\ \A j \in k .. MaxOrder : mm_free_region[j] = << >>
  /\ ret' = Invalid
  /\ UNCHANGED <<table, mm_free_region, op, locals, held, managed>>

(* The first loop stops at the smallest order with a free block.           *)
AllocCall(k) ==
  /\ op = "idle"
  /\ \E c \in k .. MaxOrder :
       /\ mm_free_region[c] # << >>
       /\ \A j \in k .. c - 1 : mm_free_region[j] = << >>
       /\ cur' = c
  /\ want' = k
  /\ op' = "alloc"
  /\ UNCHANGED <<table, mm_free_region, begin, limit, frame, ret, held, managed>>

(* Mutant: divide_buddy forgets the upper half.                            *)
DivideBuddy_LosesHalf ==
  /\ op = "alloc" /\ cur # want
  /\ LET f == Head(mm_free_region[cur])
         popped == [mm_free_region EXCEPT ![cur] = Tail(@)]
     IN  /\ mm_free_region' = Push(popped, cur - 1, f)
         /\ order' = [order EXCEPT ![f] = cur - 1]
  /\ cur' = cur - 1
  /\ UNCHANGED <<flags, op, begin, limit, want, frame, ret, held, managed>>

(* divide_buddy(current_order): the upper half is pushed, then the lower.  *)
DivideBuddy ==
  /\ op = "alloc" /\ cur # want
  /\ LET f == Head(mm_free_region[cur])
         b == f + Pow2[cur - 1]
         popped == [mm_free_region EXCEPT ![cur] = Tail(@)]
     IN  /\ mm_free_region' = Push(Push(popped, cur - 1, b), cur - 1, f)
         /\ order' = [order EXCEPT ![f] = cur - 1, ![b] = cur - 1]
         /\ flags' = [flags EXCEPT ![b] = flags[f]]
  /\ cur' = cur - 1
  /\ UNCHANGED <<op, begin, limit, want, frame, ret, held, managed>>

(* Mutants: alloc_frames leaves the block on its list, and does not mark   *)
(* it.                                                                     *)
AllocTake_KeepsListed ==
  /\ op = "alloc" /\ cur = want
  /\ LET f == Head(mm_free_region[want])
     IN  /\ flags' = [flags EXCEPT ![f] = @ \cup {ALLOCATED}]
         /\ ret' = f
         /\ held' = held \cup {<<f, want>>}
  /\ Return
  /\ UNCHANGED <<order, mm_free_region, managed>>

AllocTake_NoMark ==
  /\ op = "alloc" /\ cur = want
  /\ LET f == Head(mm_free_region[want])
     IN  /\ mm_free_region' = [mm_free_region EXCEPT ![want] = Tail(@)]
         /\ ret' = f
         /\ held' = held \cup {<<f, want>>}
  /\ Return
  /\ UNCHANGED <<order, flags, managed>>

AllocTake ==
  /\ op = "alloc" /\ cur = want
  /\ LET f == Head(mm_free_region[want])
     IN  /\ mm_free_region' = [mm_free_region EXCEPT ![want] = Tail(@)]
         /\ flags' = [flags EXCEPT ![f] = @ \cup {ALLOCATED}]
         /\ ret' = f
         /\ held' = held \cup {<<f, want>>}
  /\ Return
  /\ UNCHANGED <<order, managed>>

(***************************************************************************)
(* free_frame(p) and its call of merge_buddy.  The caller owes that p is   *)
(* what alloc_frames returned to it and was not freed since.               *)
(***************************************************************************)
FreeCall(p, k) ==
  /\ op = "idle"
  /\ <<p, k>> \in held
  /\ held' = held \ {<<p, k>>}
  /\ flags' = [flags EXCEPT ![p] = @ \ {ALLOCATED}]
  /\ frame' = p
  /\ op' = "merge"
  /\ UNCHANGED <<order, mm_free_region, begin, limit, want, cur, ret, managed>>

Buddy == BuddyOf(frame, order[frame])

(* The loop condition of merge_buddy and the breaks at its head.           *)
CanMerge ==
  /\ order[frame] < MaxOrder
  /\ Buddy < NFrames
  /\ order[Buddy] = order[frame]
  /\ flags[Buddy] \cap {ALLOCATED, RESERVED} = {}

(* remove_frame_from_list(f) panics unless f is on the list of its order.  *)
OnItsList(f) == Contains(mm_free_region[order[f]], f)

(* The list without f, i being where the walk finds it.                    *)
remove_frame_from_list(f) ==
  \E i \in DOMAIN mm_free_region[order[f]] :
    /\ mm_free_region[order[f]][i] = f
    /\ \A j \in 1 .. i - 1 : mm_free_region[order[f]][j] # f
    /\ mm_free_region' = [mm_free_region EXCEPT ![order[f]] = RemoveAt(@, i)]

(* Mutants: merge_buddy forgets to raise the order, and keeps its own      *)
(* frame where the buddy is the lower one.                                 *)
MergeStep_NoRaise ==
  /\ op = "merge" /\ CanMerge
  /\ IF OnItsList(Buddy)
     THEN /\ remove_frame_from_list(Buddy)
          /\ frame' = IF Buddy < frame THEN Buddy ELSE frame
          /\ UNCHANGED op
     ELSE op' = "panic" /\ UNCHANGED <<mm_free_region, frame>>
  /\ UNCHANGED <<table, begin, limit, want, cur, ret, held, managed>>

MergeStep_KeepsFrame ==
  /\ op = "merge" /\ CanMerge
  /\ OnItsList(Buddy)
  /\ remove_frame_from_list(Buddy)
  /\ order' = [order EXCEPT ![frame] = @ + 1]
  /\ UNCHANGED <<flags, op, begin, limit, want, cur, frame, ret, held, managed>>

MergeStep ==
  /\ op = "merge" /\ CanMerge
  /\ IF OnItsList(Buddy)
     THEN LET low == IF Buddy < frame THEN Buddy ELSE frame
          IN  /\ remove_frame_from_list(Buddy)
              /\ frame' = low
              /\ order' = [order EXCEPT ![low] = @ + 1]
              /\ UNCHANGED op
     ELSE /\ op' = "panic"
          /\ UNCHANGED <<mm_free_region, frame, order>>
  /\ UNCHANGED <<flags, begin, limit, want, cur, ret, held, managed>>

MergeDone ==
  /\ op = "merge" /\ ~CanMerge
  /\ mm_free_region' = Push(mm_free_region, order[frame], frame)
  /\ Return
  /\ UNCHANGED <<table, ret, held, managed>>

(***************************************************************************)
(* The specification: callers in any order, one function at a time.        *)
(***************************************************************************)
Step ==
  \/ InitBuddyStep
  \/ InitBuddyDone
  \/ DivideBuddy
  \/ AllocTake
  \/ MergeStep
  \/ MergeDone

Next ==
  \/ \E r \in Regions : unreserve_frame_region(r[1], r[2])
  \/ \E r \in Regions : InitBuddyCall(r[1], r[2])
  \/ \E k \in Orders : AllocFail(k)
  \/ \E k \in Orders : AllocCall(k)
  \/ \E b \in held : FreeCall(b[1], b[2])
  \/ Step

Spec == Init /\ [][Next]_vars

(* The processor keeps executing the function it is in.                    *)
FairSpec == Spec /\ WF_vars(Step)

-----------------------------------------------------------------------------
(***************************************************************************)
(* What the allocator must get right.                                      *)
(***************************************************************************)
(* The blocks that a family of free lists chains.                          *)
BlocksOn(lists) == {x \in Frames \X Orders : x[1] \in ToSet(lists[x[2]])}

FreeBlocks == BlocksOn(mm_free_region)

(* The block merge_buddy is growing: off the lists, not with a caller.     *)
Merging == IF op = "merge" THEN {<<frame, order[frame]>>} ELSE {}

Blocks == FreeBlocks \cup held \cup Merging

PagesOf(S) == UNION {Pages(x[1], x[2]) : x \in S}

Disjoint(S) ==
  \A x, y \in S : x # y => Pages(x[1], x[2]) \cap Pages(y[1], y[2]) = {}

(* The panic of remove_frame_from_list is unreachable: whenever            *)
(* merge_buddy takes a buddy's order and flags as a sign that it is free,  *)
(* it is on the list of that order.  The fields of frames that are inside  *)
(* a larger block are never cleared, so this rests on where they can lie.  *)
NoPanic == op # "panic"

(* No frame is in two blocks, whether free, with a caller or being merged, *)
(* no block is both free and in use, and none is on a free list twice:     *)
(* alloc_frames never hands out memory that is in use.                     *)
NoOverlap ==
  /\ Disjoint(Blocks)
  /\ FreeBlocks \cap held = {}
  /\ Merging \cap (FreeBlocks \cup held) = {}
  /\ \A k \in Orders : IsInjective(mm_free_region[k])

(* No frame given to init_buddy_allocator is lost by dividing and merging  *)
(* and none is invented.                                                   *)
NoLeak == PagesOf(Blocks) = managed

(* A block stays as it was handed out until its caller frees it: of the    *)
(* order asked for, aligned to its size, marked allocated.  free_frame     *)
(* trusts the order field to know how much it is given back.               *)
HeldIntact ==
  \A x \in held : /\ order[x[1]] = x[2]
                  /\ x[1] % Pow2[x[2]] = 0
                  /\ ALLOCATED \in flags[x[1]]

(* The frames nobody uses: on the lists, or on their way back to them.     *)
FreePages == PagesOf(FreeBlocks \cup Merging)

Abs == INSTANCE FrameAllocator WITH free <- FreePages

(* For its callers the buddy allocator is a set of free frames: what       *)
(* alloc_frames returns is an aligned run of frames that were all free,    *)
(* free_frame gives exactly that run back, and dividing and merging are    *)
(* invisible.                                                              *)
Implements == Abs!Spec

(* alloc_frames, free_frame and init_buddy_allocator return.               *)
Returns == (op # "idle") ~> (op = "idle")

-----------------------------------------------------------------------------
(***************************************************************************)
(* The inductive invariant.                                                *)
(***************************************************************************)
(* The first frame of every block carries the block's order; blocks are    *)
(* aligned and inside the frame table.                                     *)
BlockInv ==
  \A x \in Blocks : /\ x \in Frames \X Orders
                    /\ order[x[1]] = x[2]
                    /\ x[1] % Pow2[x[2]] = 0
                    /\ x[1] + Pow2[x[2]] <= NFrames

FlagInv ==
  /\ \A x \in FreeBlocks \cup Merging : flags[x[1]] = {}
  /\ \A x \in held : flags[x[1]] = {ALLOCATED}

(* Only memory that was given to the allocator ever gets an order, so a    *)
(* frame with a stale order is still inside some block.                    *)
Covered == \A f \in Frames : order[f] # NoOrder => f \in managed

(* What holds between two iterations of the loop being executed.           *)
LoopInv ==
  /\ op = "init_buddy" =>
       \A f \in begin .. limit - 1 : flags[f] = {} /\ f \notin managed
  /\ op = "alloc" => want <= cur /\ mm_free_region[cur] # << >>
  /\ op = "merge" => frame \in Frames

(* What every step of the allocator preserves: the properties above, tied  *)
(* to the fields of struct frame that the code decides by.                 *)
IInv ==
  /\ TypeOK
  /\ BlockInv
  /\ FlagInv
  /\ NoOverlap
  /\ NoLeak
  /\ Covered
  /\ LoopInv
  /\ NoPanic
=============================================================================
