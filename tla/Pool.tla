-------------------------------- MODULE Pool --------------------------------
(***************************************************************************)
(* The kernel heap of mm/pool.c: kmalloc and kfree over pools of one page. *)
(*                                                                         *)
(* Memory is an array of 8-byte words, and every struct is read and        *)
(* written at its word offsets, so what the code does depends on the       *)
(* layout the compiler chose: SizeofBlock is sizeof(struct block) and      *)
(* DataOffset is offsetof(struct block, data).  With the tree's x86-64     *)
(* build these are 4 and 3 words, because the one-byte array data[1] is    *)
(* padded to the alignment of the struct.                                  *)
(*                                                                         *)
(* Words are numbers below 2 * UsedBit, UsedBit standing for bit 63; a     *)
(* pointer to word a is PtrBase + a, which like every address of the       *)
(* direct map has bit 63 set.  Only kfree can take another word for a      *)
(* header, so only its block->next is followed when it is no pointer; a    *)
(* bad pointer met elsewhere would disable the step, a deadlock to TLC.    *)
(*                                                                         *)
(* kmalloc runs with interrupts off and kfree is not called from handlers  *)
(* here, so the functions do not overlap; loop iterations are steps.       *)
(***************************************************************************)
EXTENDS Integers, FiniteSets

CONSTANTS
  NPages,        \* page frames alloc_frames can give
  PageWords,     \* PAGE_SIZE in words
  SizeofBlock,   \* sizeof(struct block)
  DataOffset,    \* offsetof(struct block, data)
  Lens           \* lengths, in words, that callers ask for

SizeofPool == 3    \* len, usage, next
HeaderWords == 3   \* header, next and prev of struct block

ASSUME PoolAssumption ==
  /\ NPages \in Nat \ {0}
  /\ PageWords \in Nat /\ PageWords >= SizeofPool + SizeofBlock
  /\ SizeofBlock \in Nat /\ DataOffset \in HeaderWords .. SizeofBlock
  /\ Lens \subseteq Nat \ {0}

(* One page past the allocator's pages: somebody else's memory.            *)
Words   == 0 .. (NPages + 1) * PageWords - 1
UsedBit == 4 * Cardinality(Words)                        \* BLOCK_USED
PtrBase == 6 * Cardinality(Words)                        \* KERNEL_DIRECT_BASE
NULL    == 0

Ptr(a) == PtrBase + a
At(p) == p - PtrBase
Valid(p) == At(p) \in Words
Followable(p) == p = NULL \/ Valid(p)

IS_BLOCK_USED(h) == h >= UsedBit
GET_BLOCK_LEN(h) == h % UsedBit

UserWord == UsedBit + 1   \* what callers fill their memory with

VARIABLES
  mem,           \* the words of memory
  frames,        \* page frames alloc_frames has left
  pools, tail,   \* the globals of pool.c, as words
  op,            \* the function being executed, or how it ended for good
  pool, first,   \* kmalloc's pool and allocate's first, as words
  len,           \* the length kmalloc was asked for
  block,         \* kfree's block, a word address
  intr, saved,   \* the interrupt flag, and kmalloc's copy of it
  owed,          \* history: the interrupt flag at the last call
  failed,        \* history: that was a kmalloc that found no memory
  held           \* history: <<data address, length>> callers have and owe

calls  == <<owed, failed>>
locals == <<pool, first, len, block, saved>>
vars   == <<mem, frames, pools, tail, op, pool, first, len, block, intr, saved,
            calls, held>>

Base(p) == p * PageWords           \* first word of page p
FirstBlock(q) == q + SizeofPool    \* pool->first of the pool at word q
DataWords(h) == h[1] .. h[1] + h[2] - 1

TypeOK ==
  /\ mem \in [Words -> 0 .. 2 * UsedBit - 1]
  /\ frames \subseteq 0 .. NPages - 1
  /\ {pools, tail, pool, first} \subseteq 0 .. 2 * UsedBit - 1
  /\ op \in {"idle", "kmalloc", "free_next", "free_prev", "panic", "fault"}
  /\ len \in Lens \cup {0}
  /\ block \in Words
  /\ intr \in BOOLEAN /\ saved \in BOOLEAN
  /\ owed \in BOOLEAN /\ failed \in BOOLEAN
  /\ held \subseteq Words \X Lens

Init ==
  /\ mem = [a \in Words |-> 0]
  /\ frames = 0 .. NPages - 1
  /\ pools = NULL /\ tail = NULL
  /\ op = "idle"
  /\ pool = NULL /\ first = NULL /\ len = 0 /\ block = 0
  /\ intr \in BOOLEAN /\ saved = FALSE
  /\ owed = intr /\ failed = FALSE
  /\ held = {}

Return ==
  /\ op' = "idle"
  /\ pool' = NULL /\ first' = NULL /\ len' = 0 /\ block' = 0 /\ saved' = FALSE

(* zero_page(p), then init_single_pool: all words 0 but the two lengths.   *)
FreshPool(m, p) ==
  [a \in Words |->
     CASE a = Base(p) -> PageWords
       [] a = FirstBlock(Base(p)) -> PageWords - SizeofPool
       [] a \in (Base(p) .. Base(p) + PageWords - 1)
                 \ {Base(p), FirstBlock(Base(p))} -> 0
       [] OTHER -> m[a]]

(* init_pool, called once; p is what alloc_frames(0) returns.              *)
init_pool(p) ==
  /\ op = "idle" /\ pools = NULL
  /\ p \in frames
  /\ frames' = frames \ {p}
  /\ mem' = FreshPool(mem, p)
  /\ pools' = Ptr(Base(p)) /\ tail' = pools'
  /\ UNCHANGED <<op, locals, intr, calls, held>>

(***************************************************************************)
(* kmalloc(len).                                                           *)
(***************************************************************************)
save_and_disable_interrupts == saved' = intr /\ intr' = FALSE

(* Mutant: kmalloc returns with interrupts disabled.                       *)
restore_interrupts_Off(flags) == intr' = FALSE

restore_interrupts(flags) == intr' = flags

PoolNext(q) == At(q) + 2          \* &pool->next
AlignUp(n) == ((n + 1) \div 2) * 2   \* ALIGN_UP(len, 16), in words

KmallocCall(n) ==
  /\ op = "idle" /\ pools # NULL
  /\ op' = "kmalloc"
  /\ save_and_disable_interrupts
  /\ pool' = pools
  /\ first' = Ptr(FirstBlock(At(pools)))
  /\ len' = n
  /\ owed' = intr /\ failed' = FALSE
  /\ UNCHANGED <<mem, frames, pools, tail, block, held>>

(* The length allocate looks for.                                          *)
need == AlignUp(len)

(* Mutant: allocate does not look at BLOCK_USED.                           *)
Suits_UsedToo(b) == GET_BLOCK_LEN(mem[b]) >= need + SizeofBlock

(* The test of allocate's loop, and its test for dividing.                 *)
Suits(b) == /\ ~IS_BLOCK_USED(mem[b])
            /\ GET_BLOCK_LEN(mem[b]) >= need + SizeofBlock

TooLarge(b) == GET_BLOCK_LEN(mem[b]) - SizeofBlock > need

(* Mutant: allocate's loop is not a loop.                                  *)
NextOf_None(b) == NULL

NextOf(b) == mem[b + 1]   \* b->next

Walk ==
  /\ op = "kmalloc" /\ first # NULL /\ Valid(first)
  /\ ~Suits(At(first))
  /\ first' = NextOf(At(first))
  /\ UNCHANGED <<mem, frames, pools, tail, op, pool, len, block, intr, saved,
                 calls, held>>

(* Mutant: the block behind keeps its old prev.                            *)
divide_NoPrev(m, b, n) ==
  LET b2 == b + n + SizeofBlock
  IN  [m EXCEPT ![b2] = GET_BLOCK_LEN(m[b]) - (n + SizeofBlock),
                ![b] = n + SizeofBlock, ![b + 1] = Ptr(b2),
                ![b2 + 1] = m[b + 1], ![b2 + 2] = Ptr(b)]

(* divide(b, n): the rest of the block becomes a free block of its own.    *)
divide(m, b, n) ==
  LET b2   == b + n + SizeofBlock
      next == m[b + 1]
      cut  == [m EXCEPT ![b2] = GET_BLOCK_LEN(m[b]) - (n + SizeofBlock),
                        ![b] = n + SizeofBlock,
                        ![b + 1] = Ptr(b2),
                        ![b2 + 1] = next,
                        ![b2 + 2] = Ptr(b)]
  IN  IF next = NULL THEN cut ELSE [cut EXCEPT ![At(next) + 2] = Ptr(b2)]

(* The block is cut to size and marked, and the caller, who asked for      *)
(* len, fills what it got.                                                 *)
Take ==
  /\ op = "kmalloc" /\ first # NULL /\ Valid(first)
  /\ LET b == At(first)
         d == b + DataOffset
         m == IF TooLarge(b) THEN divide(mem, b, need) ELSE mem
     IN  /\ Suits(b)
                /\ mem' = [a \in Words |->
                      CASE a \in DataWords(<<d, len>>) -> UserWord
                        [] a = b -> UsedBit + GET_BLOCK_LEN(m[b])
                        [] OTHER -> m[a]]
         /\ held' = held \cup {<<d, len>>}
  /\ restore_interrupts(saved)
  /\ Return
  /\ UNCHANGED <<frames, pools, tail, calls>>

NextPool ==
  /\ op = "kmalloc" /\ first = NULL
  /\ mem[PoolNext(pool)] # NULL /\ Followable(mem[PoolNext(pool)])
  /\ pool' = mem[PoolNext(pool)]
  /\ first' = Ptr(FirstBlock(At(pool')))
  /\ UNCHANGED <<mem, frames, pools, tail, op, len, block, intr, saved, calls, held>>

(* extend_pool; p is what alloc_frames(0) returns.                         *)
extend_pool(p) ==
  /\ op = "kmalloc" /\ first = NULL
  /\ mem[PoolNext(pool)] = NULL
  /\ p \in frames
  /\ frames' = frames \ {p}
  /\ mem' = [FreshPool(mem, p) EXCEPT ![PoolNext(tail)] = Ptr(Base(p))]
  /\ tail' = Ptr(Base(p))
  /\ pool' = mem'[PoolNext(pool)]
  /\ first' = Ptr(FirstBlock(At(pool')))
  /\ UNCHANGED <<pools, op, len, block, intr, saved, calls, held>>

(* Out of memory: NULL is returned with interrupts still disabled.         *)
KmallocFail ==
  /\ op = "kmalloc" /\ first = NULL
  /\ mem[PoolNext(pool)] = NULL
  /\ frames = {}
  /\ failed' = TRUE /\ UNCHANGED owed
  /\ Return
  /\ UNCHANGED <<mem, frames, pools, tail, intr, held>>

(***************************************************************************)
(* kfree(addr).  The caller owes that addr came from kmalloc and was not   *)
(* freed since.                                                            *)
(***************************************************************************)
BlockOf(addr) == addr - SizeofBlock

KfreeCall(h) ==
  /\ op = "idle"
  /\ h \in held
  /\ held' = held \ {h}
  /\ owed' = intr /\ failed' = FALSE
  /\ LET b == BlockOf(h[1])
     IN  IF IS_BLOCK_USED(mem[b])
         THEN /\ mem' = [mem EXCEPT ![b] = GET_BLOCK_LEN(@)]
              /\ block' = b
              /\ op' = "free_next"
         ELSE /\ op' = "panic"   \* "Double free detected"
              /\ UNCHANGED <<mem, block>>
  /\ UNCHANGED <<frames, pools, tail, pool, first, len, intr, saved>>

(* merge(b): the block takes in the one that follows it.                   *)
merge(m, b) ==
  LET second == At(m[b + 1])
      after  == m[second + 1]
      joined == [m EXCEPT ![b] = (@ + m[second]) % (2 * UsedBit),
                          ![b + 1] = after]
  IN  IF after = NULL THEN joined ELSE [joined EXCEPT ![At(after) + 2] = Ptr(b)]

(* Mutant: kfree merges with the block behind, free or not.                *)
IsFree_NoCheck(p) == p # NULL

(* p points to a free block.                                               *)
IsFree(p) == p # NULL /\ ~IS_BLOCK_USED(mem[At(p)])

(* A block->next that is no pointer is a fault, which panics.              *)
FreeNext ==
  /\ op = "free_next"
  /\ IF Followable(mem[block + 1])
     THEN /\ mem' = IF IsFree(mem[block + 1]) THEN merge(mem, block) ELSE mem
          /\ op' = "free_prev"
     ELSE op' = "fault" /\ UNCHANGED mem
  /\ UNCHANGED <<frames, pools, tail, locals, intr, calls, held>>

(* Mutant: kfree does not merge backwards.                                 *)
PrevOf_None(b) == NULL

PrevOf(b) == mem[b + 2]   \* b->prev

FreePrev ==
  /\ op = "free_prev"
  /\ Followable(PrevOf(block))
  /\ mem' = IF IsFree(PrevOf(block)) THEN merge(mem, At(PrevOf(block))) ELSE mem
  /\ Return
  /\ UNCHANGED <<frames, pools, tail, intr, calls, held>>

Step ==
  \/ Walk
  \/ Take
  \/ NextPool
  \/ \E p \in frames : extend_pool(p)
  \/ KmallocFail
  \/ FreeNext
  \/ FreePrev

Next ==
  \/ \E p \in frames : init_pool(p)
  \/ \E n \in Lens : KmallocCall(n)
  \/ \E h \in held : KfreeCall(h)
  \/ Step

Spec == Init /\ [][Next]_vars

(* The processor keeps executing the function it is in.                    *)
FairSpec == Spec /\ WF_vars(Step)

-----------------------------------------------------------------------------
(* The pointers from start on, each found at offset k of the one before.   *)
Follow(start, k) ==
  LET f[n \in 0 .. PageWords] ==
        IF n = 0 THEN start
        ELSE IF Valid(f[n - 1]) THEN mem[At(f[n - 1]) + k] ELSE NULL
  IN  {f[n] : n \in 0 .. PageWords} \ {NULL}

PoolPages == (0 .. NPages - 1) \ frames

BlocksIn(q) == {At(p) : p \in Follow(Ptr(FirstBlock(q)), 1)}

AllBlocks == UNION {BlocksIn(Base(p)) : p \in PoolPages}

(* In every pool the blocks tile the page from its first block to its end, *)
(* next and prev agree, and every pool is on the list of pools, which tail *)
(* ends.  This is what divide, merge and extend_pool must maintain.        *)
HeapWellFormed ==
  TypeOK /\ (op = "idle" =>
    /\ {At(p) : p \in Follow(pools, 2)} = {Base(p) : p \in PoolPages}
    /\ pools # NULL => tail \in Follow(pools, 2) /\ mem[PoolNext(tail)] = NULL
    /\ \A p \in PoolPages : \A b \in BlocksIn(Base(p)) :
         LET end == b + GET_BLOCK_LEN(mem[b])
         IN  /\ b \in Words
             /\ IF mem[b + 1] = NULL
                THEN end = Base(p) + PageWords
                ELSE At(mem[b + 1]) = end /\ mem[end + 2] = Ptr(b))

(* What callers have does not overlap, no write of the allocator hits it,  *)
(* and exactly their blocks are marked used.                               *)
DataIntact ==
  /\ \A h \in held : \A a \in DataWords(h) : mem[a] = UserWord
  /\ \A g, h \in held : g # h => DataWords(g) \cap DataWords(h) = {}
  /\ op = "idle" =>
       {b \in AllBlocks : IS_BLOCK_USED(mem[b])}
         = {h[1] - DataOffset : h \in held}

(* kfree leaves no two neighbouring free blocks, so a pool whose blocks    *)
(* are all freed is one block again.                                       *)
Coalesced ==
  op = "idle" =>
    \A b \in AllBlocks :
      ~IS_BLOCK_USED(mem[b]) /\ mem[b + 1] # NULL
        => IS_BLOCK_USED(mem[At(mem[b + 1])])

(* kmalloc takes a new page only when no free block of any pool would do.  *)
ExtendsWhenFull ==
  [][frames' # frames /\ pools # NULL => \A b \in AllBlocks : ~Suits(b)]_vars

(* A caller that frees what it allocated, once, is never told of a double  *)
(* free, and no bad pointer is followed.                                   *)
NoFalseAlarm == op \notin {"panic", "fault"}

(* The SIZE in a block's header contains the size of the header: a block   *)
(* is at least as large as its own header, next and prev fields.           *)
SizeContainsHeader ==
  \A b \in AllBlocks : GET_BLOCK_LEN(mem[b]) >= HeaderWords

(* kmalloc and kfree return, with the interrupt flag as it was at the call *)
(* unless it was a kmalloc that found no memory.                           *)
Returns ==
  op \in {"kmalloc", "free_next", "free_prev"}
    ~> op = "idle" /\ (failed \/ intr = owed)
=============================================================================
