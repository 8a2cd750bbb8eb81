-------------------------------- MODULE Vmm ---------------------------------
(***************************************************************************)
(* The virtual memory manager of mm/vmm.c: address spaces as page tables   *)
(* that lie in page frames.                                                *)
(*                                                                         *)
(* The tables have levels Top .. 0 (3 .. 0 in the code) of Fanout entries  *)
(* (512); a page is its index at every level.  An entry is the frame it    *)
(* points to, or NoFrame when PAGE_PRESENT is clear: nothing reads the     *)
(* rest of such an entry.  map_page's callers pass PAGE_PRESENT in attr;   *)
(* the other attributes play no part here.  Callers map user pages, below  *)
(* KernelHalf, and frames they took from alloc_frames(0).  A frame that is *)
(* no table holds anything at all: its entries are Junk.                   *)
(*                                                                         *)
(* alloc_frames is any choice from the free frames (module FrameAllocator, *)
(* which mm/pmm.c implements).  The heap is the number of further          *)
(* struct mm it can give before it needs a page; its kfree panics in the   *)
(* tree's build (module Pool, run pool_double_free) if KfreePanics.        *)
(* No handler calls these functions, so they do not overlap.               *)
(***************************************************************************)
EXTENDS Integers, Sequences, FiniteSets

CONSTANTS
  Frames,        \* the frames alloc_frames can give
  NoFrame,       \* a clear entry; INVALID_ADDRESS
  Boot,          \* the frame of initial_pml4, in the kernel image
  BootPdpt,      \* the frame of initial_pdpt, whose entries are huge pages
  Junk,          \* what an entry of a page that is no table looks like
  KernelPml4,    \* the frame kernel_mm.pml4 names
  Mms,           \* addresses kmalloc gives for a struct mm
  NoMm,          \* NULL
  Top, Fanout, KernelHalf,
  Pages,         \* the pages callers use
  PerPage,       \* struct mm that fit a heap page
  MaxLoose,      \* bound: frames callers have and have not mapped
  KfreePanics

Index  == 0 .. Fanout - 1
Levels == 0 .. Top
Tables == Frames \cup {Boot}

ASSUME VmmAssumption ==
  /\ Top \in Nat \ {0} /\ Fanout \in Nat /\ KernelHalf \in Index
  /\ Pages \subseteq [Levels -> Index]
  /\ \A v \in Pages : v[Top] < KernelHalf
  /\ Boot \notin Frames /\ BootPdpt \notin Tables
  /\ NoFrame \notin Tables \cup {BootPdpt, Junk}
  /\ Junk \notin Tables \cup {BootPdpt}
  /\ NoMm \notin Mms
  /\ KernelPml4 \in Tables
  /\ PerPage \in Nat \ {0} /\ MaxLoose \in Nat
  /\ KfreePanics \in BOOLEAN
  /\ IsFiniteSet(Frames)
  /\ NoFrame \notin [Pages -> Frames \cup {NoFrame}]   \* in Maps

VARIABLES
  mem,           \* page tables: the entries of every frame
  free,          \* frames alloc_frames has left
  room,          \* struct mm the heap has room for
  pml4,          \* mm->pml4, NoFrame for an mm that does not exist
  current_mm, cr3,
  op,            \* the function being executed, or how the kernel stopped
  mm, page, frame,   \* arguments of the function
  table, level,  \* map_page's position
  stack,         \* free_page_table's <<table, i>>, innermost first
  tlb,           \* translations <<page, frame>> the processor has cached
  heap, loose,   \* history: frames of the heap, of callers and not mapped,
  kernel,        \*   mms that map_kernel_for_user_mm was called for,
  dropped        \*   pages unmapped under the processor's feet

args  == <<mm, page, frame, table, level, stack>>
cpu   == <<current_mm, cr3, tlb, dropped>>
vars  == <<mem, free, room, pml4, cpu, op, args, heap, loose, kernel>>

ZeroPage == [i \in Index |-> NoFrame]
JunkPage == [i \in Index |-> Junk]
Stopped  == {"panic", "corrupt", "reset"}
Live     == {m \in Mms : pml4[m] # NoFrame}

TypeOK ==
  /\ mem \in [Tables -> [Index -> Frames \cup {NoFrame, BootPdpt, Junk}]]
  /\ free \subseteq Frames
  /\ room \in 0 .. PerPage * Cardinality(Frames)
  /\ pml4 \in [Mms -> Frames \cup {NoFrame}]
  /\ current_mm \in Live \cup {NoMm} /\ cr3 \in Tables
  /\ op \in {"idle", "map", "delete"} \cup Stopped
  /\ mm \in Mms \cup {NoMm} /\ page \in Pages \cup {<< >>}
  /\ frame \in Frames \cup {NoFrame} /\ table \in Frames \cup {NoFrame}
  /\ level \in Levels
  /\ stack \in Seq(Frames \X (0 .. Fanout))
  /\ tlb \subseteq Pages \X Frames
  /\ heap \subseteq Frames /\ loose \subseteq Frames
  /\ kernel \subseteq Mms /\ dropped \subseteq Pages

(* The processor runs on initial_pml4, current_mm is NULL, the heap is one *)
(* page (init_pool).                                                       *)
Init ==
  /\ mem = [t \in Tables |-> [i \in Index |->
              IF t # Boot THEN Junk
              ELSE IF i \in {0, KernelHalf} THEN BootPdpt ELSE NoFrame]]
  /\ \E p \in Frames : heap = {p} /\ free = Frames \ {p}
  /\ room = PerPage
  /\ pml4 = [m \in Mms |-> NoFrame]
  /\ current_mm = NoMm /\ cr3 = Boot /\ tlb = {} /\ dropped = {}
  /\ op = "idle"
  /\ mm = NoMm /\ page = << >> /\ frame = NoFrame /\ table = NoFrame
  /\ level = 0 /\ stack = << >>
  /\ loose = {} /\ kernel = {}

Return ==
  /\ op' = "idle"
  /\ mm' = NoMm /\ page' = << >> /\ frame' = NoFrame /\ table' = NoFrame
  /\ level' = 0 /\ stack' = << >>

(***************************************************************************)
(* The table or frame that a walk from table t for page v finds in an      *)
(* entry of level l; virt_to_phys is its end.                              *)
(***************************************************************************)
Walk(t, v, l) ==
  LET at[j \in l .. Top + 1] ==
        IF j = Top + 1 THEN t
        ELSE IF at[j + 1] \in Tables THEN mem[at[j + 1]][v[j]] ELSE NoFrame
  IN  at[l]

virt_to_phys(m, v) == Walk(pml4[m], v, 0)

(***************************************************************************)
(* Callers' own use of alloc_frames(0) and free_frame.                     *)
(***************************************************************************)
AllocData(f) ==
  /\ op = "idle"
  /\ f \in free /\ Cardinality(loose) < MaxLoose
  /\ free' = free \ {f} /\ loose' = loose \cup {f}
  /\ UNCHANGED <<mem, room, pml4, cpu, op, args, heap, kernel>>

FreeData(f) ==
  /\ op = "idle"
  /\ f \in loose
  /\ free' = free \cup {f} /\ loose' = loose \ {f}
  /\ UNCHANGED <<mem, room, pml4, cpu, op, args, heap, kernel>>

(***************************************************************************)
(* map_page(mm, frame, page, attr).                                        *)
(***************************************************************************)
MapCall(m, f, v) ==
  /\ op = "idle"
  /\ m \in Live /\ f \in loose
  /\ op' = "map" /\ mm' = m /\ frame' = f /\ page' = v
  /\ table' = pml4[m] /\ level' = Top
  /\ UNCHANGED <<mem, free, room, pml4, cpu, stack, heap, loose, kernel>>

Entry == mem[table][page[level]]

(* An entry above the last level: a missing table is allocated.  What is   *)
(* no table is used as one all the same.                                   *)
MapWalk ==
  /\ op = "map" /\ level > 0 /\ Entry # NoFrame
  /\ IF Entry \in Frames
     THEN table' = Entry /\ level' = level - 1 /\ UNCHANGED op
     ELSE op' = "corrupt" /\ UNCHANGED <<table, level>>
  /\ UNCHANGED <<mem, free, room, pml4, cpu, mm, page, frame, stack, heap,
                 loose, kernel>>

(* Mutant: the new table is not zeroed.                                    *)
MapTable_NoZero(f) ==
  /\ op = "map" /\ level > 0 /\ Entry = NoFrame
  /\ f \in free /\ free' = free \ {f}
  /\ mem' = [mem EXCEPT ![table][page[level]] = f]
  /\ table' = f /\ level' = level - 1
  /\ UNCHANGED <<room, pml4, cpu, op, mm, page, frame, stack, heap, loose,
                 kernel>>

MapTable(f) ==
  /\ op = "map" /\ level > 0 /\ Entry = NoFrame
  /\ f \in free /\ free' = free \ {f}
  /\ mem' = [mem EXCEPT ![f] = ZeroPage, ![table][page[level]] = f]
  /\ table' = f /\ level' = level - 1
  /\ UNCHANGED <<room, pml4, cpu, op, mm, page, frame, stack, heap, loose,
                 kernel>>

(* alloc_frames failed, its result is not looked at: zero_page(-1) writes  *)
(* to a non-canonical address, and the exception panics.                   *)
MapNoMemory ==
  /\ op = "map" /\ level > 0 /\ Entry = NoFrame
  /\ free = {}
  /\ op' = "panic"
  /\ UNCHANGED <<mem, free, room, pml4, cpu, args, heap, loose, kernel>>

(* Mutant: a present entry is replaced.                                    *)
MapLeaf_Replaces ==
  /\ op = "map" /\ level = 0
  /\ mem' = [mem EXCEPT ![table][page[0]] = frame]
  /\ loose' = loose \ {frame}
  /\ Return
  /\ UNCHANGED <<free, room, pml4, cpu, heap, kernel>>

MapLeaf ==
  /\ op = "map" /\ level = 0
  /\ IF Entry # NoFrame
     THEN UNCHANGED <<mem, loose>>   \* return FALSE
     ELSE /\ mem' = [mem EXCEPT ![table][page[0]] = frame]
          /\ loose' = loose \ {frame}
  /\ Return
  /\ UNCHANGED <<free, room, pml4, cpu, heap, kernel>>

(***************************************************************************)
(* unmap_page(mm, page).  The frame it returns is the caller's again, and  *)
(* the TLB is not flushed.                                                 *)
(***************************************************************************)
(* Mutant: the entry is not cleared.                                       *)
unmap_page_Keeps(m, v) ==
  /\ op = "idle"
  /\ m \in Live /\ virt_to_phys(m, v) # NoFrame
  /\ Cardinality(loose) < MaxLoose
  /\ loose' = loose \cup {virt_to_phys(m, v)}
  /\ UNCHANGED <<mem, free, room, pml4, current_mm, cr3, tlb, op, args, heap,
                 kernel, dropped>>

unmap_page(m, v) ==
  /\ op = "idle"
  /\ m \in Live
  /\ LET f == virt_to_phys(m, v)
     IN  /\ f # NoFrame
         /\ mem' = [mem EXCEPT ![Walk(pml4[m], v, 1)][v[0]] = NoFrame]
         /\ Cardinality(loose) < MaxLoose
         /\ loose' = loose \cup {f}
  /\ dropped' = IF m = current_mm THEN dropped \cup {v} ELSE dropped
  /\ UNCHANGED <<free, room, pml4, current_mm, cr3, tlb, op, args, heap,
                 kernel>>

(* Mutant: the copy starts one entry too late.                             *)
map_kernel_for_user_mm_Late(m) ==
  /\ op = "idle"
  /\ m \in Live
  /\ mem' = [mem EXCEPT ![pml4[m]] =
               [i \in Index |-> IF i > KernelHalf THEN mem[KernelPml4][i]
                                ELSE mem[pml4[m]][i]]]
  /\ kernel' = kernel \cup {m}
  /\ UNCHANGED <<free, room, pml4, cpu, op, args, heap, loose>>

map_kernel_for_user_mm(m) ==
  /\ op = "idle"
  /\ m \in Live
  /\ mem' = [mem EXCEPT ![pml4[m]] =
               [i \in Index |-> IF i >= KernelHalf THEN mem[KernelPml4][i]
                                ELSE mem[pml4[m]][i]]]
  /\ kernel' = kernel \cup {m}
  /\ UNCHANGED <<free, room, pml4, cpu, op, args, heap, loose>>

(***************************************************************************)
(* create_mm().  kmalloc takes a page when the heap is full.  When one of  *)
(* the allocations fails nothing changes: the table is given back.         *)
(***************************************************************************)
CreateWith(m, t, pages) ==
  /\ free' = free \ ({t} \cup pages)
  /\ heap' = heap \cup pages
  /\ mem' = [mem EXCEPT ![t] = ZeroPage]
  /\ pml4' = [pml4 EXCEPT ![m] = t]
  /\ UNCHANGED <<cpu, op, args, loose, kernel>>

create_mm(m, t) ==
  /\ op = "idle"
  /\ m \notin Live /\ t \in free
  /\ room > 0
  /\ CreateWith(m, t, {})
  /\ room' = room - 1

create_mm_extend(m, t, p) ==
  /\ op = "idle"
  /\ m \notin Live /\ t \in free
  /\ room = 0 /\ p \in free \ {t}
  /\ CreateWith(m, t, {p})
  /\ room' = PerPage - 1

(* Mutant: the table is not given back.                                    *)
create_mm_fail_Leaks(t) ==
  /\ op = "idle"
  /\ free = {t} /\ room = 0
  /\ free' = {}
  /\ UNCHANGED <<mem, room, pml4, cpu, op, args, heap, loose, kernel>>

create_mm_fail(t) ==
  /\ op = "idle"
  /\ free = {t} /\ room = 0
  /\ free' = (free \ {t}) \cup {t}
  /\ UNCHANGED <<mem, room, pml4, cpu, op, args, heap, loose, kernel>>

(***************************************************************************)
(* swap_mm(mm).  Its callers gave mm the kernel half, which the processor  *)
(* needs to fetch the next instruction: without it, it resets.             *)
(***************************************************************************)
KernelPart(t) == [i \in KernelHalf .. Fanout - 1 |-> mem[t][i]]

swap_mm(m) ==
  /\ op = "idle"
  /\ m \in Live /\ m \in kernel
  /\ current_mm # m
  /\ current_mm' = m
  /\ cr3' = pml4[m] /\ tlb' = {} /\ dropped' = {}
  /\ op' = IF KernelPart(pml4[m]) = KernelPart(Boot) THEN "idle" ELSE "reset"
  /\ UNCHANGED <<mem, free, room, pml4, args, heap, loose, kernel>>

(* The processor caches a translation it finds in the current tables.      *)
Cache(v) ==
  /\ op \notin Stopped /\ current_mm # NoMm
  /\ Walk(cr3, v, 0) \in Frames
  /\ tlb' = tlb \cup {<<v, Walk(cr3, v, 0)>>}
  /\ UNCHANGED <<mem, free, room, pml4, current_mm, cr3, op, args, heap, loose,
                 kernel, dropped>>

(***************************************************************************)
(* delete_mm(mm): free_page_table and kfree.  Callers do not delete the    *)
(* address space that they are in.                                         *)
(***************************************************************************)
DeleteCall(m) ==
  /\ op = "idle"
  /\ m \in Live /\ m # current_mm
  /\ op' = "delete" /\ mm' = m
  /\ stack' = <<<<pml4[m], 0>>>>
  /\ UNCHANGED <<mem, free, room, pml4, cpu, page, frame, table, level, heap,
                 loose, kernel>>

(* free_frame(f) is right for a frame that alloc_frames gave; any other    *)
(* damages the allocator.                                                  *)
free_frame(f) ==
  IF f \in Frames \ free
  THEN free' = free \cup {f} /\ UNCHANGED op
  ELSE op' = "corrupt" /\ UNCHANGED free

(* The entry that free_page_table's loop has come to.                      *)
Slot == LET t == stack[1] IN mem[t[1]][t[2]]

InLoop == op = "delete" /\ stack # << >> /\ stack[1][2] < Fanout

(* The level parameter: Top for the outermost call.                        *)
Depth == Top + 1 - Len(stack)

Advance == <<<<stack[1][1], stack[1][2] + 1>>>> \o Tail(stack)

FreeSkip ==
  /\ InLoop /\ Slot = NoFrame
  /\ stack' = Advance
  /\ UNCHANGED <<mem, free, room, pml4, cpu, op, mm, page, frame, table, level,
                 heap, loose, kernel>>

(* The entries of initial_pdpt are 1 GB pages, which the walk takes for    *)
(* tables: it frees what is not a frame of this address space.             *)
FreeDescend ==
  /\ InLoop /\ Slot # NoFrame /\ Depth > 0
  /\ IF Slot \in Frames
     THEN stack' = <<<<Slot, 0>>>> \o Advance /\ UNCHANGED op
     ELSE op' = "corrupt" /\ UNCHANGED stack
  /\ UNCHANGED <<mem, free, room, pml4, cpu, mm, page, frame, table, level, heap,
                 loose, kernel>>

FreeLeaf ==
  /\ InLoop /\ Slot # NoFrame /\ Depth = 0
  /\ free_frame(Slot)
  /\ stack' = Advance
  /\ UNCHANGED <<mem, room, pml4, cpu, mm, page, frame, table, level, heap,
                 loose, kernel>>

FreeTable ==
  /\ op = "delete" /\ stack # << >> /\ stack[1][2] = Fanout
  /\ free_frame(stack[1][1])
  /\ mem' = [mem EXCEPT ![stack[1][1]] = JunkPage]
  /\ stack' = Tail(stack)
  /\ UNCHANGED <<room, pml4, cpu, mm, page, frame, table, level, heap,
                 loose, kernel>>

(* kfree(mm).                                                              *)
DeleteDone ==
  /\ op = "delete" /\ stack = << >>
  /\ pml4' = [pml4 EXCEPT ![mm] = NoFrame]
  /\ kernel' = kernel \ {mm}
  /\ IF KfreePanics
     THEN op' = "panic" /\ UNCHANGED <<args, room>>
     ELSE Return /\ room' = room + 1
  /\ UNCHANGED <<mem, free, cpu, heap, loose>>

Step ==
  \/ MapWalk
  \/ \E f \in free : MapTable(f)
  \/ MapNoMemory
  \/ MapLeaf
  \/ FreeSkip
  \/ FreeDescend
  \/ FreeLeaf
  \/ FreeTable
  \/ DeleteDone

Next ==
  \/ \E f \in free : AllocData(f)
  \/ \E f \in loose : FreeData(f)
  \/ \E m \in Live, f \in loose, v \in Pages : MapCall(m, f, v)
  \/ \E m \in Live, v \in Pages : unmap_page(m, v)
  \/ \E m \in Live : map_kernel_for_user_mm(m)
  \/ \E m \in Mms, t \in free : create_mm(m, t)
  \/ \E m \in Mms, t, p \in free : create_mm_extend(m, t, p)
  \/ \E t \in free : create_mm_fail(t)
  \/ \E m \in Live : swap_mm(m)
  \/ \E v \in Pages : Cache(v)
  \/ \E m \in Live : DeleteCall(m)
  \/ Step

Spec == Init /\ [][Next]_vars

-----------------------------------------------------------------------------
(* The tables of m with their levels, and the frames its pages are in.     *)
TablesOf(m) ==
  LET below[l \in Levels] ==
        IF l = Top THEN {pml4[m]}
        ELSE {mem[t][i] : t \in below[l + 1], i \in Index} \cap Frames
  IN  UNION {below[l] : l \in Levels}

DataOf(m) == {virt_to_phys(m, v) : v \in Pages} \ {NoFrame}

FramesOf(m) == TablesOf(m) \cup DataOf(m)

(* Address spaces are trees that share nothing: no frame is in two of      *)
(* them or twice in one, none that is mapped or holds a table is free, the *)
(* heap's, or with a caller.  map_page and unmap_page rely on it, delete_mm *)
(* frees by it.                                                            *)
Private ==
  op \in {"idle", "map"} =>
    /\ \A m, n \in Live : m # n => FramesOf(m) \cap FramesOf(n) = {}
    /\ \A m \in Live :
         LET entries == TablesOf(m) \X Index
             to(x) == mem[x[1]][x[2]]
         IN  /\ FramesOf(m) \cap (free \cup heap \cup loose) = {}
             /\ \A x \in entries : to(x) \notin {pml4[m], Junk}
             /\ \A x, y \in entries :
                  to(x) = to(y) /\ to(x) \in Frames => x = y

(* Types, and no frame is lost, also when create_mm fails halfway: each    *)
(* one is free, the heap's, with a caller, or in an address space.         *)
NoLeak ==
  /\ TypeOK
  /\ op = "idle" =>
       Frames = free \cup heap \cup loose \cup UNION {FramesOf(m) : m \in Live}

(* A translation the processor has cached is that of the current tables,   *)
(* except for pages unmapped since CR3 was written.  map_page depends on   *)
(* this when it does not flush the TLB.                                    *)
TlbCoherent ==
  \A x \in tlb : Walk(cr3, x[1], 0) = x[2] \/ x[1] \in dropped

(* CR3 holds the table of current_mm, and the kernel's own half is mapped  *)
(* there: the kernel never runs without its code.                          *)
KernelMapped ==
  /\ op # "reset"
  /\ cr3 = IF current_mm = NoMm THEN Boot ELSE pml4[current_mm]

(* map_page writes to tables of its own address space only, and delete_mm  *)
(* frees each frame of it once and no other, unless it was given the       *)
(* kernel half.                                                            *)
DeletesOwn == op = "corrupt" => mm \in kernel /\ stack # << >>

(* The page tables implement address spaces that do not affect each other; *)
(* one is gone as soon as delete_mm is called for it.                      *)
Maps == [m \in Mms |->
           IF pml4[m] = NoFrame \/ (op \notin {"idle", "map"} /\ m = mm)
           THEN NoFrame ELSE [v \in Pages |-> virt_to_phys(m, v)]]
Abs == INSTANCE AddressSpace WITH maps <- Maps
Implements == Abs!Spec
=============================================================================
