----------------------------- MODULE InitMemory -----------------------------
(***************************************************************************)
(* Bring-up of physical memory: init_memory of mm/mm.c and the boot-phase  *)
(* allocator of mm/boot.c it uses.                                         *)
(*                                                                         *)
(* init_memory walks the memory map GRUB left four times: for the largest  *)
(* usable entry, which boot memory is taken from; for the end of memory,   *)
(* which sizes the frame table; to unreserve usable frames; and to hand    *)
(* what is left of each usable entry to the buddy allocator.  One loop     *)
(* iteration is one step.  Addresses are counted in units of 16 bytes, the *)
(* size and the alignment of struct frame.                                 *)
(***************************************************************************)
EXTENDS Integers, Sequences

CONSTANTS
  PageSize,      \* PAGE_SIZE in units
  KernelStart,   \* kernel_image_phys_start()
  KernelEnd,     \* kernel_image_phys_end()
  Maps           \* the memory maps init_memory may be called with

Usable == 1   \* the multiboot2 type of available memory

Limit(e) == e.addr + e.len

IsUsable(e) == e.type = Usable

(* External: the maps considered.  GRUB puts the image inside a usable     *)
(* entry.  That entries do not overlap and usable ones start on a page is  *)
(* how maps of firmware usually look, not a promise: init_memory rounds    *)
(* only the end of an entry, so with an unaligned start it would give away *)
(* a page that is partly reserved.                                         *)
ASSUME MapsAssumption ==
  /\ PageSize \in Nat \ {0}
  /\ KernelStart \in Nat /\ KernelEnd \in Nat /\ KernelStart < KernelEnd
  /\ \A m \in Maps :
       /\ m \in Seq([addr : Nat, len : Nat, type : Nat])
       /\ \A i, j \in DOMAIN m :
            i # j => Limit(m[i]) <= m[j].addr \/ Limit(m[j]) <= m[i].addr
       /\ \A i \in DOMAIN m : IsUsable(m[i]) => m[i].addr % PageSize = 0
       /\ \E i \in DOMAIN m : /\ IsUsable(m[i])
                              /\ m[i].addr <= KernelStart
                              /\ KernelEnd <= Limit(m[i])

VARIABLES
  entries,                  \* the memory map
  pc,                       \* the part of init_memory being executed
  i,                        \* the loop index, from 1
  len,                      \* length of the largest usable entry so far
  boot_begin, boot_limit,   \* the region of boot memory
  boot_tail,                \* its first unused address
  ram_limit,                \* end of the highest usable entry so far
  mm_frames_count,          \* frames in the table
  unreserved,               \* frames whose FRAME_RESERVED bit is clear
  given                     \* ranges <<begin, limit>> passed to the allocator

vars == <<entries, pc, i, len, boot_begin, boot_limit, boot_tail, ram_limit,
          mm_frames_count, unreserved, given>>

PageUp(a) == ((a + PageSize - 1) \div PageSize) * PageSize   \* ALIGN_UP
Page(a) == a \div PageSize                             \* a >> PAGE_SHIFT

(* The local variables of init_memory, and the state it starts in.         *)
Start ==
  /\ pc = "largest" /\ i = 1
  /\ len = 0
  /\ boot_begin = 0 /\ boot_limit = 0 /\ boot_tail = 0
  /\ ram_limit = 0
  /\ mm_frames_count = 0
  /\ unreserved = {}
  /\ given = << >>

(* The loops of init_memory: one entry a step, or on to part next.         *)
InLoop(part) == pc = part /\ i <= Len(entries)

LoopEnd(part, next) ==
  /\ pc = part /\ i > Len(entries)
  /\ pc' = next
  /\ i' = 1

FindLargest ==
  /\ InLoop("largest")
  /\ LET e == entries[i]
     IN  IF e.len > len /\ IsUsable(e)
         THEN /\ len' = e.len
              /\ boot_begin' = e.addr
              /\ boot_limit' = e.addr + e.len
         ELSE UNCHANGED <<len, boot_begin, boot_limit>>
  /\ i' = i + 1
  /\ UNCHANGED <<entries, pc, boot_tail, ram_limit, mm_frames_count,
                 unreserved, given>>

(* Mutant: boot memory may be taken from where the kernel image is.        *)
BootBegin_OverKernel == boot_begin

(* Where boot memory begins: behind the kernel image if that is in it.     *)
BootBegin ==
  IF KernelStart >= boot_begin /\ KernelEnd <= boot_limit THEN PageUp(KernelEnd)
                                                           ELSE boot_begin

init_boot_alloc ==
  /\ LoopEnd("largest", IF len = 0 THEN "panic" ELSE "ram_limit")
  /\ boot_begin' = BootBegin
  /\ boot_tail' = boot_begin'
  /\ UNCHANGED <<entries, len, boot_limit, ram_limit, mm_frames_count,
                 unreserved, given>>

FindRamLimit ==
  /\ InLoop("ram_limit")
  /\ LET e == entries[i]
     IN  ram_limit' = IF Limit(e) > ram_limit /\ IsUsable(e)
                      THEN Limit(e)
                      ELSE ram_limit
  /\ i' = i + 1
  /\ UNCHANGED <<entries, pc, len, boot_begin, boot_limit, boot_tail,
                 mm_frames_count, unreserved, given>>

(* Mutant: one more unit than asked for must fit.                          *)
Fits_Strict(n) == boot_tail + n + 1 < boot_limit

(* alloc_boot_memory(n): the aligned tail, if n units end before the limit.*)
(* The tail starts on a page and so is aligned.                            *)
Fits(n) == boot_tail + n < boot_limit

init_frames ==
  /\ LoopEnd("ram_limit",
             IF ram_limit # 0 /\ Fits(Page(ram_limit)) THEN "unreserve"
                                                       ELSE "panic")
  /\ mm_frames_count' = Page(ram_limit)
  /\ boot_tail' = IF Fits(Page(ram_limit)) THEN boot_tail + Page(ram_limit)
                                           ELSE boot_tail
  /\ UNCHANGED <<entries, len, boot_begin, boot_limit, ram_limit, unreserved,
                 given>>

unreserve_frame_region ==
  /\ InLoop("unreserve")
  /\ LET e == entries[i]
     IN  unreserved' = IF IsUsable(e)
                       THEN unreserved \cup (Page(e.addr) .. Page(Limit(e)) - 1)
                       ELSE unreserved
  /\ i' = i + 1
  /\ UNCHANGED <<entries, pc, len, boot_begin, boot_limit, boot_tail,
                 ram_limit, mm_frames_count, given>>

(* init_kernel_mm does nothing.                                            *)
init_kernel_mm ==
  /\ LoopEnd("unreserve", "buddy")
  /\ UNCHANGED <<entries, len, boot_begin, boot_limit, boot_tail, ram_limit,
                 mm_frames_count, unreserved, given>>

(* Where the part of entry e that is nobody's begins: past the image, and  *)
(* past boot memory.                                                       *)
PastKernel(e) ==
  IF e.addr <= KernelStart /\ Limit(e) >= KernelEnd THEN PageUp(KernelEnd)
                                                    ELSE e.addr

(* Mutants: the tail of boot memory is rounded down, and all of the boot   *)
(* region is skipped.                                                      *)
BootEnd_RoundsDown == boot_tail
BootEnd_SkipsAll == boot_limit

BootEnd == PageUp(boot_tail)

PastBoot(e) ==
  IF PastKernel(e) <= boot_begin /\ Limit(e) >= boot_limit
  THEN BootEnd
  ELSE PastKernel(e)

(* Mutant: entries of other types are passed on too.                       *)
IsGiven_AllTypes(e) == TRUE

IsGiven(e) == IsUsable(e)

init_buddy_allocator ==
  /\ InLoop("buddy")
  /\ LET e == entries[i]
     IN  given' = IF IsGiven(e)
                  THEN Append(given, <<Page(PastBoot(e)), Page(Limit(e))>>)
                  ELSE given
  /\ i' = i + 1
  /\ UNCHANGED <<entries, pc, len, boot_begin, boot_limit, boot_tail,
                 ram_limit, mm_frames_count, unreserved>>

Return ==
  /\ LoopEnd("buddy", "done")
  /\ UNCHANGED <<entries, len, boot_begin, boot_limit, boot_tail, ram_limit,
                 mm_frames_count, unreserved, given>>

init_memory ==
  \/ FindLargest
  \/ init_boot_alloc
  \/ FindRamLimit
  \/ init_frames
  \/ unreserve_frame_region
  \/ init_kernel_mm
  \/ init_buddy_allocator
  \/ Return

-----------------------------------------------------------------------------
TypeOK ==
  /\ entries \in Seq([addr : Nat, len : Nat, type : Nat])
  /\ pc \in {"largest", "ram_limit", "unreserve", "buddy", "done", "panic"}
  /\ i \in 1 .. Len(entries) + 1
  /\ len \in Nat /\ boot_begin \in Nat /\ boot_limit \in Nat /\ boot_tail \in Nat
  /\ ram_limit \in Nat /\ mm_frames_count \in Nat
  /\ unreserved \subseteq 0 .. mm_frames_count - 1
  /\ given \in Seq(Nat \X Nat)

Frames(r) == r[1] .. r[2] - 1

Given == UNION {Frames(given[j]) : j \in DOMAIN given}

(* The addresses of a frame.                                               *)
Bytes(f) == f * PageSize .. f * PageSize + PageSize - 1

(* The allocator is never given memory that is in use: the kernel image,   *)
(* the frame table itself, or anything outside usable memory.  A partial   *)
(* page at the end of an entry must be dropped.                            *)
OnlyFreeMemory ==
  \A f \in Given : \A a \in Bytes(f) :
    /\ a \notin KernelStart .. KernelEnd - 1
    /\ a \notin boot_begin .. boot_tail - 1
    /\ \E j \in DOMAIN entries : /\ IsUsable(entries[j])
                                 /\ entries[j].addr <= a
                                 /\ a < Limit(entries[j])

(* Every call of init_buddy_allocator meets what module Pmm assumes of     *)
(* one: its frames are in the table, unreserved, and in no earlier call.   *)
CallsLegal ==
  TypeOK /\ \A j \in DOMAIN given :
    /\ Frames(given[j]) \subseteq unreserved
    /\ Frames(given[j]) \subseteq 0 .. mm_frames_count - 1
    /\ \A k \in 1 .. j - 1 : Frames(given[j]) \cap Frames(given[k]) = {}

(* The frame table is as long as it was sized, inside one usable entry and *)
(* clear of the kernel image.                                              *)
TableSafe ==
  mm_frames_count # 0 /\ pc # "panic" =>
    /\ boot_begin + mm_frames_count = boot_tail
    /\ boot_tail <= KernelStart \/ KernelEnd <= boot_begin
    /\ \E j \in DOMAIN entries : /\ IsUsable(entries[j])
                                 /\ entries[j].addr <= boot_begin
                                 /\ boot_tail <= Limit(entries[j])

(* Nothing is forgotten: when init_memory returns, every whole usable page *)
(* was given away, except those of the image and of boot memory and those  *)
(* that precede the image in its entry.                                    *)
NothingForgotten ==
  pc = "done" =>
    \A j \in DOMAIN entries : IsUsable(entries[j]) =>
      \A f \in Page(entries[j].addr) .. Page(Limit(entries[j])) - 1 :
        \/ f \in Given
        \/ f * PageSize < KernelEnd /\ KernelEnd <= Limit(entries[j])
        \/ \E a \in Bytes(f) : a \in boot_begin .. boot_tail - 1

(* The reason init_memory may have to panic: a largest usable entry has no *)
(* room for the frame table.                                               *)
NoRoom ==
  \E j \in DOMAIN entries :
    /\ IsUsable(entries[j])
    /\ \A k \in DOMAIN entries :
         IsUsable(entries[k]) => entries[k].len <= entries[j].len
    /\ PastKernel(entries[j]) + Page(ram_limit) >= Limit(entries[j])
=============================================================================
