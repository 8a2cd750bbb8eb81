------------------------------- MODULE Kmain --------------------------------
(***************************************************************************)
(* The start of the kernel: kmain of init/main.c, from the state _start of *)
(* boot/boot.S leaves, through the segment and interrupt tables (cpu/gdt.c,*)
(* cpu/idt.c, init_interrupt) and the walk over the boot loader's tags to  *)
(* init_memory, whose steps are module InitMemory's.                       *)
(*                                                                         *)
(* Each call of kmain is a step, each tag is one, and each loop iteration  *)
(* of init_memory.  Interrupts are disabled all the way.  uart_init and    *)
(* what kprintf prints are left out.                                       *)
(*                                                                         *)
(* The loader's information is a sequence of 8-byte words, each a pair of  *)
(* 32-bit halves, low half first, so a tag's header is <<type, size>>.     *)
(***************************************************************************)
EXTENDS InitMemory, Descriptors

CONSTANTS
  Infos,        \* the sequences of tags a loader may pass
  BufferSize,   \* sizeof(multiboot_info_buffer)
  IDT_COUNT,
  Tss,          \* the address of tss, as bits
  Isr           \* isr_table: the addresses of the interrupt routines, as bits

VARIABLES
  boot,                    \* the call kmain is in
  magic,                   \* whether the loader passed its magic number
  info,                    \* the tags the loader passed
  multiboot_info_buffer,   \* the copy of them
  tag,                     \* parse_multiboot_info's i, a word of the buffer
  multiboot_mmap_info, multiboot_framebuffer_info,   \* words, or NULL
  framebuffer_ready, fbcon_ready,   \* what the two initializations returned
  gdt, gdtr, seg, tr,      \* the table, and the registers loaded from it
  ist1,                    \* tss.ist1
  idt

loader == <<magic, info, multiboot_info_buffer, tag, multiboot_mmap_info,
            multiboot_framebuffer_info>>
console == <<framebuffer_ready, fbcon_ready>>
tables == <<gdt, gdtr, seg, tr, ist1, idt>>
kvars == <<vars, boot, loader, console, tables>>

NULL == 0
-----------------------------------------------------------------------------
\* External: the words a loader makes of its tags, which start on 8 bytes.  A tag
\* is its type, its size in bytes and the words behind its header.
Layout(tags) ==
  LET f[k \in 0 .. Len(tags)] ==
        IF k = 0 THEN <<>>
        ELSE f[k - 1] \o << <<tags[k].type, tags[k].size>> >> \o tags[k].words
      all == f[Len(tags)]
  IN  << <<8 * (Len(all) + 2), 0>> >> \o all \o << <<0, 8>> >>

MmapTag(m) ==
  [type  |-> 6,
   size  |-> 16 + 24 * Len(m),
   words |-> << <<24, 0>> >> \o [k \in 1 .. 3 * Len(m) |->
               LET e == m[(k + 2) \div 3]
               IN  CASE k % 3 = 1 -> <<e.addr, 0>>
                     [] k % 3 = 2 -> <<e.len, 0>>
                     [] OTHER     -> <<e.type, 0>>]]

\* External: a loader passes one memory map, and a tag's size is that of its words
\* without the padding to the next tag.
ASSUME KmainAssumption ==
  /\ BufferSize \in Nat /\ IDT_COUNT \in 19 .. 256
  /\ Tss \subseteq 0 .. 63 /\ Isr \in [0 .. IDT_COUNT - 1 -> SUBSET (0 .. 63)]
  /\ \A tags \in Infos :
       /\ tags \in Seq([type : Nat \ {0}, size : Nat, words : Seq(Nat \X Nat)])
       /\ \A k \in DOMAIN tags : (tags[k].size + 7) \div 8 = 1 + Len(tags[k].words)
  /\ \A tags \in Infos : \E k \in DOMAIN tags :
       \A j \in DOMAIN tags : tags[j].type = 6 <=> j = k
  /\ {t \in UNION {{tags[k] : k \in DOMAIN tags} : tags \in Infos} : t.type = 6}
       \subseteq {MmapTag(m) : m \in Maps}

\* Address, pitch and width, height and (of the last bytes) the type, colours.
FramebufferTag(type) ==
  [type |-> 8, size |-> 38, words |-> << <<0, 0>>, <<6, 5>>, <<5, type>>, <<0, 0>> >>]

\* The word at index k of the buffer, which was zero before the copy.
Word(k) ==
  IF k <= Len(multiboot_info_buffer) THEN multiboot_info_buffer[k] ELSE <<0, 0>>

MULTIBOOT2_FIRST_TAG == 2   \* behind total_size and reserved

MULTIBOOT2_NEXT_TAG(k) == k + (Word(k)[2] + 7) \div 8

\* Mutant: the header's two words are taken for part of the entries.
MULTIBOOT2_MMAP_ENTRY_COUNT_All(k) == (Word(k)[2] + 8) \div Word(k + 1)[1]

MULTIBOOT2_MMAP_ENTRY_COUNT(k) == (Word(k)[2] - 8) \div Word(k + 1)[1]

\* The array of struct multiboot2_mmap_entry behind the tag's header.
EntriesOf(k) ==
  [j \in 1 .. MULTIBOOT2_MMAP_ENTRY_COUNT(k) |->
     [addr |-> Word(k + 3 * j - 1)[1],
      len  |-> Word(k + 3 * j)[1],
      type |-> Word(k + 3 * j + 1)[1]]]
-----------------------------------------------------------------------------
\* initial_gdt of boot.S: 0x00af9a000000ffff and 0x00cf92000000ffff.
InitialGdt ==
  [k \in 0 .. 2 |->
     CASE k = 0 -> {}
       [] k = 1 -> (0 .. 15) \cup {41, 43, 44, 47} \cup (48 .. 51) \cup {53, 55}
       [] k = 2 -> (0 .. 15) \cup {41, 44, 47} \cup (48 .. 51) \cup {54, 55}]

Flat == 0 .. 19   \* 0xFFFFF

GdtAtBoot ==
  [k \in 0 .. 6 |->
     CASE k = 1 -> MAKE_GDTE({}, Flat, GDTE_ACCESS_KERNEL_CODE, GDTE_FLAG_CODE)
       [] k = 2 -> MAKE_GDTE({}, Flat, GDTE_ACCESS_KERNEL_DATA, GDTE_FLAG_DATA)
       [] k = 3 -> MAKE_GDTE({}, Flat, GDTE_ACCESS_USER_CODE, GDTE_FLAG_CODE)
       [] k = 4 -> MAKE_GDTE({}, Flat, GDTE_ACCESS_USER_DATA, GDTE_FLAG_DATA)
       [] OTHER -> {}]

Loaded == IF gdtr = "gdt" THEN gdt ELSE InitialGdt

TssLimit == {0, 1, 2, 5, 6}   \* sizeof(tss) - 1, which is 103

Selectors == [cs |-> MAKE_SEGMENT_SELECTOR(1, 0), ds |-> MAKE_SEGMENT_SELECTOR(2, 0)]

\* What _start leaves: its own GDT and selectors, and what the loader passed.
Init ==
  /\ Start /\ entries = <<>>
  /\ boot = "validate_multiboot"
  /\ magic \in BOOLEAN
  /\ info \in Infos /\ multiboot_info_buffer = <<>> /\ tag = MULTIBOOT2_FIRST_TAG
  /\ multiboot_mmap_info = NULL /\ multiboot_framebuffer_info = NULL
  /\ framebuffer_ready = FALSE /\ fbcon_ready = FALSE
  /\ gdt = GdtAtBoot /\ gdtr = "initial_gdt" /\ seg = Selectors
  /\ tr = 0 /\ ist1 = "unset"
  /\ idt = <<>>

Call(f, next) == boot = f /\ boot' = next

validate_multiboot ==
  /\ Call("validate_multiboot", IF magic THEN "init_gdt" ELSE "panic")
  /\ UNCHANGED <<vars, loader, console, tables>>

init_gdt ==
  /\ Call("init_gdt", "init_interrupt")
  /\ ist1' = "top of ist1"
  /\ gdt' = [gdt EXCEPT
               ![5] = MAKE_GDTE(Tss \cap (0 .. 31), TssLimit, GDTE_ACCESS_TSS, {}),
               ![6] = MAKE_SYSTEM_GDTE_HIGH(Tss)]
  /\ gdtr' = "gdt" /\ seg' = Selectors
  /\ tr' = MAKE_SEGMENT_SELECTOR(5, 0)
  /\ UNCHANGED <<vars, loader, console, idt>>

\* The vectors with a stack of their own: NMI, double fault, machine check.
OwnStack == {2, 8, 18}

InterruptGate == {1, 2, 3, 7}   \* 0x8E: present, for the kernel

\* init_idt and init_interrupt's calls of set_idt_entry.
init_interrupt ==
  /\ Call("init_interrupt", "copy_multiboot_info")
  /\ idt' = [v \in 0 .. IDT_COUNT - 1 |->
               idte(Isr[v], InterruptGate, IF v \in OwnStack THEN 1 ELSE 0)]
  /\ UNCHANGED <<vars, loader, console, gdt, gdtr, seg, tr, ist1>>

copy_multiboot_info ==
  /\ Call("copy_multiboot_info",
          IF Layout(info)[1][1] >= BufferSize THEN "panic" ELSE "parse_multiboot_info")
  /\ multiboot_info_buffer' = IF boot' = "panic" THEN <<>> ELSE Layout(info)
  /\ UNCHANGED <<vars, magic, info, tag, multiboot_mmap_info, multiboot_framebuffer_info,
                 console, tables>>

parse_multiboot_info ==
  /\ Call("parse_multiboot_info", "parse_multiboot_info")
  /\ Word(tag)[1] # 0
  /\ multiboot_mmap_info' = IF Word(tag)[1] = 6 THEN tag ELSE multiboot_mmap_info
  /\ multiboot_framebuffer_info' = IF Word(tag)[1] = 8 THEN tag
                                                       ELSE multiboot_framebuffer_info
  /\ tag' = MULTIBOOT2_NEXT_TAG(tag)
  /\ UNCHANGED <<vars, magic, info, multiboot_info_buffer, console, tables>>

ParseEnd ==
  /\ Call("parse_multiboot_info", "framebuffer_init")
  /\ Word(tag)[1] = 0
  /\ UNCHANGED <<vars, loader, console, tables>>

\* framebuffer_init and fbcon_init refuse another type than 1, and kmain goes on;
\* without a tag they read the type at NULL, which is mapped and may hold anything.
Accepts ==
  IF multiboot_framebuffer_info = NULL THEN BOOLEAN
  ELSE {Word(multiboot_framebuffer_info + 3)[2] = 1}

framebuffer_init ==
  /\ Call("framebuffer_init", "fbcon_init")
  /\ framebuffer_ready' \in Accepts
  /\ UNCHANGED <<vars, loader, fbcon_ready, tables>>

fbcon_init ==
  /\ Call("fbcon_init", "init_memory")
  /\ fbcon_ready' \in Accepts
  /\ multiboot_framebuffer_info = NULL => fbcon_ready' = framebuffer_ready
  /\ entries' = EntriesOf(multiboot_mmap_info)   \* the arguments of init_memory
  /\ UNCHANGED <<pc, i, len, boot_begin, boot_limit, boot_tail, ram_limit,
                 mm_frames_count, unreserved, given, loader, framebuffer_ready, tables>>

InitMemoryStep ==
  /\ boot = "init_memory"
  /\ init_memory
  /\ boot' = CASE pc' = "done" -> "halt" [] pc' = "panic" -> "panic" [] OTHER -> boot
  /\ UNCHANGED <<loader, console, tables>>

\* panic, and kmain's last loop, do not return.
Halted == boot \in {"halt", "panic"} /\ UNCHANGED kvars

Next ==
  \/ validate_multiboot \/ init_gdt \/ init_interrupt
  \/ copy_multiboot_info
  \/ parse_multiboot_info \/ ParseEnd
  \/ framebuffer_init \/ fbcon_init
  \/ InitMemoryStep
  \/ Halted

Spec == Init /\ [][Next]_kvars /\ WF_kvars(Next)
-----------------------------------------------------------------------------
\* Once init_interrupt is done every vector can be delivered: what the processor
\* decodes from the tables in use is a present interrupt gate to the vector's own
\* routine in 64-bit kernel code, and the vectors that need a good stack have one
\* through the task register.  The segments in use are valid in the loaded GDT at
\* all times, before and after init_gdt replaces it.
Deliverable ==
  /\ IsCode64(Loaded[seg.cs \div 8]) /\ IsData(Loaded[seg.ds \div 8])
  /\ \A v \in DOMAIN idt :
       LET g == idt[v]
           t == tr \div 8
       IN  /\ g.attributes \cap (0 .. 4) = {1, 2, 3} /\ 7 \in g.attributes
           /\ GateOffset(g) = Isr[v]
           /\ IsCode64(Loaded[g.selector \div 8])
           /\ v \in OwnStack <=> g.ist = 1
           /\ g.ist = 1 =>
                /\ t + 1 \in DOMAIN Loaded /\ IsTss(Loaded[t])
                /\ SystemBase(Loaded[t], Loaded[t + 1]) = Tss
                /\ SegmentLimit(Loaded[t]) = TssLimit
                /\ ist1 = "top of ist1"

\* The walk over the tags stays inside the copied information and finds what the
\* loader put there, in any order of tags, with any padding and whatever the bytes
\* of other tags look like: init_memory gets exactly the loader's memory map.
InfoParsed ==
  /\ tag <= Len(multiboot_info_buffer) \/ multiboot_info_buffer = <<>>
  /\ boot \in {"fbcon_init", "init_memory", "halt"} =>
       /\ multiboot_framebuffer_info # NULL <=> \E k \in DOMAIN info : info[k].type = 8
       /\ boot # "fbcon_init" => \E k \in DOMAIN info : info[k] = MmapTag(entries)

\* Booting ends: with the processor halted behind init_memory, or in a panic for
\* one of the three reasons there are.
Boots ==
  <>(\/ boot = "halt"
     \/ boot = "panic" /\ (~magic \/ NoRoom \/ Layout(info)[1][1] >= BufferSize))
=============================================================================
