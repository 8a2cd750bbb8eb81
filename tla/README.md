# FYNAOS: a TLA+ verification project

FYNAOS is a small x86-64 kernel booted by GRUB (multiboot2). This directory
holds TLA+ models of its core, TLC configurations that check them on small
instances, and TLAPS proofs of what matters most. Paths such as `mm/pmm.c` are
relative to `src/`; `PROJECT.json` ties every definition to the lines it models
and every property to a mutant of the code that breaks it.

## The system: inventory

| component | state | operations | correct when |
|---|---|---|---|
| physical memory manager, `mm/pmm.c` | `mm_frames[]` (next, flags, order), `mm_free_region[]` | `init_frames`, `unreserve_frame_region`, `init_buddy_allocator`, `alloc_frames`, `free_frame` and the helpers `get_max_order`, `divide_buddy`, `merge_buddy`, `remove_frame_from_list` | no frame is handed out twice or lost, the panic in `remove_frame_from_list` is unreachable |
| bring-up, `mm/mm.c`; boot allocator, `mm/boot.c` | the memory map, `boot_begin`, `boot_tail`, `boot_limit` | `init_memory`, `init_boot_alloc`, `alloc_boot_memory` | the allocator gets all free memory and nothing in use |
| kernel heap, `mm/pool.c` | pools (one page each) on a list, blocks inside them on a doubly linked list, bit 63 of a header meaning used | `init_pool`, `kmalloc`, `kfree`; `allocate`, `divide`, `merge`, `extend_pool` | blocks tile the pool, live data is disjoint and untouched, free neighbours are joined |
| virtual memory, `mm/vmm.c` | page tables in frames, `kernel_mm`, `current_mm` | `map_page`, `unmap_page`, `virt_to_phys`, `create_mm`, `swap_mm`, `delete_mm`, `map_kernel_for_user_mm` | translations are what was mapped, tables belong to one address space, nothing leaks |
| interrupts, `kernel/interrupt.c`, `kernel/asm.S`, `cpu/idt.c` | `interrupt_handlers[256]`, the IDT, the interrupt flag | `init_interrupt`, `connect_interrupt`, `interrupt_service`, `exit_interrupt_service` | a handler chain is never seen half linked, the interrupt flag is restored |
| panic, `kernel/panic.c`; serial port, `drivers/uart.c` | `in_panic`, `panic_use_fbcon` | `panic`, `vpanic`, `uart_write` | panic ends in a halt even when it faults |
| formatted output, `rtl/snprintf.c`, `kernel/kprintf.c` | buffer, position, count | `vsnprintf`, `snprintf`, `kprintf` | nothing is written outside the buffer, the count is the length needed |
| console, `drivers/fbcon.c`, `drivers/framebuffer.c` | cursor, geometry, pixels | `fbcon_write`, scrolling, drawing | the cursor stays on the screen, pixels inside the framebuffer, and the screen shows the end of the text, as far as writers that interrupt each other let it |
| context switch, `kernel/context.S` | `struct context`, stacks, registers | `swap_context` | a context resumes as it was left, interrupts in between notwithstanding |
| entry, `boot/boot.S`, `init/main.c`, `cpu/gdt.c` | GDT, TSS, IDT, the copy of the multiboot tags | `init_gdt`, `init_interrupt`, `copy_multiboot_info`, `parse_multiboot_info`, `kmain` | the processor can deliver every vector, the loader's memory map is found, booting ends |

How they interact: `kmain` runs the bring-up in a fixed order and ends in a
halt loop. `init_memory` feeds the buddy allocator; the heap takes single
pages from `alloc_frames`; the virtual memory manager takes its tables from
`alloc_frames` and its `struct mm` from `kmalloc`; `connect_interrupt` takes
list nodes from `kmalloc`. All of it is called directly and on one processor.
Interrupt handlers are the only concurrency, and at this commit nothing calls
`enable_interrupts`, `init_pool`, `swap_context` or the virtual memory manager: those
interfaces exist without users, so callers are modelled as any sequence of
legal calls.

What is hard here: state that is trusted long after it was written (the
`order` and `flags` of frames inside larger blocks), long call sequences on
fragmented memory, rounding at both ends of memory-map entries, C struct
layout, registers saved in one place and restored in another, a console that
a panic may enter in the middle of a call, and running out of memory halfway
through an operation. The list, at
the line where each one bites, is under `hazards` in `PROJECT.json`.

## Modules

| module | models |
|---|---|
| `Pmm` | `mm/pmm.c`: the frame table and the buddy allocator |
| `FrameAllocator` | the abstract promise of `mm/pmm.c`: a set of free frames and runs taken from it |
| `InitMemory` | `init_memory` and the boot allocator |
| `Descriptors` | the descriptors of `cpu/gdt.c` and `cpu/idt.c`, bit by bit, and how the processor reads them |
| `Kmain` | `kmain`: segment and interrupt tables, the walk over the loader's tags, then `InitMemory` |
| `Pool` | `mm/pool.c` on word-addressed memory |
| `Vmm` | `mm/vmm.c`: page tables in frames, CR3 and the TLB |
| `AddressSpace` | the abstract promise of `mm/vmm.c`: independent maps from pages to frames |
| `Interrupt` | `kernel/interrupt.c`, `kernel/panic.c`, the control flow of `kernel/asm.S` and the wait of `drivers/uart.c`: one processor with a stack of activations |
| `Context` | `kernel/context.S` and the register saving of `kernel/asm.S`, instruction by instruction |
| `Snprintf` | `rtl/snprintf.c` and its stack buffers in `kernel/kprintf.c` |
| `Fbcon` | `drivers/fbcon.c` over `drivers/framebuffer.c` |
| `MCPmm`, `MCKmain`, `MCVmm`, `MCSnprintf` | constants for TLC |
| `PmmProofs`, `VmmProofs` | proofs about `Pmm` and `Vmm`, with their refinements |
| `KmainProofs` | proofs about `InitMemory`, and about `Kmain` and `Descriptors` over it |
| `InterruptProofs`, `ContextProofs`, `SnprintfProofs`, `FbconProofs` | proofs about the module of that name |
| `CommonLemmas` | least elements, division and sequences, for the proofs |

Composition: `Vmm` is written over the promise of `FrameAllocator` (any free
frame), which `Pmm` is proved to implement, and over the heap's promise, with
`KfreePanics` saying whether `kfree` behaves as `Pool` shows it does in the
build. `Interrupt` composes dispatch, panic and the serial port, because their
interleavings are what matters. `Kmain` extends `InitMemory`: its steps are
`kmain`'s up to the call of `init_memory`, then `InitMemory`'s, whose map is
the one parsed from the tags. What `CallsLegal` shows there is what `Pmm`
assumes of its first calls. `Fbcon` takes from `Interrupt` that a panic may
start at any statement.

**Pmm.** A frame is its index; `order` and `flags` are functions, a free list
is the sequence of the frames it chains. Calls do not overlap, so `op` names
the C function being executed and one loop iteration is one step:
`InitBuddyStep`, `DivideBuddy`, `AllocTake`, `MergeStep` and so on. Values of
`order` are never cleaned up when blocks merge, exactly as in the code.
`held` and `managed` are history variables: what callers have and what the
allocator was given. Callers owe what the interface cannot check:
`FreeCall` is only made for a block that is held, and `InitBuddyCall` only for
unreserved frames that were not given before (`InitMemory` shows that
`init_memory` keeps the latter). `Pow2` is the function 1 << k, a constant
because the prover does not know exponentiation; its assumption pins it down.

**InitMemory.** The four loops over the memory map, one entry a step, with
`boot_tail` moved by the frame table in between. Addresses are in units of 16
bytes (the size and alignment of `struct frame`), so the table takes one unit
per frame. The call of `init_buddy_allocator` is recorded in `given`.
`MapsAssumption` says which maps are considered. The image lies in a usable
entry, where GRUB loads it. That entries do not overlap and usable ones start
on a page is how firmware maps usually look, not something anyone guarantees:
`init_memory` rounds only the end of an entry down, so with an unaligned start
`mm/mm.c:107` would give away a page that is partly reserved.

**Kmain, Descriptors.** Each call `kmain` makes is a step, and so is each tag.
The loader's information is a sequence of 8-byte words, as are its padded
tags, so `MULTIBOOT2_NEXT_TAG` and the entry count work on the sizes the
loader wrote, and the contents of a tag may look like another tag. A machine
word of a descriptor is the set of its bits: masks are intersections, shifts
add. `Deliverable` decodes what the code encoded, with operators written from
the processor's formats and not from the macros. `_start` is the initial state:
its own GDT and whatever the loader passed. `Tss` and `Isr` are the addresses
of the TSS and of the interrupt routines, any sets of bits. `KmainAssumption`
says that a loader passes one memory map (`kmain` would read one at address 0
otherwise) and that the size of a tag is that of its contents without padding.
Without a framebuffer tag it does read the type at address 0, which is mapped
and may hold anything.

**Pool.** Memory is an array of 8-byte words; struct fields are offsets. This
is what lets the model see that `kfree` looks for the header at another
address than `allocate` put it. `SizeofBlock` and `DataOffset` are constants:
4 and 3 words in the tree's build, since `data[1]` is padded. A number that is
not a direct-map pointer faults when followed. `alloc_frames` is any choice
from the frames left. `intr` is the caller's interrupt flag, which `kmalloc`
saves and restores. Two variables are history: `owed` is the interrupt flag at the
last call, and `failed` says that this was a `kmalloc` that found no memory.

**Vmm.** A table is a frame whose entries are frames or `NoFrame`; `map_page`
descends one level a step, `delete_mm` frees one entry a step with the
recursion of `free_page_table` as an explicit stack. What a frame that is no
table contains is `Junk`, so reading such a frame as a table is seen, and
`zero_page` is what makes it a table. The processor may cache any translation
of the table in CR3 at any time; writing CR3 empties the cache, `unmap_page`
does not. `KernelPml4` is the frame `kernel_mm.pml4` names: `Boot` where the
comment of `init_kernel_mm` is taken at its word, an ordinary frame as built.
Callers owe: a present bit in the attributes, pages below the kernel half, no
`delete_mm` of the current address space, and no `swap_mm` to an address space
before `map_kernel_for_user_mm` was called for it.

**Interrupt.** The processor's stack is a sequence of activations; the first
one runs. An interrupt arrives only when the flag is set, an exception or NMI
at any step, also inside `connect_interrupt`, a handler and `vpanic`. A
handler is unspecified code: it connects handlers, panics, takes or declines
the interrupt. `connect_interrupt` is one step per access to shared state;
that `number` is below 256, which it does not test, is its callers' duty.
`wanted` is the flag as the thread last set it.

**Context.** Registers hold named values: what a thread put into a register
before a call is recognised afterwards. A stack is a sequence of words, `%rsp`
a position in it, and what lies beyond `%rsp` may be overwritten. The entry
code pushes in the order of `isr_common`, `struct trap_frame` names the words
by its own order and the exit code pops by a third: the model keeps the three
lists apart. The threads and handlers around the two routines are any code
that keeps to the ABI; since RFLAGS is not in `struct context`, threads of a
preemptive kernel disable interrupts around the call, and the others do not.
Vectors 2, 8 and 18 are delivered on the stack of IST 1. The model puts their
frame on the current stack, as it does for the others: the frame is the same
and `interrupt_service` panics for them, so neither stack is used again.

**Snprintf.** One item of the format per step, the format itself chosen as it
is read. The buffer lies in memory with bytes before and behind it, and starts
unset, as the stack buffers of `vkprintf` do. Numbers are converted digit by
digit. `late` holds the arguments that were passed for the items so far and
that `va_arg` has not read: a `%c` that does not fit reads none, so each later
directive is given the argument of an earlier one, or any value where the types
differ. The room a number needs is computed in `unsigned int`, as in the code.
`INT_MAX` and `LLONG_MAX` are constants: the runs scale the words to 4
and 5 bits for 32 and 64, which keeps sign extension and the smallest integer,
and the proofs hold for any. `full` is the reference: what an unlimited buffer
would hold, made from each item's own argument. Two things are left out: a NUL
given to `%c`, which would only be a character that ends the string early, and
the fault of a `%s` that is given a number.

**Fbcon.** One statement of `fbcon_write` per step, over linear memory with
rows longer than the screen is wide. A writer may be interrupted at any
statement by another one, a handler that returns or a panic that does not; the
calls form a stack. The reference is `lines`, the text wrapped at the screen's
width of which the last `fbcon_cy` lines are kept. An interruption inside an
iteration makes the text `torn`: glyphs may be drawn over each other and the
cursor may be up to two positions off; when a character finds the cursor on
the screen again the text is `healed`, and from then on what is written is
shown. `Inside` says how far a torn text reaches: into the cell behind the end
of a line and the line below the screen, and no further.

## Runs

| run | question | result |
|---|---|---|
| `pmm` | every sequence of calls on 7 frames, orders 0 to 2, with a reserved hole, an unreserved frame kept from the allocator, and a top frame without buddy | 23,560 states; `NoPanic`, `NoOverlap`, `NoLeak`, `HeldIntact`, the inductive invariant `IInv`, and the refinement `Implements` hold; calls return (`Returns`) under weak fairness |
| `kmain` | every map of up to three entries in 20 units (5 pages of 4), image in 4..6; tags in every order, with texts of 1, 8 and 9 bytes that look like tags, framebuffers of two types or none, information that is too big, and no magic number | 91,510 states; `OnlyFreeMemory`, `CallsLegal`, `TableSafe`, `NothingForgotten`, `Deliverable`, `InfoParsed` hold; `Boots` under weak fairness |
| `pool_layout` | the heap if `sizeof(struct block)` were the offset of `data`, as with a flexible array member; two pages, requests of two sizes | 42,858 states; `HeapWellFormed`, `DataIntact`, `Coalesced`, `ExtendsWhenFull` hold, no call panics (that would be a deadlock), and calls return with the caller's interrupt flag (`Returns`) under weak fairness |
| `pool_double_free` | does a legal `kfree` ever report a double free, as built | violated: the first `kfree` does |
| `pool_header` | does SIZE always contain the header, as the comment of `struct block` says | violated: `divide` leaves an 8-byte block |
| `vmm` | up to three address spaces of three-level tables in 6 frames, memory running out at every point | 18,495 states; `NoLeak`, `KernelMapped`, `DeletesOwn`, `Private`, `TlbCoherent` and the refinement `Implements` hold |
| `vmm_kernel_half` | is the kernel mapped after `swap_mm`, as built | violated: `kernel_mm.pml4` is never set |
| `interrupt` | handlers connected by the kernel and by handlers, interrupts on two vectors and an exception at every step | 529,760 states; `ChainsComplete`, `AllAsked`, `NotNested`, `FlagKept`, `OneReport` hold, and `PanicHalts` under fairness |
| `context` | three threads that switch to each other, with an interrupt and twelve exceptions with and without error code at every instruction, handlers that switch or do not | 228,002 states; `Resumed`, `FrameRight`, `Undisturbed` hold |
| `snprintf` | formats of up to three items, every kind, into buffers of 1, 4 and 8 bytes | 1,461,848 states; `Contained`, `Exact`, `TruncationShows`, `ReadsBack` hold |
| `snprintf_count` | is the result the length needed, as the comment of `print_number` says | violated: literals that do not fit are not counted |
| `fbcon` | any text on a screen of 2 by 2 cells of 2 by 2 pixels with partial cells at both edges, with up to two interruptions or colour changes | 2,377,326 states; `Inside` and `ShowsText` hold |

Bounds. For `pmm`, three orders are enough for a merge to be followed by
another merge, seven frames for two separate ranges; the proofs cover all
sizes. For `kmain` the interesting cases are ends inside a page, the
image and boot memory in the same or in different entries, and a table that
does not fit; all occur. The addresses of the TSS and of the interrupt
routines have bits in every field of a descriptor, and 19 of the 256 vectors
include those with a stack of their own. For `pool_layout`, a page
has 14 words for blocks and requests are of 2 and 6 words, which make blocks of
5 and 9, so a freed block meets free neighbours on both sides and is cut
elsewhere the next time. Every division leaves a rest of 9, 5 or 4 words: free
blocks too short for one kind of request or for both, which have to be passed
over. The second page is an extension, and makes `tail` name a
pool that is not the first. Every rest has room for its header here: what
happens when it has not cannot be seen in this run, and is the subject of
`pool_header`, with requests of 16 and 32 bytes in the layout of the build. The
tree's own callers, `create_mm` and `connect_interrupt`, ask for one size only,
16 bytes when rounded. For `vmm`, six frames hold one
three-level address space with a mapped page, the root of a second one and
their heap page, and leave room for either to run out of memory. `MaxLoose`
bounds the frames callers hold and have not mapped; frames and `struct mm` are
interchangeable, hence the symmetry sets. Three `struct mm`, two to a heap
page, make the heap take a page inside `create_mm`. For `interrupt`, three
nodes are the least with which a chain can lose one: a handler that runs in
the middle of connecting the second connects the third. `MaxTraps` bounds
exceptions: one suffices to hit the `vpanic` that a thread or handler began.
For `snprintf`, one item brings the pointer to any distance from the limit,
the second meets it there, the third continues behind the limit. In `context`,
three threads and one bit that tells a value from an older one suffice: a wrong
value is another thread's, another register's or an older one. In `fbcon`,
`MaxDepth` bounds the calls on top of each other and `MaxEvents` the
interruptions and colour changes; two interruptions of one iteration are the
least that can put the cursor below the screen. The text itself is unbounded.
`MaxDepth` is 2: at this commit nothing enables interrupts, so a panic on top of
a thread is all there is, and `FbconAssumption` has the same bound. It matters:
a thread, a handler and a panic on top of each other could draw a further line
below the screen than `Inside` allows.

Fairness. `FairSpec` of `Pmm` and `Pool` is weak fairness of the step of the
function being executed: the processor keeps executing code. Nothing is
assumed of callers. `Spec` of `Kmain` has the same fairness. `FairSpec`
of `Interrupt` adds weak fairness of `UartReady`: the transmitter drains.
`uart_write` waits for it without a timeout, so without that assumption a
panic may wait forever.

Deadlock is checked except where the system really stops: in the runs of
`Pool` as built, of `Vmm`, of `Interrupt` and of `Context`, `panic` or a fault
halts the processor, and `vsnprintf` returns in the runs of `Snprintf`.

Each module's `TypeOK` is checked as a conjunct of its first safety property
(`NoLeak`, `ChainsComplete`, `CallsLegal`, `HeapWellFormed`, `Contained`,
`Inside`), that of `Pmm` as part of `IInv`.

## Findings

* `kfree` subtracts `sizeof(struct block)` (32) from an address that
  `allocate` made by adding the offset of `data` (24). The word it reads is 0
  in fresh memory, so freeing a live block once panics with "Double free
  detected" (`mm/pool.c:116`). `delete_mm` ends in such a `kfree`.
* `divide` accepts any non-empty rest (`mm/pool.c:37`), while the comment on
  `header` says that SIZE contains the header size (`mm/pool.c:18`). Two
  16-byte and sixty-two 32-byte requests leave an 8-byte block in a real page,
  whose `next` and `prev` are written into the following page.
* `init_kernel_mm` is empty, "Uses the initial page table (in boot code)
  instead" (`mm/vmm.c:60-61`), but nothing makes `kernel_mm` name that table:
  `map_kernel_for_user_mm` copies the kernel half from physical page 0, and
  `swap_mm` to such an address space loses the kernel's own mapping.
* `vsnprintf` counts a literal character, and the `0x` of `%p`, only when it
  fits (`rtl/snprintf.c:407`, `376`), while the comment of `print_number` says
  that "'snprintf' routine must return lenght needed no matter what"
  (`rtl/snprintf.c:42`). The result can be `length - 1` for any longer output,
  which is also that of output that fits.
  The result can also be larger than the length needed: a `%c` that does not fit
  does not call `va_arg` (`rtl/snprintf.c:251-258`), so every later directive
  reads the argument before its own. `snprintf(b, 1, "%c%d", 'a', 5)` returns 3
  for a needed length of 2, and a `%s` would read its string at the character's
  code. The run stops at the literal; without its condition on `late`,
  `TruncationShows` fails at the `%c`.

What callers of `snprintf` can rely on, for every width below the largest
`unsigned int`: output that fits
is there and its length is the result (`Exact`), nothing is written elsewhere
(`Contained`), and a result below `length - 1` means that the output fits
(`TruncationShows`). A larger result says that it may not fit, and in general
not how much room it needs.

Not findings but worth knowing: `get_max_order` refuses a block that ends at
the limit, so after bring-up neighbouring buddies at the end of a range stay
unmerged until one is allocated and freed, and a large request may fail
meanwhile; `kmalloc` returns with interrupts disabled when memory runs out;
`map_page` does not notice that memory ran out; `delete_mm` of an address
space that has the kernel half frees the kernel's tables (`DeletesOwn` states
that nothing else makes it go wrong); an unknown conversion is dropped,
leaving unset bytes, when it fits exactly, and a number that does not fit
leaves the rest of the buffer unset before the terminator; a console
interrupted twice inside one iteration can hold its cursor below the screen
until a character is drawn that does not end a line (`fbcon_y` is lowered by
one line per iteration only), and what is drawn meanwhile falls behind the
framebuffer's last row; `print_number` computes the room it needs in `unsigned
int` (`rtl/snprintf.c:129`), so a width of 4294967295, which no format in the
tree has, makes it 0 and the padding is written from `limit` on (`Contained` is
false in the model, too, with 15 among the 4-bit `Widths`); after a refused framebuffer `kprintf` still draws, through an
all-zero `framebuffer_info`.

## Proofs

Every theorem holds for every value of the constants that satisfies the named
assumptions, all of which TLC evaluates in the runs. The bounds of the runs
(`MaxItems`, `MaxTraps`, the sets of threads, nodes, tags and maps) are among
those constants: a theorem holds for any of them. None of the safety properties
is inductive by itself, so each proof rests on an invariant that is. TLC
evaluates the one of `Pmm` in run `pmm`; it also found the others to hold on
small instances (`Kmain`'s on three pages only), with bounded definitions in
place of what TLC cannot enumerate: `IsSeq` of `ContextProofs`, the unbounded
`CHOOSE` of `KmainProofs`, and the placing of `VmmProofs`, which it computed from
the tables.

**PmmProofs**, for every number of frames, every `FRAME_MAX_ORDER` and every set
of regions:

* `Invariance`: `Spec => []IInv`; from it `TypeCorrect`, `MergeNeverPanics`,
  `AllocatedOnce`, `NothingLost`, `HeldUntouched`;
* `Refinement`: `Spec => Implements`, that is, `Pmm` implements
  `FrameAllocator` with free frames mapped to those on the lists or being
  merged.

Assumptions: `SizeAssumption`, `Pow2Assumption` (starts at 1 and doubles) and
`RegionsAssumption` (ranges lie in the table). `IInv`
ties the blocks (listed, held, or being merged) to the fields the code decides
by: `BlockInv` (the first frame carries the order, blocks are aligned and in
the table), `FlagInv`, `Covered` (a frame with an order is managed, hence
inside some block) and `LoopInv` (what holds between iterations). Every action
is first turned into an update of the set of blocks (`PushBlocks`,
`ShrinkBlocks`, `PopBlocks`); that splitting and joining keep blocks disjoint
and lose nothing is `Regroup` with `Halves`. The heart is `BuddyIsFree`: if the
buddy's order matches and its flags are clear, it is inside some block; if that
block is no larger than ours, alignment (`Nesting`) makes it start at the buddy,
so it is the free block expected; if it is larger, it contains our parent and
so our own block, contradicting disjointness. The lemmas before it are the arithmetic of
aligned blocks (powers of two divide each other, by a least counterexample in
place of induction) and of the sequences that stand for lists. For the
refinement, `IInv` gives free frames = managed frames minus held ones, so only
steps that change `held` or `managed` are visible.

**VmmProofs**, for every number of levels, entries, frames, pages, address
spaces and `struct mm` per heap page, whether `kfree` panics or not:

* `Invariance`: `Spec => []IInv`; from it `DeletesOnlyOwn`,
  `TlbIsCoherent`, `SpacesArePrivate` and `NothingLeaks`;
* `TablesImplementSpaces`: `Spec => Implements`, that is, `Vmm` implements
  `AddressSpace`, an address space being mapped to what `virt_to_phys` returns
  for each page.

Assumptions: `VmmAssumption`, and in every theorem `KernelPml4 = Boot`, the
value of the run `vmm` and what the comment of `init_kernel_mm` says. The code
does not make it so: as built, the first `swap_mm` to a new address space ends
the kernel (`vmm_kernel_half`). The theorems are about tables and frames, for a
kernel that gets further than that. `KernelMapped` is a part of `IInv` but not
among the theorems: under that assumption it says little more than the
assumption itself, and as built it is false.
That there are finitely many frames is needed
to count the heap's room.

The properties speak of what is found by following entries from a root, level
after level, which no single step of the code establishes. `IInv` has the same
knowledge at every frame: a *placing* gives each frame its owner, its level and
the entry that points to it. `Downwards` says that entries of tables point to
frames placed below them, `Upwards` that a placed frame is what its entry
points to; since a frame has one place, tables are trees and disjoint.
`map_page` in the middle of its descent is `Mapping`: the table it holds is
where the walk to its page leads. `free_page_table` frees from the leaves
upwards and does not clear entries, so entries it has passed (`PassedBy`) point
to freed frames: both directions leave them out, except for the tables on its
stack, which are freed later (`OnStack`), and `Deleting` says that these hang
from one another. `Reached` says that a mapped frame is mapped at one of the
callers' pages, so that walking the pages finds it (`NoLeak`). `Counted` is why
`create_mm` never takes more `struct mm` from the heap than its pages hold,
`KernelGiven` why a table handed to `swap_mm` has the kernel's half, and
`Cached` that a cached translation survives `map_page` and that a deleted
address space is not the one in CR3. Every action becomes a change of the
placing (`Put`), and what it does to the walks of every page is a lemma of its
own, which the invariant and the refinement both use. Walks are recursive
functions over levels; that they exist and what they compute is shown with a
least counterexample (`RunsExist`, `DownTo`). `NoLeak` and `Private` then need
that the sets `TablesOf` computes, level by level, are the placed frames
(`TablesPlaced`, `DataPlaced`).

**KmainProofs**, for every page size, image, memory map,
sequence of tags, TSS and interrupt routines (`MapsAssumption`,
`KmainAssumption`): `KmainInvariant`, and from it `OnlyFreeMemoryIsGiven`,
`AllocatorCallsLegal`, `FrameTableSafe`, `NoMemoryForgotten`,
`LoaderInfoParsed`, `VectorsDeliverable`. `MemInv` says, loop by loop, what the
entries gone through have contributed: the boot region is usable memory behind
the image (`Region`), the table covers all usable memory and starts it
(`Sized`), and the calls so far are one per entry and disjoint (`Calls`), which
needs that entries start on pages and that ends are rounded down. `KInv` puts
`kmain`'s phases around it. The walk over the tags is `Visited(k)`: the pointer
is at the k-th tag of the copy whatever the contents look like, because the
padded size `MULTIBOOT2_NEXT_TAG` computes is the number of words the tag has;
`MMAP_ENTRY_COUNT` gives the loader's map back. The descriptors are taken apart
bit by bit: what a field's mask and shift put in, the processor's format takes
out.

**InterruptProofs**, for every set of vectors and nodes and any number of
exceptions (`InterruptAssumption`): `InterruptInvariant`, and from it
`ChainsAreComplete`, `AllHandlersAsked`, `HandlersNotNested`,
`AtMostOneReport`, and with it `FlagIsKept`. `Layers` and `Enabled` describe the stack: a thread, at most
one interrupt that found it outside `connect_interrupt`, then only exceptions,
which never return. Therefore only the top activation can be in the middle of
linking a node, and `Chains` can say what it holds at each store. `Walks` is
what `AllAsked` needs while a walk is under way: what was due has been asked or
is still ahead of `head`, which survives a new first node because a chain only
grows at its front. `Panicking` orders the activations of `vpanic`: the test
and the assignment of `in_panic` are two steps, but what comes between them
does not return. `FlagOK`, a second invariant, says where the flag the thread
chose is kept: in the processor, in the local `flags` of `connect_interrupt`
(`kmalloc` returns with interrupts disabled when it fails), or in the RFLAGS
saved by the activation that interrupted the thread.

**ContextProofs**, for every set of threads and of vectors (`ContextAssumption`):
`ContextInvariant`, and from it `CallersResumed`, `TrapFrameRight` and the
action property `InterruptsLeaveNoTrace`. The invariant has three forms. A
thread that does not run is `Suspended`: its context holds what it had in the
registers when it called, and its stack ends with where to go on, which for a
handler includes the frame of what it interrupted. The code that runs is
`Swapping`, with the words up to its instruction saved and loaded, or `Outside`.
A handler `Serves` a `Frame` on its stack, and what that frame holds satisfies
the same formula `Runs` as code that is not interrupted: this is what lets it
go on. The formulas therefore take the memory and the registers as parameters;
`RunsStays` says that what is pushed behind `%rsp` and popped again does not
matter. `Orders`, `FieldIndex` and `ExitIndex` compare the three lists of
registers.

**SnprintfProofs**, for every buffer, word size, set of strings and number of
items (`SnprintfAssumption`, and `DigitsAssumption`: the digits of a number are
fewer than the largest `unsigned int`), and for every width but that largest
one, at which the room needed wraps to 0: `SnprintfInvariant`, and from
it `StaysInBuffer`, `CountShowsTruncation`, `OutputThatFitsIsComplete`, and with
it `NumbersReadBack`. `Counted` is the relation between the pointer and the
output that `TruncationShows` needs at the end: the pointer lags behind only
when the buffer is used up, and runs ahead only when arguments were left over,
which happens only then, too. `Kept` says that output that fits so far is all
there. That the digits exist for
every number (the definition recurses over the quotient) is shown with a least
counterexample, and so is that Horner's rule over the remainders gives the
number back (`RemaindersRead`). `Shape` is what the three layouts of a number
have in common: the digits, zeros and at most one sign before them, blanks
around. `NumbersReadBack` needs a second invariant, `FieldOK`: the last number
printed is in the buffer if it fits, because every later store is at the pointer
or in the last byte (`Onward`).

**FbconProofs**, for every size of the screen, of its rows and of a glyph, every
text and any number of interruptions and colour changes (`FbconAssumption`: two
text lines and columns or more, at most one writer on top of another):
`Invariance`, and from it `StaysInside` and `ScreenShowsText`. The first part is
geometry: an address has one cell and one place in it (`CellGeometry`,
`CellInjective`, from the uniqueness of quotient and remainder), and scrolling
by a text row takes each cell to the one above (`SourceOfCell`), the last,
partial row included. `Inside` and `ShowsText` say something of the text only
between two iterations; the invariant says it at every statement. `Reach` is
where the cursor may be in a call that began up to a column behind a line or a
line below the screen: the call that was interrupted leaves it there if it was
between `fbcon_x++` and its test or between `fbcon_y++` and `fbcon_y--`
(`LostX`, `LostY`); no statement leaves both. `Text` is what the screen shows at a
statement: the text with the character once it is drawn (`Added`), wrapped once
`fbcon_y` was raised (`Finished`), and without its first line once the screen
was scrolled. That the history, which drops a line before it adds one, comes to
the same is `RecordText`. A torn text is not described at all until the cursor
is on the screen again; `RecordStep` shows that the first character that does
not end a line brings it there.

Only model-checked, and why:

* liveness (`Returns`, `Boots`, `PanicHalts`): the prover has no fairness;
* `HeapWellFormed`, `DataIntact`, `Coalesced` and `ExtendsWhenFull` of `Pool`: as built they do not hold, which the runs
  `pool_double_free` and `pool_header` show. A theorem would have to assume the
  layout of `pool_layout` and requests of which `divide` never leaves less than a
  header; it would say nothing of the build;
* `KernelMapped` of `Vmm`, for the reason given above.

## Status

Modelled: `Pmm` and `Vmm` with their abstract specifications, `InitMemory`
within `Kmain`, `Pool`, `Interrupt` with panic, `Context`, `Snprintf`, `Fbcon`
with interrupting writers. Proved: `Pmm` and `Vmm` with their refinements,
`InitMemory`, `Kmain` with `Descriptors`, `Interrupt`, `Context`, `Fbcon` and
`Snprintf`. `Pool` is for a proof once its findings are
fixed, with the blocks of each page as the invariant. Left out on purpose:
overlapping calls of the allocators, see below.

## Not modelled

* Handlers that call `kmalloc`, `alloc_frames`, `kfree` or `free_frame` while
  the code they interrupt is in one of them. `kmalloc` disables interrupts,
  the others do not, so such a handler can break the lists. Nothing in the tree
  does this and no comment says that it may be done, so there is no promise to
  check; the models and theorems are about calls that do not overlap.
* Memory running out inside `map_page` stops the kernel in `Vmm` and nothing is
  claimed about it.
* `_start`, `uart_init` and `set_rsp0` (which nothing calls) are straight lines
  of register and port writes. The two byte loops of `rtl/string.c` are part of
  the actions that call them. The font, the build and declarations carry no
  state.
* The packing of colours into pixels and `framebuffer_read` (which nothing
  calls) are left out of `Fbcon`, as is what `fbcon_write` does after a refused
  framebuffer; page attributes other than the present bit are left out of
  `Vmm`.
* Timing, caches, and more than one processor are outside the models; the
  kernel starts one processor only.
