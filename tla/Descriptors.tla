---------------------------- MODULE Descriptors -----------------------------
(***************************************************************************)
(* The descriptors of cpu/gdt.c and cpu/idt.c.  A machine word is the set  *)
(* of its bits that are 1, so that & is intersection, | is union and a     *)
(* shift adds to every bit.                                                *)
(***************************************************************************)
EXTENDS Integers

\* (w & mask) << by, where mask has the bits lo .. hi; by < 0 shifts right.
Field(w, lo, hi, by) == {b + by : b \in w \cap (lo .. hi)}

GDTE_ACCESS_KERNEL_CODE == {1, 3, 4, 7}         \* 0x9A
GDTE_ACCESS_KERNEL_DATA == {1, 4, 7}            \* 0x92
GDTE_ACCESS_USER_CODE   == {1, 3, 4, 5, 6, 7}   \* 0xFA
GDTE_ACCESS_USER_DATA   == {1, 4, 5, 6, 7}      \* 0xF2
GDTE_ACCESS_TSS         == {0, 3, 7}            \* 0x89
GDTE_FLAG_CODE          == {1, 3}               \* 0xA
GDTE_FLAG_DATA          == {2, 3}               \* 0xC

\* Mutant: the middle byte of the base is not moved down to its field.
MAKE_GDTE_Middle(base, limit, access, flags) ==
  UNION {Field(limit, 0, 15, 0), Field(base, 0, 15, 16), Field(base, 16, 23, 32),
         Field(access, 0, 7, 40), Field(limit, 16, 19, 32), Field(flags, 0, 3, 52),
         Field(base, 24, 31, 32)}

MAKE_GDTE(base, limit, access, flags) ==
  UNION {Field(limit, 0, 15, 0), Field(base, 0, 15, 16), Field(base, 16, 23, 16),
         Field(access, 0, 7, 40), Field(limit, 16, 19, 32), Field(flags, 0, 3, 52),
         Field(base, 24, 31, 32)}

MAKE_SYSTEM_GDTE_HIGH(base) == Field(base, 32, 63, -32)

MAKE_SEGMENT_SELECTOR(index, rpl) == index * 8 + rpl

\* set_idt_entry(index, isr_addr, attributes, ist).
idte(isr_addr, attributes, ist) ==
  [attributes  |-> attributes,
   ist         |-> ist,
   selector    |-> MAKE_SEGMENT_SELECTOR(1, 0),
   offset_low  |-> Field(isr_addr, 0, 15, 0),
   offset_mid  |-> Field(isr_addr, 16, 31, -16),
   offset_high |-> Field(isr_addr, 32, 63, -32)]
-----------------------------------------------------------------------------
\* External: how the processor reads descriptors.
GateOffset(g) ==
  g.offset_low \cup Field(g.offset_mid, 0, 15, 16) \cup Field(g.offset_high, 0, 31, 32)

SystemBase(low, high) ==
  UNION {Field(low, 16, 39, -16), Field(low, 56, 63, -32), Field(high, 0, 31, 32)}

SegmentLimit(d) == Field(d, 0, 15, 0) \cup Field(d, 48, 51, -32)

\* Present (47), a code segment (43, 44) of 64-bit mode (53, and not 54).
IsCode64(d) == {43, 44, 47, 53} \subseteq d /\ 54 \notin d

\* Present, a writable data segment.
IsData(d) == {41, 44, 47} \subseteq d /\ 43 \notin d

\* Present, an available 64-bit TSS: type 9, not a code or data segment.
IsTss(d) == d \cap (40 .. 44) = {40, 43} /\ 47 \in d
=============================================================================
