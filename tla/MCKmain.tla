-------------------------------- MODULE MCKmain -------------------------------
(* Memory maps, and what a boot loader passes, for TLC.                    *)
EXTENDS Kmain, FiniteSets

CONSTANT Top   \* end of the address space, in units

(* Maps of up to three entries in which entry k + 1 starts where entry k   *)
(* ends or later.  Two usable entries do not touch: GRUB merges them.      *)
(* Reserved entries, which the code skips, are small.                      *)
MCMaps ==
  LET Entry == [addr : 0 .. Top - 1, len : 1 .. Top, type : {1, 2}]
      OneEntry == {e \in Entry : /\ Limit(e) <= Top
                                 /\ IF IsUsable(e) THEN e.addr % PageSize = 0
                                                   ELSE e.len = 1}
      HasKernel(m) == \E j \in DOMAIN m : /\ IsUsable(m[j])
                                          /\ m[j].addr <= KernelStart
                                          /\ KernelEnd <= Limit(m[j])
      Follows(e, f) == /\ Limit(e) <= f.addr
                       /\ Limit(e) = f.addr => e.type # f.type
      Longer(S) == UNION {{Append(m, e) : e \in {f \in OneEntry :
                                                   Follows(m[Len(m)], f)}}
                          : m \in S}
      One == {<<e>> : e \in OneEntry}
      Two == Longer(One)
  IN  {m \in One \cup Two \cup Longer(Two) : HasKernel(m)}

(* Every map behind a short command line; and one map in every order of    *)
(* tags, with a text whose bytes look like an end tag, a memory map or a   *)
(* tag of no size, and with a framebuffer of another type, or none.        *)
MCInfos ==
  LET TextTag(n, w) == [type |-> 1, size |-> 8 + n,
                        words |-> [k \in 1 .. (n + 7) \div 8 |-> w]]
      Texts == {TextTag(n, w) : n \in {1, 8, 9}, w \in {<<0, 0>>, <<6, 24>>, <<1, 0>>}}
      Simple == MmapTag(<<[addr |-> 0, len |-> Top, type |-> 1]>>)
      Orders(S) == {s \in [1 .. Cardinality(S) -> S] :
                      \A a, b \in DOMAIN s : a # b => s[a] # s[b]}
      Sets == {{Simple, t} : t \in Texts}
              \cup {{Simple, t, FramebufferTag(y)} : t \in Texts, y \in {1, 2}}
  IN  {<<TextTag(3, <<5, 5>>), MmapTag(m), FramebufferTag(1)>> : m \in Maps}
      \cup UNION {Orders(S) : S \in Sets}
      \cup {<<TextTag(BufferSize, <<1, 1>>), Simple>>}

MCTss == (31 .. 63) \cup {3, 7, 14, 17, 22, 24, 29}
MCIsr ==
  LET Bits(n) == {b \in 0 .. 7 : (n \div 2^b) % 2 = 1}
  IN  [v \in 0 .. IDT_COUNT - 1 |-> (31 .. 63) \cup {13, 18, 25} \cup Field(Bits(v), 0, 7, 4)]
=============================================================================
