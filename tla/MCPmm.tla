------------------------------- MODULE MCPmm --------------------------------
(* Small instances of Pmm for TLC.                                         *)
EXTENDS Pmm

MCPow2 == [k \in 0 .. MaxOrder |-> 2 ^ k]

(* Frame 4 stays reserved between two usable ranges; frame 0 may be        *)
(* unreserved but kept from the allocator, as the kernel image is; frame 6 *)
(* has no buddy in the table.                                              *)
MCRegions == {<<0, 4>>, <<1, 4>>, <<5, NFrames>>}
=============================================================================
