------------------------------- MODULE MCVmm --------------------------------
(* Constants for checking Vmm: tables of two entries, the upper half of    *)
(* the top level being the kernel's.                                       *)
EXTENDS Vmm, TLC

MCPages == {v \in [Levels -> Index] : v[Top] < KernelHalf}

Symmetry == Permutations(Frames) \cup Permutations(Mms)
=============================================================================
