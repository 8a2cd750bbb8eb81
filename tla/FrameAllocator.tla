--------------------------- MODULE FrameAllocator ---------------------------
(***************************************************************************)
(* What mm/pmm.c promises its callers, without lists, orders or flags: a   *)
(* pool of free page frames from which aligned runs of 2^k frames are      *)
(* taken and to which they are returned.                                   *)
(***************************************************************************)
EXTENDS Integers

CONSTANTS NFrames, MaxOrder, Pow2

VARIABLES
  free,   \* the frames that nobody uses
  held    \* the runs <<first frame, order>> that callers have

vars == <<free, held>>

Run(p, k) == p .. (p + Pow2[k] - 1)

Init == free = {} /\ held = {}

(* Memory is given to the allocator at boot.                               *)
Donate(S) ==
  /\ S \cap free = {}
  /\ \A x \in held : S \cap Run(x[1], x[2]) = {}
  /\ free' = free \cup S
  /\ UNCHANGED held

Alloc(p, k) ==
  /\ p % Pow2[k] = 0
  /\ Run(p, k) \subseteq free
  /\ free' = free \ Run(p, k)
  /\ held' = held \cup {<<p, k>>}

Free(p, k) ==
  /\ <<p, k>> \in held
  /\ held' = held \ {<<p, k>>}
  /\ free' = free \cup Run(p, k)

Next ==
  \/ \E b, l \in 0 .. NFrames : Donate(b .. l - 1)
  \/ \E p \in 0 .. NFrames - 1, k \in 0 .. MaxOrder : Alloc(p, k)
  \/ \E x \in held : Free(x[1], x[2])

Spec == Init /\ [][Next]_vars
=============================================================================
