---------------------------- MODULE AddressSpace ----------------------------
(***************************************************************************)
(* What mm/vmm.c promises its callers, without page tables: every address  *)
(* space is a map from pages to frames, and an operation on one of them    *)
(* changes that one only, at one page only.                                *)
(***************************************************************************)
CONSTANTS Mms, Pages, Frames, NoFrame

VARIABLE maps   \* maps[m] is the address space of m, or NoSpace

NoSpace == NoFrame
Empty   == [v \in Pages |-> NoFrame]

Init == maps = [m \in Mms |-> NoSpace]

Create(m) ==
  /\ maps[m] = NoSpace
  /\ maps' = [maps EXCEPT ![m] = Empty]

InUse == {maps[x[1]][x[2]] : x \in {m \in Mms : maps[m] # NoSpace} \X Pages}

(* A page that has a frame keeps it, and a frame has one page.             *)
Map(m, v) ==
  /\ maps[m] # NoSpace
  /\ maps[m][v] = NoFrame
  /\ \E f \in Frames \ InUse : maps' = [maps EXCEPT ![m][v] = f]

Unmap(m, v) ==
  /\ maps[m] # NoSpace /\ maps[m][v] # NoFrame
  /\ maps' = [maps EXCEPT ![m][v] = NoFrame]

Delete(m) ==
  /\ maps[m] # NoSpace
  /\ maps' = [maps EXCEPT ![m] = NoSpace]

Next ==
  \E m \in Mms :
    \/ Create(m)
    \/ \E v \in Pages : Map(m, v) \/ Unmap(m, v)
    \/ Delete(m)

Spec == Init /\ [][Next]_maps
=============================================================================
