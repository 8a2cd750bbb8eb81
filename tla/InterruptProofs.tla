-------------------------- MODULE InterruptProofs ---------------------------
(***************************************************************************)
(* Interrupt dispatch and panic, for every set of vectors and of nodes and *)
(* every number of exceptions.                                             *)
(***************************************************************************)
EXTENDS Interrupt, TLAPS, SequenceTheorems, FiniteSetTheorems

(***************************************************************************)
(* The inductive invariant.                                                *)
(***************************************************************************)
depth == Len(stack)

(* What an exception does: it never returns and connects nothing.          *)
ExceptionPcs == {"service", "vpanic", "check", "set", "format", "uart", "fbcon",
                 "double", "halt"}

(* The stack is the thread, at most one interrupt that found the thread    *)
(* with interrupts enabled, and then only exceptions.                      *)
Layers ==
  /\ stack[depth].vector = 0 /\ stack[depth].pc \notin {"service", "handler"}
  /\ \A i \in 1 .. depth - 1 :
       /\ stack[i].pc # "run" /\ ~stack[i].flags
       /\ stack[i].vector < 32 => stack[i].pc \in ExceptionPcs
       /\ stack[i].vector >= 32 => i = depth - 1 /\ stack[depth].pc \in {"run", "vpanic"}

(* Interrupts are enabled only in the thread, outside connect_interrupt.   *)
Enabled == intr => depth = 1 /\ ~in_panic /\ stack[1].pc \in {"run", "vpanic"}

(* After in_panic is set only the reporting activation and exceptions that *)
(* hit it run; before, nobody reports.                                     *)
Panicking ==
  /\ in_panic => \/ stack[1].pc \in {"format", "uart", "fbcon", "double", "halt"}
                 \/ /\ depth > 1 /\ stack[1].vector < 32
                    /\ stack[1].pc \in {"service", "vpanic", "check"}
  /\ ~in_panic => Reporting = {}
  /\ \A i, j \in Reporting : i = j

Chain(v) == Reach(next, interrupt_handlers[v])

(* Every chain is complete and apart from the others, and what the running *)
(* connect_interrupt holds is on no chain until it is published.           *)
Chains ==
  /\ \A v \in Vectors :
       connected[v] \subseteq Chain(v) /\ Chain(v) \cap fresh = {}
  /\ \A v, w \in Vectors : v # w => Chain(v) \cap Chain(w) = {}
  /\ stack[1].pc \in {"link", "publish"} =>
       /\ stack[1].new_node \in Nodes \ fresh
       /\ \A v \in Vectors : stack[1].new_node \notin Chain(v)
  /\ stack[1].pc \in {"kmalloc", "link", "publish", "restore"} =>
       stack[1].number \in Vectors
  /\ stack[1].pc = "publish" =>
       next[stack[1].new_node] = interrupt_handlers[stack[1].number]
  /\ stack[1].pc = "restore" => stack[1].new_node \in Chain(stack[1].number)

(* The walk of each interrupt: what was connected on arrival has been asked *)
(* or is still ahead, on the chain of the vector.                          *)
Walk(a) ==
  a.vector >= 32 =>
    /\ a.vector \in Vectors
    /\ a.due \subseteq a.asked \cup Reach(next, a.head)
    /\ a.head \in Chain(a.vector) \cup {NULL}
    /\ a.pc \in {"handler", "kmalloc", "link", "publish", "restore"} => a.head # NULL

Walks == \A i \in 1 .. depth : Walk(stack[i])

IInv == TypeOK /\ Layers /\ Enabled /\ Panicking /\ Chains /\ Walks

-----------------------------------------------------------------------------
(***************************************************************************)
(* The stack.                                                              *)
(***************************************************************************)
(* What a non-empty stack looks like after its first element is replaced.  *)
LEMMA Replaced ==
  ASSUME NEW S, NEW s \in Seq(S), s # << >>, NEW a \in S
  PROVE  /\ <<a>> \o Tail(s) \in Seq(S)
         /\ <<a>> \o Tail(s) # << >>
         /\ Len(<<a>> \o Tail(s)) = Len(s)
         /\ (<<a>> \o Tail(s))[1] = a
         /\ \A i \in 2 .. Len(s) : (<<a>> \o Tail(s))[i] = s[i]
<1> DEFINE t == <<a>>
           r == Tail(s)
<1>r. r \in Seq(S)
  BY HeadTailProperties
<1>1. Len(r) = Len(s) - 1 /\ \A i \in 1 .. Len(r) : r[i] = s[i + 1]
  BY HeadTailProperties
<1>t. t \in Seq(S)
  OBVIOUS
<1>2. Len(t) = 1 /\ t[1] = a
  OBVIOUS
<1>3. Len(s) \in Nat /\ Len(s) >= 1
  BY EmptySeq, LenProperties
<1>4. SUFFICES /\ t \o r \in Seq(S) /\ t \o r # << >>
               /\ Len(t \o r) = Len(s) /\ (t \o r)[1] = a
               /\ \A i \in 2 .. Len(s) : (t \o r)[i] = s[i]
  OBVIOUS
<1> HIDE DEF t, r
<1>5. /\ t \o r \in Seq(S)
      /\ Len(t \o r) = Len(t) + Len(r)
      /\ \A i \in 1 .. Len(t) + Len(r) :
           (t \o r)[i] = IF i <= Len(t) THEN t[i] ELSE r[i - Len(t)]
  BY <1>r, <1>t, ConcatProperties
<1>6. Len(t \o r) = Len(s) /\ (t \o r)[1] = a
  BY <1>1, <1>2, <1>3, <1>5
<1>7. ASSUME NEW i \in 2 .. Len(s)
      PROVE  (t \o r)[i] = s[i]
  <2>1. (t \o r)[i] = r[i - 1]
    BY <1>1, <1>2, <1>3, <1>5
  <2>2. QED
    BY <2>1, <1>1, <1>3
<1>8. t \o r # << >>
  BY <1>3, <1>6, EmptySeq
<1>9. QED
  BY <1>5, <1>6, <1>7, <1>8

(* What a stack looks like after an element is put on it.                  *)
LEMMA Pushed ==
  ASSUME NEW S, NEW s \in Seq(S), NEW a \in S
  PROVE  /\ <<a>> \o s \in Seq(S)
         /\ <<a>> \o s # << >>
         /\ Len(<<a>> \o s) = Len(s) + 1
         /\ (<<a>> \o s)[1] = a
         /\ \A i \in 2 .. Len(s) + 1 : (<<a>> \o s)[i] = s[i - 1]
<1> DEFINE t == <<a>>
<1>1. t \in Seq(S) /\ Len(t) = 1 /\ t[1] = a
  OBVIOUS
<1>2. Len(s) \in Nat
  BY LenProperties
<1>3. SUFFICES /\ t \o s \in Seq(S) /\ t \o s # << >>
               /\ Len(t \o s) = Len(s) + 1 /\ (t \o s)[1] = a
               /\ \A i \in 2 .. Len(s) + 1 : (t \o s)[i] = s[i - 1]
  OBVIOUS
<1> HIDE DEF t
<1>4. /\ t \o s \in Seq(S)
      /\ Len(t \o s) = Len(t) + Len(s)
      /\ \A i \in 1 .. Len(t) + Len(s) :
           (t \o s)[i] = IF i <= Len(t) THEN t[i] ELSE s[i - Len(t)]
  BY <1>1, ConcatProperties
<1>5. Len(t \o s) = Len(s) + 1 /\ (t \o s)[1] = a
  BY <1>1, <1>2, <1>4
<1>6. t \o s # << >>
  BY <1>2, <1>5, EmptySeq
<1>7. \A i \in 2 .. Len(s) + 1 : (t \o s)[i] = s[i - 1]
  BY <1>1, <1>2, <1>4
<1>8. QED
  BY <1>4, <1>5, <1>6, <1>7

(* The stack is not empty, and the running activation is its first.        *)
LEMMA TopIsFirst ==
  ASSUME stack \in Seq(Activation), stack # << >>
  PROVE  /\ depth \in Nat /\ depth >= 1
         /\ DOMAIN stack = 1 .. depth
         /\ \A i \in 1 .. depth : stack[i] \in Activation
         /\ Top = stack[1] /\ Top \in Activation
<1>1. depth \in Nat /\ depth >= 1 /\ DOMAIN stack = 1 .. depth
  BY EmptySeq, LenProperties DEF depth
<1>2. \A i \in 1 .. depth : stack[i] \in Activation
  BY ElementOfSeq DEF depth
<1>3. Top = stack[1]
  BY DEF Top
<1>4. QED
  BY <1>1, <1>2, <1>3

-----------------------------------------------------------------------------
(***************************************************************************)
(* What can be reached along next.                                         *)
(***************************************************************************)
Links == [Nodes -> Nodes \cup {NULL}]

(* Nothing is reached from NULL; a node reaches itself; reach is the least *)
(* closed set.                                                             *)
LEMMA ReachLeast ==
  ASSUME NEW f \in Links, NEW h \in Nodes \cup {NULL}
  PROVE  /\ Reach(f, h) \subseteq Nodes
         /\ h = NULL => Reach(f, h) = {}
         /\ h # NULL => h \in Reach(f, h)
         /\ Closed(f, Reach(f, h))
         /\ \A S \in SUBSET Nodes :
              h \in S \cup {NULL} /\ Closed(f, S) => Reach(f, h) \subseteq S
<1>1. Reach(f, h) \subseteq Nodes
  BY DEF Reach
<1>2. \A S \in SUBSET Nodes :
        h \in S \cup {NULL} /\ Closed(f, S) => Reach(f, h) \subseteq S
  BY DEF Reach
<1>3. h = NULL => Reach(f, h) = {}
  <2>1. Closed(f, {})
    BY DEF Closed
  <2>2. QED
    BY <2>1, <1>2
<1>4. h # NULL => h \in Reach(f, h)
  BY DEF Reach
<1>5. ASSUME NEW m \in Reach(f, h)
      PROVE  f[m] \in Reach(f, h) \cup {NULL}
  <2>1. m \in Nodes /\ f[m] \in Nodes \cup {NULL}
    BY <1>1, <1>5 DEF Links
  <2>2. SUFFICES ASSUME f[m] # NULL,
                        NEW S \in SUBSET Nodes, h \in S \cup {NULL}, Closed(f, S)
                 PROVE  f[m] \in S
    BY <2>1 DEF Reach
  <2>3. m \in S
    BY <2>2, <1>2, <1>5
  <2>4. QED
    BY <2>2, <2>3 DEF Closed
<1>6. Closed(f, Reach(f, h))
  BY <1>5 DEF Closed
<1>7. QED
  BY <1>1, <1>2, <1>3, <1>4, <1>6

(* From a reached node no more is reached.                                 *)
LEMMA ReachMember ==
  ASSUME NEW f \in Links, NEW h \in Nodes \cup {NULL}, NEW m \in Reach(f, h)
  PROVE  Reach(f, m) \subseteq Reach(f, h)
<1>1. Reach(f, h) \in SUBSET Nodes /\ Closed(f, Reach(f, h)) /\ m \in Nodes
  BY ReachLeast
<1>2. QED
  BY <1>1, ReachLeast

(* A node reaches itself and what its successor reaches.                   *)
LEMMA ReachStep ==
  ASSUME NEW f \in Links, NEW m \in Nodes
  PROVE  Reach(f, m) = {m} \cup Reach(f, f[m])
<1> DEFINE T == {m} \cup Reach(f, f[m])
<1>0. f[m] \in Nodes \cup {NULL} /\ m # NULL
  BY InterruptAssumption DEF Links
<1>1. /\ Reach(f, f[m]) \in SUBSET Nodes
      /\ Closed(f, Reach(f, f[m]))
      /\ f[m] # NULL => f[m] \in Reach(f, f[m])
  BY <1>0, ReachLeast
<1>2. T \in SUBSET Nodes /\ Closed(f, T) /\ m \in T
  BY <1>1 DEF Closed
<1>3. Reach(f, m) \subseteq T
  <2> HIDE DEF T
  <2>1. QED
    BY <1>2, ReachLeast
<1>4. /\ Reach(f, m) \in SUBSET Nodes
      /\ Closed(f, Reach(f, m)) /\ m \in Reach(f, m)
  BY <1>0, ReachLeast
<1>5. f[m] \in Reach(f, m) \cup {NULL}
  BY <1>4 DEF Closed
<1>6. Reach(f, f[m]) \subseteq Reach(f, m)
  BY <1>0, <1>4, <1>5, ReachLeast
<1>7. QED
  BY <1>3, <1>4, <1>6

(* Setting the next of a node that is not reached changes nothing.         *)
LEMMA ReachExcept ==
  ASSUME NEW f \in Links, NEW h \in Nodes \cup {NULL}, NEW x \in Nodes,
         NEW y \in Nodes \cup {NULL}, x \notin Reach(f, h)
  PROVE  /\ [f EXCEPT ![x] = y] \in Links
         /\ Reach([f EXCEPT ![x] = y], h) = Reach(f, h)
<1> DEFINE g == [f EXCEPT ![x] = y]
<1>1. g \in Links /\ \A m \in Nodes : m # x => g[m] = f[m]
  BY DEF Links
<1> HIDE DEF g
<1>2. /\ Reach(f, h) \in SUBSET Nodes /\ Closed(f, Reach(f, h))
      /\ h \in Reach(f, h) \cup {NULL}
  BY ReachLeast
<1>3. /\ Reach(g, h) \in SUBSET Nodes /\ Closed(g, Reach(g, h))
      /\ h \in Reach(g, h) \cup {NULL}
  BY <1>1, ReachLeast
<1>4. Closed(g, Reach(f, h))
  BY <1>1, <1>2 DEF Closed
<1>5. Reach(g, h) \subseteq Reach(f, h)
  BY <1>1, <1>2, <1>4, ReachLeast
<1>6. Closed(f, Reach(g, h))
  BY <1>1, <1>3, <1>5 DEF Closed
<1>7. Reach(f, h) \subseteq Reach(g, h)
  BY <1>3, <1>6, ReachLeast
<1>8. QED
  BY <1>1, <1>5, <1>7 DEF g

-----------------------------------------------------------------------------
(***************************************************************************)
(* Types, and what the three ways to change the stack do.                  *)
(***************************************************************************)
(* The running activation continues as a.                                  *)
LEMMA BecomeStep ==
  ASSUME TypeOK, NEW a \in Activation, Become(a)
  PROVE  /\ stack' \in Seq(Activation) /\ stack' # << >>
         /\ depth' = depth
         /\ stack'[1] = a
         /\ \A i \in 2 .. depth : stack'[i] = stack[i]
<1>1. stack \in Seq(Activation) /\ stack # << >>
  BY DEF TypeOK
<1>2. stack' = <<a>> \o Tail(stack)
  BY DEF Become
<1> DEFINE t == <<a>> \o Tail(stack)
<1>3. /\ t \in Seq(Activation) /\ t # << >> /\ Len(t) = Len(stack) /\ t[1] = a
      /\ \A i \in 2 .. Len(stack) : t[i] = stack[i]
  BY <1>1, Replaced
<1> HIDE DEF t
<1>4. stack' = t
  BY <1>2 DEF t
<1>5. QED
  BY <1>3, <1>4 DEF depth

(* The activation that an interrupt or exception v puts on the stack.      *)
Entry(v) ==
  [Thread EXCEPT !.pc = "service", !.vector = v, !.rflags = intr,
                 !.head = interrupt_handlers[v], !.due = connected[v]]

(* It is an activation.                                                    *)
LEMMA EntryType ==
  ASSUME TypeOK, NEW v \in Vectors
  PROVE  /\ Entry(v) \in Activation
         /\ Entry(v).pc = "service" /\ Entry(v).vector = v
         /\ Entry(v).rflags = intr /\ Entry(v).head = interrupt_handlers[v]
         /\ Entry(v).due = connected[v] /\ Entry(v).flags = FALSE
<1>1. /\ interrupt_handlers[v] \in Nodes \cup {NULL}
      /\ connected[v] \in SUBSET Nodes /\ intr \in BOOLEAN
  BY DEF TypeOK
<1>2. QED
  BY <1>1 DEF Entry, Thread, Activation, Pcs

(* An interrupt or exception v arrives.                                    *)
LEMMA ArriveStep ==
  ASSUME TypeOK, NEW v \in Vectors, Arrive(v)
  PROVE  /\ stack' \in Seq(Activation) /\ stack' # << >>
         /\ depth' = depth + 1
         /\ stack'[1] = Entry(v)
         /\ \A i \in 2 .. depth + 1 : stack'[i] = stack[i - 1]
<1>1. stack \in Seq(Activation) /\ Entry(v) \in Activation
  BY EntryType DEF TypeOK
<1>2. stack' = <<Entry(v)>> \o stack
  BY DEF Arrive, Entry
<1> DEFINE t == <<Entry(v)>> \o stack
<1>3. /\ t \in Seq(Activation) /\ t # << >> /\ Len(t) = Len(stack) + 1
      /\ t[1] = Entry(v)
      /\ \A i \in 2 .. Len(stack) + 1 : t[i] = stack[i - 1]
  BY <1>1, Pushed
<1> HIDE DEF t
<1>4. stack' = t
  BY <1>2 DEF t
<1>5. QED
  BY <1>3, <1>4 DEF depth

(* The running activation returns.                                         *)
LEMMA ReturnStep ==
  ASSUME TypeOK, depth > 1, stack' = Tail(stack)
  PROVE  /\ stack' \in Seq(Activation) /\ stack' # << >>
         /\ depth' = depth - 1
         /\ \A i \in 1 .. depth - 1 : stack'[i] = stack[i + 1]
<1>1. stack \in Seq(Activation) /\ stack # << >>
  BY DEF TypeOK
<1>2. /\ stack' \in Seq(Activation) /\ Len(stack') = Len(stack) - 1
      /\ \A i \in 1 .. Len(stack') : stack'[i] = stack[i + 1]
  BY <1>1, HeadTailProperties
<1>3. Len(stack) \in Nat
  BY <1>1, LenProperties
<1>4. stack' # << >>
  BY <1>2, <1>3, EmptySeq DEF depth
<1>5. QED
  BY <1>2, <1>3, <1>4 DEF depth

(* The running activation goes on at p.                                    *)
LEMMA GotoStep ==
  ASSUME TypeOK, NEW p \in Pcs, Goto(p)
  PROVE  /\ stack' \in Seq(Activation) /\ stack' # << >>
         /\ depth' = depth
         /\ stack'[1] = [stack[1] EXCEPT !.pc = p]
         /\ \A i \in 2 .. depth : stack'[i] = stack[i]
<1>1. Top = stack[1] /\ stack[1] \in Activation
  BY TopIsFirst DEF TypeOK
<1>2. [stack[1] EXCEPT !.pc = p] \in Activation
  BY <1>1 DEF Activation
<1>3. Become([stack[1] EXCEPT !.pc = p])
  BY <1>1 DEF Goto
<1>4. QED
  BY <1>2, <1>3, BecomeStep

(* As long as only its pc changes, and not into connect_interrupt, the     *)
(* chains and the walks along them are as they were.                       *)
LEMMA PcOnly ==
  ASSUME IInv, NEW p \in Pcs, Goto(p), UNCHANGED chains,
         p \notin {"kmalloc", "link", "publish", "restore"},
         p = "handler" => stack[1].head # NULL
  PROVE  Chains' /\ Walks'
<1>1. /\ depth' = depth /\ stack'[1] = [stack[1] EXCEPT !.pc = p]
      /\ \A i \in 2 .. depth : stack'[i] = stack[i]
  BY GotoStep DEF IInv
<1>2. depth \in Nat /\ depth >= 1 /\ stack[1] \in Activation
  BY TopIsFirst DEF IInv, TypeOK
<1>3. interrupt_handlers' = interrupt_handlers /\ next' = next /\ fresh' = fresh
      /\ connected' = connected
  BY DEF chains
<1>4. \A v : Chain(v)' = Chain(v)
  BY <1>3 DEF Chain
<1>5. stack'[1].pc = p
  BY <1>1, <1>2 DEF Activation
<1>6. Chains'
  BY <1>3, <1>4, <1>5 DEF IInv, Chains
<1>7. ASSUME NEW i \in 1 .. depth
      PROVE  Walk(stack[i])'
  <2>1. CASE i = 1
    <3>1. /\ stack'[1].vector = stack[1].vector /\ stack'[1].due = stack[1].due
          /\ stack'[1].asked = stack[1].asked /\ stack'[1].head = stack[1].head
      BY <1>1, <1>2 DEF Activation
    <3>2. Walk(stack[1])
      BY <1>2 DEF IInv, Walks
    <3>3. QED
      BY <2>1, <3>1, <3>2, <1>3, <1>4, <1>5 DEF Walk
  <2>2. CASE i # 1
    <3>1. stack'[i] = stack[i] /\ Walk(stack[i])
      BY <2>2, <1>1, <1>2 DEF IInv, Walks
    <3>2. QED
      BY <3>1, <1>3, <1>4 DEF Walk
  <2>3. QED
    BY <2>1, <2>2
<1>8. Walks'
  BY <1>1, <1>7 DEF Walks
<1>9. QED
  BY <1>6, <1>8

(* A vector is a small number.                                             *)
LEMMA VectorType ==
  ASSUME NEW a \in Activation
  PROVE  a.vector \in 0 .. 255 /\ a.vector \in Int
<1>1. a.vector \in Vectors \cup {0}
  BY DEF Activation
<1>2. CASE a.vector = 0
  BY <1>2
<1>3. CASE a.vector \in Vectors
  <2>1. a.vector \in 0 .. 255
    BY <1>3, InterruptAssumption, Zenon
  <2>2. QED
    BY <2>1
<1>4. QED
  BY <1>1, <1>2, <1>3

(* The fields of an activation that goes on at p.                          *)
LEMMA GotoFields ==
  ASSUME TypeOK, NEW p \in Pcs, Goto(p)
  PROVE  /\ stack'[1].pc = p
         /\ stack'[1].vector = stack[1].vector
         /\ stack'[1].flags = stack[1].flags
<1>1. stack'[1] = [stack[1] EXCEPT !.pc = p]
  BY GotoStep
<1>2. stack[1] \in Activation
  BY TopIsFirst DEF TypeOK
<1>3. QED
  BY <1>1, <1>2 DEF Activation

(* Reporting, before and after a step.                                     *)
LEMMA ReportingIs ==
  ASSUME TypeOK
  PROVE  Reporting = {i \in 1 .. depth : stack[i].pc \in {"format", "uart", "fbcon"}}
  BY TopIsFirst DEF TypeOK, Reporting

(* The same in the next state.                                             *)
LEMMA ReportingIsNext ==
  ASSUME TypeOK'
  PROVE  Reporting' =
           {i \in 1 .. depth' : stack'[i].pc \in {"format", "uart", "fbcon"}}
<1>1. DOMAIN stack' = 1 .. depth'
  BY LenProperties DEF TypeOK, depth
<1>2. QED
  BY <1>1 DEF Reporting

(* Going on at p keeps the layers of the stack when an exception stays     *)
(* with its kind of steps.                                                 *)
LEMMA GotoLayers ==
  ASSUME IInv, NEW p \in Pcs, Goto(p),
         \/ p \in ExceptionPcs \ {"service"}
         \/ stack[1].vector >= 32 /\ p # "run"
  PROVE  Layers'
<1>1. depth' = depth /\ \A i \in 2 .. depth : stack'[i] = stack[i]
  BY GotoStep DEF IInv
<1>2. /\ stack'[1].pc = p /\ stack'[1].vector = stack[1].vector
      /\ stack'[1].flags = stack[1].flags
  BY GotoFields DEF IInv
<1>3. depth \in Nat /\ depth >= 1 /\ stack[1] \in Activation
  BY TopIsFirst DEF IInv, TypeOK
<1>4. /\ stack[depth].vector = 0 /\ stack[depth].pc \notin {"service", "handler"}
      /\ \A i \in 1 .. depth - 1 :
           /\ stack[i].pc # "run" /\ ~stack[i].flags
           /\ stack[i].vector < 32 => stack[i].pc \in ExceptionPcs
           /\ stack[i].vector >= 32 =>
                i = depth - 1 /\ stack[depth].pc \in {"run", "vpanic"}
  BY DEF IInv, Layers
<1>5. stack[1].vector \in Int
  BY <1>3, VectorType
<1>6. CASE depth = 1
  BY <1>1, <1>2, <1>4, <1>6 DEF Layers, ExceptionPcs
<1>7. CASE depth > 1
  <2>1. stack'[depth] = stack[depth]
    BY <1>1, <1>3, <1>7
  <2>2. p # "run" /\ ~stack[1].flags
    BY <1>3, <1>4, <1>7 DEF ExceptionPcs
  <2>3. stack[1].vector < 32 => p \in ExceptionPcs
    BY <1>5
  <2>4. ASSUME NEW i \in 1 .. depth - 1
        PROVE  /\ stack'[i].pc # "run" /\ ~stack'[i].flags
               /\ stack'[i].vector < 32 => stack'[i].pc \in ExceptionPcs
               /\ stack'[i].vector >= 32 =>
                    i = depth - 1 /\ stack'[depth].pc \in {"run", "vpanic"}
    <3>1. CASE i = 1
      BY <3>1, <2>1, <2>2, <2>3, <1>2, <1>4
    <3>2. CASE i # 1
      BY <3>2, <2>1, <1>1, <1>3, <1>4
    <3>3. QED
      BY <3>1, <3>2
  <2>5. QED
    BY <2>1, <2>4, <1>1, <1>4 DEF Layers
<1>8. QED
  BY <1>3, <1>6, <1>7

(* A step that only moves the running activation on, along the exception's *)
(* or the handler's way, keeps the invariant.                              *)
LEMMA GotoKeeps ==
  ASSUME IInv, NEW p \in Pcs, Goto(p), UNCHANGED <<chains, traps>>,
         intr' \in BOOLEAN, in_panic' \in BOOLEAN,
         panic_use_fbcon' \in BOOLEAN, uart_ready' \in BOOLEAN,
         \/ p \in ExceptionPcs \ {"service"}
         \/ p = "handler" /\ stack[1].vector >= 32 /\ stack[1].head # NULL,
         intr' => intr /\ p = "vpanic",
         in_panic => in_panic',
         in_panic' => \/ p \in {"format", "uart", "fbcon", "double", "halt"}
                      \/ p \in {"vpanic", "check"} /\ depth > 1 /\ stack[1].vector < 32,
         p \in {"format", "uart", "fbcon"} => in_panic' /\ Reporting \subseteq {1}
  PROVE  IInv'
<1>1. TypeOK'
  <2>1. stack' \in Seq(Activation) /\ stack' # << >>
    BY GotoStep DEF IInv
  <2>2. QED
    BY <2>1 DEF IInv, TypeOK, chains
<1>2. Layers'
  BY GotoLayers DEF ExceptionPcs
<1>3. depth' = depth /\ \A i \in 2 .. depth : stack'[i] = stack[i]
  BY GotoStep DEF IInv
<1>4. stack'[1].pc = p /\ stack'[1].vector = stack[1].vector
  BY GotoFields DEF IInv
<1>5. Enabled'
  BY <1>3, <1>4 DEF IInv, Enabled
<1>6. Panicking'
  <2>1. depth \in Nat /\ depth >= 1
    BY TopIsFirst DEF IInv, TypeOK
  <2>2. /\ Reporting = {i \in 1 .. depth : stack[i].pc \in {"format", "uart", "fbcon"}}
        /\ Reporting' = {i \in 1 .. depth : stack'[i].pc \in {"format", "uart", "fbcon"}}
    BY <1>1, <1>3, ReportingIs, ReportingIsNext DEF IInv
  <2>3. Reporting' \ {1} \subseteq Reporting
    BY <2>1, <2>2, <1>3
  <2>4. 1 \in Reporting' <=> p \in {"format", "uart", "fbcon"}
    BY <2>1, <2>2, <1>4
  <2>5. ~in_panic => Reporting = {}
    BY DEF IInv, Panicking
  <2>6. ~in_panic' => Reporting' = {}
    BY <2>3, <2>4, <2>5
  <2>7. \A i, j \in Reporting' : i = j
    <3>1. \A i, j \in Reporting : i = j
      BY DEF IInv, Panicking
    <3>2. CASE p \in {"format", "uart", "fbcon"}
      BY <3>2, <2>3
    <3>3. CASE p \notin {"format", "uart", "fbcon"}
      BY <3>1, <3>3, <2>3, <2>4
    <3>4. QED
      BY <3>2, <3>3
  <2>8. QED
    BY <2>6, <2>7, <1>3, <1>4 DEF Panicking
<1>7. Chains' /\ Walks'
  <2>1. UNCHANGED chains
    OBVIOUS
  <2>2. p \notin {"kmalloc", "link", "publish", "restore"}
    BY DEF ExceptionPcs
  <2>3. p = "handler" => stack[1].head # NULL
    BY DEF ExceptionPcs
  <2>4. QED
    BY <2>1, <2>2, <2>3, PcOnly
<1>8. QED
  BY <1>1, <1>2, <1>5, <1>6, <1>7 DEF IInv

(* What the invariant says of the running activation.                      *)
LEMMA TopFacts ==
  ASSUME IInv
  PROVE  /\ depth \in Nat /\ depth >= 1 /\ Top = stack[1] /\ stack[1] \in Activation
         /\ intr => depth = 1 /\ ~in_panic /\ stack[1].pc \in {"run", "vpanic"}
         /\ in_panic => stack[1].pc \in ExceptionPcs \ {"set"}
         /\ in_panic /\ stack[1].pc \in {"service", "vpanic", "check"} =>
              depth > 1 /\ stack[1].vector < 32
         /\ stack[1].pc \in {"format", "uart", "fbcon"} =>
              in_panic /\ Reporting \subseteq {1}
         /\ ~in_panic => Reporting = {}
         /\ stack[1].pc \in {"service", "handler"} => depth > 1
         /\ stack[1].pc = "run" => depth = 1
         /\ depth = 1 => stack[1].vector = 0
         /\ depth > 1 /\ stack[1].vector < 32 => stack[1].pc \in ExceptionPcs
         /\ depth > 1 /\ stack[1].vector >= 32 =>
              depth = 2 /\ stack[2].pc \in {"run", "vpanic"}
         /\ stack[1].flags => depth = 1
<1>1. /\ depth \in Nat /\ depth >= 1 /\ Top = stack[1] /\ stack[1] \in Activation
  BY TopIsFirst DEF IInv, TypeOK
<1>2. intr => depth = 1 /\ ~in_panic /\ stack[1].pc \in {"run", "vpanic"}
  BY DEF IInv, Enabled
<1>3. /\ in_panic => stack[1].pc \in ExceptionPcs \ {"set"}
      /\ in_panic /\ stack[1].pc \in {"service", "vpanic", "check"} =>
           depth > 1 /\ stack[1].vector < 32
      /\ ~in_panic => Reporting = {}
  BY DEF IInv, Panicking, ExceptionPcs
<1>4. stack[1].pc \in {"format", "uart", "fbcon"} => in_panic /\ Reporting \subseteq {1}
  <2>1. stack[1].pc \in {"format", "uart", "fbcon"} => 1 \in Reporting
    BY <1>1, ReportingIs DEF IInv
  <2>2. QED
    BY <2>1, <1>3 DEF IInv, Panicking
<1>5. /\ stack[1].pc \in {"service", "handler"} => depth > 1
      /\ stack[1].pc = "run" => depth = 1
      /\ depth = 1 => stack[1].vector = 0
      /\ depth > 1 /\ stack[1].vector < 32 => stack[1].pc \in ExceptionPcs
      /\ depth > 1 /\ stack[1].vector >= 32 =>
           depth = 2 /\ stack[2].pc \in {"run", "vpanic"}
      /\ stack[1].flags => depth = 1
  BY <1>1 DEF IInv, Layers
<1>6. QED
  BY <1>1, <1>2, <1>3, <1>4, <1>5

-----------------------------------------------------------------------------
(***************************************************************************)
(* The actions that only move the running activation on.                   *)
(***************************************************************************)
(* interrupt_service panics or calls the handler at head.                  *)
LEMMA ServiceKeeps == IInv /\ interrupt_service => IInv'
<1> SUFFICES ASSUME IInv, interrupt_service
             PROVE  IInv'
  OBVIOUS
<1> DEFINE p == IF stack[1].vector < 32 \/ stack[1].head = NULL
                THEN "vpanic" ELSE "handler"
<1>1. Top = stack[1] /\ stack[1].vector \in Int
  BY TopFacts, VectorType
<1>2. /\ stack[1].pc = "service" /\ Goto(p)
      /\ UNCHANGED <<chains, traps, intr, in_panic, panic_use_fbcon, uart_ready>>
  BY <1>1 DEF interrupt_service, panics
<1>3. /\ p \in Pcs
      /\ \/ p \in ExceptionPcs \ {"service"}
         \/ p = "handler" /\ stack[1].vector >= 32 /\ stack[1].head # NULL
  BY <1>1 DEF Pcs, ExceptionPcs
<1>4. /\ ~intr /\ p \notin {"format", "uart", "fbcon"}
      /\ in_panic => p = "vpanic" /\ depth > 1 /\ stack[1].vector < 32
  BY <1>2, TopFacts
<1> HIDE DEF p
<1>5. QED
  BY <1>2, <1>3, <1>4, GotoKeeps DEF IInv, TypeOK

(* The thread or a handler panics.                                         *)
LEMMA PanicKeeps == IInv /\ panic => IInv'
<1> SUFFICES ASSUME IInv, panic
             PROVE  IInv'
  OBVIOUS
<1>1. /\ stack[1].pc \in {"run", "handler"} /\ Goto("vpanic")
      /\ UNCHANGED <<chains, traps, intr, in_panic, panic_use_fbcon, uart_ready>>
  BY TopFacts DEF panic, panics
<1>2. "vpanic" \in Pcs /\ "vpanic" \in ExceptionPcs \ {"service"}
  BY DEF Pcs, ExceptionPcs
<1>3. ~in_panic
  BY <1>1, TopFacts DEF ExceptionPcs
<1>4. QED
  BY <1>1, <1>2, <1>3, GotoKeeps DEF IInv, TypeOK

(* vpanic disables interrupts.                                             *)
LEMMA VpanicEnterKeeps == IInv /\ VpanicEnter => IInv'
<1> SUFFICES ASSUME IInv, VpanicEnter
             PROVE  IInv'
  OBVIOUS
<1>1. /\ stack[1].pc = "vpanic" /\ Goto("check") /\ intr' = FALSE
      /\ UNCHANGED <<chains, traps, in_panic, panic_use_fbcon, uart_ready>>
  BY TopFacts DEF VpanicEnter, panics
<1>2. "check" \in Pcs /\ "check" \in ExceptionPcs \ {"service"}
  BY DEF Pcs, ExceptionPcs
<1>3. in_panic => depth > 1 /\ stack[1].vector < 32
  BY <1>1, TopFacts
<1>4. QED
  BY <1>1, <1>2, <1>3, GotoKeeps DEF IInv, TypeOK

(* vpanic tests in_panic.                                                  *)
LEMMA VpanicCheckKeeps == IInv /\ VpanicCheck => IInv'
<1> SUFFICES ASSUME IInv, VpanicCheck
             PROVE  IInv'
  OBVIOUS
<1> DEFINE p == IF in_panic THEN "double" ELSE "set"
<1>1. /\ stack[1].pc = "check" /\ Goto(p)
      /\ UNCHANGED <<chains, traps, intr, in_panic, panic_use_fbcon, uart_ready>>
  BY TopFacts DEF VpanicCheck, panics
<1>2. p \in Pcs /\ p \in ExceptionPcs \ {"service"}
  BY DEF Pcs, ExceptionPcs
<1>3. ~intr /\ p \notin {"format", "uart", "fbcon"} /\ (in_panic => p = "double")
  BY <1>1, TopFacts
<1> HIDE DEF p
<1>4. QED
  BY <1>1, <1>2, <1>3, GotoKeeps DEF IInv, TypeOK

(* vpanic sets in_panic: nobody reports yet, also when other activations   *)
(* wait between the test and this assignment.                              *)
LEMMA VpanicSetKeeps == IInv /\ VpanicSet => IInv'
<1> SUFFICES ASSUME IInv, VpanicSet
             PROVE  IInv'
  OBVIOUS
<1>1. /\ stack[1].pc = "set" /\ Goto("format") /\ in_panic' = TRUE
      /\ UNCHANGED <<chains, traps, intr, panic_use_fbcon, uart_ready>>
  BY TopFacts DEF VpanicSet
<1>2. "format" \in Pcs /\ "format" \in ExceptionPcs \ {"service"}
  BY DEF Pcs, ExceptionPcs
<1>3. ~intr /\ Reporting \subseteq {1}
  BY <1>1, TopFacts
<1>4. QED
  BY <1>1, <1>2, <1>3, GotoKeeps DEF IInv, TypeOK

(* The report is formatted.                                                *)
LEMMA VpanicFormatKeeps == IInv /\ VpanicFormat => IInv'
<1> SUFFICES ASSUME IInv, VpanicFormat
             PROVE  IInv'
  OBVIOUS
<1>1. /\ stack[1].pc = "format" /\ Goto("uart")
      /\ UNCHANGED <<chains, traps, intr, in_panic, panic_use_fbcon, uart_ready>>
  BY TopFacts DEF VpanicFormat, panics
<1>2. "uart" \in Pcs /\ "uart" \in ExceptionPcs \ {"service"}
  BY DEF Pcs, ExceptionPcs
<1>3. ~intr /\ in_panic /\ Reporting \subseteq {1}
  BY <1>1, TopFacts
<1>4. QED
  BY <1>1, <1>2, <1>3, GotoKeeps DEF IInv, TypeOK

(* The report, or the note of a double panic, is sent.                     *)
LEMMA VpanicUartKeeps == IInv /\ VpanicUart => IInv'
<1> SUFFICES ASSUME IInv, VpanicUart
             PROVE  IInv'
  OBVIOUS
<1> DEFINE p == IF stack[1].pc = "uart" /\ panic_use_fbcon THEN "fbcon" ELSE "halt"
<1>1. /\ stack[1].pc \in {"uart", "double"} /\ Goto(p) /\ uart_ready' = FALSE
      /\ UNCHANGED <<chains, traps, intr, in_panic, panic_use_fbcon>>
  BY TopFacts DEF VpanicUart, uart_write
<1>2. p \in Pcs /\ p \in ExceptionPcs \ {"service"} /\ p \in {"fbcon", "halt"}
  BY DEF Pcs, ExceptionPcs
<1>3. ~intr /\ (p = "fbcon" => in_panic /\ Reporting \subseteq {1})
  BY <1>1, TopFacts
<1> HIDE DEF p
<1>4. QED
  BY <1>1, <1>2, <1>3, GotoKeeps DEF IInv, TypeOK

(* The report is shown on the console.                                     *)
LEMMA VpanicFbconKeeps == IInv /\ VpanicFbcon => IInv'
<1> SUFFICES ASSUME IInv, VpanicFbcon
             PROVE  IInv'
  OBVIOUS
<1>1. /\ stack[1].pc = "fbcon" /\ Goto("halt")
      /\ UNCHANGED <<chains, traps, intr, in_panic, panic_use_fbcon, uart_ready>>
  BY TopFacts DEF VpanicFbcon, panics
<1>2. "halt" \in Pcs /\ "halt" \in ExceptionPcs \ {"service"}
  BY DEF Pcs, ExceptionPcs
<1>3. ~intr
  BY <1>1, TopFacts
<1>4. QED
  BY <1>1, <1>2, <1>3, GotoKeeps DEF IInv, TypeOK

-----------------------------------------------------------------------------
(***************************************************************************)
(* The actions that leave the stack alone.                                 *)
(***************************************************************************)
LEMMA SameStackKeeps ==
  ASSUME IInv, UNCHANGED <<chains, stack, in_panic, traps>>,
         intr' \in BOOLEAN, panic_use_fbcon' \in BOOLEAN, uart_ready' \in BOOLEAN,
         intr' => intr \/ stack[1].pc = "run"
  PROVE  IInv'
<1>1. /\ stack' = stack /\ in_panic' = in_panic /\ next' = next
      /\ interrupt_handlers' = interrupt_handlers /\ fresh' = fresh
      /\ connected' = connected /\ depth' = depth
  BY DEF chains, depth
<1>2. TypeOK' /\ Layers'
  BY <1>1 DEF IInv, TypeOK, Layers
<1>3. Enabled'
  BY <1>1, TopFacts DEF Enabled, ExceptionPcs
<1>4. Reporting' = Reporting
  BY <1>1 DEF Reporting
<1>5. Panicking'
  BY <1>1, <1>4 DEF IInv, Panicking
<1>6. \A v : Chain(v)' = Chain(v)
  BY <1>1 DEF Chain
<1>7. Chains'
  BY <1>1, <1>6 DEF IInv, Chains
<1>8. ASSUME NEW i \in 1 .. depth
      PROVE  Walk(stack[i])'
  <2>1. Walk(stack[i])
    BY DEF IInv, Walks
  <2>2. QED
    BY <2>1, <1>1, <1>6 DEF Walk
<1>9. Walks'
  BY <1>1, <1>8 DEF Walks
<1>10. QED
  BY <1>2, <1>3, <1>5, <1>7, <1>9 DEF IInv

(* The thread sets or clears the interrupt flag.                           *)
LEMMA SetFlagKeeps ==
  ASSUME IInv, NEW b \in BOOLEAN, SetFlag(b)
  PROVE  IInv'
<1>1. /\ stack[1].pc = "run" /\ intr' \in BOOLEAN
      /\ UNCHANGED <<chains, stack, in_panic, panic_use_fbcon, uart_ready, traps>>
  BY TopFacts DEF SetFlag, panics
<1>2. QED
  BY <1>1, SameStackKeeps DEF IInv, TypeOK

(* The thread lets panics use the console.                                 *)
LEMMA UseConsoleKeeps == IInv /\ panic_use_console => IInv'
  BY SameStackKeeps DEF IInv, TypeOK, panic_use_console

(* The device is ready again.                                              *)
LEMMA UartReadyKeeps == IInv /\ UartReady => IInv'
  BY SameStackKeeps DEF IInv, TypeOK, UartReady

-----------------------------------------------------------------------------
(***************************************************************************)
(* Arrival and return.                                                     *)
(***************************************************************************)
(* An interrupt finds the thread alone with interrupts enabled; an         *)
(* exception finds anything.                                               *)
LEMMA ArriveKeeps ==
  ASSUME IInv, NEW v \in Vectors, Arrive(v), traps' \in 0 .. MaxTraps,
         v >= 32 => intr
  PROVE  IInv'
<1>1. /\ stack' \in Seq(Activation) /\ stack' # << >> /\ depth' = depth + 1
      /\ stack'[1] = Entry(v)
      /\ \A i \in 2 .. depth + 1 : stack'[i] = stack[i - 1]
  BY ArriveStep DEF IInv
<1>2. /\ Entry(v).pc = "service" /\ Entry(v).vector = v
      /\ Entry(v).head = interrupt_handlers[v]
      /\ Entry(v).due = connected[v] /\ Entry(v).flags = FALSE
  BY EntryType DEF IInv
<1>3. /\ interrupt_handlers' = interrupt_handlers /\ next' = next /\ fresh' = fresh
      /\ connected' = connected /\ intr' = FALSE /\ in_panic' = in_panic
      /\ panic_use_fbcon' = panic_use_fbcon /\ uart_ready' = uart_ready
  BY DEF Arrive, chains, panics
<1>4. TypeOK'
  BY <1>1, <1>3 DEF IInv, TypeOK
<1>5. v \in Int
  <2>1. v \in 0 .. 255
    BY InterruptAssumption, Zenon
  <2>2. QED
    BY <2>1
<1>6. depth \in Nat /\ depth >= 1
  BY TopFacts
<1>7. Layers'
  <2>1. stack'[depth'] = stack[depth]
    BY <1>1, <1>6
  <2>2. ASSUME NEW i \in 1 .. depth
        PROVE  /\ stack'[i].pc # "run" /\ ~stack'[i].flags
               /\ stack'[i].vector < 32 => stack'[i].pc \in ExceptionPcs
               /\ stack'[i].vector >= 32 =>
                    i = depth /\ stack[depth].pc \in {"run", "vpanic"}
    <3>1. CASE i = 1
      <4>1. v >= 32 => depth = 1 /\ stack[depth].pc \in {"run", "vpanic"}
        BY TopFacts
      <4>2. QED
        BY <3>1, <4>1, <1>1, <1>2 DEF ExceptionPcs
    <3>2. CASE i # 1
      <4>1. stack'[i] = stack[i - 1] /\ i - 1 \in 1 .. depth - 1
        BY <3>2, <1>1, <1>6
      <4>2. QED
        BY <4>1, <1>6 DEF IInv, Layers
    <3>3. QED
      BY <3>1, <3>2
  <2>3. stack[depth].vector = 0 /\ stack[depth].pc \notin {"service", "handler"}
    BY DEF IInv, Layers
  <2>4. depth' - 1 = depth
    BY <1>1, <1>6
  <2>5. QED
    BY <2>1, <2>2, <2>3, <2>4 DEF Layers
<1>8. Enabled'
  BY <1>3 DEF Enabled
<1>9. Panicking'
  <2>1. in_panic => v < 32
    BY <1>5, TopFacts
  <2>2. /\ Reporting = {i \in 1 .. depth : stack[i].pc \in {"format", "uart", "fbcon"}}
        /\ Reporting' = {i \in 1 .. depth' : stack'[i].pc \in {"format", "uart", "fbcon"}}
    BY <1>4, ReportingIs, ReportingIsNext DEF IInv
  <2>3. \A i \in Reporting' : i - 1 \in Reporting /\ i \in Int
    BY <2>2, <1>1, <1>2, <1>6
  <2>4. /\ ~in_panic => Reporting = {}
        /\ \A i, j \in Reporting : i = j
    BY DEF IInv, Panicking
  <2>5. /\ ~in_panic' => Reporting' = {}
        /\ \A i, j \in Reporting' : i = j
    BY <2>3, <2>4, <1>3
  <2>6. in_panic' => /\ depth' > 1 /\ stack'[1].vector < 32
                     /\ stack'[1].pc \in {"service", "vpanic", "check"}
    BY <2>1, <1>1, <1>2, <1>3, <1>6
  <2>7. QED
    BY <2>5, <2>6 DEF Panicking
<1>10. \A w : Chain(w)' = Chain(w)
  BY <1>3 DEF Chain
<1>11. Chains'
  BY <1>1, <1>2, <1>3, <1>10 DEF IInv, Chains
<1>12. Walks'
  <2>1. ASSUME NEW i \in 1 .. depth + 1
        PROVE  Walk(stack[i])'
    <3>1. CASE i = 1
      <4>1. connected[v] \subseteq Chain(v)
        BY DEF IInv, Chains
      <4>2. interrupt_handlers[v] \in Chain(v) \cup {NULL}
        <5>1. interrupt_handlers[v] \in Nodes \cup {NULL} /\ next \in Links
          BY DEF IInv, TypeOK, Links
        <5>2. QED
          BY <5>1, ReachLeast DEF Chain
      <4>3. QED
        BY <3>1, <4>1, <4>2, <1>1, <1>2, <1>3, <1>10 DEF Walk, Chain
    <3>2. CASE i # 1
      <4>1. stack'[i] = stack[i - 1] /\ Walk(stack[i - 1])
        BY <3>2, <1>1, <1>6 DEF IInv, Walks
      <4>2. QED
        BY <4>1, <1>3, <1>10 DEF Walk
    <3>3. QED
      BY <3>1, <3>2
  <2>2. QED
    BY <2>1, <1>1 DEF Walks
<1>13. QED
  BY <1>4, <1>7, <1>8, <1>9, <1>11, <1>12 DEF IInv

(* A device's interrupt.                                                   *)
LEMMA InterruptKeeps ==
  ASSUME IInv, NEW v \in Vectors, Interrupt(v)
  PROVE  IInv'
  BY ArriveKeeps DEF IInv, TypeOK, Interrupt

(* An exception or NMI.                                                    *)
LEMMA ExceptionKeeps ==
  ASSUME IInv, NEW v \in Vectors, Exception(v)
  PROVE  IInv'
<1>1. traps' \in 0 .. MaxTraps
  BY InterruptAssumption DEF IInv, TypeOK, Exception
<1>2. ~(v >= 32)
  <2>1. v \in 0 .. 255 /\ v < 32
    BY InterruptAssumption, Zenon DEF Exception
  <2>2. QED
    BY <2>1
<1>3. QED
  BY <1>1, <1>2, ArriveKeeps DEF Exception

(* A handler that took its interrupt returns to the thread, which was at a *)
(* point where interrupts were enabled.                                    *)
LEMMA ReturnKeeps == IInv /\ exit_interrupt_service => IInv'
<1> SUFFICES ASSUME IInv, exit_interrupt_service
             PROVE  IInv'
  OBVIOUS
<1>1. /\ stack[1].pc = "handler" /\ stack' = Tail(stack) /\ intr' = stack[1].rflags
      /\ interrupt_handlers' = interrupt_handlers /\ next' = next /\ fresh' = fresh
      /\ connected' = connected /\ in_panic' = in_panic
      /\ panic_use_fbcon' = panic_use_fbcon /\ uart_ready' = uart_ready
      /\ traps' = traps
  BY TopFacts DEF exit_interrupt_service, chains, panics
<1>2. depth = 2 /\ stack[2].pc \in {"run", "vpanic"} /\ ~in_panic
  <2>1. stack[1].vector \in Int /\ depth > 1
    BY <1>1, TopFacts, VectorType
  <2>2. QED
    BY <2>1, <1>1, TopFacts DEF ExceptionPcs
<1>3. /\ stack' \in Seq(Activation) /\ stack' # << >>
      /\ depth' = 1 /\ stack'[1] = stack[2]
  BY <1>1, <1>2, ReturnStep DEF IInv
<1>4. stack[2].vector = 0
  BY <1>2 DEF IInv, Layers
<1>5. TypeOK'
  <2>1. stack[1].rflags \in BOOLEAN
    BY TopFacts DEF Activation
  <2>2. QED
    BY <2>1, <1>1, <1>3 DEF IInv, TypeOK
<1>6. Layers' /\ Enabled'
  BY <1>1, <1>2, <1>3, <1>4 DEF Layers, Enabled
<1>7. Panicking'
  <2>1. Reporting' = {}
    BY <1>2, <1>3, <1>5, ReportingIsNext
  <2>2. QED
    BY <2>1, <1>1, <1>2 DEF Panicking
<1>8. \A w : Chain(w)' = Chain(w)
  BY <1>1 DEF Chain
<1>9. Chains'
  BY <1>1, <1>2, <1>3, <1>8 DEF IInv, Chains
<1>10. Walks'
  BY <1>3, <1>4 DEF Walks, Walk
<1>11. QED
  BY <1>5, <1>6, <1>7, <1>9, <1>10 DEF IInv

-----------------------------------------------------------------------------
(***************************************************************************)
(* The walk along the chain and connect_interrupt.                         *)
(***************************************************************************)
WorkPcs == {"run", "handler", "kmalloc", "link", "publish", "restore"}

(* The thread or a handler works, without panicking: the control part of   *)
(* the invariant stays, and of the walks only its own can change.          *)
LEMMA WorkStep ==
  ASSUME IInv, stack[1].pc \in WorkPcs, NEW a \in Activation, Become(a),
         in_panic' = in_panic,
         a.vector = stack[1].vector, a.pc \in WorkPcs \cup {"service"},
         depth = 1 => a.pc \notin {"service", "handler"},
         depth > 1 => a.pc # "run" /\ ~a.flags,
         intr' => depth = 1 /\ a.pc = "run"
  PROVE  /\ stack' \in Seq(Activation) /\ stack' # << >>
         /\ depth' = depth /\ stack'[1] = a
         /\ Layers' /\ Enabled' /\ (TypeOK' => Panicking')
         /\ Walk(stack[1])' => Walks'
<1>1. /\ stack' \in Seq(Activation) /\ stack' # << >>
      /\ depth' = depth /\ stack'[1] = a
      /\ \A i \in 2 .. depth : stack'[i] = stack[i]
  BY BecomeStep DEF IInv
<1>2. /\ depth \in Nat /\ depth >= 1 /\ ~in_panic /\ Reporting = {}
      /\ depth > 1 => /\ depth = 2 /\ stack[1].vector >= 32
                      /\ stack[2].pc \in {"run", "vpanic"}
  <2>1. stack[1].vector \in Int
    BY TopFacts, VectorType
  <2>2. ~in_panic
    BY TopFacts DEF ExceptionPcs, WorkPcs
  <2>3. depth > 1 => stack[1].vector >= 32
    BY <2>1, TopFacts DEF ExceptionPcs, WorkPcs
  <2>4. QED
    BY <2>2, <2>3, TopFacts
<1>3. stack[depth].vector = 0 /\ stack[depth].pc \notin {"service", "handler"}
  BY DEF IInv, Layers
<1>4. Layers'
  <2>1. CASE depth = 1
    BY <2>1, <1>1, <1>3 DEF Layers
  <2>2. CASE depth > 1
    <3>1. depth = 2 /\ stack'[2] = stack[2]
      BY <2>2, <1>1, <1>2
    <3>2. a.vector \in Int
      BY VectorType
    <3>3. QED
      BY <2>2, <3>1, <3>2, <1>1, <1>2, <1>3 DEF Layers
  <2>3. QED
    BY <2>1, <2>2, <1>2
<1>5. Enabled'
  BY <1>1, <1>2 DEF Enabled
<1>6. TypeOK' => Panicking'
  <2>1. SUFFICES ASSUME TypeOK' PROVE Panicking'
    OBVIOUS
  <2>2. /\ Reporting = {i \in 1 .. depth : stack[i].pc \in {"format", "uart", "fbcon"}}
        /\ Reporting' = {i \in 1 .. depth : stack'[i].pc \in {"format", "uart", "fbcon"}}
    BY <2>1, <1>1, ReportingIs, ReportingIsNext DEF IInv
  <2>3. a.pc \notin {"format", "uart", "fbcon"}
    BY DEF WorkPcs
  <2>4. Reporting' = {}
    BY <2>2, <2>3, <1>1, <1>2
  <2>5. QED
    BY <2>4, <1>2 DEF Panicking
<1>7. Walk(stack[1])' => Walks'
  <2>1. SUFFICES ASSUME Walk(stack[1])', NEW i \in 1 .. depth
                 PROVE  Walk(stack[i])'
    BY <1>1 DEF Walks
  <2>2. CASE i = 1
    BY <2>1, <2>2, <1>1 DEF Walk
  <2>3. CASE i # 1
    <3>1. i = depth /\ stack'[i] = stack[i]
      BY <2>3, <1>1, <1>2
    <3>2. QED
      BY <3>1, <1>3 DEF Walk
  <2>4. QED
    BY <2>2, <2>3
<1>8. QED
  BY <1>1, <1>4, <1>5, <1>6, <1>7

(* What the steps below need of the types.                                 *)
LEMMA WorkTypes ==
  ASSUME IInv
  PROVE  /\ next \in Links /\ Top = stack[1] /\ stack[1] \in Activation
         /\ \A v \in Vectors : interrupt_handlers[v] \in Nodes \cup {NULL}
         /\ Walk(stack[1])
         /\ \A v \in Vectors : Chain(v) \subseteq Nodes
<1>1. next \in Links /\ \A v \in Vectors : interrupt_handlers[v] \in Nodes \cup {NULL}
  BY DEF IInv, TypeOK, Links
<1>2. \A v \in Vectors : Chain(v) \subseteq Nodes
  BY DEF Chain, Reach
<1>3. Top = stack[1] /\ stack[1] \in Activation /\ Walk(stack[1])
  BY TopFacts DEF IInv, Walks
<1>4. QED
  BY <1>1, <1>2, <1>3

(* A handler declined: what it was asked for is now asked, the rest is     *)
(* what its successor reaches.                                             *)
LEMMA DeclineKeeps == IInv /\ Decline => IInv'
<1> SUFFICES ASSUME IInv, Decline
             PROVE  IInv'
  OBVIOUS
<1> DEFINE a == [stack[1] EXCEPT !.pc = "service", !.head = next[stack[1].head],
                                 !.asked = @ \cup {stack[1].head}]
<1>1. /\ stack[1].pc = "handler" /\ Become(a)
      /\ interrupt_handlers' = interrupt_handlers /\ next' = next /\ fresh' = fresh
      /\ connected' = connected /\ in_panic' = in_panic /\ intr' = intr
      /\ panic_use_fbcon' = panic_use_fbcon /\ uart_ready' = uart_ready
      /\ traps' = traps
  BY WorkTypes DEF Decline, chains, panics
<1>2. depth > 1 /\ stack[1].vector >= 32 /\ ~intr
  <2>1. stack[1].vector \in Int
    BY WorkTypes, VectorType
  <2>2. QED
    BY <2>1, <1>1, TopFacts DEF ExceptionPcs
<1>3. /\ stack[1].vector \in Vectors
      /\ stack[1].due \subseteq stack[1].asked \cup Reach(next, stack[1].head)
      /\ stack[1].head \in Chain(stack[1].vector)
  BY <1>1, <1>2, WorkTypes DEF Walk
<1>4. stack[1].head \in Nodes /\ next[stack[1].head] \in Nodes \cup {NULL}
  BY <1>3, WorkTypes DEF Links
<1>5. a \in Activation
  BY <1>4, WorkTypes DEF Activation, Pcs
<1>6. /\ a.pc = "service" /\ a.vector = stack[1].vector /\ a.flags = stack[1].flags
      /\ a.due = stack[1].due /\ a.asked = stack[1].asked \cup {stack[1].head}
      /\ a.head = next[stack[1].head]
  BY WorkTypes DEF Activation
<1> HIDE DEF a
<1>7. /\ stack' \in Seq(Activation) /\ stack' # << >>
      /\ depth' = depth /\ stack'[1] = a
      /\ Layers' /\ Enabled' /\ (TypeOK' => Panicking')
      /\ Walk(stack[1])' => Walks'
  <2>1. ~stack[1].flags
    BY <1>2, TopFacts
  <2>2. QED
    BY <2>1, <1>1, <1>2, <1>5, <1>6, WorkStep DEF WorkPcs
<1>8. TypeOK'
  BY <1>1, <1>7 DEF IInv, TypeOK
<1>9. \A w : Chain(w)' = Chain(w)
  BY <1>1 DEF Chain
<1>10. Chains'
  BY <1>1, <1>6, <1>7, <1>9 DEF IInv, Chains
<1>11. Walk(stack[1])'
  <2>1. Reach(next, stack[1].head) = {stack[1].head} \cup Reach(next, a.head)
    BY <1>4, <1>6, WorkTypes, ReachStep
  <2>2. a.due \subseteq a.asked \cup Reach(next, a.head)
    BY <2>1, <1>3, <1>6
  <2>3. a.head \in Chain(a.vector) \cup {NULL}
    <3>1. interrupt_handlers[stack[1].vector] \in Nodes \cup {NULL}
      BY <1>3, WorkTypes
    <3>2. Closed(next, Chain(stack[1].vector))
      BY <3>1, WorkTypes, ReachLeast DEF Chain
    <3>3. QED
      BY <3>2, <1>3, <1>6 DEF Closed
  <2>4. QED
    BY <2>2, <2>3, <1>1, <1>3, <1>6, <1>7, <1>9 DEF Walk
<1>12. QED
  BY <1>7, <1>8, <1>10, <1>11 DEF IInv

(* connect_interrupt is called: interrupts are disabled.                   *)
LEMMA ConnectKeeps ==
  ASSUME IInv, NEW v \in Vectors, connect_interrupt(v)
  PROVE  IInv'
<1> DEFINE a == [stack[1] EXCEPT !.pc = "kmalloc", !.number = v, !.flags = intr]
<1>1. /\ stack[1].pc \in {"run", "handler"} /\ Become(a)
      /\ interrupt_handlers' = interrupt_handlers /\ next' = next /\ fresh' = fresh
      /\ connected' = connected /\ in_panic' = in_panic /\ intr' = FALSE
      /\ panic_use_fbcon' = panic_use_fbcon /\ uart_ready' = uart_ready
      /\ traps' = traps
  BY WorkTypes DEF connect_interrupt, chains, panics
<1>2. a \in Activation
  BY WorkTypes DEF Activation, Pcs, IInv, TypeOK
<1>3. /\ a.pc = "kmalloc" /\ a.vector = stack[1].vector /\ a.flags = intr
      /\ a.due = stack[1].due /\ a.asked = stack[1].asked /\ a.head = stack[1].head
      /\ a.number = v
  BY WorkTypes DEF Activation
<1> HIDE DEF a
<1>4. /\ stack' \in Seq(Activation) /\ stack' # << >>
      /\ depth' = depth /\ stack'[1] = a
      /\ Layers' /\ Enabled' /\ (TypeOK' => Panicking')
      /\ Walk(stack[1])' => Walks'
  <2>1. depth > 1 => ~intr
    BY TopFacts
  <2>2. QED
    BY <2>1, <1>1, <1>2, <1>3, WorkStep DEF WorkPcs
<1>5. TypeOK'
  BY <1>1, <1>4 DEF IInv, TypeOK
<1>6. \A w : Chain(w)' = Chain(w)
  BY <1>1 DEF Chain
<1>7. Chains'
  BY <1>1, <1>3, <1>4, <1>6 DEF IInv, Chains
<1>8. Walk(stack[1])'
  <2>1. stack[1].vector >= 32 => stack[1].pc = "handler"
    BY <1>1, TopFacts
  <2>2. QED
    BY <2>1, <1>1, <1>3, <1>4, <1>6, WorkTypes DEF Walk
<1>9. QED
  BY <1>4, <1>5, <1>7, <1>8 DEF IInv

(* kmalloc gives a node: it is on no chain.                                *)
LEMMA KmallocKeeps ==
  ASSUME IInv, NEW m \in fresh, kmalloc(m)
  PROVE  IInv'
<1> DEFINE a == [stack[1] EXCEPT !.pc = "link", !.new_node = m]
<1>1. /\ stack[1].pc = "kmalloc" /\ Become(a)
      /\ interrupt_handlers' = interrupt_handlers /\ next' = next
      /\ fresh' = fresh \ {m}
      /\ connected' = connected /\ in_panic' = in_panic /\ intr' = intr
      /\ panic_use_fbcon' = panic_use_fbcon /\ uart_ready' = uart_ready
      /\ traps' = traps
  BY WorkTypes DEF kmalloc, panics
<1>2. m \in Nodes
  BY DEF IInv, TypeOK
<1>3. a \in Activation
  BY <1>2, WorkTypes DEF Activation, Pcs
<1>4. /\ a.pc = "link" /\ a.vector = stack[1].vector /\ a.flags = stack[1].flags
      /\ a.due = stack[1].due /\ a.asked = stack[1].asked /\ a.head = stack[1].head
      /\ a.number = stack[1].number /\ a.new_node = m
  BY WorkTypes DEF Activation
<1> HIDE DEF a
<1>5. /\ stack' \in Seq(Activation) /\ stack' # << >>
      /\ depth' = depth /\ stack'[1] = a
      /\ Layers' /\ Enabled' /\ (TypeOK' => Panicking')
      /\ Walk(stack[1])' => Walks'
  <2>1. (depth > 1 => ~stack[1].flags) /\ ~intr
    BY <1>1, TopFacts
  <2>2. QED
    BY <2>1, <1>1, <1>3, <1>4, WorkStep DEF WorkPcs
<1>6. TypeOK'
  BY <1>1, <1>5 DEF IInv, TypeOK
<1>7. \A w : Chain(w)' = Chain(w)
  BY <1>1 DEF Chain
<1>8. Chains'
  <2>1. \A w \in Vectors : m \notin Chain(w)
    BY DEF IInv, Chains
  <2>2. QED
    BY <2>1, <1>1, <1>2, <1>4, <1>5, <1>7 DEF IInv, Chains
<1>9. Walk(stack[1])'
  BY <1>1, <1>4, <1>5, <1>7, WorkTypes DEF Walk
<1>10. QED
  BY <1>5, <1>6, <1>8, <1>9 DEF IInv

(* connect_interrupt returns: to the thread or to the handler that called. *)
LEMMA DoneFields ==
  ASSUME IInv, stack[1].pc \in {"kmalloc", "restore"}
  PROVE  LET a == ConnectDone(stack[1])
         IN  /\ a \in Activation
             /\ a.pc = (IF depth = 1 THEN "run" ELSE "handler")
             /\ a.vector = stack[1].vector /\ a.flags = FALSE
             /\ a.due = stack[1].due /\ a.asked = stack[1].asked
             /\ a.head = stack[1].head
<1>1. Caller = (IF depth = 1 THEN "run" ELSE "handler")
  BY DEF Caller, depth
<1>2. Caller \in Pcs
  BY <1>1 DEF Pcs
<1>3. QED
  BY <1>1, <1>2, WorkTypes DEF Activation, ConnectDone

(* kmalloc had no memory.                                                  *)
LEMMA KmallocFailsKeeps == IInv /\ KmallocFails => IInv'
<1> SUFFICES ASSUME IInv, KmallocFails
             PROVE  IInv'
  OBVIOUS
<1> DEFINE a == ConnectDone(stack[1])
<1>1. /\ stack[1].pc = "kmalloc" /\ Become(a)
      /\ interrupt_handlers' = interrupt_handlers /\ next' = next /\ fresh' = fresh
      /\ connected' = connected /\ in_panic' = in_panic
      /\ intr' = stack[1].flags
      /\ panic_use_fbcon' = panic_use_fbcon /\ uart_ready' = uart_ready
      /\ traps' = traps
  BY WorkTypes DEF KmallocFails, chains, panics
<1>2. /\ a \in Activation
      /\ a.pc = (IF depth = 1 THEN "run" ELSE "handler")
      /\ a.vector = stack[1].vector /\ a.flags = FALSE
      /\ a.due = stack[1].due /\ a.asked = stack[1].asked /\ a.head = stack[1].head
  BY <1>1, DoneFields
<1> HIDE DEF a
<1>3. /\ stack' \in Seq(Activation) /\ stack' # << >>
      /\ depth' = depth /\ stack'[1] = a
      /\ Layers' /\ Enabled' /\ (TypeOK' => Panicking')
      /\ Walk(stack[1])' => Walks'
  <2>1. stack[1].flags => depth = 1
    BY TopFacts
  <2>2. QED
    BY <2>1, <1>1, <1>2, WorkStep DEF WorkPcs
<1>4. TypeOK'
  <2>1. stack[1].flags \in BOOLEAN
    BY WorkTypes DEF Activation
  <2>2. QED
    BY <2>1, <1>1, <1>3 DEF IInv, TypeOK
<1>5. \A w : Chain(w)' = Chain(w)
  BY <1>1 DEF Chain
<1>6. Chains'
  BY <1>1, <1>2, <1>3, <1>5 DEF IInv, Chains
<1>7. Walk(stack[1])'
  BY <1>1, <1>2, <1>3, <1>5, WorkTypes DEF Walk
<1>8. QED
  BY <1>3, <1>4, <1>6, <1>7 DEF IInv

(* The new node is linked: it is on no chain, so no chain changes.         *)
LEMMA LinkKeeps == IInv /\ Link => IInv'
<1> SUFFICES ASSUME IInv, Link
             PROVE  IInv'
  OBVIOUS
<1> DEFINE a == [stack[1] EXCEPT !.pc = "publish"]
           x == stack[1].new_node
           y == interrupt_handlers[stack[1].number]
<1>1. /\ stack[1].pc = "link" /\ Become(a)
      /\ interrupt_handlers' = interrupt_handlers
      /\ next' = [next EXCEPT ![x] = y] /\ fresh' = fresh
      /\ connected' = connected /\ in_panic' = in_panic /\ intr' = intr
      /\ panic_use_fbcon' = panic_use_fbcon /\ uart_ready' = uart_ready
      /\ traps' = traps
  BY WorkTypes DEF Link, Goto, panics
<1>2. a \in Activation
  BY WorkTypes DEF Activation, Pcs
<1>3. /\ a.pc = "publish" /\ a.vector = stack[1].vector /\ a.flags = stack[1].flags
      /\ a.due = stack[1].due /\ a.asked = stack[1].asked /\ a.head = stack[1].head
      /\ a.number = stack[1].number /\ a.new_node = x
  BY WorkTypes DEF Activation
<1>4. /\ x \in Nodes \ fresh /\ stack[1].number \in Vectors /\ y \in Nodes \cup {NULL}
      /\ \A w \in Vectors : x \notin Chain(w)
  BY <1>1, WorkTypes DEF IInv, Chains
<1> HIDE DEF a, x, y
<1>5. /\ stack' \in Seq(Activation) /\ stack' # << >>
      /\ depth' = depth /\ stack'[1] = a
      /\ Layers' /\ Enabled' /\ (TypeOK' => Panicking')
      /\ Walk(stack[1])' => Walks'
  <2>1. (depth > 1 => ~stack[1].flags) /\ ~intr
    BY <1>1, TopFacts
  <2>2. QED
    BY <2>1, <1>1, <1>2, <1>3, WorkStep DEF WorkPcs
<1>6. next' \in Links /\ next'[x] = y
  BY <1>1, <1>4, WorkTypes DEF Links
<1>7. TypeOK'
  BY <1>1, <1>5, <1>6 DEF IInv, TypeOK, Links
<1>8. ASSUME NEW h \in Nodes \cup {NULL}, x \notin Reach(next, h)
      PROVE  Reach(next', h) = Reach(next, h)
  <2>1. next \in Links /\ x \in Nodes /\ y \in Nodes \cup {NULL}
    BY <1>4, WorkTypes
  <2>2. Reach([next EXCEPT ![x] = y], h) = Reach(next, h)
    BY ONLY <2>1, <1>8, ReachExcept
  <2>3. QED
    BY <2>2, <1>1
<1>9. \A w \in Vectors : Chain(w)' = Chain(w)
  BY <1>1, <1>4, <1>8, WorkTypes DEF Chain
<1>10. Chains'
  <2>1. /\ stack'[1].new_node = x /\ stack'[1].number = stack[1].number
        /\ stack'[1].pc = "publish"
    BY <1>3, <1>5
  <2>2. next'[stack'[1].new_node] = interrupt_handlers'[stack'[1].number]
    BY <2>1, <1>1, <1>6 DEF y
  <2>3. QED
    BY <2>1, <2>2, <1>1, <1>4, <1>9 DEF IInv, Chains
<1>11. Walk(stack[1])'
  <2>1. SUFFICES ASSUME stack[1].vector >= 32
                 PROVE  Walk(stack[1])'
    BY <1>3, <1>5 DEF Walk
  <2>2. /\ stack[1].vector \in Vectors /\ stack[1].head \in Chain(stack[1].vector)
        /\ stack[1].due \subseteq stack[1].asked \cup Reach(next, stack[1].head)
        /\ stack[1].head # NULL
    BY <2>1, <1>1, WorkTypes DEF Walk
  <2>3. stack[1].head \in Nodes
    BY <2>2, WorkTypes
  <2>4. x \notin Reach(next, stack[1].head)
    <3>1. interrupt_handlers[stack[1].vector] \in Nodes \cup {NULL}
      BY <2>2, WorkTypes
    <3>2. Reach(next, stack[1].head) \subseteq Chain(stack[1].vector)
      BY <3>1, <2>2, WorkTypes, ReachMember DEF Chain
    <3>3. QED
      BY <3>2, <2>2, <1>4
  <2>5. Reach(next', stack[1].head) = Reach(next, stack[1].head)
    BY <2>3, <2>4, <1>8
  <2>6. QED
    BY <2>2, <2>5, <1>3, <1>5, <1>9 DEF Walk
<1>12. QED
  BY <1>5, <1>7, <1>10, <1>11 DEF IInv

(* The new node is published: its chain is the old one with it in front.   *)
LEMMA PublishKeeps == IInv /\ Publish => IInv'
<1> SUFFICES ASSUME IInv, Publish
             PROVE  IInv'
  OBVIOUS
<1> DEFINE a == [stack[1] EXCEPT !.pc = "restore"]
<1>0. PICK x, v : x = stack[1].new_node /\ v = stack[1].number
  OBVIOUS
<1>1. /\ stack[1].pc = "publish" /\ Become(a)
      /\ interrupt_handlers' = [interrupt_handlers EXCEPT ![v] = x]
      /\ next' = next /\ fresh' = fresh
      /\ connected' = connected /\ in_panic' = in_panic /\ intr' = intr
      /\ panic_use_fbcon' = panic_use_fbcon /\ uart_ready' = uart_ready
      /\ traps' = traps
  BY <1>0, WorkTypes DEF Publish, Goto, panics
<1>2. a \in Activation
  BY WorkTypes DEF Activation, Pcs
<1>3. /\ a.pc = "restore" /\ a.vector = stack[1].vector /\ a.flags = stack[1].flags
      /\ a.due = stack[1].due /\ a.asked = stack[1].asked /\ a.head = stack[1].head
      /\ a.number = v /\ a.new_node = x
  BY <1>0, WorkTypes DEF Activation
<1>4. /\ x \in Nodes \ fresh /\ v \in Vectors
      /\ next[x] = interrupt_handlers[v]
      /\ \A w \in Vectors : x \notin Chain(w)
  BY <1>0, <1>1, WorkTypes DEF IInv, Chains
<1> HIDE DEF a
<1>5. /\ stack' \in Seq(Activation) /\ stack' # << >>
      /\ depth' = depth /\ stack'[1] = a
      /\ Layers' /\ Enabled' /\ (TypeOK' => Panicking')
      /\ Walk(stack[1])' => Walks'
  <2>1. (depth > 1 => ~stack[1].flags) /\ ~intr
    BY <1>1, TopFacts
  <2>2. QED
    BY <2>1, <1>1, <1>2, <1>3, WorkStep DEF WorkPcs
<1>6. TypeOK'
  BY <1>1, <1>4, <1>5 DEF IInv, TypeOK
<1>7. /\ interrupt_handlers'[v] = x
      /\ \A w \in Vectors : w # v => interrupt_handlers'[w] = interrupt_handlers[w]
  BY <1>1, <1>4 DEF IInv, TypeOK
<1>8. /\ Chain(v)' = {x} \cup Chain(v)
      /\ \A w \in Vectors : w # v => Chain(w)' = Chain(w)
  <2>1. Reach(next, x) = {x} \cup Reach(next, interrupt_handlers[v])
    BY <1>4, WorkTypes, ReachStep
  <2>2. Reach(next', interrupt_handlers'[v]) = {x} \cup Chain(v)
    BY <2>1, <1>1, <1>7 DEF Chain
  <2>3. \A w \in Vectors : w # v => Chain(w)' = Chain(w)
    BY <1>1, <1>7 DEF Chain
  <2>4. Chain(v)' = Reach(next', interrupt_handlers'[v])
    BY <1>7 DEF Chain
  <2>5. QED
    BY <2>2, <2>3, <2>4
<1>9. Chains'
  <2>1. ASSUME NEW w \in Vectors
        PROVE  connected'[w] \subseteq Chain(w)' /\ Chain(w)' \cap fresh' = {}
    <3>1. connected[w] \subseteq Chain(w) /\ Chain(w) \cap fresh = {}
      BY DEF IInv, Chains
    <3>2. QED
      BY <3>1, <1>1, <1>4, <1>8
  <2>2. ASSUME NEW w \in Vectors, NEW u \in Vectors, w # u
        PROVE  Chain(w)' \cap Chain(u)' = {}
    <3>1. Chain(w) \cap Chain(u) = {}
      BY <2>2 DEF IInv, Chains
    <3>2. QED
      BY <3>1, <2>2, <1>4, <1>8
  <2>3. stack'[1].pc = "restore" /\ stack'[1].number = v /\ stack'[1].new_node = x
    BY <1>3, <1>5
  <2>4. QED
    BY <2>1, <2>2, <2>3, <1>4, <1>8 DEF Chains
<1>10. Walk(stack[1])'
  <2>1. SUFFICES ASSUME stack[1].vector >= 32
                 PROVE  Walk(stack[1])'
    BY <1>3, <1>5 DEF Walk
  <2>2. /\ stack[1].vector \in Vectors /\ stack[1].head \in Chain(stack[1].vector)
        /\ stack[1].due \subseteq stack[1].asked \cup Reach(next, stack[1].head)
        /\ stack[1].head # NULL
    BY <2>1, <1>1, WorkTypes DEF Walk
  <2>3. Chain(stack[1].vector) \subseteq Reach(next', interrupt_handlers'[stack[1].vector])
    <3>1. CASE stack[1].vector = v
      BY <3>1, <1>8 DEF Chain
    <3>2. CASE stack[1].vector # v
      BY <3>2, <2>2, <1>1, <1>7 DEF Chain
    <3>3. QED
      BY <3>1, <3>2
  <2>4. QED
    BY <2>2, <2>3, <1>1, <1>3, <1>5 DEF Walk, Chain
<1>11. QED
  BY <1>5, <1>6, <1>9, <1>10 DEF IInv

(* connect_interrupt returns 0.                                            *)
LEMMA RestoreKeeps == IInv /\ Restore => IInv'
<1> SUFFICES ASSUME IInv, Restore
             PROVE  IInv'
  OBVIOUS
<1> DEFINE a == ConnectDone(stack[1])
           x == stack[1].new_node
           v == stack[1].number
<1>1. /\ stack[1].pc = "restore" /\ Become(a)
      /\ interrupt_handlers' = interrupt_handlers /\ next' = next /\ fresh' = fresh
      /\ connected' = [connected EXCEPT ![v] = @ \cup {x}]
      /\ in_panic' = in_panic /\ intr' = stack[1].flags
      /\ panic_use_fbcon' = panic_use_fbcon /\ uart_ready' = uart_ready
      /\ traps' = traps
  BY WorkTypes DEF Restore, panics
<1>2. /\ a \in Activation
      /\ a.pc = (IF depth = 1 THEN "run" ELSE "handler")
      /\ a.vector = stack[1].vector /\ a.flags = FALSE
      /\ a.due = stack[1].due /\ a.asked = stack[1].asked /\ a.head = stack[1].head
  BY <1>1, DoneFields
<1>3. v \in Vectors /\ x \in Chain(v) /\ x \in Nodes
  BY <1>1, WorkTypes DEF IInv, Chains
<1> HIDE DEF a, x, v
<1>4. /\ stack' \in Seq(Activation) /\ stack' # << >>
      /\ depth' = depth /\ stack'[1] = a
      /\ Layers' /\ Enabled' /\ (TypeOK' => Panicking')
      /\ Walk(stack[1])' => Walks'
  <2>1. stack[1].flags => depth = 1
    BY TopFacts
  <2>2. QED
    BY <2>1, <1>1, <1>2, WorkStep DEF WorkPcs
<1>5. TypeOK'
  <2>1. stack[1].flags \in BOOLEAN
    BY WorkTypes DEF Activation
  <2>2. connected' \in [Vectors -> SUBSET Nodes]
    BY <1>1, <1>3 DEF IInv, TypeOK
  <2>3. QED
    BY <2>1, <2>2, <1>1, <1>4 DEF IInv, TypeOK
<1>6. \A w : Chain(w)' = Chain(w)
  BY <1>1 DEF Chain
<1>7. \A w \in Vectors : connected'[w] \subseteq Chain(w)
  <2>1. ASSUME NEW w \in Vectors
        PROVE  connected[w] \subseteq Chain(w)
    BY DEF IInv, Chains
  <2>2. QED
    BY <2>1, <1>1, <1>3 DEF IInv, TypeOK
<1>8. Chains'
  <2>1. stack'[1].pc \in {"run", "handler"}
    BY <1>2, <1>4
  <2>2. QED
    BY <2>1, <1>1, <1>6, <1>7 DEF IInv, Chains
<1>9. Walk(stack[1])'
  BY <1>1, <1>2, <1>4, <1>6, WorkTypes DEF Walk
<1>10. QED
  BY <1>4, <1>5, <1>8, <1>9 DEF IInv

-----------------------------------------------------------------------------
(***************************************************************************)
(* The thread's interrupt flag.                                            *)
(***************************************************************************)
ConnectPcs == {"kmalloc", "link", "publish", "restore"}

(* Where the flag that the thread chose is kept: in the processor while it *)
(* runs, in the local flags while it connects a handler, and in what the   *)
(* activation next to it saved while it is interrupted.                    *)
FlagOK ==
  /\ stack[1].pc = "run" => intr = wanted
  /\ depth = 1 /\ stack[1].pc \in ConnectPcs => stack[1].flags = wanted
  /\ depth > 1 /\ stack[depth].pc = "run" => stack[depth - 1].rflags = wanted

(* The running activation continues as a, with what it saved on entry.     *)
LEMMA BecomeFlag ==
  ASSUME IInv, FlagOK, NEW a \in Activation, Become(a), wanted' = wanted,
         a.rflags = stack[1].rflags,
         a.pc = "run" => intr' = wanted,
         depth = 1 /\ a.pc \in ConnectPcs => a.flags = wanted
  PROVE  FlagOK'
<1>1. /\ depth' = depth /\ stack'[1] = a
      /\ \A i \in 2 .. depth : stack'[i] = stack[i]
  BY BecomeStep DEF IInv
<1>2. depth \in Nat /\ depth >= 1
  BY TopFacts
<1>3. ASSUME depth > 1, stack'[depth].pc = "run"
      PROVE  stack'[depth - 1].rflags = wanted
  <2>1. stack'[depth] = stack[depth]
    BY <1>1, <1>2, <1>3
  <2>2. stack[depth - 1].rflags = wanted
    BY <2>1, <1>3 DEF FlagOK
  <2>3. CASE depth = 2
    BY <2>2, <2>3, <1>1
  <2>4. CASE depth # 2
    <3>1. depth - 1 \in 2 .. depth
      BY <2>4, <1>2, <1>3
    <3>2. QED
      BY <3>1, <2>2, <1>1
  <2>5. QED
    BY <2>3, <2>4
<1>4. QED
  BY <1>1, <1>3 DEF FlagOK

(* It goes on at p.                                                        *)
LEMMA GotoFlag ==
  ASSUME IInv, FlagOK, NEW p \in Pcs, Goto(p), wanted' = wanted, p # "run",
         depth = 1 /\ p \in ConnectPcs => stack[1].flags = wanted
  PROVE  FlagOK'
<1>1. stack[1] \in Activation /\ Become([stack[1] EXCEPT !.pc = p])
  BY TopFacts DEF Goto
<1>2. PICK a : a = [stack[1] EXCEPT !.pc = p]
  OBVIOUS
<1>3. /\ a \in Activation /\ a.pc = p
      /\ a.rflags = stack[1].rflags /\ a.flags = stack[1].flags
  BY <1>1, <1>2 DEF Activation
<1>4. QED
  BY <1>1, <1>2, <1>3, BecomeFlag

(* Service, panic and its report.                                          *)
LEMMA MovesFlag ==
  ASSUME IInv, FlagOK,
         \/ interrupt_service \/ panic \/ VpanicEnter \/ VpanicCheck
         \/ VpanicSet \/ VpanicFormat \/ VpanicUart \/ VpanicFbcon
  PROVE  FlagOK'
<1>1. /\ wanted' = wanted
      /\ \E p \in ExceptionPcs \cup {"handler"} : Goto(p)
  BY DEF interrupt_service, panic, VpanicEnter, VpanicCheck, VpanicSet,
         VpanicFormat, VpanicUart, VpanicFbcon, ExceptionPcs
<1>2. PICK p \in ExceptionPcs \cup {"handler"} : Goto(p)
  BY <1>1
<1>3. p \in Pcs /\ p # "run" /\ p \notin ConnectPcs
  BY DEF Pcs, ExceptionPcs, ConnectPcs
<1>4. QED
  BY <1>1, <1>2, <1>3, GotoFlag

(* A handler declines.                                                     *)
LEMMA DeclineFlag ==
  ASSUME IInv, FlagOK, Decline
  PROVE  FlagOK'
<1>1. PICK a : a = [stack[1] EXCEPT !.pc = "service", !.head = next[stack[1].head],
                                    !.asked = @ \cup {stack[1].head}]
  OBVIOUS
<1>2. Become(a) /\ wanted' = wanted /\ stack[1].pc = "handler"
  BY <1>1, TopFacts DEF Decline
<1>3. stack[1].head \in Nodes /\ next[stack[1].head] \in Nodes \cup {NULL}
  <2>1. stack[1].vector \in Int /\ stack[1] \in Activation
    BY TopFacts, VectorType
  <2>2. stack[1].vector >= 32
    BY <2>1, <1>2, TopFacts DEF ExceptionPcs
  <2>3. stack[1].head # NULL
    BY <2>2, <1>2, WorkTypes DEF Walk
  <2>4. QED
    BY <2>1, <2>3 DEF Activation, IInv, TypeOK
<1>4. a \in Activation /\ a.pc = "service" /\ a.rflags = stack[1].rflags
  BY <1>1, <1>3, TopFacts DEF Activation, Pcs
<1>5. QED
  BY <1>2, <1>4, BecomeFlag DEF ConnectPcs

(* connect_interrupt saves the flag.                                       *)
LEMMA ConnectFlag ==
  ASSUME IInv, FlagOK, NEW v \in Vectors, connect_interrupt(v)
  PROVE  FlagOK'
<1>1. PICK a : a = [stack[1] EXCEPT !.pc = "kmalloc", !.number = v, !.flags = intr]
  OBVIOUS
<1>2. Become(a) /\ wanted' = wanted /\ stack[1].pc \in {"run", "handler"}
  BY <1>1, TopFacts DEF connect_interrupt
<1>3. /\ a \in Activation /\ a.pc = "kmalloc" /\ a.flags = intr
      /\ a.rflags = stack[1].rflags
  BY <1>1, TopFacts DEF Activation, Pcs, IInv, TypeOK
<1>4. depth = 1 => intr = wanted
  BY <1>2, TopFacts DEF FlagOK
<1>5. QED
  BY <1>2, <1>3, <1>4, BecomeFlag

(* It gets a node, links it and publishes it.                              *)
LEMMA LinkingFlag ==
  ASSUME IInv, FlagOK, (\E n \in fresh : kmalloc(n)) \/ Link \/ Publish
  PROVE  FlagOK'
<1>1. CASE \E n \in fresh : kmalloc(n)
  <2>1. PICK n \in fresh : kmalloc(n)
    BY <1>1
  <2>2. PICK a : a = [stack[1] EXCEPT !.pc = "link", !.new_node = n]
    OBVIOUS
  <2>3. Become(a) /\ wanted' = wanted /\ stack[1].pc = "kmalloc"
    BY <2>1, <2>2, TopFacts DEF kmalloc
  <2>4. /\ a \in Activation /\ a.pc = "link" /\ a.flags = stack[1].flags
        /\ a.rflags = stack[1].rflags
    BY <2>2, TopFacts DEF Activation, Pcs, IInv, TypeOK
  <2>5. depth = 1 => a.flags = wanted
    BY <2>3, <2>4 DEF FlagOK, ConnectPcs
  <2>6. QED
    BY <2>3, <2>4, <2>5, BecomeFlag
<1>2. CASE Link
  <2>1. Goto("publish") /\ wanted' = wanted /\ stack[1].pc = "link"
    BY <1>2, TopFacts DEF Link
  <2>2. QED
    BY <2>1, GotoFlag DEF FlagOK, ConnectPcs, Pcs
<1>3. CASE Publish
  <2>1. Goto("restore") /\ wanted' = wanted /\ stack[1].pc = "publish"
    BY <1>3, TopFacts DEF Publish
  <2>2. QED
    BY <2>1, GotoFlag DEF FlagOK, ConnectPcs, Pcs
<1>4. QED
  BY <1>1, <1>2, <1>3

(* It returns, with or without memory, and restores the flag.              *)
LEMMA DoneFlag ==
  ASSUME IInv, FlagOK, KmallocFails \/ Restore
  PROVE  FlagOK'
<1>1. PICK a : a = ConnectDone(stack[1])
  OBVIOUS
<1>2. /\ Become(a) /\ wanted' = wanted /\ intr' = stack[1].flags
      /\ stack[1].pc \in {"kmalloc", "restore"}
  BY <1>1, TopFacts DEF KmallocFails, Restore
<1>3. a \in Activation /\ a.pc = (IF depth = 1 THEN "run" ELSE "handler")
  BY <1>1, <1>2, DoneFields
<1>4. a.rflags = stack[1].rflags
  BY <1>1, TopFacts DEF ConnectDone, Activation
<1>5. depth = 1 => intr' = wanted
  BY <1>2 DEF FlagOK, ConnectPcs
<1>6. QED
  BY <1>2, <1>3, <1>4, <1>5, BecomeFlag DEF ConnectPcs

(* An interrupt or exception saves the flag.                               *)
LEMMA ArriveFlag ==
  ASSUME IInv, FlagOK, NEW v \in Vectors, Arrive(v)
  PROVE  FlagOK'
<1>1. /\ depth' = depth + 1 /\ stack'[1] = Entry(v)
      /\ \A i \in 2 .. depth + 1 : stack'[i] = stack[i - 1]
  BY ArriveStep DEF IInv
<1>2. depth \in Nat /\ depth >= 1
  BY TopFacts
<1>3. Entry(v).pc = "service" /\ Entry(v).rflags = intr
  BY EntryType DEF IInv
<1>4. wanted' = wanted
  BY DEF Arrive
<1>5. stack'[depth + 1] = stack[depth]
  BY <1>1, <1>2
<1>6. ASSUME stack[depth].pc = "run"
      PROVE  stack'[depth].rflags = wanted
  <2>1. CASE depth = 1
    BY <2>1, <1>1, <1>3, <1>6 DEF FlagOK
  <2>2. CASE depth # 1
    <3>1. depth > 1 /\ stack'[depth] = stack[depth - 1]
      BY <2>2, <1>1, <1>2
    <3>2. QED
      BY <3>1, <1>6 DEF FlagOK
  <2>3. QED
    BY <2>1, <2>2
<1>7. (depth + 1) - 1 = depth /\ depth + 1 > 1 /\ depth + 1 # 1
  BY <1>2
<1>8. QED
  BY <1>1, <1>3, <1>4, <1>5, <1>6, <1>7 DEF FlagOK

(* A handler that took its interrupt gives the flag back to the thread.    *)
LEMMA ReturnFlag ==
  ASSUME IInv, FlagOK, exit_interrupt_service
  PROVE  FlagOK'
<1>1. /\ stack[1].pc = "handler" /\ stack' = Tail(stack) /\ intr' = stack[1].rflags
      /\ wanted' = wanted
  BY TopFacts DEF exit_interrupt_service
<1>2. depth = 2 /\ stack[2].pc \in {"run", "vpanic"}
  <2>1. stack[1].vector \in Int /\ depth > 1
    BY <1>1, TopFacts, VectorType
  <2>2. QED
    BY <2>1, <1>1, TopFacts DEF ExceptionPcs
<1>3. depth' = 1 /\ stack'[1] = stack[2]
  BY <1>1, <1>2, ReturnStep DEF IInv
<1>4. stack[2].pc = "run" => stack[1].rflags = wanted
  <2>1. depth > 1 /\ depth - 1 = 1
    BY <1>2
  <2>2. QED
    BY <2>1, <1>2 DEF FlagOK
<1>5. stack'[1].pc \notin ConnectPcs /\ ~(depth' > 1)
  BY <1>2, <1>3 DEF ConnectPcs
<1>6. QED
  BY <1>1, <1>3, <1>4, <1>5 DEF FlagOK

(* Every step keeps the flag in its place.                                 *)
LEMMA NextKeepsFlag == IInv /\ FlagOK /\ [Next]_vars => FlagOK'
<1> SUFFICES ASSUME IInv, FlagOK, [Next]_vars
             PROVE  FlagOK'
  OBVIOUS
<1>1. CASE \E b \in BOOLEAN : SetFlag(b)
  <2>1. stack' = stack /\ depth' = depth /\ intr' = wanted' /\ stack[1].pc = "run"
    BY <1>1, TopFacts DEF SetFlag, depth
  <2>2. depth = 1
    BY <2>1, TopFacts
  <2>3. QED
    BY <2>1, <2>2 DEF FlagOK, ConnectPcs
<1>2. CASE panic_use_console \/ UartReady \/ UNCHANGED vars
  <2>1. stack' = stack /\ depth' = depth /\ intr' = intr /\ wanted' = wanted
    BY <1>2 DEF panic_use_console, UartReady, vars, depth
  <2>2. QED
    BY <2>1 DEF FlagOK
<1>3. CASE \E v \in Vectors : Interrupt(v) \/ Exception(v)
  BY <1>3, ArriveFlag DEF Interrupt, Exception
<1>4. CASE \E v \in Vectors : connect_interrupt(v)
  BY <1>4, ConnectFlag
<1>5. CASE Step
  BY <1>5, MovesFlag, LinkingFlag, DoneFlag DEF Step
<1>6. QED
  BY <1>1, <1>2, <1>3, <1>4, <1>5, DeclineFlag, ReturnFlag, MovesFlag DEF Next

-----------------------------------------------------------------------------
(***************************************************************************)
(* The theorems.                                                           *)
(***************************************************************************)
(* The invariant holds after init_interrupt.                               *)
LEMMA InitKeeps == Init => IInv
<1> SUFFICES ASSUME Init
             PROVE  IInv
  OBVIOUS
<1>1. Thread \in Activation
  BY DEF Thread, Activation, Pcs
<1>2. stack = <<Thread>> /\ depth = 1 /\ stack[1] = Thread
  BY DEF Init, depth
<1>3. /\ Thread.pc = "run" /\ Thread.vector = 0 /\ ~Thread.flags
  BY DEF Thread
<1>4. stack \in Seq(Activation) /\ stack # << >>
  BY <1>1, <1>2
<1>5. traps \in 0 .. MaxTraps
  BY InterruptAssumption DEF Init
<1>6. TypeOK
  BY <1>4, <1>5 DEF Init, TypeOK
<1>7. Layers /\ Enabled
  BY <1>2, <1>3 DEF Layers, Enabled, Init
<1>8. Panicking
  <2>1. Reporting = {}
    BY <1>2, <1>3, <1>6, ReportingIs
  <2>2. QED
    BY <2>1 DEF Panicking, Init
<1>9. Chains
  <2>1. \A v \in Vectors : Chain(v) = {} /\ connected[v] = {}
    <3>1. next \in Links /\ NULL \in Nodes \cup {NULL}
      BY DEF Init, Links
    <3>2. Reach(next, NULL) = {}
      BY <3>1, ReachLeast
    <3>3. \A v \in Vectors : interrupt_handlers[v] = NULL /\ connected[v] = {}
      BY DEF Init
    <3>4. QED
      BY <3>2, <3>3 DEF Chain
  <2>2. QED
    BY <2>1, <1>2, <1>3 DEF Chains
<1>10. Walks
  BY <1>2, <1>3 DEF Walks, Walk
<1>11. QED
  BY <1>6, <1>7, <1>8, <1>9, <1>10 DEF IInv

(* Every step of the kernel, of a device or of an exception keeps the      *)
(* invariant.                                                              *)
LEMMA NextKeeps == IInv /\ [Next]_vars => IInv'
<1> SUFFICES ASSUME IInv, [Next]_vars
             PROVE  IInv'
  OBVIOUS
<1>1. CASE \E b \in BOOLEAN : SetFlag(b)
  BY <1>1, SetFlagKeeps
<1>2. CASE panic_use_console
  BY <1>2, UseConsoleKeeps
<1>3. CASE \E v \in Vectors : Interrupt(v)
  BY <1>3, InterruptKeeps
<1>4. CASE \E v \in Vectors : Exception(v)
  BY <1>4, ExceptionKeeps
<1>5. CASE \E v \in Vectors : connect_interrupt(v)
  BY <1>5, ConnectKeeps
<1>6. CASE Decline
  BY <1>6, DeclineKeeps
<1>7. CASE exit_interrupt_service
  BY <1>7, ReturnKeeps
<1>8. CASE panic
  BY <1>8, PanicKeeps
<1>9. CASE UartReady
  BY <1>9, UartReadyKeeps
<1>10. CASE Step
  <2>1. CASE \E m \in fresh : kmalloc(m)
    BY <2>1, KmallocKeeps
  <2>2. QED
    BY <1>10, <2>1, ServiceKeeps, KmallocFailsKeeps, LinkKeeps, PublishKeeps,
       RestoreKeeps, VpanicEnterKeeps, VpanicCheckKeeps, VpanicSetKeeps,
       VpanicFormatKeeps, VpanicUartKeeps, VpanicFbconKeeps DEF Step
<1>11. CASE UNCHANGED vars
  BY <1>11, SameStackKeeps DEF vars, chains, IInv, TypeOK
<1>12. QED
  BY <1>1, <1>2, <1>3, <1>4, <1>5, <1>6, <1>7, <1>8, <1>9, <1>10, <1>11 DEF Next

(* The invariant holds in every state.                                     *)
THEOREM InterruptInvariant == Spec => []IInv
<1>1. QED
  BY InitKeeps, NextKeeps, PTL DEF Spec

(* Whatever interrupts and exceptions come while connect_interrupt links   *)
(* nodes: a connected handler stays on the chain of its vector, no node is *)
(* on two chains, and no chain runs into a node that was not linked.       *)
THEOREM ChainsAreComplete == Spec => []ChainsComplete
<1>1. IInv => ChainsComplete
  BY DEF IInv, Chains, ChainsComplete, ChainFrom, Chain
<1>2. QED
  BY <1>1, InterruptInvariant, PTL

(* interrupt_service gives up on an interrupt only after every handler     *)
(* connected when it arrived has declined it.                              *)
THEOREM AllHandlersAsked == Spec => []AllAsked
<1>1. IInv => AllAsked
  <2> SUFFICES ASSUME IInv, NEW i \in DOMAIN stack,
                      stack[i].vector >= 32, stack[i].head = NULL
               PROVE  stack[i].due \subseteq stack[i].asked
    BY DEF AllAsked
  <2>1. i \in 1 .. depth /\ next \in Links
    BY TopIsFirst, WorkTypes DEF IInv, TypeOK
  <2>2. stack[i].due \subseteq stack[i].asked \cup Reach(next, NULL)
    BY <2>1 DEF IInv, Walks, Walk
  <2>3. Reach(next, NULL) = {}
    BY <2>1, ReachLeast
  <2>4. QED
    BY <2>2, <2>3
<1>2. QED
  BY <1>1, InterruptInvariant, PTL

(* Interrupts are enabled only in the thread and never after a panic, on   *)
(* every way out of connect_interrupt and of a handler.                    *)
THEOREM HandlersNotNested == Spec => []NotNested
<1>1. IInv => NotNested
  <2> SUFFICES ASSUME IInv, intr
               PROVE  Len(stack) <= 1 /\ ~in_panic
    BY DEF NotNested
  <2>1. Len(stack) = 1 /\ ~in_panic
    BY DEF IInv, Enabled, depth
  <2>2. QED
    BY <2>1
<1>2. QED
  BY <1>1, InterruptInvariant, PTL

(* At most one activation reports a panic, however many exceptions hit     *)
(* vpanic between its test of in_panic and its assignment.                 *)
THEOREM AtMostOneReport == Spec => []OneReport
<1>1. IInv => OneReport
  <2> SUFFICES ASSUME IInv
               PROVE  Cardinality(Reporting) <= 1
    BY DEF OneReport
  <2>1. \A i, j \in Reporting : i = j
    BY DEF IInv, Panicking
  <2>2. CASE Reporting = {}
    BY <2>2, FS_EmptySet
  <2>3. CASE Reporting # {}
    <3>1. PICK i : Reporting = {i}
      BY <2>1, <2>3
    <3>2. QED
      BY <3>1, FS_Singleton
  <2>4. QED
    BY <2>2, <2>3
<1>2. QED
  BY <1>1, InterruptInvariant, PTL

(* Whenever the thread runs, the interrupt flag is what it last chose:     *)
(* connecting a handler, with or without memory, and the interrupts and    *)
(* exceptions that come meanwhile give it back unchanged.                  *)
THEOREM FlagIsKept == Spec => []FlagKept
<1>1. Init => FlagOK
  <2> SUFFICES ASSUME Init
               PROVE  FlagOK
    OBVIOUS
  <2>1. depth = 1 /\ stack[1] = Thread /\ intr = wanted
    BY DEF Init, depth
  <2>2. QED
    BY <2>1 DEF FlagOK, Thread, ConnectPcs
<1>2. IInv /\ FlagOK => FlagKept
  BY TopFacts DEF FlagOK, FlagKept
<1>3. QED
  BY <1>1, <1>2, NextKeepsFlag, InterruptInvariant, PTL DEF Spec
=============================================================================
