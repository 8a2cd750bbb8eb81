----------------------------- MODULE Interrupt ------------------------------
(***************************************************************************)
(* Interrupt dispatch and panic: kernel/interrupt.c, kernel/panic.c, the   *)
(* entry and exit code of kernel/asm.S and the interrupt flag of cpu.h.    *)
(*                                                                         *)
(* One processor runs the kernel; interrupts, when the flag is set, and    *)
(* exceptions or NMIs, at any time, put a further activation on its stack. *)
(* An activation is a record of what is on its part of the stack:          *)
(*   pc      what it does next                                             *)
(*   vector  trap_frame.vector (0 for the kernel's own thread)             *)
(*   rflags  the interrupt flag that iretq restores                        *)
(*   head    interrupt_service's head                                      *)
(*   number, flags, new_node   locals of connect_interrupt                 *)
(*   due, asked   history: nodes connected on arrival, nodes that declined *)
(* A handler is any code that may connect handlers, panic, take (return 0) *)
(* or decline the interrupt; it does not enable interrupts.                *)
(* connect_interrupt tests number from below only: that it is a vector of  *)
(* the table, below 256, is the callers' duty, and Vectors keeps to it.    *)
(***************************************************************************)
EXTENDS Integers, Sequences, FiniteSets

CONSTANTS
  Vectors,     \* vectors that arrive; those below 32 are exceptions
  Nodes,       \* addresses kmalloc gives for a struct interrupt_handler_info
  NULL,
  MaxTraps     \* bound: exceptions and NMIs that happen

ASSUME InterruptAssumption ==
  Vectors \subseteq 0 .. 255 /\ NULL \notin Nodes /\ MaxTraps \in Nat

VARIABLES
  interrupt_handlers,   \* the head of each vector's chain
  next,                 \* node->next
  fresh,                \* nodes kmalloc has not given yet
  stack,                \* activations, the running one first
  intr,                 \* the interrupt flag
  in_panic, panic_use_fbcon,
  uart_ready,           \* the transmitter takes a character
  traps,                \* exceptions so far
  wanted,               \* history: the flag as the thread last set it
  connected             \* history: nodes for which connect_interrupt returned 0

vars == <<interrupt_handlers, next, fresh, stack, intr, in_panic,
          panic_use_fbcon, uart_ready, traps, wanted, connected>>

chains == <<interrupt_handlers, next, fresh, connected>>
panics == <<in_panic, panic_use_fbcon, uart_ready>>

Pcs == {"run", "service", "handler", "kmalloc", "link", "publish", "restore",
        "vpanic", "check", "set", "format", "uart", "fbcon", "double", "halt"}

Activation ==
  [pc : Pcs, vector : Vectors \cup {0}, rflags : BOOLEAN,
   head : Nodes \cup {NULL}, number : Vectors \cup {0}, flags : BOOLEAN,
   new_node : Nodes \cup {NULL}, due : SUBSET Nodes, asked : SUBSET Nodes]

TypeOK ==
  /\ interrupt_handlers \in [Vectors -> Nodes \cup {NULL}]
  /\ next \in [Nodes -> Nodes \cup {NULL}]
  /\ fresh \subseteq Nodes
  /\ stack \in Seq(Activation) /\ stack # << >>
  /\ intr \in BOOLEAN /\ in_panic \in BOOLEAN
  /\ panic_use_fbcon \in BOOLEAN /\ uart_ready \in BOOLEAN
  /\ traps \in 0 .. MaxTraps
  /\ connected \in [Vectors -> SUBSET Nodes]

Thread == [pc |-> "run", vector |-> 0, rflags |-> FALSE, head |-> NULL,
           number |-> 0, flags |-> FALSE, new_node |-> NULL,
           due |-> {}, asked |-> {}]

(* After init_interrupt; kmain runs with interrupts disabled.              *)
Init ==
  /\ interrupt_handlers = [v \in Vectors |-> NULL]
  /\ next \in [Nodes -> Nodes \cup {NULL}]   \* kmalloc does not clear
  /\ fresh = Nodes
  /\ stack = <<Thread>>
  /\ intr = FALSE
  /\ in_panic = FALSE /\ panic_use_fbcon = FALSE
  /\ uart_ready = TRUE
  /\ traps = 0 /\ wanted = FALSE
  /\ connected = [v \in Vectors |-> {}]

Top == Head(stack)

(* The running activation goes on at p, or continues as a.                 *)
Become(a) == stack' = <<a>> \o Tail(stack)
Goto(p)   == Become([Top EXCEPT !.pc = p])

(***************************************************************************)
(* The kernel's thread.                                                    *)
(***************************************************************************)
SetFlag(b) ==   \* enable_interrupts, disable_interrupts
  /\ Top.pc = "run"
  /\ intr' = b /\ wanted' = b
  /\ UNCHANGED <<chains, stack, panics, traps>>

panic_use_console ==
  /\ Top.pc = "run"
  /\ panic_use_fbcon' = TRUE
  /\ UNCHANGED <<chains, stack, intr, in_panic, uart_ready, traps, wanted>>

(***************************************************************************)
(* isr_common and interrupt_service.                                       *)
(***************************************************************************)
Arrive(v) ==
  /\ stack' = <<[Thread EXCEPT !.pc = "service", !.vector = v, !.rflags = intr,
                               !.head = interrupt_handlers[v],
                               !.due = connected[v]]>> \o stack
  /\ intr' = FALSE   \* all gates are interrupt gates
  /\ UNCHANGED <<chains, panics, wanted>>

Interrupt(v) ==
  /\ v >= 32 /\ intr
  /\ Arrive(v)
  /\ UNCHANGED traps

Exception(v) ==
  /\ v < 32 /\ traps < MaxTraps
  /\ traps' = traps + 1
  /\ Arrive(v)

interrupt_service ==
  /\ Top.pc = "service"
  /\ Goto(IF Top.vector < 32 \/ Top.head = NULL THEN "vpanic" ELSE "handler")
  /\ UNCHANGED <<chains, intr, panics, traps, wanted>>

(* Mutant: the loop ends with the first handler.                           *)
Decline_Ends ==
  /\ Top.pc = "handler"
  /\ Become([Top EXCEPT !.pc = "service", !.head = NULL,
                        !.asked = @ \cup {Top.head}])
  /\ UNCHANGED <<chains, intr, panics, traps, wanted>>

Decline ==
  /\ Top.pc = "handler"
  /\ Become([Top EXCEPT !.pc = "service", !.head = next[Top.head],
                        !.asked = @ \cup {Top.head}])
  /\ UNCHANGED <<chains, intr, panics, traps, wanted>>

(* The handler returned 0.                                                 *)
exit_interrupt_service ==
  /\ Top.pc = "handler"
  /\ stack' = Tail(stack)
  /\ intr' = Top.rflags
  /\ UNCHANGED <<chains, panics, traps, wanted>>

(***************************************************************************)
(* connect_interrupt(handler, number), called by the thread or a handler.  *)
(***************************************************************************)
Caller == IF Len(stack) = 1 THEN "run" ELSE "handler"

(* Mutant: interrupts stay enabled.                                        *)
connect_interrupt_NoCli(v) ==
  /\ Top.pc \in {"run", "handler"}
  /\ v >= 32
  /\ Become([Top EXCEPT !.pc = "kmalloc", !.number = v, !.flags = intr])
  /\ UNCHANGED <<chains, intr, panics, traps, wanted>>

connect_interrupt(v) ==
  /\ Top.pc \in {"run", "handler"}
  /\ v >= 32   \* otherwise -EINVAL and nothing changes
  /\ Become([Top EXCEPT !.pc = "kmalloc", !.number = v, !.flags = intr])
  /\ intr' = FALSE
  /\ UNCHANGED <<chains, panics, traps, wanted>>

ConnectDone(a) ==
  [a EXCEPT !.pc = Caller, !.number = 0, !.flags = FALSE, !.new_node = NULL]

kmalloc(n) ==
  /\ Top.pc = "kmalloc"
  /\ n \in fresh /\ fresh' = fresh \ {n}
  /\ Become([Top EXCEPT !.pc = "link", !.new_node = n])
  /\ UNCHANGED <<interrupt_handlers, next, connected, intr, panics, traps, wanted>>

(* Mutant: the error path leaves interrupts disabled.                      *)
KmallocFails_Cli ==
  /\ Top.pc = "kmalloc"
  /\ fresh = {}
  /\ Become(ConnectDone(Top))
  /\ UNCHANGED <<chains, intr, panics, traps, wanted>>

(* -ENOMEM; kmalloc returned with interrupts disabled.                     *)
KmallocFails ==
  /\ Top.pc = "kmalloc"
  /\ fresh = {}
  /\ intr' = Top.flags
  /\ Become(ConnectDone(Top))
  /\ UNCHANGED <<chains, panics, traps, wanted>>

(* new_node->next = interrupt_handlers[number];                            *)
Link ==
  /\ Top.pc = "link"
  /\ next' = [next EXCEPT ![Top.new_node] = interrupt_handlers[Top.number]]
  /\ Goto("publish")
  /\ UNCHANGED <<interrupt_handlers, fresh, connected, intr, panics, traps, wanted>>

Publish ==
  /\ Top.pc = "publish"
  /\ interrupt_handlers' =
       [interrupt_handlers EXCEPT ![Top.number] = Top.new_node]
  /\ Goto("restore")
  /\ UNCHANGED <<next, fresh, connected, intr, panics, traps, wanted>>

(* Mutant: interrupts are enabled, whatever they were.                     *)
Restore_Sti ==
  /\ Top.pc = "restore"
  /\ intr' = TRUE
  /\ connected' = [connected EXCEPT ![Top.number] = @ \cup {Top.new_node}]
  /\ Become(ConnectDone(Top))
  /\ UNCHANGED <<interrupt_handlers, next, fresh, panics, traps, wanted>>

Restore ==
  /\ Top.pc = "restore"
  /\ intr' = Top.flags
  /\ connected' = [connected EXCEPT ![Top.number] = @ \cup {Top.new_node}]
  /\ Become(ConnectDone(Top))
  /\ UNCHANGED <<interrupt_handlers, next, fresh, panics, traps, wanted>>

(***************************************************************************)
(* panic, called by the thread or a handler too, and vpanic.               *)
(***************************************************************************)
panic ==
  /\ Top.pc \in {"run", "handler"}
  /\ Goto("vpanic")
  /\ UNCHANGED <<chains, intr, panics, traps, wanted>>

VpanicEnter ==
  /\ Top.pc = "vpanic"
  /\ intr' = FALSE
  /\ Goto("check")
  /\ UNCHANGED <<chains, panics, traps, wanted>>

VpanicCheck ==
  /\ Top.pc = "check"
  /\ Goto(IF in_panic THEN "double" ELSE "set")
  /\ UNCHANGED <<chains, intr, panics, traps, wanted>>

(* Mutant: in_panic is not set.                                            *)
VpanicSet_Not ==
  /\ Top.pc = "set"
  /\ Goto("format")
  /\ UNCHANGED <<chains, intr, panics, traps, wanted>>

VpanicSet ==
  /\ Top.pc = "set"
  /\ in_panic' = TRUE
  /\ Goto("format")
  /\ UNCHANGED <<chains, intr, panic_use_fbcon, uart_ready, traps, wanted>>

VpanicFormat ==   \* vsnprintf into the static buffer
  /\ Top.pc = "format"
  /\ Goto("uart")
  /\ UNCHANGED <<chains, intr, panics, traps, wanted>>

(* uart_write_str: each character waits until the transmitter is ready.    *)
uart_write == uart_ready /\ uart_ready' = FALSE

(* Mutant: a double panic panics.                                          *)
VpanicUart_Again ==
  /\ Top.pc \in {"uart", "double"}
  /\ uart_write
  /\ Goto(IF Top.pc = "double" THEN "vpanic"
          ELSE IF panic_use_fbcon THEN "fbcon" ELSE "halt")
  /\ UNCHANGED <<chains, intr, in_panic, panic_use_fbcon, traps, wanted>>

(* The report, or "*** Double panic detected".                             *)
VpanicUart ==
  /\ Top.pc \in {"uart", "double"}
  /\ uart_write
  /\ Goto(IF Top.pc = "uart" /\ panic_use_fbcon THEN "fbcon" ELSE "halt")
  /\ UNCHANGED <<chains, intr, in_panic, panic_use_fbcon, traps, wanted>>

VpanicFbcon ==
  /\ Top.pc = "fbcon"
  /\ Goto("halt")
  /\ UNCHANGED <<chains, intr, panics, traps, wanted>>

(* The device has sent what it had.                                        *)
UartReady ==
  /\ ~uart_ready
  /\ uart_ready' = TRUE
  /\ UNCHANGED <<chains, stack, intr, in_panic, panic_use_fbcon, traps, wanted>>

Step ==
  \/ interrupt_service
  \/ \E n \in fresh : kmalloc(n)
  \/ KmallocFails
  \/ Link
  \/ Publish
  \/ Restore
  \/ VpanicEnter
  \/ VpanicCheck
  \/ VpanicSet
  \/ VpanicFormat
  \/ VpanicUart
  \/ VpanicFbcon

Next ==
  \/ \E b \in BOOLEAN : SetFlag(b)
  \/ panic_use_console
  \/ \E v \in Vectors : Interrupt(v)
  \/ \E v \in Vectors : Exception(v)
  \/ \E v \in Vectors : connect_interrupt(v)
  \/ Decline
  \/ exit_interrupt_service
  \/ panic
  \/ UartReady
  \/ Step

Spec == Init /\ [][Next]_vars

(* The processor keeps executing, and the transmitter drains.              *)
FairSpec == Spec /\ WF_vars(Step) /\ WF_vars(UartReady)

-----------------------------------------------------------------------------
(* The nodes that interrupt_service can reach from node n when link gives  *)
(* each node's next: the least set that holds n and is closed under link.  *)
Closed(link, S) == \A m \in S : link[m] \in S \cup {NULL}

Reach(link, n) ==
  {m \in Nodes : \A S \in SUBSET Nodes :
                   n \in S \cup {NULL} /\ Closed(link, S) => m \in S}

ChainFrom(n) == Reach(next, n)

(* Types; a handler that was connected stays connected, whatever comes     *)
(* while others are linked, no node is on two chains, and no chain holds a *)
(* node that connect_interrupt has not linked: the walk never follows an   *)
(* unset next.                                                             *)
ChainsComplete ==
  /\ TypeOK
  /\ LET chain == [v \in Vectors |-> ChainFrom(interrupt_handlers[v])]
     IN  \A v \in Vectors :
           /\ connected[v] \subseteq chain[v]
           /\ chain[v] \cap fresh = {}
           /\ \A w \in Vectors : v # w => chain[v] \cap chain[w] = {}

(* interrupt_service gives up on an interrupt only after every handler     *)
(* that was connected when it arrived has declined it.                     *)
AllAsked ==
  \A i \in DOMAIN stack :
    LET a == stack[i]
    IN  a.vector >= 32 /\ a.head = NULL /\ a.pc # "service"
          => a.due \subseteq a.asked

(* Handlers are not interrupted, also after connecting another one or      *)
(* failing to, and once the kernel panics it serves no interrupt.          *)
NotNested == intr => Len(stack) <= 1 /\ ~in_panic

(* The thread runs on with the interrupt flag it chose: connecting a       *)
(* handler, failing to for want of memory and being interrupted, in any    *)
(* order, neither enable interrupts for it nor leave them disabled.        *)
FlagKept == Top.pc = "run" => intr = wanted

(* At most one panic is reported, so the static buffer has one user, even  *)
(* when an exception hits vpanic between its test and its assignment.      *)
Reporting == {i \in DOMAIN stack : stack[i].pc \in {"format", "uart", "fbcon"}}

OneReport == Cardinality(Reporting) <= 1

(* A panic ends with the processor halted for good, exceptions on the way  *)
(* notwithstanding.                                                        *)
PanicHalts == [](in_panic => <>[](Top.pc = "halt"))
=============================================================================
