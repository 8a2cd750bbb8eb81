------------------------------ MODULE Context -------------------------------
(***************************************************************************)
(* Saving and restoring the processor's registers: swap_context of         *)
(* kernel/context.S instruction by instruction, and the entry and exit of  *)
(* interrupt routines in kernel/asm.S.                                     *)
(*                                                                         *)
(* Threads have a stack and a struct context each.  The code around the    *)
(* two routines is any C code: a thread holds values in all its registers  *)
(* and calls swap_context at any time; a handler overwrites the registers  *)
(* that the ABI lets it, keeps its frame pointer in %rbx, and in a         *)
(* preemptive kernel may call swap_context itself.  RFLAGS is not part of  *)
(* struct context, so in a preemptive kernel threads bracket the call with *)
(* save_and_disable_interrupts and restore_interrupts; otherwise they may  *)
(* be interrupted at every instruction of it.                              *)
(*                                                                         *)
(* A stack is a sequence of words that grows at its end; %rsp is the       *)
(* thread whose stack it points into and the number of words up to it.     *)
(* What a thread has in a register is named by thread, register and a bit  *)
(* that changes with every call, so that an older value is not the same.   *)
(***************************************************************************)
EXTENDS Integers, Sequences, TLC

CONSTANTS
  Threads,
  Vectors   \* the vectors that arrive; those below 32 are exceptions

ASSUME ContextAssumption == Vectors \subseteq 0 .. 255

VARIABLES
  regs,         \* the general registers and %rsp
  pc,           \* the next instruction, or the C code that runs
  intr,         \* the interrupt flag
  stacks,       \* the words of every stack
  ctx,          \* the words of every struct context
  preemptive,   \* whether handlers switch threads
  calls, from,  \* history: what a thread had when it last called swap_context,
                \* and the thread that called it last
  traps         \* history: what a thread had when it was last interrupted

vars == <<regs, pc, intr, stacks, ctx, preemptive, calls, from, traps>>

CalleeSaved == {"rbx", "rbp", "r12", "r13", "r14", "r15"}
CallerSaved == {"rax", "rcx", "rdx", "rsi", "rdi", "r8", "r9", "r10", "r11"}
General     == CalleeSaved \cup CallerSaved
Registers   == General \cup {"rsp"}

Junk == <<"junk">>
Ctx(t) == <<"ctx", t>>   \* the address of t's struct context

\* The thread whose stack is in use, and the words up to %rsp.  What is beyond
\* may be overwritten at any time (the kernel is built without a red zone).
Current == regs["rsp"][1]
Stack == SubSeq(stacks[Current], 1, regs["rsp"][2])

\* r with the words pushed.
Pushed(r, words) == [r EXCEPT !["rsp"] = <<Current, Len(Stack \o words)>>]
Push(words) == stacks' = [stacks EXCEPT ![Current] = Stack \o words]

\* %rsp moves to word n of the current stack.
Pop(n) == stacks' = [stacks EXCEPT ![Current] = SubSeq(@, 1, n)]

\* The running thread has values of its own in all registers.
Holds(v, n) ==
  [r \in Registers |-> IF r = "rsp" THEN <<Current, n>> ELSE <<Current, r, v>>]
-----------------------------------------------------------------------------
\* The order of swap_context's moves, and of the fields of struct context.
Moves == <<"rbx", "r12", "r13", "r14", "r15", "rsp", "rbp">>

\* A thread that never ran has on its stack the address where it starts.
Init ==
  /\ \E t \in Threads :
       /\ regs = [r \in Registers |-> IF r = "rsp" THEN <<t, 0>> ELSE Junk]
       /\ from = t
  /\ pc = <<"start">>
  /\ intr = FALSE
  /\ stacks = [t \in Threads |-> << <<"start">> >>]
  /\ ctx = [t \in Threads |->
              [i \in 1 .. Len(Moves) |-> IF Moves[i] = "rsp" THEN <<t, 1>> ELSE Junk]]
  /\ preemptive \in BOOLEAN
  /\ calls = [t \in Threads |-> <<>>] /\ traps = [t \in Threads |-> <<>>]

\* The running code calls swap_context(its context, u's context) with the
\* registers r; the return address goes on the stack behind its locals.
CallSwap(u, r, locals, ret) ==
  /\ u # Current
  /\ pc' = <<"swap", 1>>
  /\ Push(locals \o <<ret>>)
  /\ regs' = Pushed([r EXCEPT !["rdi"] = Ctx(Current), !["rsi"] = Ctx(u)],
                    locals \o <<ret>>)
  /\ calls' = [calls EXCEPT ![Current] = [regs |-> Pushed(r, locals), intr |-> intr]]
  /\ from' = Current
  /\ UNCHANGED <<ctx, preemptive, traps>>

\* A thread switches to u, with its flags saved in a local variable.
ThreadCalls(u, v) ==
  /\ pc = <<"work">>
  /\ CallSwap(u, Holds(v, Len(Stack)), << <<"flags", intr>> >>, <<"back">>)
  /\ intr' = IF preemptive THEN FALSE ELSE intr

\* Mutant: the base pointer is loaded from the word of the stack pointer.
LoadOffset_Swapped(i) == IF i = 7 THEN 6 ELSE i

\* The word, counted from 1, that the i-th load reads.
LoadOffset(i) == i

Instruction ==
  /\ pc[1] = "swap"
  /\ LET n == Len(Moves)
         i == pc[2]
     IN  /\ ctx' = IF i <= n THEN [ctx EXCEPT ![regs["rdi"][2]][i] = regs[Moves[i]]]
                             ELSE ctx
         /\ regs' = CASE i <= n -> regs
                      [] i \in n + 1 .. 2 * n ->
                           [regs EXCEPT ![Moves[i - n]]
                                          = ctx[regs["rsi"][2]][LoadOffset(i - n)]]
                      [] i = 2 * n + 1 -> [regs EXCEPT !["rax"] = regs["rdi"]]
                      [] OTHER -> [regs EXCEPT !["rsp"] = <<Current, Len(Stack) - 1>>]
         /\ IF i = 2 * n + 2 THEN pc' = Stack[Len(Stack)] /\ Pop(Len(Stack) - 1)
                             ELSE pc' = <<"swap", i + 1>> /\ UNCHANGED stacks
  /\ UNCHANGED <<intr, preemptive, calls, from, traps>>

\* The thread goes on behind its call, and restores its flags.
ThreadReturns ==
  /\ pc = <<"back">>
  /\ intr' = IF preemptive THEN Stack[Len(Stack)][2] ELSE intr
  /\ Pop(Len(Stack) - 1)
  /\ regs' = Holds(0, Len(Stack) - 1)
  /\ pc' = <<"work">>
  /\ calls' = [calls EXCEPT ![Current] = <<>>]
  /\ UNCHANGED <<ctx, preemptive, from, traps>>

\* A thread's first code; it sets the flag as it wants it.
ThreadStarts ==
  /\ pc = <<"start">>
  /\ intr' \in BOOLEAN
  /\ regs' = Holds(0, Len(Stack))
  /\ pc' = <<"work">>
  /\ UNCHANGED <<stacks, ctx, preemptive, calls, from, traps>>
-----------------------------------------------------------------------------
\* The vectors for which the processor pushes an error code.
ErrorCode == {8, 10, 11, 12, 13, 14, 17, 21, 29, 30}

\* Mutant: MAKE_ISR takes vector 21 for one without an error code.
PushesZero_Control(v) == v \notin ErrorCode \ {21}

\* The vectors for which MAKE_ISR pushes 0 in its place.
PushesZero(v) == v \notin {8, 10, 11, 12, 13, 14, 17, 21, 29, 30}

isr_common_order == <<"rbp", "rdi", "rsi", "rdx", "rcx", "rbx", "rax", "r8", "r9",
                      "r10", "r11", "r12", "r13", "r14", "r15">>

\* Mutant: two registers are popped in the order they were pushed.
exit_order_Swapped == <<"r15", "r14", "r13", "r12", "r11", "r10", "r9", "r8", "rax",
                        "rbx", "rcx", "rdx", "rdi", "rsi", "rbp">>

exit_order == <<"r15", "r14", "r13", "r12", "r11", "r10", "r9", "r8", "rax",
                "rbx", "rcx", "rdx", "rsi", "rdi", "rbp">>

trap_frame == <<"r15", "r14", "r13", "r12", "r11", "r10", "r9", "r8", "rax",
                "rbx", "rcx", "rdx", "rsi", "rdi", "rbp",
                "vector", "errcode", "rip", "cs", "rflags", "rsp", "ss">>

\* The field f of the trap frame that ends, as stacks go, at address p.
Field(p, f) ==
  stacks[p[1]][p[2] + 1 - (CHOOSE i \in DOMAIN trap_frame : trap_frame[i] = f)]

\* The processor's pushes, isr<v> and isr_common: interrupt gates clear the flag.
\* Vectors 2, 8 and 18 have the stack of IST 1.  Their frame has the same words
\* and always ends in a panic, so the model may leave it on the current stack.
Arrive(v) ==
  /\ LET words ==
           << <<"ss">>, regs["rsp"], <<"flags", intr>>, <<"cs">>, pc >>
           \o (IF v \in ErrorCode THEN << <<"errcode">> >> ELSE <<>>)
           \o (IF PushesZero(v) THEN << <<"zero">> >> ELSE <<>>)
           \o << <<"vector", v>> >>
           \o [i \in DOMAIN isr_common_order |-> regs[isr_common_order[i]]]
     IN  /\ Push(words)
         /\ regs' = [Pushed(regs, words) EXCEPT
                       !["rdi"] = <<Current, Len(Stack) + Len(words)>>]
  /\ traps' = [traps EXCEPT ![Current] =
                 [regs |-> regs, pc |-> pc, intr |-> intr, vector |-> v]]
  /\ pc' = <<"service">>
  /\ intr' = FALSE
  /\ UNCHANGED <<ctx, preemptive, calls, from>>

Interrupt(v) == v >= 32 /\ intr /\ Arrive(v)

Exception(v) == v < 32 /\ pc[1] \in {"start", "work", "swap", "back"} /\ Arrive(v)

\* interrupt_service(frame) panics, or calls a handler that uses the registers it
\* need not preserve, and %rbx for frame.
interrupt_service ==
  /\ pc = <<"service">>
  /\ IF Field(regs["rdi"], "vector")[2] < 32
     THEN pc' = <<"panic">> /\ UNCHANGED regs
     ELSE /\ pc' = <<"handler">>
          /\ regs' = [r \in Registers |-> IF r \in CallerSaved THEN Junk
                                         ELSE IF r = "rbx" THEN regs["rdi"] ELSE regs[r]]
  /\ UNCHANGED <<intr, stacks, ctx, preemptive, calls, from, traps>>

HandlerCalls(u) ==
  /\ pc = <<"handler">> /\ preemptive
  /\ CallSwap(u, regs, <<>>, <<"resumed">>)
  /\ UNCHANGED intr

\* mov %rdi, %rsp; the pops; add $16, %rsp; iretq.
exit_interrupt_service ==
  /\ pc \in {<<"handler">>, <<"resumed">>}
  /\ LET frame == regs["rbx"]
         n == Len(exit_order)
         word(k) == stacks[frame[1]][frame[2] + 1 - k]   \* the k-th word popped
     IN  /\ regs' = [r \in Registers |->
                       IF r = "rsp" THEN word(n + 6)
                       ELSE word(CHOOSE i \in 1 .. n : exit_order[i] = r)]
         /\ pc' = word(n + 3)
         /\ intr' = word(n + 5)[2]
         /\ Pop(word(n + 6)[2])
  /\ traps' = [traps EXCEPT ![Current] = <<>>]
  /\ UNCHANGED <<ctx, preemptive, calls, from>>

Next ==
  \/ \E u \in Threads, v \in {0, 1} : ThreadCalls(u, v)
  \/ \E u \in Threads : HandlerCalls(u)
  \/ Instruction \/ ThreadReturns \/ ThreadStarts
  \/ \E v \in Vectors : Interrupt(v)
  \/ \E v \in Vectors : Exception(v)
  \/ interrupt_service \/ exit_interrupt_service

Spec == Init /\ [][Next]_vars

Symmetry == Permutations(Threads)
-----------------------------------------------------------------------------
\* When swap_context returns, to a thread or to a handler, the registers it must
\* preserve and the stack are those of the call, whatever ran in between, and its
\* result is the context that was left; a thread that starts finds the latter too.
Resumed ==
  /\ pc \in {<<"back">>, <<"resumed">>} =>
       \A r \in CalleeSaved \cup {"rsp"} : regs[r] = calls[Current].regs[r]
  /\ pc \in {<<"back">>, <<"resumed">>, <<"start">>} /\ regs["rax"] # Junk =>
       regs["rax"] = Ctx(from)

\* What interrupt_service reads through struct trap_frame is what was interrupted.
FrameRight ==
  pc = <<"service">> =>
    LET f == regs["rdi"]
        t == traps[Current]
    IN  /\ \A r \in Registers : Field(f, r) = t.regs[r]
        /\ Field(f, "rip") = t.pc
        /\ Field(f, "rflags") = <<"flags", t.intr>>
        /\ Field(f, "vector") = <<"vector", t.vector>>

\* A handled interrupt leaves no trace in the registers, the flag and the point of
\* execution of what it interrupted, a switch of threads in the handler included;
\* and a preemptive thread that switched has its interrupt flag back.
Undisturbed ==
  [][LET t == traps[Current]
     IN  /\ pc \in {<<"handler">>, <<"resumed">>} /\ traps' # traps =>
              regs' = t.regs /\ pc' = t.pc /\ intr' = t.intr
         /\ preemptive /\ pc = <<"back">> /\ pc' = <<"work">> =>
              intr' = calls[Current].intr]_vars
=============================================================================
