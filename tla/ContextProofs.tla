--------------------------- MODULE ContextProofs ----------------------------
(***************************************************************************)
(* Saving and restoring registers, for any set of threads and of vectors:  *)
(* swap_context and the interrupt routines give everybody back what was    *)
(* theirs.                                                                 *)
(***************************************************************************)
EXTENDS Context, CommonLemmas

(***************************************************************************)
(* The inductive invariant.  Its parts speak of a world w, the memory a    *)
(* switch of threads goes through, so that what was interrupted can be     *)
(* described by the same formula as what runs.                             *)
(***************************************************************************)
World == [stacks |-> stacks, ctx |-> ctx, calls |-> calls, traps |-> traps,
          from |-> from, preemptive |-> preemptive]

IsSeq(s) == \E S : s \in Seq(S)

IsRegs(r) == r = [x \in Registers |-> r[x]]

(* The words of stack s up to q are what the entry code pushed for trap.   *)
Frame(s, q, trap) ==
  /\ \A k \in 1 .. 15 : s[q + 1 - k] = trap.regs[exit_order[k]]
  /\ s[q - 15] = <<"vector", trap.vector>> /\ s[q - 17] = trap.pc
  /\ s[q - 19] = <<"flags", trap.intr>> /\ s[q - 20] = trap.regs["rsp"]

(* A handler of thread t that called swap_context, with q words on the     *)
(* stack: it interrupted the thread's own code, and has its frame in %rbx. *)
Interrupted(w, t, q) ==
  /\ w.preemptive /\ q >= 22
  /\ w.calls[t].regs["rbx"] = <<t, q>> /\ w.calls[t].regs["rsp"] = <<t, q>>
  /\ Frame(w.stacks[t], q, w.traps[t])
  /\ IsRegs(w.traps[t].regs) /\ w.traps[t].regs["rsp"] = <<t, q - 22>>
  /\ w.traps[t].pc = <<"work">>

(* Thread t is inside a call of swap_context, or never ran, with n words   *)
(* on its stack, the last of which is where to go on.                      *)
Parked(w, t, n) ==
  \/ w.stacks[t][n] = <<"start">>
  \/ /\ w.stacks[t][n] = <<"back">> /\ n >= 2
     /\ w.stacks[t][n - 1] = <<"flags", w.calls[t].intr>>
     /\ w.calls[t].regs["rsp"] = <<t, n - 1>>
  \/ w.stacks[t][n] = <<"resumed">> /\ Interrupted(w, t, n - 1)

(* The j-th word of the context of such a thread.                          *)
Saved(w, t, n, j) == IF j = 6 THEN <<t, n>> ELSE w.calls[t].regs[Moves[j]]

Suspended(w, t) ==
  \E n \in 1 .. Len(w.stacks[t]) :
    /\ Parked(w, t, n)
    /\ w.ctx[t][6] = <<t, n>>
    /\ w.stacks[t][n] # <<"start">> =>
         \A j \in 1 .. 7 : w.ctx[t][j] = Saved(w, t, n, j)

(* Before its k-th instruction swap_context has saved and loaded words up  *)
(* to the k-th; it leaves t for u.                                         *)
Swapping(w, r, k, t, u, n) ==
  /\ w.from = t /\ u # t
  /\ r["rdi"] = Ctx(t) /\ r["rsi"] = Ctx(u)
  /\ Parked(w, t, n) /\ w.stacks[t][n] # <<"start">>
  /\ \A j \in 1 .. 7 : /\ j < k => w.ctx[t][j] = Saved(w, t, n, j)
                       /\ k <= 7 + j => r[Moves[j]] = Saved(w, t, n, j)
                       /\ 7 + j < k => r[Moves[j]] = w.ctx[u][j]
  /\ k = 16 => r["rax"] = Ctx(t)
  /\ \A x \in Threads \ {t} : Suspended(w, x)

(* Between two calls, on the stack of t with n words.                      *)
Outside(w, r, p, t, n) ==
  /\ r["rsp"] = <<t, n>>
  /\ p \in {<<"start">>, <<"work">>, <<"back">>, <<"resumed">>}
  /\ p # <<"work">> /\ r["rax"] # Junk => r["rax"] = Ctx(w.from)
  /\ p \in {<<"back">>, <<"resumed">>} =>
       \A x \in CalleeSaved \cup {"rsp"} : r[x] = w.calls[t].regs[x]
  /\ p = <<"back">> => n >= 1 /\ w.stacks[t][n] = <<"flags", w.calls[t].intr>>
  /\ p = <<"resumed">> => Interrupted(w, t, n)
  /\ \A x \in Threads \ {t} : Suspended(w, x)

(* The registers r, the instruction p and the flag i are those of running  *)
(* code that is no handler's, or of a handler that swap_context returned   *)
(* to.  A preemptive kernel is interrupted in the threads' own code only.  *)
Runs(w, r, p, i) ==
  /\ IsRegs(r)
  /\ \/ \E k \in 1 .. 16, t \in Threads, u \in Threads :
          \E n \in 1 .. Len(w.stacks[t]) :
            p = <<"swap", k>> /\ Swapping(w, r, k, t, u, n)
     \/ \E t \in Threads : \E n \in 0 .. Len(w.stacks[t]) : Outside(w, r, p, t, n)
  /\ w.preemptive /\ p # <<"work">> => ~i

(* A handler, or interrupt_service before it, with its frame at word q:    *)
(* what it interrupted ran, unless the kernel is about to panic.           *)
Serves(w, r, p, t, q) ==
  /\ r["rsp"] = <<t, q>>
  /\ p = <<"service">> => r["rdi"] = <<t, q>>
  /\ p = <<"handler">> => r["rbx"] = <<t, q>> /\ w.traps[t].vector >= 32
  /\ Frame(w.stacks[t], q, w.traps[t]) /\ w.traps[t].vector \in Nat
  /\ w.traps[t].vector >= 32 =>
       /\ w.traps[t].regs["rsp"] = <<t, q - 22>> /\ w.traps[t].intr
       /\ Runs(w, w.traps[t].regs, w.traps[t].pc, w.traps[t].intr)

Shape ==
  /\ IsRegs(regs)
  /\ DOMAIN stacks = Threads /\ \A t \in Threads : IsSeq(stacks[t])
  /\ DOMAIN ctx = Threads /\ \A t \in Threads : DOMAIN ctx[t] = 1 .. 7
  /\ DOMAIN calls = Threads /\ DOMAIN traps = Threads

Mode ==
  \/ pc = <<"panic">> /\ ~intr
  \/ /\ pc \in {<<"service">>, <<"handler">>} /\ ~intr
     /\ \E t \in Threads : \E q \in 22 .. Len(stacks[t]) : Serves(World, regs, pc, t, q)
  \/ Runs(World, regs, pc, intr)

IInv == Shape /\ Mode
-----------------------------------------------------------------------------
(***************************************************************************)
(* The lists of registers.                                                 *)
(***************************************************************************)
LEMMA MovesFacts ==
  /\ Len(Moves) = 7
  /\ Moves[1] = "rbx" /\ Moves[2] = "r12" /\ Moves[3] = "r13" /\ Moves[4] = "r14"
  /\ Moves[5] = "r15" /\ Moves[6] = "rsp" /\ Moves[7] = "rbp"
  /\ \A j \in 1 .. 7 : Moves[j] \in Registers \ {"rdi", "rsi", "rax"}
  /\ \A i, j \in 1 .. 7 : Moves[i] = Moves[j] => i = j
  /\ CalleeSaved \cup {"rsp"} = {Moves[j] : j \in 1 .. 7}
<1>1. /\ Len(Moves) = 7
      /\ Moves[1] = "rbx" /\ Moves[2] = "r12" /\ Moves[3] = "r13" /\ Moves[4] = "r14"
      /\ Moves[5] = "r15" /\ Moves[6] = "rsp" /\ Moves[7] = "rbp"
  BY DEF Moves
<1>2. \A j \in 1 .. 7 : j \in {1, 2, 3, 4, 5, 6, 7}
  OBVIOUS
<1>3. \A j \in 1 .. 7 : Moves[j] \in Registers \ {"rdi", "rsi", "rax"}
  BY <1>1, <1>2 DEF Registers, General, CalleeSaved
<1>4. \A i, j \in 1 .. 7 : Moves[i] = Moves[j] => i = j
  BY <1>1, <1>2
<1>5. CalleeSaved \cup {"rsp"} = {Moves[j] : j \in 1 .. 7}
  BY <1>1, <1>2 DEF CalleeSaved
<1>6. QED
  BY <1>1, <1>3, <1>4, <1>5

(* exit_order undoes isr_common_order, and trap_frame names its words.     *)
LEMMA Orders ==
  /\ Len(exit_order) = 15 /\ DOMAIN isr_common_order = 1 .. 15
  /\ DOMAIN trap_frame = 1 .. 22
  /\ \A k \in 1 .. 15 : /\ isr_common_order[16 - k] = exit_order[k]
                        /\ trap_frame[k] = exit_order[k]
                        /\ exit_order[k] \in General
  /\ General = {exit_order[k] : k \in 1 .. 15}
<1>1. /\ Len(exit_order) = 15 /\ DOMAIN isr_common_order = 1 .. 15
      /\ DOMAIN trap_frame = 1 .. 22
  BY DEF exit_order, isr_common_order, trap_frame
<1>2. \A k \in 1 .. 15 : k \in {1, 2, 3, 4, 5, 6, 7, 8, 9, 10, 11, 12, 13, 14, 15}
  OBVIOUS
<1>3. \A k \in 1 .. 15 : isr_common_order[16 - k] = exit_order[k]
  BY <1>2 DEF exit_order, isr_common_order
<1>4. \A k \in 1 .. 15 : trap_frame[k] = exit_order[k]
  BY <1>2 DEF exit_order, trap_frame
<1>5. /\ exit_order[1] = "r15" /\ exit_order[2] = "r14" /\ exit_order[3] = "r13"
      /\ exit_order[4] = "r12" /\ exit_order[5] = "r11" /\ exit_order[6] = "r10"
      /\ exit_order[7] = "r9" /\ exit_order[8] = "r8" /\ exit_order[9] = "rax"
      /\ exit_order[10] = "rbx" /\ exit_order[11] = "rcx" /\ exit_order[12] = "rdx"
      /\ exit_order[13] = "rsi" /\ exit_order[14] = "rdi" /\ exit_order[15] = "rbp"
  BY DEF exit_order
<1>6. \A k \in 1 .. 15 : exit_order[k] \in General
  BY <1>2, <1>5 DEF General, CalleeSaved, CallerSaved
<1>7. General \subseteq {exit_order[k] : k \in 1 .. 15}
  BY <1>5 DEF General, CalleeSaved, CallerSaved
<1>8. QED
  BY <1>1, <1>3, <1>4, <1>6, <1>7

(* No name is in trap_frame twice.                                         *)
LEMMA FieldIndex ==
  \A k \in 1 .. 22 : (CHOOSE i \in DOMAIN trap_frame : trap_frame[i] = trap_frame[k]) = k
<1>1. \A k \in 1 .. 22 : k \in {1, 2, 3, 4, 5, 6, 7, 8, 9, 10, 11, 12, 13, 14, 15, 16,
                               17, 18, 19, 20, 21, 22}
  OBVIOUS
<1>2. /\ trap_frame[1] = "r15" /\ trap_frame[2] = "r14" /\ trap_frame[3] = "r13"
      /\ trap_frame[4] = "r12" /\ trap_frame[5] = "r11" /\ trap_frame[6] = "r10"
      /\ trap_frame[7] = "r9" /\ trap_frame[8] = "r8" /\ trap_frame[9] = "rax"
      /\ trap_frame[10] = "rbx" /\ trap_frame[11] = "rcx" /\ trap_frame[12] = "rdx"
      /\ trap_frame[13] = "rsi" /\ trap_frame[14] = "rdi" /\ trap_frame[15] = "rbp"
      /\ trap_frame[16] = "vector" /\ trap_frame[17] = "errcode"
      /\ trap_frame[18] = "rip" /\ trap_frame[19] = "cs" /\ trap_frame[20] = "rflags"
      /\ trap_frame[21] = "rsp" /\ trap_frame[22] = "ss"
  BY DEF trap_frame
<1>3. \A i, k \in 1 .. 22 : trap_frame[i] = trap_frame[k] => i = k
  BY <1>1, <1>2, SMTT(60)
<1>4. DOMAIN trap_frame = 1 .. 22
  BY Orders
<1>5. QED
  BY <1>3, <1>4

(* Nor in exit_order.                                                      *)
LEMMA ExitIndex ==
  \A k \in 1 .. 15 : (CHOOSE i \in 1 .. 15 : exit_order[i] = exit_order[k]) = k
<1>1. \A i, k \in 1 .. 15 : exit_order[i] = exit_order[k] => i = k
  <2>1. SUFFICES ASSUME NEW i \in 1 .. 15, NEW k \in 1 .. 15, exit_order[i] = exit_order[k]
                 PROVE  i = k
    OBVIOUS
  <2>2. i \in 1 .. 22 /\ k \in 1 .. 22 /\ trap_frame[i] = trap_frame[k]
    BY <2>1, Orders
  <2>3. QED
    BY <2>2, FieldIndex
<1>2. QED
  BY <1>1
-----------------------------------------------------------------------------
(***************************************************************************)
(* Stacks.                                                                 *)
(***************************************************************************)
LEMMA SeqFacts ==
  ASSUME NEW s, IsSeq(s)
  PROVE  Len(s) \in Nat /\ DOMAIN s = 1 .. Len(s)
<1>1. PICK S : s \in Seq(S)
  BY DEF IsSeq
<1>2. QED
  BY <1>1, LenProperties

(* The first n words of a stack.                                           *)
LEMMA Cut ==
  ASSUME NEW s, IsSeq(s), NEW n \in 0 .. Len(s)
  PROVE  /\ IsSeq(SubSeq(s, 1, n)) /\ Len(SubSeq(s, 1, n)) = n
         /\ \A k \in 1 .. n : SubSeq(s, 1, n)[k] = s[k]
<1>1. PICK S : s \in Seq(S)
  BY DEF IsSeq
<1>2. Len(s) \in Nat
  BY <1>1, LenProperties
<1>3. \A k \in 1 .. n : k \in 1 .. Len(s)
  BY <1>2
<1>4. SubSeq(s, 1, n) \in Seq(S) /\ Len(SubSeq(s, 1, n)) = n
  BY <1>1, <1>2, <1>3, SubSeqProperties
<1>5. \A k \in 1 .. n : SubSeq(s, 1, n)[k] = s[k]
  BY <1>1, <1>2, <1>3, SubSeqProperties
<1>6. QED
  BY <1>4, <1>5 DEF IsSeq

(* Words put behind a stack.                                               *)
LEMMA Join ==
  ASSUME NEW s, NEW t, IsSeq(s), IsSeq(t)
  PROVE  /\ IsSeq(s \o t) /\ Len(s \o t) = Len(s) + Len(t)
         /\ \A k \in 1 .. Len(s) : (s \o t)[k] = s[k]
         /\ \A k \in 1 .. Len(t) : (s \o t)[Len(s) + k] = t[k]
<1>1. PICK S : s \in Seq(S)
  BY DEF IsSeq
<1>2. PICK T : t \in Seq(T)
  BY DEF IsSeq
<1> DEFINE U == S \cup T
<1>3. s \in Seq(U) /\ t \in Seq(U)
  <2>1. Seq(S) \subseteq Seq(U) /\ Seq(T) \subseteq Seq(U)
    BY SeqMonotonic
  <2>2. QED
    BY <2>1, <1>1, <1>2
<1> HIDE DEF U
<1>4. QED
  BY <1>3, Concat DEF IsSeq

(* One word put behind a stack.                                            *)
LEMMA PutWord ==
  ASSUME NEW s, IsSeq(s), NEW x
  PROVE  /\ IsSeq(s \o <<x>>) /\ Len(s \o <<x>>) = Len(s) + 1 /\ Len(s) \in Nat
         /\ (s \o <<x>>)[Len(s) + 1] = x
         /\ \A k \in 1 .. Len(s) : (s \o <<x>>)[k] = s[k]
<1> DEFINE one == <<x>>
<1>1. one \in Seq({x}) /\ Len(one) = 1 /\ one[1] = x
  OBVIOUS
<1> HIDE DEF one
<1>2. IsSeq(one)
  BY <1>1 DEF IsSeq
<1>3. /\ IsSeq(s \o one) /\ Len(s \o one) = Len(s) + Len(one)
      /\ \A k \in 1 .. Len(s) : (s \o one)[k] = s[k]
      /\ \A k \in 1 .. Len(one) : (s \o one)[Len(s) + k] = one[k]
  BY <1>2, Join
<1>4. Len(s) \in Nat
  BY SeqFacts
<1>5. QED
  BY <1>1, <1>3, <1>4 DEF one

(* The stack in use.                                                       *)
LEMMA StackFacts ==
  ASSUME Shape, NEW t \in Threads, NEW n \in 0 .. Len(stacks[t]), regs["rsp"] = <<t, n>>
  PROVE  /\ Current = t /\ IsSeq(Stack) /\ Len(Stack) = n
         /\ \A k \in 1 .. n : Stack[k] = stacks[t][k]
<1>1. Current = t /\ regs["rsp"][2] = n
  BY DEF Current
<1>2. Stack = SubSeq(stacks[t], 1, n)
  BY <1>1 DEF Stack
<1>3. IsSeq(stacks[t])
  BY DEF Shape
<1>4. QED
  BY <1>1, <1>2, <1>3, Cut

(* Push changes the stack in use only, behind %rsp.                        *)
LEMMA PushFacts ==
  ASSUME Shape, NEW t \in Threads, NEW n \in 0 .. Len(stacks[t]), regs["rsp"] = <<t, n>>,
         NEW words, IsSeq(words), Push(words)
  PROVE  /\ DOMAIN stacks' = Threads /\ \A x \in Threads : IsSeq(stacks'[x])
         /\ \A x \in Threads \ {t} : stacks'[x] = stacks[x]
         /\ Len(stacks'[t]) = n + Len(words)
         /\ \A k \in 1 .. n : stacks'[t][k] = stacks[t][k]
         /\ \A k \in 1 .. Len(words) : stacks'[t][n + k] = words[k]
<1>1. /\ Current = t /\ IsSeq(Stack) /\ Len(Stack) = n
      /\ \A k \in 1 .. n : Stack[k] = stacks[t][k]
  BY StackFacts
<1>2. stacks' = [stacks EXCEPT ![t] = Stack \o words]
  BY <1>1 DEF Push
<1>3. /\ IsSeq(Stack \o words) /\ Len(Stack \o words) = n + Len(words)
      /\ \A k \in 1 .. n : (Stack \o words)[k] = Stack[k]
      /\ \A k \in 1 .. Len(words) : (Stack \o words)[n + k] = words[k]
  BY <1>1, Join
<1> DEFINE new == Stack \o words
<1> HIDE DEF new
<1>4. /\ DOMAIN stacks = Threads /\ \A x \in Threads : IsSeq(stacks[x])
      /\ stacks' = [stacks EXCEPT ![t] = new]
  BY <1>2 DEF Shape, new
<1>5. /\ DOMAIN stacks' = Threads /\ stacks'[t] = new
      /\ \A x \in Threads \ {t} : stacks'[x] = stacks[x]
  BY <1>4
<1>6. \A x \in Threads : IsSeq(stacks'[x])
  BY <1>3, <1>4, <1>5 DEF new
<1>7. QED
  BY <1>1, <1>3, <1>5, <1>6 DEF new

(* Pushed moves %rsp and no other register.                                *)
LEMMA PushedFacts ==
  ASSUME Shape, NEW t \in Threads, NEW n \in 0 .. Len(stacks[t]), regs["rsp"] = <<t, n>>,
         NEW words, IsSeq(words), NEW r, IsRegs(r)
  PROVE  /\ IsRegs(Pushed(r, words)) /\ Pushed(r, words)["rsp"] = <<t, n + Len(words)>>
         /\ \A x \in General : Pushed(r, words)[x] = r[x]
<1>1. Current = t /\ IsSeq(Stack) /\ Len(Stack) = n
  BY StackFacts
<1>2. Len(Stack \o words) = n + Len(words)
  BY <1>1, Join
<1>3. Pushed(r, words) = [r EXCEPT !["rsp"] = <<t, n + Len(words)>>]
  BY <1>1, <1>2 DEF Pushed
<1>4. "rsp" \in Registers /\ General \subseteq Registers /\ "rsp" \notin General
  BY DEF Registers, General, CalleeSaved, CallerSaved
<1>5. QED
  BY <1>3, <1>4 DEF IsRegs

(* Pop cuts the stack in use.                                              *)
LEMMA PopFacts ==
  ASSUME Shape, NEW t \in Threads, Current = t, NEW n \in 0 .. Len(stacks[t]), Pop(n)
  PROVE  /\ DOMAIN stacks' = Threads /\ \A x \in Threads : IsSeq(stacks'[x])
         /\ \A x \in Threads \ {t} : stacks'[x] = stacks[x]
         /\ Len(stacks'[t]) = n
         /\ \A k \in 1 .. n : stacks'[t][k] = stacks[t][k]
<1> DEFINE new == SubSeq(stacks[t], 1, n)
<1>1. stacks' = [stacks EXCEPT ![t] = new]
  BY DEF Pop
<1>2. IsSeq(new) /\ Len(new) = n /\ \A k \in 1 .. n : new[k] = stacks[t][k]
  BY Cut DEF Shape
<1> HIDE DEF new
<1>3. /\ DOMAIN stacks' = Threads /\ stacks'[t] = new
      /\ \A x \in Threads \ {t} : stacks'[x] = stacks[x]
  BY <1>1 DEF Shape
<1>4. \A x \in Threads : IsSeq(stacks'[x])
  BY <1>2, <1>3 DEF Shape
<1>5. QED
  BY <1>2, <1>3, <1>4
-----------------------------------------------------------------------------
(***************************************************************************)
(* What does not touch a thread leaves it as it is.                        *)
(***************************************************************************)
Same(w, v, t) ==
  /\ v.stacks[t] = w.stacks[t] /\ v.ctx[t] = w.ctx[t] /\ v.calls[t] = w.calls[t]
  /\ w.preemptive => v.traps[t] = w.traps[t]
  /\ v.preemptive = w.preemptive

(* A thread that is not touched stays suspended.                           *)
LEMMA SuspendedStays ==
  ASSUME NEW w, NEW v, NEW t, Same(w, v, t), Suspended(w, t)
  PROVE  Suspended(v, t)
<1>1. PICK n \in 1 .. Len(w.stacks[t]) :
        /\ Parked(w, t, n)
        /\ w.ctx[t][6] = <<t, n>>
        /\ w.stacks[t][n] # <<"start">> =>
             \A j \in 1 .. 7 : w.ctx[t][j] = Saved(w, t, n, j)
  BY DEF Suspended
<1>2. Parked(v, t, n)
  BY <1>1 DEF Same, Parked, Interrupted
<1>3. \A j \in 1 .. 7 : Saved(v, t, n, j) = Saved(w, t, n, j)
  BY DEF Same, Saved
<1>4. QED
  BY <1>1, <1>2, <1>3 DEF Same, Suspended

(* The words of a stack that count are those up to %rsp.                   *)
Agree(w, v, t, m) ==
  /\ Len(w.stacks[t]) \in Nat /\ Len(v.stacks[t]) \in Nat
  /\ m \in 0 .. Len(w.stacks[t]) /\ m <= Len(v.stacks[t])
  /\ \A k \in 1 .. m : v.stacks[t][k] = w.stacks[t][k]

(* A frame stays in a stack whose words up to it stay.                     *)
LEMMA FrameStays ==
  ASSUME NEW s, NEW z, NEW q \in Nat, q >= 22, \A k \in 1 .. q : z[k] = s[k],
         NEW trap, Frame(s, q, trap)
  PROVE  Frame(z, q, trap)
<1>1. \A k \in 1 .. 15 : q + 1 - k \in 1 .. q
  OBVIOUS
<1>2. q - 15 \in 1 .. q /\ q - 17 \in 1 .. q /\ q - 19 \in 1 .. q /\ q - 20 \in 1 .. q
  OBVIOUS
<1>3. \A k \in 1 .. 15 : z[q + 1 - k] = trap.regs[exit_order[k]]
  BY <1>1 DEF Frame
<1>4. QED
  BY <1>2, <1>3 DEF Frame

(* So does a call of swap_context.                                         *)
LEMMA ParkedStays ==
  ASSUME NEW w, NEW v, NEW t, NEW n \in Nat, n >= 1, Agree(w, v, t, n),
         v.calls[t] = w.calls[t], v.preemptive = w.preemptive,
         w.preemptive => v.traps[t] = w.traps[t],
         Parked(w, t, n)
  PROVE  Parked(v, t, n) /\ v.stacks[t][n] = w.stacks[t][n]
<1>1. /\ v.stacks[t][n] = w.stacks[t][n]
      /\ n >= 2 => v.stacks[t][n - 1] = w.stacks[t][n - 1]
  BY DEF Agree
<1>2. ASSUME Interrupted(w, t, n - 1)
      PROVE  Interrupted(v, t, n - 1)
  <2> DEFINE q == n - 1
             s == w.stacks[t]
             z == v.stacks[t]
  <2>1. q \in Nat /\ q >= 22 /\ w.preemptive
    BY <1>2 DEF Interrupted
  <2>2. \A k \in 1 .. q : z[k] = s[k]
    BY <2>1 DEF Agree
  <2>3. Frame(s, q, w.traps[t])
    BY <1>2 DEF Interrupted
  <2> HIDE DEF q, s, z
  <2>4. Frame(z, q, w.traps[t])
    BY <2>1, <2>2, <2>3, FrameStays
  <2>5. QED
    BY <2>1, <2>4, <1>2 DEF Interrupted, q, z
<1>3. QED
  BY <1>1, <1>2 DEF Parked

(* Where %rsp points inside swap_context.                                  *)
Into(w, r, u, m) ==
  /\ r["rsp"] = <<u, m>> /\ w.ctx[u][6] = <<u, m>> /\ Parked(w, u, m)
  /\ w.stacks[u][m] # <<"start">> => \A j \in 1 .. 7 : w.ctx[u][j] = Saved(w, u, m, j)

(* Up to the load of %rsp the stack of the caller, then the other one.     *)
LEMMA SwapStack ==
  ASSUME NEW w, NEW r, NEW k \in 1 .. 16, NEW t \in Threads, NEW u \in Threads,
         NEW n \in 1 .. Len(w.stacks[t]), Swapping(w, r, k, t, u, n)
  PROVE  /\ k <= 13 => r["rsp"] = <<t, n>>
         /\ k > 13 => \E m \in 1 .. Len(w.stacks[u]) : Into(w, r, u, m)
<1>1. Moves[6] = "rsp" /\ 6 \in 1 .. 7
  BY MovesFacts
<1>2. /\ k <= 7 + 6 => r["rsp"] = Saved(w, t, n, 6)
      /\ 7 + 6 < k => r["rsp"] = w.ctx[u][6]
  BY <1>1 DEF Swapping
<1>3. k <= 13 => r["rsp"] = <<t, n>>
  BY <1>2 DEF Saved
<1>4. Suspended(w, u)
  BY DEF Swapping
<1>5. QED
  BY <1>2, <1>3, <1>4 DEF Suspended, Into

(* Code that was interrupted is not disturbed by what its handler pushes,  *)
(* and can go on when that is popped.                                      *)
LEMMA RunsStays ==
  ASSUME NEW w, NEW v, NEW r, NEW p, NEW i, NEW t, NEW m,
         Runs(w, r, p, i), r["rsp"] = <<t, m>>, Agree(w, v, t, m),
         v.ctx = w.ctx, v.calls = w.calls, v.from = w.from, v.preemptive = w.preemptive,
         \A x \in Threads \ {t} : v.stacks[x] = w.stacks[x] /\ v.traps[x] = w.traps[x],
         w.preemptive => p = <<"work">>
  PROVE  Runs(v, r, p, i)
<1>1. \A x \in Threads \ {t} : Same(w, v, x)
  BY DEF Same
<1>2. \A x \in Threads \ {t} : Suspended(w, x) => Suspended(v, x)
  BY <1>1, SuspendedStays
<1>3. ASSUME NEW k \in 1 .. 16, NEW a \in Threads, NEW u \in Threads,
             NEW n \in 1 .. Len(w.stacks[a]), p = <<"swap", k>>, Swapping(w, r, k, a, u, n)
      PROVE  n \in 1 .. Len(v.stacks[a]) /\ Swapping(v, r, k, a, u, n)
  <2>1. ~w.preemptive
    <3>1. p # <<"work">>
      BY <1>3
    <3>2. QED
      BY <3>1
  <2>2. \A j \in 1 .. 7 : Saved(v, a, n, j) = Saved(w, a, n, j)
    BY DEF Saved
  <2>3. CASE k <= 13
    <3>1. a = t /\ n = m
      <4>1. r["rsp"] = <<a, n>>
        BY ONLY <2>3, <1>3, SwapStack
      <4>2. QED
        BY <4>1
    <3>2. n \in Nat /\ n >= 1 /\ n \in 1 .. Len(v.stacks[a])
      BY <3>1 DEF Agree
    <3>3. Parked(v, a, n) /\ v.stacks[a][n] = w.stacks[a][n]
      <4>1. /\ Agree(w, v, a, n) /\ Parked(w, a, n) /\ v.calls[a] = w.calls[a]
            /\ v.preemptive = w.preemptive /\ (w.preemptive => v.traps[a] = w.traps[a])
        BY <3>1, <2>1, <1>3 DEF Swapping
      <4>2. QED
        BY ONLY <4>1, <3>2, ParkedStays
    <3>4. \A x \in Threads \ {a} : Suspended(v, x)
      BY <3>1, <1>2, <1>3 DEF Swapping
    <3>5. QED
      BY <3>2, <3>3, <3>4, <2>2, <1>3 DEF Swapping
  <2>4. CASE k > 13
    <3>1. PICK e \in 1 .. Len(w.stacks[u]) : Into(w, r, u, e)
      BY ONLY <2>4, <1>3, SwapStack
    <3>2. u = t /\ e = m /\ a # t
      BY <3>1, <1>3 DEF Swapping, Into
    <3>3. e \in Nat /\ e >= 1 /\ e \in 1 .. Len(v.stacks[u])
      BY <3>2 DEF Agree
    <3>4. Parked(v, u, e) /\ v.stacks[u][e] = w.stacks[u][e]
      <4>1. /\ Agree(w, v, u, e) /\ Parked(w, u, e) /\ v.calls[u] = w.calls[u]
            /\ v.preemptive = w.preemptive /\ (w.preemptive => v.traps[u] = w.traps[u])
        BY <3>1, <3>2, <2>1 DEF Into
      <4>2. QED
        BY ONLY <4>1, <3>3, ParkedStays
    <3>5. \A j \in 1 .. 7 : Saved(v, u, e, j) = Saved(w, u, e, j)
      BY DEF Saved
    <3>6. Suspended(v, u)
      BY <3>1, <3>3, <3>4, <3>5 DEF Suspended, Into
    <3>7. Parked(v, a, n) /\ v.stacks[a] = w.stacks[a]
      <4>1. Same(w, v, a) /\ Parked(w, a, n)
        BY <3>2, <1>1, <1>3 DEF Swapping
      <4>2. QED
        BY <4>1 DEF Same, Parked, Interrupted
    <3>8. \A x \in Threads \ {a} : Suspended(v, x)
      BY <3>2, <3>6, <1>2, <1>3 DEF Swapping
    <3>9. QED
      BY <3>7, <3>8, <2>2, <1>3 DEF Swapping
  <2>5. QED
    BY <2>3, <2>4
<1>4. ASSUME NEW a \in Threads, NEW n \in 0 .. Len(w.stacks[a]), Outside(w, r, p, a, n)
      PROVE  n \in 0 .. Len(v.stacks[a]) /\ Outside(v, r, p, a, n)
  <2>1. a = t /\ n = m
    BY <1>4 DEF Outside
  <2>2. n \in 0 .. Len(v.stacks[a])
    BY <2>1 DEF Agree
  <2>3. p # <<"resumed">>
    BY <1>4 DEF Outside, Interrupted
  <2>4. n >= 1 => v.stacks[a][n] = w.stacks[a][n]
    BY <2>1 DEF Agree
  <2>5. \A x \in Threads \ {a} : Suspended(v, x)
    BY <2>1, <1>2, <1>4 DEF Outside
  <2>6. QED
    BY <2>2, <2>3, <2>4, <2>5, <1>4 DEF Outside
<1>5. \/ \E k \in 1 .. 16, a \in Threads, u \in Threads :
           \E n \in 1 .. Len(v.stacks[a]) :
             p = <<"swap", k>> /\ Swapping(v, r, k, a, u, n)
      \/ \E a \in Threads : \E n \in 0 .. Len(v.stacks[a]) : Outside(v, r, p, a, n)
  <2>1. CASE \E k \in 1 .. 16, a \in Threads, u \in Threads :
               \E n \in 1 .. Len(w.stacks[a]) :
                 p = <<"swap", k>> /\ Swapping(w, r, k, a, u, n)
    <3>1. PICK k \in 1 .. 16, a \in Threads, u \in Threads :
            \E n \in 1 .. Len(w.stacks[a]) :
              p = <<"swap", k>> /\ Swapping(w, r, k, a, u, n)
      BY <2>1
    <3>2. PICK n \in 1 .. Len(w.stacks[a]) :
            p = <<"swap", k>> /\ Swapping(w, r, k, a, u, n)
      BY <3>1
    <3>3. n \in 1 .. Len(v.stacks[a]) /\ Swapping(v, r, k, a, u, n)
      BY <3>2, <1>3
    <3>4. QED
      BY <3>2, <3>3
  <2>2. CASE \E a \in Threads : \E n \in 0 .. Len(w.stacks[a]) : Outside(w, r, p, a, n)
    <3>1. PICK a \in Threads : \E n \in 0 .. Len(w.stacks[a]) : Outside(w, r, p, a, n)
      BY <2>2
    <3>2. PICK n \in 0 .. Len(w.stacks[a]) : Outside(w, r, p, a, n)
      BY <3>1
    <3>3. QED
      BY <3>2, <1>4
  <2>3. QED
    BY <2>1, <2>2 DEF Runs
<1>6. QED
  BY <1>5 DEF Runs
-----------------------------------------------------------------------------
(***************************************************************************)
(* The steps.                                                              *)
(***************************************************************************)
LEMMA Fields ==
  /\ World.stacks = stacks /\ World.ctx = ctx /\ World.calls = calls
  /\ World.traps = traps /\ World.from = from /\ World.preemptive = preemptive
  BY DEF World

(* The same in the next state.                                             *)
LEMMA FieldsNext ==
  /\ (World').stacks = stacks' /\ (World').ctx = ctx' /\ (World').calls = calls'
  /\ (World').traps = traps' /\ (World').from = from'
  /\ (World').preemptive = preemptive'
  BY DEF World

(* What runs, by the instruction.                                          *)
LEMMA Between ==
  ASSUME Mode, pc \in {<<"start">>, <<"work">>, <<"back">>, <<"resumed">>}
  PROVE  /\ \E t \in Threads : \E n \in 0 .. Len(stacks[t]) :
              Outside(World, regs, pc, t, n)
         /\ preemptive /\ pc # <<"work">> => ~intr
<1>1. pc # <<"panic">> /\ pc # <<"service">> /\ pc # <<"handler">>
  OBVIOUS
<1>2. \A k : pc # <<"swap", k>>
  OBVIOUS
<1>3. Runs(World, regs, pc, intr)
  BY <1>1 DEF Mode
<1>4. QED
  BY <1>2, <1>3, Fields DEF Runs

(* Inside swap_context.                                                    *)
LEMMA Inside ==
  ASSUME Mode, pc[1] = "swap"
  PROVE  /\ \E k \in 1 .. 16, t \in Threads, u \in Threads :
              \E n \in 1 .. Len(stacks[t]) :
                pc = <<"swap", k>> /\ Swapping(World, regs, k, t, u, n)
         /\ preemptive => ~intr
<1>1. pc \notin {<<"start">>, <<"work">>, <<"back">>, <<"resumed">>, <<"panic">>,
                 <<"service">>, <<"handler">>}
  OBVIOUS
<1>2. Runs(World, regs, pc, intr)
  BY <1>1 DEF Mode
<1>3. QED
  BY <1>1, <1>2, Fields DEF Runs, Outside

(* In an interrupt.                                                        *)
LEMMA Serving ==
  ASSUME Mode, pc \in {<<"service">>, <<"handler">>}
  PROVE  /\ \E t \in Threads : \E q \in 22 .. Len(stacks[t]) :
              Serves(World, regs, pc, t, q)
         /\ ~intr
<1>1. pc # <<"panic">> /\ \A k : pc # <<"swap", k>>
  OBVIOUS
<1>2. pc \notin {<<"start">>, <<"work">>, <<"back">>, <<"resumed">>}
  OBVIOUS
<1>3. ~Runs(World, regs, pc, intr)
  BY <1>1, <1>2 DEF Runs, Outside
<1>4. QED
  BY <1>1, <1>3 DEF Mode

(* The invariant holds when the first thread starts.                       *)
LEMMA InitHolds == Init => IInv
<1> SUFFICES ASSUME Init
             PROVE  IInv
  OBVIOUS
<1>1. PICK t \in Threads :
        /\ regs = [r \in Registers |-> IF r = "rsp" THEN <<t, 0>> ELSE Junk]
        /\ from = t
  BY DEF Init
<1> DEFINE first == << <<"start">> >>
<1>2. IsSeq(first) /\ Len(first) = 1 /\ first[1] = <<"start">>
  <2>1. first \in Seq({<<"start">>})
    OBVIOUS
  <2>2. QED
    BY <2>1 DEF IsSeq
<1>3. DOMAIN stacks = Threads /\ \A x \in Threads : stacks[x] = first
  BY DEF Init
<1> HIDE DEF first
<1>4. "rsp" \in Registers /\ "rax" \in Registers
  BY DEF Registers, General, CallerSaved
<1>5. /\ IsRegs(regs) /\ regs["rsp"] = <<t, 0>> /\ regs["rax"] = Junk
  BY <1>1, <1>4 DEF IsRegs
<1>6. /\ DOMAIN ctx = Threads
      /\ \A x \in Threads : DOMAIN ctx[x] = 1 .. 7 /\ ctx[x][6] = <<x, 1>>
  <2>1. ctx = [x \in Threads |->
                 [i \in 1 .. 7 |-> IF Moves[i] = "rsp" THEN <<x, 1>> ELSE Junk]]
    BY MovesFacts DEF Init
  <2>2. QED
    BY <2>1, MovesFacts
<1>7. Shape
  BY <1>2, <1>3, <1>5, <1>6 DEF Shape, Init
<1>8. \A x \in Threads : Suspended(World, x)
  <2>1. SUFFICES ASSUME NEW x \in Threads
                 PROVE  Suspended(World, x)
    OBVIOUS
  <2>2. 1 \in 1 .. Len(stacks[x]) /\ stacks[x][1] = <<"start">>
    BY <1>2, <1>3
  <2>3. QED
    BY <2>2, <1>6, Fields DEF Suspended, Parked
<1>9. Outside(World, regs, pc, t, 0)
  BY <1>5, <1>8 DEF Outside, Init
<1>10. 0 \in 0 .. Len(stacks[t])
  BY <1>2, <1>3
<1>11. ~intr
  BY DEF Init
<1>12. Runs(World, regs, pc, intr)
  BY <1>5, <1>9, <1>10, <1>11, Fields DEF Runs
<1>13. QED
  BY <1>7, <1>12 DEF IInv, Mode

(* A thread starts, and uses its registers.                                *)
LEMMA StartsKeeps == IInv /\ ThreadStarts => IInv'
<1> SUFFICES ASSUME IInv, ThreadStarts
             PROVE  IInv'
  OBVIOUS
<1>1. /\ pc = <<"start">> /\ pc' = <<"work">> /\ regs' = Holds(0, Len(Stack))
      /\ UNCHANGED <<stacks, ctx, preemptive, calls, from, traps>>
  BY DEF ThreadStarts
<1>2. PICK t \in Threads : \E n \in 0 .. Len(stacks[t]) : Outside(World, regs, pc, t, n)
  BY <1>1, Between DEF IInv
<1>3. PICK n \in 0 .. Len(stacks[t]) : Outside(World, regs, pc, t, n)
  BY <1>2
<1>4. Current = t /\ Len(Stack) = n
  BY <1>3, StackFacts DEF IInv, Outside
<1>5. IsRegs(regs') /\ regs'["rsp"] = <<t, n>>
  BY <1>1, <1>4 DEF Holds, IsRegs, Registers
<1>6. World' = World
  BY <1>1 DEF World
<1>7. Outside(World, regs', pc', t, n)
  BY <1>1, <1>3, <1>5 DEF Outside
<1>8. Runs(World, regs', pc', intr')
  BY <1>1, <1>5, <1>7, Fields DEF Runs
<1>9. Mode'
  BY <1>6, <1>8 DEF Mode
<1>10. Shape'
  BY <1>1, <1>5 DEF IInv, Shape
<1>11. QED
  BY <1>9, <1>10 DEF IInv

(* A thread is back from swap_context.                                     *)
LEMMA ReturnsKeeps == IInv /\ ThreadReturns => IInv'
<1> SUFFICES ASSUME IInv, ThreadReturns
             PROVE  IInv'
  OBVIOUS
<1>1. /\ pc = <<"back">> /\ pc' = <<"work">> /\ regs' = Holds(0, Len(Stack) - 1)
      /\ Pop(Len(Stack) - 1) /\ calls' = [calls EXCEPT ![Current] = <<>>]
      /\ UNCHANGED <<ctx, preemptive, from, traps>>
  BY DEF ThreadReturns
<1>2. PICK t \in Threads : \E n \in 0 .. Len(stacks[t]) : Outside(World, regs, pc, t, n)
  BY <1>1, Between DEF IInv
<1>3. PICK n \in 0 .. Len(stacks[t]) : Outside(World, regs, pc, t, n)
  BY <1>2
<1>4. Current = t /\ Len(Stack) = n
  BY <1>3, StackFacts DEF IInv, Outside
<1>5. n >= 1 /\ n \in Nat /\ Len(stacks[t]) \in Nat
  BY <1>1, <1>3, SeqFacts DEF Outside, IInv, Shape
<1>6. n - 1 \in 0 .. Len(stacks[t])
  BY <1>3, <1>5
<1>7. Pop(n - 1)
  BY <1>1, <1>4
<1>8. /\ DOMAIN stacks' = Threads /\ \A x \in Threads : IsSeq(stacks'[x])
      /\ \A x \in Threads \ {t} : stacks'[x] = stacks[x]
      /\ Len(stacks'[t]) = n - 1
  BY <1>4, <1>6, <1>7, PopFacts DEF IInv
<1>9. IsRegs(regs') /\ regs'["rsp"] = <<t, n - 1>>
  BY <1>1, <1>4 DEF Holds, IsRegs, Registers
<1>10. \A x \in Threads \ {t} : calls'[x] = calls[x]
  BY <1>1, <1>4
<1>11. \A x \in Threads \ {t} : Same(World, World', x)
  BY <1>1, <1>8, <1>10, Fields, FieldsNext DEF Same
<1>12. \A x \in Threads \ {t} : Suspended(World', x)
  BY <1>3, <1>11, SuspendedStays DEF Outside
<1>13. Outside(World', regs', pc', t, n - 1)
  BY <1>1, <1>9, <1>12 DEF Outside
<1>14. n - 1 \in 0 .. Len((World').stacks[t])
  BY <1>5, <1>8, FieldsNext
<1>15. Runs(World', regs', pc', intr')
  BY <1>1, <1>9, <1>13, <1>14 DEF Runs
<1>16. Mode'
  BY <1>15 DEF Mode
<1>17. Shape'
  BY <1>1, <1>8, <1>9 DEF IInv, Shape
<1>18. QED
  BY <1>16, <1>17 DEF IInv

(* swap_context is called, from a thread or from a handler.                *)
Calls(u, r, t, n, locals, ret) ==
  /\ regs["rsp"] = <<t, n>> /\ IsRegs(r) /\ r["rsp"] = <<t, n>>
  /\ \A x \in Threads \ {t} : Suspended(World, x)
  /\ IsSeq(locals)
  /\ \/ ret = <<"back">> /\ Len(locals) = 1 /\ locals[1] = <<"flags", intr>>
     \/ /\ ret = <<"resumed">> /\ Len(locals) = 0
        /\ preemptive /\ n >= 22 /\ r["rbx"] = <<t, n>>
        /\ Frame(stacks[t], n, traps[t])
        /\ IsRegs(traps[t].regs) /\ traps[t].regs["rsp"] = <<t, n - 22>>
        /\ traps[t].pc = <<"work">>

(* The call keeps the invariant.                                           *)
LEMMA CallKeeps ==
  ASSUME IInv, NEW t \in Threads, NEW n \in 0 .. Len(stacks[t]), NEW u \in Threads,
         NEW r, NEW locals, NEW ret, Calls(u, r, t, n, locals, ret),
         CallSwap(u, r, locals, ret), preemptive => ~intr'
  PROVE  IInv'
<1> DEFINE words == locals \o <<ret>>
           N == n + Len(locals) + 1
           r2 == [r EXCEPT !["rdi"] = Ctx(t), !["rsi"] = Ctx(u)]
<1>1. /\ Current = t /\ Len(stacks[t]) \in Nat /\ n \in Nat
  BY StackFacts, SeqFacts DEF IInv, Shape, Calls
<1>2. /\ IsSeq(words) /\ Len(words) = Len(locals) + 1 /\ Len(locals) \in Nat
      /\ words[Len(words)] = ret
      /\ Len(locals) = 1 => words[1] = locals[1]
  <2>1. IsSeq(locals)
    BY DEF Calls
  <2>2. /\ IsSeq(words) /\ Len(words) = Len(locals) + 1 /\ Len(locals) \in Nat
        /\ words[Len(locals) + 1] = ret
        /\ \A k \in 1 .. Len(locals) : words[k] = locals[k]
    BY ONLY <2>1, PutWord
  <2>3. QED
    BY <2>2
<1>3. /\ pc' = <<"swap", 1>> /\ Push(words) /\ regs' = Pushed(r2, words)
      /\ calls' = [calls EXCEPT ![t] = [regs |-> Pushed(r, locals), intr |-> intr]]
      /\ from' = t /\ u # t /\ UNCHANGED <<ctx, preemptive, traps>>
  BY <1>1 DEF CallSwap
<1> HIDE DEF words
<1>4. /\ "rdi" \in Registers /\ "rsi" \in Registers /\ "rsp" \in Registers
      /\ General \subseteq Registers /\ "rdi" \in General /\ "rsi" \in General
      /\ "rsp" \notin General
  BY DEF Registers, General, CallerSaved, CalleeSaved
<1>5. /\ IsRegs(r2) /\ r2["rdi"] = Ctx(t) /\ r2["rsi"] = Ctx(u)
      /\ \A x \in Registers \ {"rdi", "rsi"} : r2[x] = r[x]
  BY <1>4 DEF Calls, IsRegs
<1> HIDE DEF r2
<1>6. /\ IsRegs(regs') /\ regs'["rsp"] = <<t, n + Len(words)>>
      /\ \A x \in General : regs'[x] = r2[x]
  BY <1>2, <1>3, <1>5, PushedFacts DEF IInv, Calls
<1>7. N = n + Len(words) /\ N \in Nat /\ N - 1 = n + Len(locals)
  BY <1>1, <1>2
<1>8. /\ DOMAIN stacks' = Threads /\ \A x \in Threads : IsSeq(stacks'[x])
      /\ \A x \in Threads \ {t} : stacks'[x] = stacks[x]
      /\ Len(stacks'[t]) = n + Len(words)
      /\ \A k \in 1 .. n : stacks'[t][k] = stacks[t][k]
      /\ \A k \in 1 .. Len(words) : stacks'[t][n + k] = words[k]
  <2>1. Shape /\ regs["rsp"] = <<t, n>> /\ IsSeq(words) /\ Push(words)
    BY <1>2, <1>3 DEF IInv, Calls
  <2>2. QED
    BY ONLY <2>1, PushFacts, t \in Threads, n \in 0 .. Len(stacks[t])
<1>9. /\ IsRegs(Pushed(r, locals)) /\ Pushed(r, locals)["rsp"] = <<t, n + Len(locals)>>
      /\ \A x \in General : Pushed(r, locals)[x] = r[x]
  BY PushedFacts DEF IInv, Calls
<1>10. /\ DOMAIN calls' = Threads /\ calls'[t].intr = intr
       /\ calls'[t].regs["rsp"] = <<t, N - 1>>
       /\ \A x \in General : calls'[t].regs[x] = r[x]
       /\ \A x \in Threads \ {t} : calls'[x] = calls[x]
  <2>1. DOMAIN calls = Threads
    BY DEF IInv, Shape
  <2>2. QED
    BY <2>1, <1>3, <1>7, <1>9
<1>11. stacks'[t][N] = ret /\ N \in 1 .. Len(stacks'[t])
  <2>1. Len(words) \in 1 .. Len(words)
    BY <1>2
  <2>2. QED
    BY <2>1, <1>1, <1>2, <1>7, <1>8
<1>12. Parked(World', t, N)
  <2>1. CASE ret = <<"back">> /\ Len(locals) = 1 /\ locals[1] = <<"flags", intr>>
    <3>1. N - 1 = n + 1 /\ N >= 2 /\ 1 \in 1 .. Len(words)
      BY <2>1, <1>1, <1>2, <1>7
    <3>2. stacks'[t][N - 1] = <<"flags", intr>>
      BY <3>1, <2>1, <1>2, <1>8
    <3>3. QED
      BY <3>1, <3>2, <2>1, <1>10, <1>11, FieldsNext DEF Parked
  <2>2. CASE /\ ret = <<"resumed">> /\ Len(locals) = 0
             /\ preemptive /\ n >= 22 /\ r["rbx"] = <<t, n>>
             /\ Frame(stacks[t], n, traps[t])
             /\ IsRegs(traps[t].regs) /\ traps[t].regs["rsp"] = <<t, n - 22>>
             /\ traps[t].pc = <<"work">>
    <3>1. N - 1 = n
      BY <2>2, <1>1, <1>7
    <3>2. Frame(stacks'[t], n, traps[t])
      <4> DEFINE z == stacks'[t]
                 s == stacks[t]
      <4>1. \A k \in 1 .. n : z[k] = s[k]
        BY <1>8
      <4>2. Frame(s, n, traps[t])
        BY <2>2
      <4> HIDE DEF z, s
      <4>3. Frame(z, n, traps[t])
        BY <4>1, <4>2, <2>2, <1>1, FrameStays
      <4>4. QED
        BY <4>3 DEF z
    <3>3. calls'[t].regs["rbx"] = <<t, n>>
      <4>1. "rbx" \in General
        BY DEF General, CalleeSaved
      <4>2. QED
        BY <4>1, <2>2, <1>10
    <3>4. Interrupted(World', t, N - 1)
      BY <3>1, <3>2, <3>3, <2>2, <1>3, <1>10, FieldsNext DEF Interrupted
    <3>5. QED
      BY <3>4, <2>2, <1>11, FieldsNext DEF Parked
  <2>3. QED
    BY <2>1, <2>2 DEF Calls
<1>13. ret # <<"start">>
  BY DEF Calls
<1>14. \A j \in 1 .. 7 : regs'[Moves[j]] = Saved(World', t, N, j)
  <2>1. SUFFICES ASSUME NEW j \in 1 .. 7
                 PROVE  regs'[Moves[j]] = Saved(World', t, N, j)
    OBVIOUS
  <2>2. CASE j = 6
    BY <2>2, <1>6, <1>7, MovesFacts DEF Saved
  <2>3. CASE j # 6
    <3>1. Moves[j] # "rsp" /\ Moves[j] \in Registers \ {"rdi", "rsi", "rax"}
      <4>1. Moves[6] = "rsp" /\ 6 \in 1 .. 7 /\ (Moves[j] = Moves[6] => j = 6)
        BY MovesFacts
      <4>2. QED
        BY <4>1, <2>3, MovesFacts
    <3>2. Moves[j] \in General
      BY <3>1 DEF Registers
    <3>3. regs'[Moves[j]] = r[Moves[j]]
      BY <3>1, <3>2, <1>5, <1>6
    <3>4. calls'[t].regs[Moves[j]] = r[Moves[j]]
      BY <3>2, <1>10
    <3>5. QED
      BY <3>3, <3>4, <2>3, FieldsNext DEF Saved
  <2>4. QED
    BY <2>2, <2>3
<1>15. \A x \in Threads \ {t} : Suspended(World', x)
  <2>1. \A x \in Threads \ {t} : Same(World, World', x)
    BY <1>3, <1>8, <1>10, Fields, FieldsNext DEF Same
  <2>2. QED
    BY <2>1, SuspendedStays DEF Calls
<1>16. Swapping(World', regs', 1, t, u, N)
  <2>1. regs'["rdi"] = Ctx(t) /\ regs'["rsi"] = Ctx(u)
    BY <1>4, <1>5, <1>6
  <2>2. \A j \in 1 .. 7 : ~(j < 1) /\ ~(7 + j < 1)
    OBVIOUS
  <2>3. (World').from = t /\ u # t /\ (World').stacks[t][N] # <<"start">>
    BY <1>3, <1>11, <1>13, FieldsNext
  <2>4. ~(1 = 16)
    OBVIOUS
  <2>5. QED
    BY <2>1, <2>2, <2>3, <2>4, <1>12, <1>14, <1>15 DEF Swapping
<1>17. Runs(World', regs', pc', intr')
  <2>1. (World').stacks[t] = stacks'[t] /\ (World').preemptive = preemptive
    BY FieldsNext, <1>3
  <2>2. N \in 1 .. Len((World').stacks[t]) /\ 1 \in 1 .. 16
    BY <2>1, <1>11
  <2>3. QED
    BY <2>1, <2>2, <1>3, <1>6, <1>16 DEF Runs
<1>18. Shape'
  BY <1>3, <1>6, <1>8, <1>10 DEF IInv, Shape
<1>19. QED
  BY <1>17, <1>18 DEF IInv, Mode

(* A thread's call is one.                                                 *)
LEMMA ThreadCallsKeeps ==
  ASSUME IInv, NEW u \in Threads, NEW b \in {0, 1}, ThreadCalls(u, b)
  PROVE  IInv'
<1> DEFINE locals == << <<"flags", intr>> >>
<1>1. /\ pc = <<"work">> /\ CallSwap(u, Holds(b, Len(Stack)), locals, <<"back">>)
      /\ intr' = IF preemptive THEN FALSE ELSE intr
  BY DEF ThreadCalls
<1>2. PICK t \in Threads : \E n \in 0 .. Len(stacks[t]) : Outside(World, regs, pc, t, n)
  BY <1>1, Between DEF IInv
<1>3. PICK n \in 0 .. Len(stacks[t]) : Outside(World, regs, pc, t, n)
  BY <1>2
<1>4. Current = t /\ Len(Stack) = n
  BY <1>3, StackFacts DEF IInv, Outside
<1> DEFINE r == Holds(b, Len(Stack))
<1>5. IsRegs(r) /\ r["rsp"] = <<t, n>>
  BY <1>4 DEF Holds, IsRegs, Registers
<1>6. IsSeq(locals) /\ Len(locals) = 1 /\ locals[1] = <<"flags", intr>>
  <2>1. locals \in Seq({<<"flags", intr>>})
    OBVIOUS
  <2>2. QED
    BY <2>1 DEF IsSeq
<1> HIDE DEF locals, r
<1>7. Calls(u, r, t, n, locals, <<"back">>)
  BY <1>3, <1>5, <1>6 DEF Calls, Outside
<1>8. CallSwap(u, r, locals, <<"back">>)
  BY <1>1 DEF r
<1>9. preemptive => ~intr'
  BY <1>1
<1>10. QED
  BY <1>7, <1>8, <1>9, CallKeeps

(* A handler's call is one.                                                *)
LEMMA HandlerCallsKeeps ==
  ASSUME IInv, NEW u \in Threads, HandlerCalls(u)
  PROVE  IInv'
<1>1. /\ pc = <<"handler">> /\ preemptive /\ CallSwap(u, regs, <<>>, <<"resumed">>)
      /\ intr' = intr
  BY DEF HandlerCalls
<1>2. ~intr /\ \E t \in Threads : \E q \in 22 .. Len(stacks[t]) :
                 Serves(World, regs, pc, t, q)
  BY <1>1, Serving DEF IInv
<1>3. PICK t \in Threads : \E q \in 22 .. Len(stacks[t]) : Serves(World, regs, pc, t, q)
  BY <1>2
<1>4. PICK q \in 22 .. Len(stacks[t]) : Serves(World, regs, pc, t, q)
  BY <1>3
<1>5. Len(stacks[t]) \in Nat
  BY SeqFacts DEF IInv, Shape
<1>6. q \in 0 .. Len(stacks[t]) /\ q >= 22
  BY <1>4, <1>5
<1>7. /\ regs["rsp"] = <<t, q>> /\ regs["rbx"] = <<t, q>>
      /\ Frame(stacks[t], q, traps[t])
      /\ traps[t].regs["rsp"] = <<t, q - 22>> /\ traps[t].intr
      /\ Runs(World, traps[t].regs, traps[t].pc, traps[t].intr)
  BY <1>1, <1>4, Fields DEF Serves
<1>8. traps[t].pc = <<"work">> /\ IsRegs(traps[t].regs)
  BY <1>1, <1>7, Fields DEF Runs
<1>9. \A k : traps[t].pc # <<"swap", k>>
  BY <1>8
<1>10. \A x \in Threads \ {t} : Suspended(World, x)
  <2>1. PICK a \in Threads : \E n \in 0 .. Len(stacks[a]) :
          Outside(World, traps[t].regs, traps[t].pc, a, n)
    BY <1>7, <1>9, Fields DEF Runs
  <2>2. PICK n \in 0 .. Len(stacks[a]) : Outside(World, traps[t].regs, traps[t].pc, a, n)
    BY <2>1
  <2>3. a = t
    BY <2>2, <1>7 DEF Outside
  <2>4. QED
    BY <2>2, <2>3 DEF Outside
<1>11. IsSeq(<<>>) /\ Len(<<>>) = 0
  <2>1. <<>> \in Seq({})
    OBVIOUS
  <2>2. QED
    BY <2>1 DEF IsSeq
<1>12. IsRegs(regs)
  BY DEF IInv, Shape
<1>13. Calls(u, regs, t, q, <<>>, <<"resumed">>)
  BY <1>1, <1>6, <1>7, <1>8, <1>10, <1>11, <1>12 DEF Calls
<1>14. QED
  BY <1>1, <1>2, <1>6, <1>13, CallKeeps

(* The k-th instruction of swap_context.                                   *)
Moved(k, t, u) ==
  /\ UNCHANGED <<intr, preemptive, calls, from, traps>>
  /\ k <= 7 => /\ ctx' = [ctx EXCEPT ![t][k] = regs[Moves[k]]] /\ regs' = regs
  /\ k > 7 => ctx' = ctx
  /\ k \in 8 .. 14 => regs' = [regs EXCEPT ![Moves[k - 7]] = ctx[u][k - 7]]
  /\ k = 15 => regs' = [regs EXCEPT !["rax"] = Ctx(t)]
  /\ k < 16 => pc' = <<"swap", k + 1>> /\ stacks' = stacks
  /\ k = 16 => /\ regs' = [regs EXCEPT !["rsp"] = <<Current, Len(Stack) - 1>>]
               /\ pc' = Stack[Len(Stack)] /\ Pop(Len(Stack) - 1)

(* What Instruction says, by the number of the instruction.                *)
LEMMA InstructionFacts ==
  ASSUME Instruction, NEW k \in 1 .. 16, pc = <<"swap", k>>, NEW t, NEW u,
         regs["rdi"] = Ctx(t), regs["rsi"] = Ctx(u)
  PROVE  Moved(k, t, u)
<1>1. regs["rdi"][2] = t /\ regs["rsi"][2] = u /\ pc[2] = k /\ Len(Moves) = 7
  BY MovesFacts DEF Ctx
<1>2. /\ ctx' = IF k <= 7 THEN [ctx EXCEPT ![t][k] = regs[Moves[k]]] ELSE ctx
      /\ regs' = CASE k <= 7 -> regs
                   [] k \in 7 + 1 .. 2 * 7 ->
                        [regs EXCEPT ![Moves[k - 7]] = ctx[u][LoadOffset(k - 7)]]
                   [] k = 2 * 7 + 1 -> [regs EXCEPT !["rax"] = regs["rdi"]]
                   [] OTHER -> [regs EXCEPT !["rsp"] = <<Current, Len(Stack) - 1>>]
      /\ IF k = 2 * 7 + 2 THEN pc' = Stack[Len(Stack)] /\ Pop(Len(Stack) - 1)
                          ELSE pc' = <<"swap", k + 1>> /\ UNCHANGED stacks
      /\ UNCHANGED <<intr, preemptive, calls, from, traps>>
  BY <1>1 DEF Instruction
<1>3. /\ k <= 7 => regs' = regs
      /\ k \in 8 .. 14 => regs' = [regs EXCEPT ![Moves[k - 7]] = ctx[u][k - 7]]
  BY <1>2 DEF LoadOffset
<1>4. k = 15 => regs' = [regs EXCEPT !["rax"] = Ctx(t)]
  BY <1>2
<1>5. k = 16 => regs' = [regs EXCEPT !["rsp"] = <<Current, Len(Stack) - 1>>]
  BY <1>2
<1>6. QED
  BY <1>2, <1>3, <1>4, <1>5 DEF Moved

(* Every instruction but the last leaves one more word saved or loaded.    *)
LEMMA MoveKeeps ==
  ASSUME IInv, Instruction, NEW k \in 1 .. 15, NEW t \in Threads, NEW u \in Threads,
         NEW n \in 1 .. Len(stacks[t]), pc = <<"swap", k>>,
         Swapping(World, regs, k, t, u, n), preemptive => ~intr
  PROVE  IInv'
<1>1. regs["rdi"] = Ctx(t) /\ regs["rsi"] = Ctx(u) /\ u # t /\ from = t
  BY Fields DEF Swapping
<1>2. k \in 1 .. 16 /\ k < 16 /\ k + 1 \in 1 .. 16
  OBVIOUS
<1>3. /\ UNCHANGED <<intr, preemptive, calls, from, traps>>
      /\ k <= 7 => /\ ctx' = [ctx EXCEPT ![t][k] = regs[Moves[k]]] /\ regs' = regs
      /\ k > 7 => ctx' = ctx
      /\ k \in 8 .. 14 => regs' = [regs EXCEPT ![Moves[k - 7]] = ctx[u][k - 7]]
      /\ k = 15 => regs' = [regs EXCEPT !["rax"] = Ctx(t)]
      /\ pc' = <<"swap", k + 1>> /\ stacks' = stacks
  <2>1. Instruction /\ pc = <<"swap", k>>
    OBVIOUS
  <2>2. Moved(k, t, u)
    BY ONLY <2>1, <1>1, <1>2, InstructionFacts
  <2>3. QED
    BY <2>2, <1>2 DEF Moved
<1>4. IsRegs(regs) /\ DOMAIN ctx = Threads /\ \A x \in Threads : DOMAIN ctx[x] = 1 .. 7
  BY DEF IInv, Shape
<1>5. /\ "rax" \in Registers /\ "rdi" \in Registers /\ "rsi" \in Registers
  BY DEF Registers, General, CallerSaved
<1>6. \A j \in 1 .. 7 : /\ j < k => ctx[t][j] = Saved(World, t, n, j)
                        /\ k <= 7 + j => regs[Moves[j]] = Saved(World, t, n, j)
                        /\ 7 + j < k => regs[Moves[j]] = ctx[u][j]
  BY Fields DEF Swapping
<1>7. /\ IsRegs(regs') /\ regs'["rdi"] = Ctx(t) /\ regs'["rsi"] = Ctx(u)
      /\ k + 1 = 16 => regs'["rax"] = Ctx(t)
  <2>1. CASE k <= 7
    BY <2>1, <1>1, <1>3, <1>4
  <2>2. CASE k \in 8 .. 14
    <3>1. k - 7 \in 1 .. 7
      BY <2>2
    <3>2. Moves[k - 7] \in Registers \ {"rdi", "rsi", "rax"}
      BY <3>1, MovesFacts
    <3>3. QED
      BY <3>2, <2>2, <1>1, <1>3, <1>4, <1>5 DEF IsRegs
  <2>3. CASE k = 15
    BY <2>3, <1>1, <1>3, <1>4, <1>5 DEF IsRegs
  <2>4. QED
    BY <2>1, <2>2, <2>3
<1>8. \A j \in 1 .. 7 : /\ j < k + 1 => ctx'[t][j] = Saved(World, t, n, j)
                        /\ k + 1 <= 7 + j => regs'[Moves[j]] = Saved(World, t, n, j)
                        /\ 7 + j < k + 1 => regs'[Moves[j]] = ctx'[u][j]
  <2>1. SUFFICES ASSUME NEW j \in 1 .. 7
                 PROVE  /\ j < k + 1 => ctx'[t][j] = Saved(World, t, n, j)
                        /\ k + 1 <= 7 + j => regs'[Moves[j]] = Saved(World, t, n, j)
                        /\ 7 + j < k + 1 => regs'[Moves[j]] = ctx'[u][j]
    OBVIOUS
  <2>2. CASE k <= 7
    <3>1. ctx'[t] = [ctx[t] EXCEPT ![k] = regs[Moves[k]]] /\ regs' = regs
      BY <2>2, <1>3, <1>4
    <3>2. regs[Moves[k]] = Saved(World, t, n, k)
      BY <2>2, <1>6, SMTT(30)
    <3>3. j < k + 1 => ctx'[t][j] = Saved(World, t, n, j)
      <4>1. CASE j = k
        BY <4>1, <3>1, <3>2, <2>2, <1>4
      <4>2. CASE j # k
        <5>1. ctx'[t][j] = ctx[t][j]
          BY <4>2, <3>1, <1>4
        <5>2. j < k + 1 => j < k
          BY <4>2
        <5>3. QED
          BY <5>1, <5>2, <1>6
      <4>3. QED
        BY <4>1, <4>2
    <3>4. k + 1 <= 7 + j => regs'[Moves[j]] = Saved(World, t, n, j)
      <4>1. k + 1 <= 7 + j => k <= 7 + j
        OBVIOUS
      <4>2. QED
        BY <4>1, <3>1, <1>6
    <3>5. ~(7 + j < k + 1)
      BY <2>2
    <3>6. QED
      BY <3>3, <3>4, <3>5
  <2>3. CASE k \in 8 .. 14
    <3> DEFINE m == k - 7
    <3>1. m \in 1 .. 7 /\ k = 7 + m
      BY <2>3
    <3> HIDE DEF m
    <3>2. regs' = [regs EXCEPT ![Moves[m]] = ctx[u][m]] /\ ctx' = ctx
      BY <2>3, <1>3 DEF m
    <3>3. Moves[m] \in Registers /\ Moves[j] \in Registers /\ (Moves[j] = Moves[m] => j = m)
      BY <3>1, MovesFacts
    <3>4. regs'[Moves[m]] = ctx[u][m] /\ (j # m => regs'[Moves[j]] = regs[Moves[j]])
      BY <3>2, <3>3, <1>4 DEF IsRegs
    <3>5. /\ (k + 1 <= 7 + j => j # m /\ k <= 7 + j)
          /\ (7 + j < k + 1 => j = m \/ 7 + j < k)
          /\ (j < k)
      BY <3>1
    <3>6. QED
      BY <3>2, <3>4, <3>5, <1>6
  <2>4. CASE k = 15
    <3>1. regs'[Moves[j]] = regs[Moves[j]] /\ ctx' = ctx
      <4>1. Moves[j] \in Registers \ {"rdi", "rsi", "rax"}
        BY MovesFacts
      <4>2. QED
        BY <4>1, <2>4, <1>3, <1>4 DEF IsRegs
    <3>2. j < k /\ 7 + j < k /\ ~(k + 1 <= 7 + j)
      BY <2>4
    <3>3. QED
      BY <3>1, <3>2, <1>6
  <2>5. QED
    BY <2>2, <2>3, <2>4
<1>9. DOMAIN ctx' = Threads /\ \A x \in Threads : DOMAIN ctx'[x] = 1 .. 7
  BY <1>3, <1>4
<1>10. \A x \in Threads \ {t} : ctx'[x] = ctx[x]
  BY <1>3, <1>4
<1>11. \A x \in Threads \ {t} : Suspended(World', x)
  <2>1. \A x \in Threads \ {t} : Same(World, World', x)
    BY <1>3, <1>10, Fields, FieldsNext DEF Same
  <2>2. QED
    BY <2>1, SuspendedStays DEF Swapping
<1>12. /\ Parked(World', t, n) /\ (World').stacks[t][n] # <<"start">>
       /\ \A j \in 1 .. 7 : Saved(World', t, n, j) = Saved(World, t, n, j)
  <2>1. /\ (World').stacks = World.stacks /\ (World').calls = World.calls
        /\ (World').traps = World.traps /\ (World').preemptive = World.preemptive
    BY <1>3, Fields, FieldsNext
  <2>2. Parked(World, t, n) /\ World.stacks[t][n] # <<"start">>
    BY DEF Swapping
  <2>3. \A q : Interrupted(World, t, q) => Interrupted(World', t, q)
    BY ONLY <2>1 DEF Interrupted
  <2>4. Parked(World', t, n) /\ (World').stacks[t][n] # <<"start">>
    BY ONLY <2>1, <2>2, <2>3 DEF Parked
  <2>5. \A j \in 1 .. 7 : Saved(World', t, n, j) = Saved(World, t, n, j)
    BY ONLY <2>1 DEF Saved
  <2>6. QED
    BY <2>4, <2>5
<1>13. Swapping(World', regs', k + 1, t, u, n)
  <2>1. (World').from = t /\ (World').ctx = ctx'
    BY <1>1, <1>3, FieldsNext
  <2>2. QED
    BY <2>1, <1>1, <1>7, <1>8, <1>11, <1>12 DEF Swapping
<1>14. Runs(World', regs', pc', intr')
  <2>1. n \in 1 .. Len((World').stacks[t]) /\ (World').preemptive = preemptive
    BY <1>3, FieldsNext
  <2>2. QED
    BY <2>1, <1>2, <1>3, <1>7, <1>13 DEF Runs
<1>15. Shape'
  BY <1>3, <1>7, <1>9 DEF IInv, Shape
<1>16. QED
  BY <1>14, <1>15 DEF IInv, Mode

(* The last one returns to where the other thread called it.               *)
LEMMA RetKeeps ==
  ASSUME IInv, Instruction, NEW t \in Threads, NEW u \in Threads,
         NEW n \in 1 .. Len(stacks[t]), pc = <<"swap", 16>>,
         Swapping(World, regs, 16, t, u, n), preemptive => ~intr
  PROVE  IInv'
<1>1. regs["rdi"] = Ctx(t) /\ regs["rsi"] = Ctx(u) /\ u # t /\ from = t /\ regs["rax"] = Ctx(t)
  BY Fields DEF Swapping
<1>2. /\ UNCHANGED <<intr, preemptive, calls, from, traps>> /\ ctx' = ctx
      /\ regs' = [regs EXCEPT !["rsp"] = <<Current, Len(Stack) - 1>>]
      /\ pc' = Stack[Len(Stack)] /\ Pop(Len(Stack) - 1)
  <2>1. 16 \in 1 .. 16 /\ 16 > 7
    OBVIOUS
  <2>2. Moved(16, t, u)
    BY <2>1, <1>1, InstructionFacts
  <2>3. QED
    BY <2>1, <2>2 DEF Moved
<1>3. PICK m \in 1 .. Len(World.stacks[u]) : Into(World, regs, u, m)
  <2>1. PICK k \in 1 .. 16 : k > 13 /\ Swapping(World, regs, k, t, u, n)
    OBVIOUS
  <2>2. n \in 1 .. Len(World.stacks[t])
    BY Fields
  <2>3. QED
    BY ONLY <2>1, <2>2, t \in Threads, u \in Threads, SwapStack
<1>4. /\ Len(stacks[u]) \in Nat /\ m \in 1 .. Len(stacks[u]) /\ m \in Nat /\ m >= 1
      /\ m \in 0 .. Len(stacks[u]) /\ m - 1 \in 0 .. Len(stacks[u])
  <2>1. Len(stacks[u]) \in Nat /\ m \in 1 .. Len(stacks[u])
    BY <1>3, Fields, SeqFacts DEF IInv, Shape
  <2>2. QED
    BY <2>1
<1>5. /\ regs["rsp"] = <<u, m>> /\ ctx[u][6] = <<u, m>> /\ Parked(World, u, m)
      /\ stacks[u][m] # <<"start">> => \A j \in 1 .. 7 : ctx[u][j] = Saved(World, u, m, j)
  BY <1>3, Fields DEF Into
<1>6. Current = u /\ Len(Stack) = m /\ Stack[m] = stacks[u][m]
  <2>1. m \in 1 .. m
    BY <1>4
  <2>2. QED
    BY <2>1, <1>4, <1>5, StackFacts DEF IInv
<1>7. /\ DOMAIN stacks' = Threads /\ \A x \in Threads : IsSeq(stacks'[x])
      /\ \A x \in Threads \ {u} : stacks'[x] = stacks[x]
      /\ Len(stacks'[u]) = m - 1
      /\ \A k \in 1 .. m - 1 : stacks'[u][k] = stacks[u][k]
  <2>1. Shape /\ Pop(m - 1)
    BY <1>2, <1>6 DEF IInv
  <2>2. QED
    BY ONLY <2>1, <1>4, <1>6, u \in Threads, PopFacts
<1>8. IsRegs(regs)
  BY DEF IInv, Shape
<1>9. /\ IsRegs(regs') /\ regs'["rsp"] = <<u, m - 1>>
      /\ \A x \in Registers \ {"rsp"} : regs'[x] = regs[x]
  <2>1. "rsp" \in Registers
    BY DEF Registers
  <2>2. QED
    BY <2>1, <1>2, <1>6, <1>8 DEF IsRegs
<1>10. regs'["rax"] = Ctx(t)
  <2>1. "rax" \in Registers \ {"rsp"}
    BY DEF Registers, General, CallerSaved
  <2>2. QED
    BY <2>1, <1>1, <1>9
<1>11. \A j \in 1 .. 7 : regs[Moves[j]] = ctx[u][j]
  <2>1. \A j \in 1 .. 7 : 7 + j < 16
    OBVIOUS
  <2>2. QED
    BY <2>1, Fields DEF Swapping
<1>12. ASSUME stacks[u][m] # <<"start">>, calls[u].regs["rsp"] = <<u, m - 1>>
       PROVE  \A x \in CalleeSaved \cup {"rsp"} : regs'[x] = calls[u].regs[x]
  <2>1. SUFFICES ASSUME NEW j \in 1 .. 7
                 PROVE  regs'[Moves[j]] = calls[u].regs[Moves[j]]
    BY MovesFacts
  <2>2. CASE j = 6
    BY <2>2, <1>9, <1>12, MovesFacts
  <2>3. CASE j # 6
    <3>1. Moves[j] \in Registers \ {"rsp"}
      <4>1. Moves[6] = "rsp" /\ 6 \in 1 .. 7 /\ (Moves[j] = Moves[6] => j = 6)
        BY MovesFacts
      <4>2. QED
        BY <4>1, <2>3, MovesFacts
    <3>2. regs'[Moves[j]] = ctx[u][j]
      BY <3>1, <1>9, <1>11
    <3>3. ctx[u][j] = calls[u].regs[Moves[j]]
      BY <2>3, <1>5, <1>12, Fields DEF Saved
    <3>4. QED
      BY <3>2, <3>3
  <2>4. QED
    BY <2>2, <2>3
<1>13. \A x \in Threads \ {u} : Suspended(World', x)
  <2>1. \A x \in Threads \ {u} : Same(World, World', x)
    BY <1>2, <1>7, Fields, FieldsNext DEF Same
  <2>2. Suspended(World, t)
    <3>1. n \in 1 .. Len(World.stacks[t]) /\ Parked(World, t, n)
      BY Fields DEF Swapping
    <3>2. \A j \in 1 .. 7 : j < 16
      OBVIOUS
    <3>3. \A j \in 1 .. 7 : World.ctx[t][j] = Saved(World, t, n, j)
      BY <3>2 DEF Swapping
    <3>4. World.ctx[t][6] = <<t, n>>
      <4>1. 6 \in 1 .. 7
        OBVIOUS
      <4>2. QED
        BY <4>1, <3>3 DEF Saved
    <3>5. QED
      BY <3>1, <3>3, <3>4 DEF Suspended
  <2>3. \A x \in Threads \ {u} : Suspended(World, x)
    BY <2>2 DEF Swapping
  <2>4. QED
    BY <2>1, <2>3, SuspendedStays
<1>14. Outside(World', regs', pc', u, m - 1)
  <2>1. pc' = stacks[u][m]
    BY <1>2, <1>6
  <2>2. (World').from = t /\ (World').calls = calls
    BY <1>1, <1>2, FieldsNext
  <2>3. CASE stacks[u][m] = <<"start">>
    BY <2>1, <2>2, <2>3, <1>9, <1>10, <1>13 DEF Outside
  <2>4. CASE /\ stacks[u][m] = <<"back">> /\ m >= 2
             /\ stacks[u][m - 1] = <<"flags", calls[u].intr>>
             /\ calls[u].regs["rsp"] = <<u, m - 1>>
    <3>1. (World').stacks[u][m - 1] = <<"flags", calls[u].intr>> /\ m - 1 >= 1
      <4>1. m - 1 \in 1 .. m - 1
        BY <2>4, <1>4
      <4>2. QED
        BY <4>1, <2>4, <1>7, FieldsNext
    <3>2. \A x \in CalleeSaved \cup {"rsp"} : regs'[x] = calls[u].regs[x]
      BY <2>4, <1>12
    <3>3. pc' = <<"back">>
      BY <2>1, <2>4
    <3>4. QED
      BY <3>1, <3>2, <3>3, <2>2, <1>9, <1>10, <1>13 DEF Outside
  <2>5. CASE stacks[u][m] = <<"resumed">> /\ Interrupted(World, u, m - 1)
    <3>1. /\ calls[u].regs["rsp"] = <<u, m - 1>> /\ m - 1 >= 22
          /\ Frame(stacks[u], m - 1, traps[u])
      BY <2>5, Fields DEF Interrupted
    <3>2. Frame(stacks'[u], m - 1, traps[u])
      <4> DEFINE z == stacks'[u]
                 s == stacks[u]
                 q == m - 1
      <4>1. q \in Nat /\ q >= 22 /\ (\A k \in 1 .. q : z[k] = s[k]) /\ Frame(s, q, traps[u])
        BY <3>1, <1>4, <1>7
      <4> HIDE DEF z, s, q
      <4>2. Frame(z, q, traps[u])
        BY ONLY <4>1, FrameStays
      <4>3. QED
        BY <4>2 DEF z, q
    <3>3. Interrupted(World', u, m - 1)
      BY <3>2, <2>5, <1>2, Fields, FieldsNext DEF Interrupted
    <3>4. \A x \in CalleeSaved \cup {"rsp"} : regs'[x] = calls[u].regs[x]
      BY <3>1, <2>5, <1>12
    <3>5. pc' = <<"resumed">>
      BY <2>1, <2>5
    <3>6. QED
      BY <3>3, <3>4, <3>5, <2>2, <1>9, <1>10, <1>13 DEF Outside
  <2>6. QED
    BY <2>3, <2>4, <2>5, <1>5, Fields DEF Parked
<1>15. Runs(World', regs', pc', intr')
  <2>1. m - 1 \in 0 .. Len((World').stacks[u]) /\ (World').preemptive = preemptive
    BY <1>2, <1>4, <1>7, FieldsNext
  <2>2. QED
    BY <2>1, <1>2, <1>9, <1>14 DEF Runs
<1>16. Shape'
  BY <1>2, <1>7, <1>9 DEF IInv, Shape
<1>17. QED
  BY <1>15, <1>16 DEF IInv, Mode

(* Every instruction of swap_context keeps the invariant.                  *)
LEMMA InstructionKeeps == IInv /\ Instruction => IInv'
<1> SUFFICES ASSUME IInv, Instruction
             PROVE  IInv'
  OBVIOUS
<1>1. pc[1] = "swap"
  BY DEF Instruction
<1>2. /\ \E k \in 1 .. 16, t \in Threads, u \in Threads :
           \E n \in 1 .. Len(stacks[t]) :
             pc = <<"swap", k>> /\ Swapping(World, regs, k, t, u, n)
      /\ preemptive => ~intr
  BY <1>1, Inside DEF IInv
<1>3. PICK k \in 1 .. 16, t \in Threads, u \in Threads :
        \E n \in 1 .. Len(stacks[t]) :
          pc = <<"swap", k>> /\ Swapping(World, regs, k, t, u, n)
  BY <1>2
<1>4. PICK n \in 1 .. Len(stacks[t]) :
        pc = <<"swap", k>> /\ Swapping(World, regs, k, t, u, n)
  BY <1>3
<1>5. CASE k = 16
  BY <1>2, <1>4, <1>5, RetKeeps
<1>6. CASE k \in 1 .. 15
  BY <1>2, <1>4, <1>6, MoveKeeps
<1>7. QED
  BY <1>5, <1>6

(* The words that the processor, isr<v> and isr_common push.               *)
Entry(h, B, C, x, g) == h \o B \o C \o <<x>> \o g

IsEntry(w, h, x, g) ==
  /\ IsSeq(w) /\ Len(w) = 22 /\ w[7] = x
  /\ \A k \in 1 .. 5 : w[k] = h[k]
  /\ \A k \in 1 .. 15 : w[7 + k] = g[k]

(* Which of the two words before the vector is pushed does not matter.     *)
LEMMA EntryWords ==
  ASSUME NEW h, NEW B, NEW C, NEW x, NEW g, IsSeq(h), IsSeq(B), IsSeq(C), IsSeq(g),
         Len(h) = 5, Len(B) + Len(C) = 1, Len(g) = 15
  PROVE  IsEntry(Entry(h, B, C, x, g), h, x, g)
<1> DEFINE h1 == h \o B
           h2 == h1 \o C
           h3 == h2 \o <<x>>
           w == Entry(h, B, C, x, g)
<1>2. w = h3 \o g
  BY DEF Entry
<1> HIDE DEF w
<1>3. Len(B) \in Nat /\ Len(C) \in Nat
  BY SeqFacts
<1>4. IsSeq(h1) /\ Len(h1) = 5 + Len(B) /\ \A k \in 1 .. 5 : h1[k] = h[k]
  <2>1. IsSeq(h1) /\ Len(h1) = Len(h) + Len(B) /\ \A k \in 1 .. Len(h) : h1[k] = h[k]
    BY ONLY IsSeq(h), IsSeq(B), Join
  <2> HIDE DEF h1
  <2>2. QED
    BY ONLY <2>1, Len(h) = 5
<1> HIDE DEF h1
<1>5. IsSeq(h2) /\ Len(h2) = Len(h1) + Len(C) /\ \A k \in 1 .. Len(h1) : h2[k] = h1[k]
  BY ONLY <1>4, IsSeq(C), Join
<1> HIDE DEF h2
<1>6. Len(h2) = 6 /\ \A k \in 1 .. 5 : h2[k] = h[k]
  BY ONLY <1>3, <1>4, <1>5, Len(B) + Len(C) = 1
<1>7. /\ IsSeq(h3) /\ Len(h3) = Len(h2) + 1 /\ h3[Len(h2) + 1] = x
      /\ \A k \in 1 .. Len(h2) : h3[k] = h2[k]
  <2>1. IsSeq(h2)
    BY <1>5
  <2>2. QED
    BY ONLY <2>1, PutWord
<1> HIDE DEF h3
<1>8. /\ IsSeq(h3) /\ Len(h3) = 7 /\ h3[7] = x /\ \A k \in 1 .. 5 : h3[k] = h[k]
  BY ONLY <1>6, <1>7
<1>9. /\ IsSeq(w) /\ Len(w) = Len(h3) + Len(g)
      /\ \A k \in 1 .. Len(h3) : w[k] = h3[k]
      /\ \A k \in 1 .. Len(g) : w[Len(h3) + k] = g[k]
  <2> DEFINE h4 == h3 \o g
  <2>0. IsSeq(h3)
    BY <1>8
  <2>1. /\ IsSeq(h4) /\ Len(h4) = Len(h3) + Len(g)
        /\ \A k \in 1 .. Len(h3) : h4[k] = h3[k]
        /\ \A k \in 1 .. Len(g) : h4[Len(h3) + k] = g[k]
    BY ONLY <2>0, IsSeq(g), Join
  <2>2. w = h4
    BY <1>2
  <2> HIDE DEF h4
  <2>3. QED
    BY ONLY <2>1, <2>2
<1>10. /\ IsSeq(w) /\ Len(w) = 22
       /\ \A k \in 1 .. 7 : w[k] = h3[k]
       /\ \A k \in 1 .. 15 : w[7 + k] = g[k]
  BY ONLY <1>8, <1>9, Len(g) = 15
<1>11. w[7] = x /\ \A k \in 1 .. 5 : w[k] = h[k]
  BY ONLY <1>8, <1>10
<1>12. QED
  BY ONLY <1>10, <1>11 DEF IsEntry, w

(* What runs has its stack pointer in its stack.                           *)
LEMMA Located ==
  ASSUME Shape, Runs(World, regs, pc, intr)
  PROVE  \E t \in Threads : \E n \in 0 .. Len(stacks[t]) : regs["rsp"] = <<t, n>>
<1>1. \A t \in Threads : Len(stacks[t]) \in Nat
  BY SeqFacts DEF Shape
<1>2. ASSUME NEW k \in 1 .. 16, NEW t \in Threads, NEW u \in Threads,
             NEW n \in 1 .. Len(World.stacks[t]), Swapping(World, regs, k, t, u, n)
      PROVE  \E x \in Threads : \E m \in 0 .. Len(stacks[x]) : regs["rsp"] = <<x, m>>
  <2>1. CASE k <= 13
    <3>1. regs["rsp"] = <<t, n>>
      BY ONLY <2>1, <1>2, SwapStack
    <3>2. n \in 0 .. Len(stacks[t])
      BY <1>1, Fields
    <3>3. QED
      BY <3>1, <3>2
  <2>2. CASE k > 13
    <3>1. PICK m \in 1 .. Len(World.stacks[u]) : Into(World, regs, u, m)
      BY ONLY <2>2, <1>2, SwapStack
    <3>2. m \in 0 .. Len(stacks[u]) /\ regs["rsp"] = <<u, m>>
      BY <3>1, <1>1, Fields DEF Into
    <3>3. QED
      BY <3>2
  <2>3. QED
    BY <2>1, <2>2
<1>3. ASSUME NEW t \in Threads, NEW n \in 0 .. Len(World.stacks[t]),
             Outside(World, regs, pc, t, n)
      PROVE  \E x \in Threads : \E m \in 0 .. Len(stacks[x]) : regs["rsp"] = <<x, m>>
  BY <1>3, Fields DEF Outside
<1>4. QED
  BY <1>2, <1>3 DEF Runs

(* An interrupt or exception of code that runs: its frame is on the stack. *)
ArriveWords(v) ==
  << <<"ss">>, regs["rsp"], <<"flags", intr>>, <<"cs">>, pc >>
  \o (IF v \in ErrorCode THEN << <<"errcode">> >> ELSE <<>>)
  \o (IF PushesZero(v) THEN << <<"zero">> >> ELSE <<>>)
  \o << <<"vector", v>> >>
  \o [i \in DOMAIN isr_common_order |-> regs[isr_common_order[i]]]

(* The words of a vector, with or without error code, have that form.      *)
LEMMA ArriveWordsFacts ==
  ASSUME NEW v
  PROVE  /\ IsSeq(ArriveWords(v)) /\ Len(ArriveWords(v)) = 22
         /\ ArriveWords(v)[2] = regs["rsp"] /\ ArriveWords(v)[3] = <<"flags", intr>>
         /\ ArriveWords(v)[5] = pc /\ ArriveWords(v)[7] = <<"vector", v>>
         /\ \A k \in 1 .. 15 : ArriveWords(v)[7 + k] = regs[isr_common_order[k]]
<1> DEFINE B == IF v \in ErrorCode THEN << <<"errcode">> >> ELSE <<>>
           C == IF PushesZero(v) THEN << <<"zero">> >> ELSE <<>>
           g == [i \in DOMAIN isr_common_order |-> regs[isr_common_order[i]]]
           w == ArriveWords(v)
           h == << <<"ss">>, regs["rsp"], <<"flags", intr>>, <<"cs">>, pc >>
           x == <<"vector", v>>
<1>1. IsSeq(B) /\ IsSeq(C) /\ Len(B) + Len(C) = 1
  <2>1. << <<"errcode">> >> \in Seq({<<"errcode">>}) /\ << <<"zero">> >> \in Seq({<<"zero">>})
        /\ <<>> \in Seq({})
    OBVIOUS
  <2>2. IsSeq(<< <<"errcode">> >>) /\ IsSeq(<< <<"zero">> >>) /\ IsSeq(<<>>)
    BY <2>1 DEF IsSeq
  <2>3. v \in ErrorCode <=> ~PushesZero(v)
    BY DEF ErrorCode, PushesZero
  <2>4. CASE v \in ErrorCode
    BY <2>2, <2>3, <2>4
  <2>5. CASE v \notin ErrorCode
    BY <2>2, <2>3, <2>5
  <2>6. QED
    BY <2>4, <2>5
<1>2. IsSeq(g) /\ Len(g) = 15 /\ \A k \in 1 .. 15 : g[k] = regs[isr_common_order[k]]
  <2> DEFINE S == {regs[isr_common_order[i]] : i \in 1 .. 15}
  <2>1. g \in [1 .. 15 -> S] /\ \A k \in 1 .. 15 : g[k] = regs[isr_common_order[k]]
    BY Orders
  <2> HIDE DEF g, S
  <2>2. g \in [1 .. 15 -> S] /\ 15 \in Nat
    BY <2>1
  <2>3. g \in Seq(S) /\ Len(g) = 15
    BY ONLY <2>2, FunctionIsSeq
  <2>4. QED
    BY <2>1, <2>3 DEF IsSeq
<1>3. w = Entry(h, B, C, x, g)
  BY DEF ArriveWords, Entry
<1>4. /\ h \in Seq({<<"ss">>, regs["rsp"], <<"flags", intr>>, <<"cs">>, pc}) /\ Len(h) = 5
      /\ h[2] = regs["rsp"] /\ h[3] = <<"flags", intr>> /\ h[5] = pc
  OBVIOUS
<1> HIDE DEF B, C, g, w, h, x
<1>5. IsEntry(w, h, x, g)
  <2>1. IsSeq(h) /\ Len(h) = 5 /\ IsSeq(g) /\ Len(g) = 15
    BY <1>2, <1>4 DEF IsSeq
  <2>2. QED
    BY ONLY <1>1, <1>3, <2>1, EntryWords
<1>6. /\ IsSeq(w) /\ Len(w) = 22 /\ w[7] = x
      /\ w[2] = h[2] /\ w[3] = h[3] /\ w[5] = h[5]
      /\ \A k \in 1 .. 15 : w[7 + k] = g[k]
  BY ONLY <1>5 DEF IsEntry
<1>7. \A k \in 1 .. 15 : w[7 + k] = regs[isr_common_order[k]]
  BY <1>2, <1>6
<1>8. QED
  BY <1>4, <1>6, <1>7 DEF w, x

(* The entry code keeps the invariant.                                     *)
LEMMA ArriveKeeps ==
  ASSUME IInv, NEW v \in Vectors, Arrive(v), Runs(World, regs, pc, intr),
         v >= 32 => intr
  PROVE  IInv'
<1> DEFINE words == ArriveWords(v)
<1>1. /\ Push(words)
      /\ regs' = [Pushed(regs, words) EXCEPT !["rdi"] = <<Current, Len(Stack) + Len(words)>>]
      /\ traps' = [traps EXCEPT ![Current] =
                     [regs |-> regs, pc |-> pc, intr |-> intr, vector |-> v]]
      /\ pc' = <<"service">> /\ ~intr' /\ UNCHANGED <<ctx, preemptive, calls, from>>
  BY DEF Arrive, ArriveWords
<1> HIDE DEF words
<1>2. /\ IsSeq(words) /\ Len(words) = 22
      /\ words[2] = regs["rsp"] /\ words[3] = <<"flags", intr>>
      /\ words[5] = pc /\ words[7] = <<"vector", v>>
      /\ \A k \in 1 .. 15 : words[7 + k] = regs[isr_common_order[k]]
  BY ArriveWordsFacts DEF words
<1>3. PICK t \in Threads : \E n \in 0 .. Len(stacks[t]) : regs["rsp"] = <<t, n>>
  BY Located DEF IInv
<1>4. PICK n \in 0 .. Len(stacks[t]) : regs["rsp"] = <<t, n>>
  BY <1>3
<1>5. Shape /\ IsRegs(regs) /\ Len(stacks[t]) \in Nat /\ n \in Nat
  BY SeqFacts DEF IInv, Shape
<1>6. Current = t /\ Len(Stack) = n
  BY <1>4, <1>5, StackFacts
<1> DEFINE q == n + 22
<1>7. /\ DOMAIN stacks' = Threads /\ \A x \in Threads : IsSeq(stacks'[x])
      /\ \A x \in Threads \ {t} : stacks'[x] = stacks[x]
      /\ Len(stacks'[t]) = q
      /\ \A k \in 1 .. n : stacks'[t][k] = stacks[t][k]
      /\ \A k \in 1 .. 22 : stacks'[t][n + k] = words[k]
  <2>0. Len(words) = 22
    BY <1>2
  <2>1. Shape /\ regs["rsp"] = <<t, n>> /\ IsSeq(words) /\ Push(words)
    BY <1>1, <1>2, <1>4, <1>5
  <2>2. /\ DOMAIN stacks' = Threads /\ \A x \in Threads : IsSeq(stacks'[x])
        /\ \A x \in Threads \ {t} : stacks'[x] = stacks[x]
        /\ Len(stacks'[t]) = n + Len(words)
        /\ \A k \in 1 .. n : stacks'[t][k] = stacks[t][k]
        /\ \A k \in 1 .. Len(words) : stacks'[t][n + k] = words[k]
    BY ONLY <2>1, PushFacts, t \in Threads, n \in 0 .. Len(stacks[t])
  <2>3. QED
    BY ONLY <2>0, <2>2
<1>8. IsRegs(regs') /\ regs'["rsp"] = <<t, q>> /\ regs'["rdi"] = <<t, q>>
  <2>0. Len(words) = 22
    BY <1>2
  <2>1. Shape /\ regs["rsp"] = <<t, n>> /\ IsSeq(words) /\ IsRegs(regs)
    BY <1>2, <1>4, <1>5
  <2>2. IsRegs(Pushed(regs, words)) /\ Pushed(regs, words)["rsp"] = <<t, n + Len(words)>>
    BY ONLY <2>1, PushedFacts, t \in Threads, n \in 0 .. Len(stacks[t])
  <2>3. "rdi" \in Registers /\ "rsp" \in Registers
    BY DEF Registers, General, CallerSaved
  <2>4. QED
    BY <2>0, <2>2, <2>3, <1>1, <1>6 DEF IsRegs
<1>9. /\ DOMAIN traps' = Threads /\ \A x \in Threads \ {t} : traps'[x] = traps[x]
      /\ traps'[t].regs = regs /\ traps'[t].pc = pc /\ traps'[t].intr = intr
      /\ traps'[t].vector = v
  BY <1>1, <1>5, <1>6 DEF Shape
<1>10. Frame(stacks'[t], q, traps'[t])
  <2> DEFINE s == stacks'[t]
  <2>0. \A k \in 1 .. 22 : s[n + k] = words[k]
    BY <1>7
  <2>1. s[n + 2] = regs["rsp"] /\ s[n + 3] = <<"flags", intr>> /\ s[n + 5] = pc
        /\ s[n + 7] = <<"vector", v>>
    <3> HIDE DEF s
    <3>1. s[n + 2] = words[2] /\ s[n + 3] = words[3] /\ s[n + 5] = words[5]
          /\ s[n + 7] = words[7]
      BY ONLY <2>0
    <3>2. QED
      BY <3>1, <1>2
  <2>2. q - 20 = n + 2 /\ q - 19 = n + 3 /\ q - 17 = n + 5 /\ q - 15 = n + 7
    BY <1>5
  <2>3. ASSUME NEW k \in 1 .. 15
        PROVE  s[q + 1 - k] = regs[exit_order[k]]
    <3> DEFINE i == 16 - k
               m == 7 + i
    <3>1. i \in 1 .. 15 /\ m \in 1 .. 22 /\ q + 1 - k = n + m
      BY <1>5
    <3>2. isr_common_order[i] = exit_order[k]
      BY Orders
    <3> HIDE DEF i
    <3>3. words[m] = regs[isr_common_order[i]]
      BY <3>1, <1>2
    <3> HIDE DEF m
    <3>4. s[n + m] = words[m]
      BY <3>1, <1>7
    <3>5. QED
      BY <3>1, <3>2, <3>3, <3>4
  <2> HIDE DEF s, q
  <2>4. QED
    BY <2>1, <2>2, <2>3, <1>9 DEF Frame, s
<1>11. v \in Nat
  BY ContextAssumption
<1>12. ASSUME v >= 32
       PROVE  Runs(World', regs, pc, intr)
  <2>1. preemptive => pc = <<"work">>
    BY <1>12, Fields DEF Runs
  <2>2. Agree(World, World', t, n)
    <3>1. n \in 0 .. Len(stacks[t]) /\ n <= Len(stacks'[t]) /\ Len(stacks'[t]) \in Nat
      BY <1>5, <1>7, SMTT(30)
    <3>2. QED
      BY <3>1, <1>5, <1>7, Fields, FieldsNext DEF Agree
  <2>3. /\ (World').ctx = World.ctx /\ (World').calls = World.calls
        /\ (World').from = World.from /\ (World').preemptive = World.preemptive
        /\ \A x \in Threads \ {t} : /\ (World').stacks[x] = World.stacks[x]
                                    /\ (World').traps[x] = World.traps[x]
        /\ World.preemptive => pc = <<"work">>
    BY <2>1, <1>1, <1>7, <1>9, Fields, FieldsNext
  <2> DEFINE w == World
             z == World'
  <2>4. /\ Agree(w, z, t, n) /\ Runs(w, regs, pc, intr)
        /\ z.ctx = w.ctx /\ z.calls = w.calls
        /\ z.from = w.from /\ z.preemptive = w.preemptive
        /\ \A x \in Threads \ {t} : /\ z.stacks[x] = w.stacks[x]
                                    /\ z.traps[x] = w.traps[x]
        /\ w.preemptive => pc = <<"work">>
    BY <2>2, <2>3
  <2> HIDE DEF w, z
  <2>5. Runs(z, regs, pc, intr)
    BY ONLY <2>4, <1>4, RunsStays
  <2>6. QED
    BY <2>5 DEF z
<1>13. Serves(World', regs', pc', t, q)
  <2>1. q - 22 = n
    BY <1>5
  <2>2. (World').stacks = stacks' /\ (World').traps = traps'
    BY FieldsNext
  <2>3. pc' # <<"handler">>
    BY <1>1
  <2> HIDE DEF q
  <2>4. QED
    BY <2>1, <2>2, <2>3, <1>4, <1>8, <1>9, <1>10, <1>11, <1>12 DEF Serves
<1>14. q \in 22 .. Len(stacks'[t])
  BY <1>5, <1>7, SMTT(30)
<1>15. Mode'
  BY <1>1, <1>13, <1>14 DEF Mode
<1>16. Shape'
  BY <1>1, <1>5, <1>7, <1>8, <1>9 DEF Shape
<1>17. QED
  BY <1>15, <1>16 DEF IInv

(* Traps arrive only while code runs that is no handler.                   *)
LEMMA TrapsKeep ==
  ASSUME IInv, NEW v \in Vectors, Interrupt(v) \/ Exception(v)
  PROVE  IInv'
<1>1. CASE Interrupt(v)
  <2>1. intr /\ Arrive(v)
    BY <1>1 DEF Interrupt
  <2>2. Runs(World, regs, pc, intr)
    BY <2>1 DEF IInv, Mode
  <2>3. QED
    BY <2>1, <2>2, ArriveKeeps
<1>2. CASE Exception(v)
  <2>1. v < 32 /\ pc[1] \in {"start", "work", "swap", "back"} /\ Arrive(v)
    BY <1>2 DEF Exception
  <2>2. pc \notin {<<"panic">>, <<"service">>, <<"handler">>}
    BY <2>1
  <2>3. Runs(World, regs, pc, intr)
    BY <2>2 DEF IInv, Mode
  <2>4. v >= 32 => intr
    BY <2>1, ContextAssumption
  <2>5. QED
    BY <2>1, <2>3, <2>4, ArriveKeeps
<1>3. QED
  BY <1>1, <1>2

(* struct trap_frame names the words of the frame at word q.               *)
LEMMA FrameFields ==
  ASSUME NEW t, NEW q \in Nat, NEW trap, Frame(stacks[t], q, trap)
  PROVE  /\ \A r \in Registers : Field(<<t, q>>, r) = trap.regs[r]
         /\ Field(<<t, q>>, "rip") = trap.pc
         /\ Field(<<t, q>>, "rflags") = <<"flags", trap.intr>>
         /\ Field(<<t, q>>, "vector") = <<"vector", trap.vector>>
<1>1. /\ trap_frame[16] = "vector" /\ trap_frame[18] = "rip" /\ trap_frame[20] = "rflags"
      /\ trap_frame[21] = "rsp"
  BY DEF trap_frame
<1> DEFINE s == stacks[t]
<1>2. \A k \in 1 .. 22 : Field(<<t, q>>, trap_frame[k]) = s[q + 1 - k]
  BY FieldIndex DEF Field
<1>3. /\ s[q - 15] = <<"vector", trap.vector>> /\ s[q - 17] = trap.pc
      /\ s[q - 19] = <<"flags", trap.intr>> /\ s[q - 20] = trap.regs["rsp"]
      /\ \A k \in 1 .. 15 : s[q + 1 - k] = trap.regs[exit_order[k]]
  BY DEF Frame
<1> HIDE DEF s
<1>4. /\ q + 1 - 16 = q - 15 /\ q + 1 - 18 = q - 17 /\ q + 1 - 20 = q - 19
      /\ q + 1 - 21 = q - 20
  OBVIOUS
<1>5. /\ Field(<<t, q>>, trap_frame[16]) = s[q + 1 - 16]
      /\ Field(<<t, q>>, trap_frame[18]) = s[q + 1 - 18]
      /\ Field(<<t, q>>, trap_frame[20]) = s[q + 1 - 20]
      /\ Field(<<t, q>>, trap_frame[21]) = s[q + 1 - 21]
  BY ONLY <1>2
<1>6. /\ Field(<<t, q>>, "vector") = <<"vector", trap.vector>>
      /\ Field(<<t, q>>, "rip") = trap.pc
      /\ Field(<<t, q>>, "rflags") = <<"flags", trap.intr>>
      /\ Field(<<t, q>>, "rsp") = trap.regs["rsp"]
  BY ONLY <1>1, <1>3, <1>4, <1>5
<1>7. ASSUME NEW r \in General
      PROVE  Field(<<t, q>>, r) = trap.regs[r]
  <2>1. PICK k \in 1 .. 15 : r = exit_order[k]
    BY Orders
  <2>2. trap_frame[k] = r /\ k \in 1 .. 22
    BY <2>1, Orders
  <2>3. QED
    BY ONLY <2>1, <2>2, <1>2, <1>3
<1>8. \A r \in Registers : r \in General \/ r = "rsp"
  BY DEF Registers
<1>9. QED
  BY <1>6, <1>7, <1>8

(* interrupt_service panics or calls a handler.                            *)
LEMMA ServiceKeeps == IInv /\ interrupt_service => IInv'
<1> SUFFICES ASSUME IInv, interrupt_service
             PROVE  IInv'
  OBVIOUS
<1>1. /\ pc = <<"service">>
      /\ UNCHANGED <<intr, stacks, ctx, preemptive, calls, from, traps>>
  BY DEF interrupt_service
<1>2. ~intr /\ \E t \in Threads : \E q \in 22 .. Len(stacks[t]) :
                 Serves(World, regs, pc, t, q)
  BY <1>1, Serving DEF IInv
<1>3. PICK t \in Threads : \E q \in 22 .. Len(stacks[t]) : Serves(World, regs, pc, t, q)
  BY <1>2
<1>4. PICK q \in 22 .. Len(stacks[t]) : Serves(World, regs, pc, t, q)
  BY <1>3
<1>5. World' = World
  BY <1>1 DEF World
<1>6. Len(stacks[t]) \in Nat /\ q \in Nat /\ IsRegs(regs)
  BY SeqFacts DEF IInv, Shape
<1>7. /\ regs["rdi"] = <<t, q>> /\ regs["rsp"] = <<t, q>>
      /\ traps[t].vector \in Nat
  BY <1>1, <1>4, Fields DEF Serves
<1>8. Field(regs["rdi"], "vector")[2] = traps[t].vector
  <2>1. Frame(stacks[t], q, traps[t])
    BY <1>4, Fields DEF Serves
  <2>2. Field(<<t, q>>, "vector") = <<"vector", traps[t].vector>>
    BY ONLY <2>1, <1>6, FrameFields
  <2>3. QED
    BY <2>2, <1>7
<1>9. CASE traps[t].vector < 32
  <2>1. pc' = <<"panic">> /\ regs' = regs
    BY <1>8, <1>9 DEF interrupt_service
  <2>2. Shape'
    BY <2>1, <1>1 DEF IInv, Shape
  <2>3. QED
    BY <2>1, <2>2, <1>1, <1>2 DEF IInv, Mode
<1>10. CASE ~(traps[t].vector < 32)
  <2>1. /\ pc' = <<"handler">>
        /\ regs' = [r \in Registers |-> IF r \in CallerSaved THEN Junk
                                        ELSE IF r = "rbx" THEN regs["rdi"] ELSE regs[r]]
    BY <1>8, <1>10 DEF interrupt_service
  <2>2. /\ "rbx" \in Registers /\ "rbx" \notin CallerSaved
        /\ "rsp" \in Registers /\ "rsp" \notin CallerSaved
    BY DEF Registers, General, CalleeSaved, CallerSaved
  <2>3. IsRegs(regs') /\ regs'["rbx"] = <<t, q>> /\ regs'["rsp"] = <<t, q>>
    BY <2>1, <2>2, <1>7 DEF IsRegs
  <2>4. traps[t].vector >= 32
    BY <1>7, <1>10
  <2>5. pc' # <<"service">>
    BY <2>1
  <2>6. Serves(World, regs', pc', t, q)
    BY <2>3, <2>4, <2>5, <1>4, Fields DEF Serves
  <2>7. Mode'
    BY <2>1, <2>6, <1>1, <1>2, <1>5 DEF Mode
  <2>8. Shape'
    BY <2>3, <1>1 DEF IInv, Shape
  <2>9. QED
    BY <2>7, <2>8 DEF IInv
<1>11. QED
  BY <1>9, <1>10

(* A handler that returns has the frame of code that can go on in %rbx.    *)
Leaves(t, q) ==
  /\ Current = t /\ regs["rbx"] = <<t, q>>
  /\ Frame(stacks[t], q, traps[t])
  /\ IsRegs(traps[t].regs) /\ traps[t].regs["rsp"] = <<t, q - 22>>
  /\ preemptive => traps[t].pc = <<"work">>
  /\ Runs(World, traps[t].regs, traps[t].pc, traps[t].intr)

(* In a handler that returns, the thread switched or not, that is so.      *)
LEMMA Leaving ==
  ASSUME IInv, pc \in {<<"handler">>, <<"resumed">>}
  PROVE  /\ \E t \in Threads : \E q \in 22 .. Len(stacks[t]) : Leaves(t, q)
         /\ ~intr
<1>0. \A t \in Threads : Len(stacks[t]) \in Nat
  BY SeqFacts DEF IInv, Shape
<1>1. CASE pc = <<"handler">>
  <2>1. ~intr /\ \E t \in Threads : \E q \in 22 .. Len(stacks[t]) :
                   Serves(World, regs, pc, t, q)
    BY <1>1, Serving DEF IInv
  <2>2. PICK t \in Threads : \E q \in 22 .. Len(stacks[t]) : Serves(World, regs, pc, t, q)
    BY <2>1
  <2>3. PICK q \in 22 .. Len(stacks[t]) : Serves(World, regs, pc, t, q)
    BY <2>2
  <2>4. /\ regs["rsp"] = <<t, q>> /\ regs["rbx"] = <<t, q>>
        /\ Frame(stacks[t], q, traps[t])
        /\ traps[t].regs["rsp"] = <<t, q - 22>> /\ traps[t].intr
        /\ Runs(World, traps[t].regs, traps[t].pc, traps[t].intr)
    BY <1>1, <2>3, Fields DEF Serves
  <2>5. IsRegs(traps[t].regs) /\ (preemptive => traps[t].pc = <<"work">>)
    BY <2>4, Fields DEF Runs
  <2>6. Current = t
    BY <2>4 DEF Current
  <2>7. Leaves(t, q)
    BY <2>4, <2>5, <2>6 DEF Leaves
  <2>8. QED
    BY <2>1, <2>7
<1>2. CASE pc = <<"resumed">>
  <2>1. /\ \E t \in Threads : \E n \in 0 .. Len(stacks[t]) : Outside(World, regs, pc, t, n)
        /\ preemptive /\ pc # <<"work">> => ~intr
    BY <1>2, Between DEF IInv
  <2>2. PICK t \in Threads : \E n \in 0 .. Len(stacks[t]) : Outside(World, regs, pc, t, n)
    BY <2>1
  <2>3. PICK n \in 0 .. Len(stacks[t]) : Outside(World, regs, pc, t, n)
    BY <2>2
  <2>4. /\ regs["rsp"] = <<t, n>> /\ Interrupted(World, t, n)
        /\ \A x \in CalleeSaved \cup {"rsp"} : regs[x] = calls[t].regs[x]
        /\ \A x \in Threads \ {t} : Suspended(World, x)
    BY <1>2, <2>3, Fields DEF Outside
  <2>5. /\ preemptive /\ n >= 22 /\ calls[t].regs["rbx"] = <<t, n>>
        /\ Frame(stacks[t], n, traps[t])
        /\ IsRegs(traps[t].regs) /\ traps[t].regs["rsp"] = <<t, n - 22>>
        /\ traps[t].pc = <<"work">>
    BY <2>4, Fields DEF Interrupted
  <2>6. regs["rbx"] = <<t, n>> /\ Current = t
    BY <2>4, <2>5 DEF CalleeSaved, Current
  <2>7. n - 22 \in 0 .. Len(stacks[t]) /\ n \in 22 .. Len(stacks[t])
    BY <2>5, <1>0
  <2>8. Outside(World, traps[t].regs, traps[t].pc, t, n - 22)
    BY <2>4, <2>5 DEF Outside
  <2>9. Runs(World, traps[t].regs, traps[t].pc, traps[t].intr)
    BY <2>5, <2>7, <2>8, Fields DEF Runs
  <2>10. Leaves(t, n)
    BY <2>5, <2>6, <2>9 DEF Leaves
  <2>11. ~intr
    BY <1>2, <2>1, <2>5
  <2>12. QED
    BY <2>7, <2>10, <2>11
<1>3. QED
  BY <1>1, <1>2

(* The exit code restores what the frame has.                              *)
LEMMA ExitFacts ==
  ASSUME exit_interrupt_service, NEW t \in Threads, NEW q \in Nat, q >= 22, Leaves(t, q)
  PROVE  /\ regs' = traps[t].regs /\ pc' = traps[t].pc /\ intr' = traps[t].intr
         /\ Pop(q - 22)
         /\ traps' = [traps EXCEPT ![t] = <<>>]
         /\ UNCHANGED <<ctx, preemptive, calls, from>>
<1> DEFINE s == stacks[t]
           word(k) == s[q + 1 - k]
<1>1. regs["rbx"][1] = t /\ regs["rbx"][2] = q /\ Current = t /\ Len(exit_order) = 15
  BY Orders DEF Leaves
<1>2. /\ regs' = [r \in Registers |->
                    IF r = "rsp" THEN word(15 + 6)
                    ELSE word(CHOOSE i \in 1 .. 15 : exit_order[i] = r)]
      /\ pc' = word(15 + 3) /\ intr' = word(15 + 5)[2] /\ Pop(word(15 + 6)[2])
      /\ traps' = [traps EXCEPT ![t] = <<>>]
      /\ UNCHANGED <<ctx, preemptive, calls, from>>
  BY <1>1 DEF exit_interrupt_service
<1>3. /\ q + 1 - (15 + 6) = q - 20 /\ q + 1 - (15 + 3) = q - 17
      /\ q + 1 - (15 + 5) = q - 19
  OBVIOUS
<1>4. /\ \A k \in 1 .. 15 : word(k) = traps[t].regs[exit_order[k]]
      /\ s[q - 17] = traps[t].pc /\ s[q - 19] = <<"flags", traps[t].intr>>
      /\ s[q - 20] = traps[t].regs["rsp"]
  BY DEF Leaves, Frame
<1>5. traps[t].regs["rsp"] = <<t, q - 22>> /\ IsRegs(traps[t].regs)
  BY DEF Leaves
<1>6. pc' = traps[t].pc /\ intr' = traps[t].intr /\ Pop(q - 22)
  <2>1. word(15 + 6) = <<t, q - 22>> /\ word(15 + 3) = traps[t].pc
        /\ word(15 + 5) = <<"flags", traps[t].intr>>
    BY <1>3, <1>4, <1>5
  <2>2. word(15 + 6)[2] = q - 22 /\ word(15 + 5)[2] = traps[t].intr
    BY <2>1
  <2>3. QED
    BY <2>1, <2>2, <1>2
<1>7. ASSUME NEW r \in General
      PROVE  word(CHOOSE i \in 1 .. 15 : exit_order[i] = r) = traps[t].regs[r]
  <2>1. PICK k \in 1 .. 15 : r = exit_order[k]
    BY Orders
  <2>2. (CHOOSE i \in 1 .. 15 : exit_order[i] = r) = k
    BY <2>1, ExitIndex
  <2> HIDE DEF s
  <2>3. QED
    BY <2>1, <2>2, <1>4
<1>8. \A r \in Registers : regs'[r] = traps[t].regs[r]
  <2>1. \A r \in Registers : r = "rsp" \/ (r \in General /\ r # "rsp")
    BY DEF Registers, General, CalleeSaved, CallerSaved
  <2>2. "rsp" \in Registers => regs'["rsp"] = traps[t].regs["rsp"]
    BY <1>2, <1>3, <1>4
  <2>3. \A r \in Registers : r \in General /\ r # "rsp" => regs'[r] = traps[t].regs[r]
    BY <1>2, <1>7
  <2>4. QED
    BY <2>1, <2>2, <2>3
<1>9. regs' = traps[t].regs
  <2>1. regs' = [r \in Registers |-> regs'[r]]
    BY <1>2
  <2>2. traps[t].regs = [r \in Registers |-> traps[t].regs[r]]
    BY <1>5 DEF IsRegs
  <2>3. QED
    BY <2>1, <2>2, <1>8
<1>10. QED
  BY <1>2, <1>6, <1>9

(* The exit code keeps the invariant.                                      *)
LEMMA ExitKeeps == IInv /\ exit_interrupt_service => IInv'
<1> SUFFICES ASSUME IInv, exit_interrupt_service
             PROVE  IInv'
  OBVIOUS
<1>1. pc \in {<<"handler">>, <<"resumed">>}
  BY DEF exit_interrupt_service
<1>2. PICK t \in Threads : \E q \in 22 .. Len(stacks[t]) : Leaves(t, q)
  BY <1>1, Leaving
<1>3. PICK q \in 22 .. Len(stacks[t]) : Leaves(t, q)
  BY <1>2
<1>4. Shape /\ Len(stacks[t]) \in Nat /\ q \in Nat /\ q >= 22
  BY SeqFacts DEF IInv, Shape
<1>5. /\ regs' = traps[t].regs /\ pc' = traps[t].pc /\ intr' = traps[t].intr
      /\ Pop(q - 22)
      /\ traps' = [traps EXCEPT ![t] = <<>>]
      /\ UNCHANGED <<ctx, preemptive, calls, from>>
  BY <1>3, <1>4, ExitFacts
<1> DEFINE m == q - 22
<1>6. m \in 0 .. Len(stacks[t])
  BY <1>4
<1>7. /\ Current = t /\ Pop(m) /\ IsRegs(regs') /\ regs'["rsp"] = <<t, m>>
      /\ preemptive => pc' = <<"work">>
      /\ Runs(World, regs', pc', intr')
  BY <1>3, <1>5 DEF Leaves
<1> HIDE DEF m
<1>8. /\ DOMAIN stacks' = Threads /\ \A x \in Threads : IsSeq(stacks'[x])
      /\ \A x \in Threads \ {t} : stacks'[x] = stacks[x]
      /\ Len(stacks'[t]) = m
      /\ \A k \in 1 .. m : stacks'[t][k] = stacks[t][k]
  <2>1. Shape /\ Current = t /\ Pop(m)
    BY <1>4, <1>7
  <2>2. QED
    BY ONLY <2>1, <1>6, t \in Threads, PopFacts
<1>9. DOMAIN traps' = Threads /\ \A x \in Threads \ {t} : traps'[x] = traps[x]
  BY <1>4, <1>5 DEF Shape
<1>10. Runs(World', regs', pc', intr')
  <2> DEFINE w == World
             z == World'
             r == regs'
             p == pc'
             i == intr'
  <2>1. Agree(World, World', t, m)
    <3>1. m \in 0 .. Len(stacks[t]) /\ m <= Len(stacks'[t]) /\ Len(stacks'[t]) \in Nat
      BY <1>6, <1>8
    <3>2. QED
      BY <3>1, <1>4, <1>8, Fields, FieldsNext DEF Agree
  <2>2. /\ Agree(w, z, t, m) /\ Runs(w, r, p, i) /\ r["rsp"] = <<t, m>>
        /\ z.ctx = w.ctx /\ z.calls = w.calls
        /\ z.from = w.from /\ z.preemptive = w.preemptive
        /\ \A x \in Threads \ {t} : z.stacks[x] = w.stacks[x] /\ z.traps[x] = w.traps[x]
        /\ w.preemptive => p = <<"work">>
    BY <2>1, <1>5, <1>7, <1>8, <1>9, Fields, FieldsNext
  <2> HIDE DEF w, z, r, p, i
  <2>3. Runs(z, r, p, i)
    BY ONLY <2>2, RunsStays
  <2>4. QED
    BY <2>3 DEF z, r, p, i
<1>11. Mode'
  BY <1>10 DEF Mode
<1>12. Shape'
  BY <1>4, <1>5, <1>7, <1>8, <1>9 DEF Shape
<1>13. QED
  BY <1>11, <1>12 DEF IInv
-----------------------------------------------------------------------------
(***************************************************************************)
(* The theorems.                                                           *)
(***************************************************************************)
LEMMA StutterKeeps == IInv /\ UNCHANGED vars => IInv'
<1> SUFFICES ASSUME IInv, UNCHANGED vars
             PROVE  IInv'
  OBVIOUS
<1>1. World' = World
  BY DEF vars, World
<1>2. Mode'
  BY <1>1 DEF IInv, Mode, vars
<1>3. QED
  BY <1>2 DEF IInv, Shape, vars

(* Every step keeps the invariant.                                         *)
LEMMA StepKeeps == IInv /\ [Next]_vars => IInv'
<1> SUFFICES ASSUME IInv, [Next]_vars
             PROVE  IInv'
  OBVIOUS
<1>1. CASE \E u \in Threads, b \in {0, 1} : ThreadCalls(u, b)
  BY <1>1, ThreadCallsKeeps
<1>2. CASE \E u \in Threads : HandlerCalls(u)
  BY <1>2, HandlerCallsKeeps
<1>3. CASE Instruction
  BY <1>3, InstructionKeeps
<1>4. CASE ThreadReturns
  BY <1>4, ReturnsKeeps
<1>5. CASE ThreadStarts
  BY <1>5, StartsKeeps
<1>6. CASE \E v \in Vectors : Interrupt(v)
  BY <1>6, TrapsKeep
<1>7. CASE \E v \in Vectors : Exception(v)
  BY <1>7, TrapsKeep
<1>8. CASE interrupt_service
  BY <1>8, ServiceKeeps
<1>9. CASE exit_interrupt_service
  BY <1>9, ExitKeeps
<1>10. CASE UNCHANGED vars
  BY <1>10, StutterKeeps
<1>11. QED
  BY <1>1, <1>2, <1>3, <1>4, <1>5, <1>6, <1>7, <1>8, <1>9, <1>10 DEF Next

(***************************************************************************)
(* At every instruction of swap_context and of the interrupt routines, the *)
(* words saved so far are where the code that reads them will look.        *)
(***************************************************************************)
THEOREM ContextInvariant == Spec => []IInv
<1>1. Init => IInv
  BY InitHolds
<1>2. IInv /\ [Next]_vars => IInv'
  BY StepKeeps
<1>3. QED
  BY <1>1, <1>2, PTL DEF Spec

(***************************************************************************)
(* swap_context returns with the caller's registers, stack and result.     *)
(***************************************************************************)
THEOREM CallersResumed == Spec => []Resumed
<1>1. IInv => Resumed
  <2> SUFFICES ASSUME IInv, pc \in {<<"back">>, <<"resumed">>, <<"start">>}
               PROVE  Resumed
    BY DEF Resumed
  <2>1. PICK t \in Threads : \E n \in 0 .. Len(stacks[t]) : Outside(World, regs, pc, t, n)
    BY Between DEF IInv
  <2>2. PICK n \in 0 .. Len(stacks[t]) : Outside(World, regs, pc, t, n)
    BY <2>1
  <2>3. Current = t
    BY <2>2 DEF Outside, Current
  <2>4. /\ regs["rax"] # Junk => regs["rax"] = Ctx(from)
        /\ pc \in {<<"back">>, <<"resumed">>} =>
             \A x \in CalleeSaved \cup {"rsp"} : regs[x] = calls[t].regs[x]
    BY <2>2, Fields DEF Outside
  <2>5. QED
    BY <2>3, <2>4 DEF Resumed
<1>2. QED
  BY <1>1, ContextInvariant, PTL

(***************************************************************************)
(* struct trap_frame shows interrupt_service what was interrupted.         *)
(***************************************************************************)
THEOREM TrapFrameRight == Spec => []FrameRight
<1>1. IInv => FrameRight
  <2> SUFFICES ASSUME IInv, pc = <<"service">>
               PROVE  FrameRight
    BY DEF FrameRight
  <2>1. PICK t \in Threads : \E q \in 22 .. Len(stacks[t]) : Serves(World, regs, pc, t, q)
    BY Serving DEF IInv
  <2>2. PICK q \in 22 .. Len(stacks[t]) : Serves(World, regs, pc, t, q)
    BY <2>1
  <2>3. /\ regs["rdi"] = <<t, q>> /\ regs["rsp"] = <<t, q>>
        /\ Frame(stacks[t], q, traps[t])
    BY <2>2, Fields DEF Serves
  <2>4. Current = t
    BY <2>3 DEF Current
  <2>5. Len(stacks[t]) \in Nat /\ q \in Nat
    BY SeqFacts DEF IInv, Shape
  <2>6. /\ \A r \in Registers : Field(<<t, q>>, r) = traps[t].regs[r]
        /\ Field(<<t, q>>, "rip") = traps[t].pc
        /\ Field(<<t, q>>, "rflags") = <<"flags", traps[t].intr>>
        /\ Field(<<t, q>>, "vector") = <<"vector", traps[t].vector>>
    BY <2>3, <2>5, FrameFields
  <2>7. QED
    BY <2>3, <2>4, <2>6 DEF FrameRight
<1>2. QED
  BY <1>1, ContextInvariant, PTL

(***************************************************************************)
(* A handled interrupt leaves no trace, and a preemptive thread that       *)
(* switched has its flag back.                                             *)
(***************************************************************************)
THEOREM InterruptsLeaveNoTrace == Spec => Undisturbed
<1> DEFINE Untouched == pc \in {<<"handler">>, <<"resumed">>} /\ traps' # traps =>
                          /\ regs' = traps[Current].regs /\ pc' = traps[Current].pc
                          /\ intr' = traps[Current].intr
           FlagBack == preemptive /\ pc = <<"back">> /\ pc' = <<"work">> =>
                         intr' = calls[Current].intr
<1>1. ASSUME IInv, [Next]_vars, pc \in {<<"handler">>, <<"resumed">>}, traps' # traps
      PROVE  /\ regs' = traps[Current].regs /\ pc' = traps[Current].pc
             /\ intr' = traps[Current].intr
  <2>1. (\E t \in Threads : \E q \in 22 .. Len(stacks[t]) : Leaves(t, q)) /\ ~intr
    BY <1>1, Leaving
  <2>2. exit_interrupt_service
    <3>1. pc[1] \notin {"start", "work", "swap", "back"}
      BY <1>1
    <3>2. \A v : ~Interrupt(v) /\ ~Exception(v)
      BY <3>1, <2>1 DEF Interrupt, Exception
    <3>3. QED
      BY <3>2, <1>1 DEF Next, vars, ThreadCalls, HandlerCalls, CallSwap, Instruction,
                        ThreadReturns, ThreadStarts, interrupt_service
  <2>3. PICK t \in Threads : \E q \in 22 .. Len(stacks[t]) : Leaves(t, q)
    BY <2>1
  <2>4. PICK q \in 22 .. Len(stacks[t]) : Leaves(t, q)
    BY <2>3
  <2>5. q \in Nat /\ q >= 22
    BY <1>1, SeqFacts DEF IInv, Shape
  <2>6. regs' = traps[t].regs /\ pc' = traps[t].pc /\ intr' = traps[t].intr
    BY ONLY <2>2, <2>4, <2>5, t \in Threads, ExitFacts
  <2>7. Current = t
    BY <2>4 DEF Leaves
  <2>8. QED
    BY <2>6, <2>7
<1>2. ASSUME IInv, [Next]_vars, preemptive, pc = <<"back">>, pc' = <<"work">>
      PROVE  intr' = calls[Current].intr
  <2>1. ThreadReturns
    <3>1. pc[1] = "back" /\ pc' # pc /\ pc' # <<"service">>
      BY <1>2
    <3>2. \A v : ~Interrupt(v) /\ ~Exception(v)
      BY <3>1 DEF Interrupt, Exception, Arrive
    <3>3. QED
      BY <3>1, <3>2, <1>2 DEF Next, vars, ThreadCalls, HandlerCalls, Instruction,
                        ThreadStarts, interrupt_service, exit_interrupt_service
  <2>2. PICK t \in Threads : \E n \in 0 .. Len(stacks[t]) : Outside(World, regs, pc, t, n)
    BY <1>2, Between DEF IInv
  <2>3. PICK n \in 0 .. Len(stacks[t]) : Outside(World, regs, pc, t, n)
    BY <2>2
  <2>4. /\ regs["rsp"] = <<t, n>> /\ n >= 1 /\ stacks[t][n] = <<"flags", calls[t].intr>>
    BY <1>2, <2>3, Fields DEF Outside
  <2>5. Len(stacks[t]) \in Nat /\ n \in 1 .. n
    BY <1>2, <2>4, SeqFacts DEF IInv, Shape
  <2>6. Current = t /\ Len(Stack) = n /\ Stack[n] = stacks[t][n]
    BY <1>2, <2>4, <2>5, StackFacts DEF IInv
  <2>7. intr' = Stack[Len(Stack)][2]
    BY <1>2, <2>1 DEF ThreadReturns
  <2>8. QED
    BY <2>4, <2>6, <2>7
<1>3. IInv /\ [Next]_vars => [Untouched /\ FlagBack]_vars
  BY <1>1, <1>2
<1>4. QED
  BY <1>3, ContextInvariant, PTL DEF Spec, Undisturbed
=============================================================================
