----------------------------- MODULE ContextSwitch -----------------------------
(***************************************************************************)
(* The registers and stacks behind preemption: the stubs of isr_stubs.asm, *)
(* context_switch.asm and the first frame of setup_initial_stack, one      *)
(* stack per task, one word per push.                                      *)
(*                                                                         *)
(* When sched_tick switches, and to whom, is Scheduler's business: here it *)
(* may switch at any tick to any other task.  What the C++ functions do to *)
(* the registers is what the SysV ABI allows them: caller-saved registers  *)
(* are lost, callee-saved ones come back.  Exceptions are raised by tasks; *)
(* one raised inside the kernel ends in the same handler.                  *)
(***************************************************************************)
EXTENDS Integers, SequencesExt

CONSTANTS
  Tasks, Epochs,
  SchedUses,     (* callee-saved registers the compiled sched_tick pushes  *)
  Top            (* parity of a stack's top address, in words              *)

(* Registers in the order irq_stub_N and isr_common_stub push them. *)
StubPush == <<"rax", "rbx", "rcx", "rdx", "rsi", "rdi", "rbp", "r8", "r9",
              "r10", "r11", "r12", "r13", "r14", "r15">>

(* Mutant: Two registers come back in the order they were pushed. *)
StubPopSwapped == <<"r15", "r14", "r13", "r12", "r11", "r10", "r9", "r8", "rbp",
                    "rsi", "rdi", "rdx", "rcx", "rbx", "rax">>

StubPop == <<"r15", "r14", "r13", "r12", "r11", "r10", "r9", "r8", "rbp",
             "rdi", "rsi", "rdx", "rcx", "rbx", "rax">>

SwitchPush == <<"rbx", "rbp", "r12", "r13", "r14", "r15">>
SwitchPop == <<"r15", "r14", "r13", "r12", "rbp", "rbx">>

(* Vectors for which the CPU pushes an error code, and for which the stubs *)
(* expect one.  (29, which pushes one on some CPUs, is never raised here.) *)
CpuErrorCode == {8, 10, 11, 12, 13, 14, 17, 21, 30}

(* Mutant: The stub of the alignment check pushes a dummy error code. *)
ISR_ERRCODE_short == {8, 10, 11, 12, 13, 14, 21, 30}

ISR_ERRCODE == {8, 10, 11, 12, 13, 14, 17, 21, 30}

(* Mutant: Two fields of the structure are swapped. *)
InterruptFrameSwapped ==
  <<"r15", "r14", "r13", "r12", "r11", "r10", "r9", "r8", "rbp", "rsi", "rdi",
    "rdx", "rcx", "rbx", "rax", "interrupt_number", "error_code",
    "rip", "cs", "rflags", "rsp", "ss">>

(* The fields of the structure isr_handler finds at rsp. *)
InterruptFrame ==
  <<"r15", "r14", "r13", "r12", "r11", "r10", "r9", "r8", "rbp", "rdi", "rsi",
    "rdx", "rcx", "rbx", "rax", "interrupt_number", "error_code",
    "rip", "cs", "rflags", "rsp", "ss">>

Regs == ToSet(StubPush)
CalleeSaved == ToSet(SwitchPush)

ASSUME ContextAssumption ==
  /\ Tasks \subseteq Nat /\ 0 \in Tasks
  /\ Epochs \in Nat \ {0, 1}
  /\ SchedUses \in Seq(CalleeSaved)
  /\ Top \in [Tasks -> {0, 1}]

VARIABLES
  regs, rip, if_flag,
  pc,            (* "task", or the kernel code the CPU is in; "shutdown"   *)
                 (* when a vector cannot be delivered                      *)
  s_current,
  stack,         (* of each task, top last                                 *)
  rsp,           (* s_tasks[t].rsp, as the height of the stack             *)
  dump,          (* the frame as isr_handler reads it                      *)
  started, at,   (* history: has the task run; where its interrupt frame is*)
  fault          (* history: the CPU when an exception was raised          *)

tasks == <<s_current, rsp, started>>
vars == <<regs, rip, if_flag, pc, tasks, stack, dump, at, fault>>

(* The position of an element that occurs once. *)
IndexOf(s, e) == CHOOSE k \in DOMAIN s : s[k] = e

(* Values that the tasks' code leaves in registers and on stacks. *)
T == INSTANCE TaskCpus WITH cpu <- 0

(* Each task's CPU, as the task sees it: the frame on its stack while the  *)
(* kernel or another task is running.                                      *)
Virtual(t) ==
  LET Word(k) == stack[t][at[t] + k]
      first == IF t = s_current /\ fault # <<>> THEN 7 ELSE 5
  IN  IF ~started[t] THEN T!New
      ELSE IF t = s_current /\ pc = "task"
      THEN T!State(regs, rip, if_flag, stack[t])
      ELSE T!State([r \in Regs |-> Word(first + IndexOf(StubPush, r))],
                   Word(5), Word(3)[1] = 1, SubSeq(stack[t], 1, Word(2)[1]))

C == INSTANCE TaskCpus WITH cpu <- [t \in Tasks |-> Virtual(t)]

-----------------------------------------------------------------------------
(* Pushes and pops.                                                        *)

Here == stack[s_current]
Saved(order) == [k \in DOMAIN order |-> regs[order[k]]]
Zeros(n) == [k \in 1 .. n |-> T!Zero]
Drop(s, n) == SubSeq(s, 1, Len(s) - n)

(* The registers once those of `order' have been popped from s. *)
Popped(order, s) ==
  [r \in Regs |-> IF r \in ToSet(order)
                  THEN s[Len(s) + 1 - IndexOf(order, r)]
                  ELSE regs[r]]

Code(name) == <<-1, name, 0>>
Flag(b) == <<IF b THEN 1 ELSE 0, "rflags", 0>>

(* The registers after a C++ function that uses the callee-saved `used'. *)
Lost(used) ==
  [r \in Regs |-> IF r \in CalleeSaved \ used THEN regs[r] ELSE T!Junk]

(* The CPU aligns rsp to 16 bytes, then pushes five words. *)
Pad(s) == IF (Top[s_current] + Len(s)) % 2 = 1 THEN <<Code("pad")>> ELSE <<>>

CpuFrame(s) ==
  <<Code("ss"), <<Len(s), "rsp", 0>>, Flag(if_flag), Code("cs"), rip>>

-----------------------------------------------------------------------------

(* The entry function, and zeros for what context_switch pops. *)
setup_initial_stack(t) == <<T!Val(t, "rip", 0)>> \o Zeros(6)

(* After _start has created its tasks and executed sti. *)
Init ==
  /\ regs = T!RegsOf(0, 0)
  /\ rip = T!Val(0, "rip", 0)
  /\ if_flag = TRUE
  /\ pc = "task"
  /\ s_current = 0
  /\ stack = [t \in Tasks |-> IF t = 0 THEN <<>> ELSE setup_initial_stack(t)]
  /\ rsp = [t \in Tasks |-> Len(stack[t])]
  /\ dump = <<>>
  /\ started = [t \in Tasks |-> t = 0]
  /\ at = [t \in Tasks |-> 0]
  /\ fault = <<>>

(* A task's own code; it may execute sti. *)
run ==
  /\ pc = "task"
  /\ LET e == (rip[3] + 1) % Epochs
     IN  /\ regs' = T!RegsOf(s_current, e)
         /\ rip' = T!Val(s_current, "rip", e)
         /\ \E own \in T!OwnOf(s_current, e) :
              /\ stack' = [stack EXCEPT ![s_current] = own]
              /\ at' = [at EXCEPT ![s_current] = Len(own)]
  /\ if_flag' \in {if_flag, TRUE}
  /\ UNCHANGED <<pc, tasks, dump, fault>>

(* What a stub pushes before the registers: an interrupt's nothing, an     *)
(* exception's its number, below it 0 if there is no error code.           *)
StubWords(stub) ==
  IF stub[1] # "isr_stub" THEN <<>>
  ELSE (IF stub[2] \in ISR_ERRCODE THEN <<>> ELSE <<T!Zero>>)
         \o <<<<stub[2], "vector", 0>>>>

ErrorOf(v) == <<v, "error_code", 0>>

(* The CPU leaves the task through the gate of v and runs the stub up to   *)
(* its first call.                                                         *)
Enter(v, stub) ==
  /\ pc = "task"
  /\ pc' = IF stub[1] = "isr_stub" THEN "isr_handler" ELSE stub[1]
  /\ if_flag' = FALSE
  /\ at' = [at EXCEPT ![s_current] = Len(Here \o Pad(Here))]
  /\ stack' = [stack EXCEPT ![s_current] =
                 Here \o Pad(Here) \o CpuFrame(Here)
                   \o (IF v \in CpuErrorCode THEN <<ErrorOf(v)>> ELSE <<>>)
                   \o StubWords(stub) \o Saved(StubPush)]
  /\ UNCHANGED <<regs, rip, tasks, dump>>

interrupt(v, stub) ==
  /\ if_flag
  /\ Enter(v, stub)
  /\ UNCHANGED fault

(* An exception is raised whatever IF is. *)
exception(v, stub) ==
  /\ Enter(v, stub)
  /\ fault' = [f \in ToSet(InterruptFrame) |->
       CASE f \in Regs -> regs[f]
         [] f = "interrupt_number" -> <<v, "vector", 0>>
         [] f = "error_code" -> IF v \in CpuErrorCode THEN ErrorOf(v) ELSE T!Zero
         [] f = "rip" -> rip
         [] f = "rflags" -> Flag(if_flag)
         [] f = "rsp" -> <<Len(Here), "rsp", 0>>
         [] OTHER -> Code(f)]

(* The register dump: every field printed, then kernel_panic. *)
isr_handler ==
  /\ pc = "isr_handler"
  /\ dump' = [f \in ToSet(InterruptFrame) |->
                Here[Len(Here) + 1 - IndexOf(InterruptFrame, f)]]
  /\ pc' = "panic"
  /\ UNCHANGED <<regs, rip, if_flag, tasks, stack, at, fault>>

(* pit_tick_handler and pic_send_eoi, called and returned from. *)
irq_stub_0 ==
  /\ pc = "irq_stub_0"
  /\ regs' = Lost({})
  /\ pc' = "sched_tick"
  /\ UNCHANGED <<rip, if_flag, tasks, stack, dump, at, fault>>

(* keyboard_irq_handler and pic_send_eoi. *)
irq_stub_1 ==
  /\ pc = "irq_stub_1"
  /\ regs' = Lost({})
  /\ pc' = "leave"
  /\ UNCHANGED <<rip, if_flag, tasks, stack, dump, at, fault>>

(* Entered by a call; it returns at once or switches. *)
sched_tick ==
  /\ pc = "sched_tick"
  /\ stack' = [stack EXCEPT ![s_current] =
                 Here \o <<Code("leave")>> \o Saved(SchedUses)]
  /\ regs' = Lost(ToSet(SchedUses))
  /\ pc' \in {"sched_tick_end", "context_switch"}
  /\ UNCHANGED <<rip, if_flag, tasks, dump, at, fault>>

(* Mutant: The stack pointer is saved before the registers are pushed. *)
SavedRspEarly(out) == Len(Here)

(* old_rsp, once everything in out is on the stack. *)
SavedRsp(out) == Len(out)

(* Called by sched_tick: the registers and the way back go on the old      *)
(* stack, the new stack's registers are popped, and ret takes the address  *)
(* it finds there: the end of sched_tick, or a new task's entry function.  *)
context_switch(next) ==
  /\ pc = "context_switch"
  /\ next # s_current
  /\ s_current' = next
  /\ LET out == Here \o <<Code("sched_tick_end")>> \o Saved(SwitchPush)
         in == SubSeq(stack[next], 1, rsp[next])
         ret == Drop(in, Len(SwitchPop))
     IN  /\ rsp' = [rsp EXCEPT ![s_current] = SavedRsp(out)]
         /\ regs' = Popped(SwitchPop, in)
         /\ stack' = [stack EXCEPT ![s_current] = out, ![next] = Drop(ret, 1)]
         /\ IF started[next] THEN pc' = Last(ret)[2] /\ UNCHANGED <<rip, at>>
            ELSE /\ pc' = "task"
                 /\ rip' = Last(ret)
                 /\ at' = [at EXCEPT ![next] = Len(ret) - 1]
         /\ started' = [started EXCEPT ![next] = TRUE]
  /\ UNCHANGED <<if_flag, dump, fault>>

(* The end of sched_tick: its registers come back, then ret. *)
sched_tick_end ==
  /\ pc = "sched_tick_end"
  /\ regs' = Popped(Reverse(SchedUses), Here)
  /\ LET ret == Drop(Here, Len(SchedUses))
     IN  pc' = Last(ret)[2] /\ stack' = [stack EXCEPT ![s_current] = Drop(ret, 1)]
  /\ UNCHANGED <<rip, if_flag, tasks, dump, at, fault>>

(* The end of both stubs: all registers, then iretq. *)
leave ==
  /\ pc = "leave"
  /\ regs' = Popped(StubPop, Here)
  /\ LET f == Drop(Here, Len(StubPop))
         Word(k) == f[Len(f) + 1 - k]
         own == SubSeq(f, 1, Word(4)[1])
     IN  /\ rip' = Word(1)
         /\ if_flag' = (Word(3)[1] = 1)
         /\ stack' = [stack EXCEPT ![s_current] = own]
         /\ at' = [at EXCEPT ![s_current] = Len(own)]
  /\ pc' = "task"
  /\ UNCHANGED <<tasks, dump, fault>>

Next ==
  \/ run
  \/ irq_stub_0
  \/ irq_stub_1
  \/ sched_tick
  \/ \E next \in Tasks : context_switch(next)
  \/ sched_tick_end
  \/ leave
  \/ isr_handler

-----------------------------------------------------------------------------

(* Stack words: a value with a name and, for a task's own, a piece of code. *)
Names ==
  Regs \cup {"rip", "local", "zero", "junk", "pad", "ss", "rsp", "rflags", "cs",
            "error_code", "vector", "leave", "sched_tick_end"}
IsWord(w) == w[1] \in Int /\ w[2] \in Names /\ w[3] \in 0 .. Epochs - 1

(* Two frames deep: at most one word of the task, one of padding, the      *)
(* stub's 22 words, and what sched_tick and context_switch push.           *)
StackDepth == 1 + 1 + 22 + 1 + Len(SchedUses) + 1 + Len(SwitchPush)

(* Every variable keeps its type, and no stack grows with the number of    *)
(* interrupts and switches.                                                *)
TypeOK ==
  /\ DOMAIN regs = Regs /\ \A r \in Regs : IsWord(regs[r])
  /\ IsWord(rip)
  /\ if_flag \in BOOLEAN
  /\ s_current \in Tasks
  /\ DOMAIN stack = Tasks
  /\ \A t \in Tasks : /\ Len(stack[t]) <= StackDepth
                      /\ \A k \in DOMAIN stack[t] : IsWord(stack[t][k])
                      /\ rsp[t] \in 0 .. StackDepth
                      /\ at[t] \in 0 .. StackDepth
  /\ started \in [Tasks -> BOOLEAN]
  /\ pc \in {"task", "irq_stub_0", "irq_stub_1", "sched_tick", "sched_tick_end",
             "context_switch", "leave", "isr_handler", "panic", "shutdown"}

(* The stubs, context_switch and setup_initial_stack together give every   *)
(* task a CPU of its own: whatever is pushed comes back to the register,   *)
(* the task and the place it came from.                                    *)
ImplementsTaskCpus == C!Spec

(* The stubs call C++ functions with rsp on a 16-byte boundary, as the ABI *)
(* has it, for interrupts and for exceptions with and without error code.  *)
CallsAligned ==
  pc \in {"irq_stub_0", "irq_stub_1", "sched_tick", "isr_handler"} =>
    (Top[s_current] + Len(Here)) % 2 = 0

(* The register dump of isr_handler shows the CPU as it was when the       *)
(* exception was raised: what the CPU and the stub pushed is what the      *)
(* fields of InterruptFrame name.                                          *)
DumpTrue == pc = "panic" => dump = fault
==============================================================================
