---------------------------- MODULE PreemptProofs ----------------------------
(***************************************************************************)
(* Proofs, for any number of tasks, any lines and any masks and requests   *)
(* the firmware leaves, of the safety of preemption.  The scheduler inside *)
(* Preempt takes only steps of Scheduler, so what SchedulerProofs shows of *)
(* it holds here too.                                                      *)
(***************************************************************************)
EXTENDS Preempt, NumberLemmas, TLAPS

SP == INSTANCE SchedulerProofs

(* _start calls one function after the other; the interrupt flag is set    *)
(* after the last of them.                                                 *)
InOrder ==
  /\ phase = IF boot = "done" THEN "run" ELSE IF boot = "create" THEN "boot"
                                         ELSE "bss"
  /\ if_flag => boot = "done"

(* After pic_init only the lines that get a handler are ever unmasked, and *)
(* after idt_init these have their gates.  The timer's line is never       *)
(* masked again.                                                           *)
OnlyHandledLines ==
  /\ boot \in {"pit_init", "keyboard_init", "idt_init", "sched_init", "create",
               "done"} => Lines \ {0, 1} \subseteq imr
  /\ boot \in {"keyboard_init", "idt_init", "sched_init", "create", "done"} =>
       0 \notin imr
  /\ boot \in {"sched_init", "create", "done"} => idt = Gates

(* cli comes first in kernel_panic. *)
PanicIsDeaf == panicked # "no" => ~if_flag /\ boot \in {"panic", "done"}

(* Task 0 was there before any stack was made by hand, so a switch back to *)
(* it always ends in an iretq; only the shell sleeps.                      *)
ShellAlert ==
  /\ rsp[0] # "seeded"
  /\ phase = "run" /\ s_current = 0 /\ panicked = "no" => if_flag
  /\ hlt => phase = "run" /\ s_current = 0

IInv ==
  /\ SP!IInv
  /\ MachineOK
  /\ InOrder
  /\ OnlyHandledLines
  /\ PanicIsDeaf
  /\ NoInterruptPanic
  /\ NothingInService
  /\ ResumesEnabled
  /\ ShellAlert

-----------------------------------------------------------------------------
(* The scheduler inside.                                                   *)

(* The two instances of Scheduler are the same. *)
LEMMA SameScheduler ==
  /\ S!Init <=> SP!Init
  /\ S!vars = SP!vars
  /\ S!sched_init <=> SP!sched_init
  /\ \A ok \in BOOLEAN : S!sched_create_task(ok) <=> SP!sched_create_task(ok)
  /\ S!enable_interrupts <=> SP!enable_interrupts
  /\ S!sched_tick <=> SP!sched_tick
  /\ S!TypeOK <=> SP!TypeOK
<1>1. S!Slot = SP!Slot /\ S!Live = SP!Live
  BY DEF S!Slot, SP!Slot, S!Live, SP!Live
<1>2. (S!Init <=> SP!Init) /\ S!vars = SP!vars
  BY <1>1 DEF S!Init, SP!Init, S!vars, SP!vars
<1>3. /\ S!sched_init <=> SP!sched_init
      /\ S!enable_interrupts <=> SP!enable_interrupts
  BY DEF S!sched_init, SP!sched_init, S!enable_interrupts, SP!enable_interrupts
<1>4. \A ok \in BOOLEAN : S!sched_create_task(ok) <=> SP!sched_create_task(ok)
  BY DEF S!sched_create_task, SP!sched_create_task, S!setup_initial_stack,
         SP!setup_initial_stack
<1>5. S!TypeOK <=> SP!TypeOK
  BY <1>1 DEF S!TypeOK, SP!TypeOK, S!TaskState, SP!TaskState, S!Frame, SP!Frame
<1>6. S!sched_tick <=> SP!sched_tick
  BY <1>1 DEF S!sched_tick, SP!sched_tick, S!SliceOver, SP!SliceOver,
              S!NextTick, SP!NextTick, S!reschedule, SP!reschedule,
              S!NextReady, SP!NextReady, S!Preempted, SP!Preempted,
              S!Probe, SP!Probe, S!context_switch, SP!context_switch
<1> QED BY <1>2, <1>3, <1>4, <1>5, <1>6

(* Each step of the machine is a step of the scheduler, or leaves it alone. *)
LEMMA StepOfScheduler == [Next]_vars => [SP!Next]_SP!vars
<1> SUFFICES ASSUME [Next]_vars PROVE [SP!Next]_SP!vars
  OBVIOUS
<1>1. CASE S!sched_init \/ S!enable_interrupts \/ S!sched_tick
  BY <1>1, SameScheduler DEF SP!Next
<1>2. CASE \E ok \in BOOLEAN : S!sched_create_task(ok)
  BY <1>2, SameScheduler DEF SP!Next
<1>3. CASE UNCHANGED sched
  BY <1>3 DEF SP!vars, sched
<1> QED
  BY <1>1, <1>2, <1>3
  DEF Next, Boot, vars, limine_checks, init_memory, pic_init, pit_init,
      keyboard_init, idt_init, start_scheduler, create_task, sti, Raise,
      Interrupt, irq_stub_0, irq_stub_1, isr_handler, shell_hlt, shell_panic,
      task_sti

(* The scheduler's invariant survives every step of the machine. *)
LEMMA SchedulerInductive == SP!IInv /\ [Next]_vars => SP!IInv'
  BY StepOfScheduler, PreemptAssumption, SP!Inductive

(* No step gives task 0 a hand-made frame. *)
LEMMA BootStackKept ==
  ASSUME SP!IInv, [Next]_vars, rsp[0] # "seeded"
  PROVE  rsp'[0] # "seeded"
<1>1. [SP!Next]_SP!vars /\ 0 \in SP!Slot /\ rsp \in [SP!Slot -> SP!Frame]
  BY StepOfScheduler, PreemptAssumption DEF SP!IInv, SP!TypeOK, SP!Slot
<1>2. CASE SP!sched_init
  BY <1>1, <1>2 DEF SP!sched_init
<1>3. CASE \E ok \in BOOLEAN : SP!sched_create_task(ok)
  <2>1. s_count # 0
    BY <1>3 DEF SP!IInv, SP!Counted, SP!sched_create_task
  <2> QED BY <1>1, <1>3, <2>1 DEF SP!sched_create_task, SP!setup_initial_stack
<1>4. CASE SP!sched_tick
  BY <1>1, <1>4 DEF SP!sched_tick, SP!reschedule, SP!context_switch
<1>5. CASE SP!enable_interrupts \/ UNCHANGED SP!vars
  BY <1>5 DEF SP!enable_interrupts, SP!vars
<1> QED BY <1>1, <1>2, <1>3, <1>4, <1>5 DEF SP!Next

(* Preempt implements Scheduler: interrupts reach sched_tick only the way  *)
(* that module has it, so its theorems hold of the whole machine.          *)
THEOREM ImplementsScheduler == Spec => S!Spec
<1>1. Init => S!Init
  BY DEF Init
<1>2. [Next]_vars => [S!Next]_S!vars
  BY StepOfScheduler, SameScheduler DEF S!Next, SP!Next, S!vars, SP!vars
<1> QED BY <1>1, <1>2, PTL DEF Spec, S!Spec

-----------------------------------------------------------------------------
(* The invariant.                                                          *)

(* Whatever the firmware left in the PIC. *)
LEMMA InitEstablishes == Init => IInv
<1> SUFFICES ASSUME Init PROVE IInv
  OBVIOUS
<1>1. SP!IInv
  BY SameScheduler, PreemptAssumption, SP!InitEstablishes DEF Init
<1>3. MachineOK
  <2>1. pit_ticks \in 0 .. PIT_WRAP - 1
    BY PreemptAssumption DEF Init
  <2> QED BY <2>1 DEF Init, MachineOK
<1>4. phase = "bss" /\ rsp[0] = "none"
  BY PreemptAssumption DEF Init, S!Init, S!Slot
<1>5. ShellAlert
  BY <1>4 DEF Init, ShellAlert
<1> QED BY <1>1, <1>3, <1>4, <1>5
        DEF Init, IInv, InOrder, OnlyHandledLines, PanicIsDeaf,
            NoInterruptPanic, NothingInService, ResumesEnabled

(* The functions _start calls before it creates tasks. *)
LEMMA EarlyBootPreserves ==
  ASSUME IInv,
         limine_checks \/ init_memory \/ pic_init \/ pit_init
           \/ keyboard_init \/ idt_init
  PROVE  IInv'
<1>1. SP!IInv'
  BY SchedulerInductive DEF Next, Boot, IInv
<1>2. UNCHANGED <<phase, rsp, s_current, hlt, pit_ticks>>
  BY DEF limine_checks, init_memory, pic_init, pit_init, keyboard_init,
         idt_init, sched
<1> USE DEF IInv
<1>3. MachineOK'
  <2>1. CASE limine_checks
    BY <2>1 DEF MachineOK, limine_checks, kernel_panic
  <2>2. CASE init_memory
    BY <2>2 DEF MachineOK, init_memory
  <2>3. CASE pic_init \/ pit_init \/ keyboard_init
    <3>1. imr' \subseteq Lines /\ irr' \subseteq Lines /\ isr' \subseteq Lines
      BY <2>3 DEF MachineOK, pic_init, pit_init, keyboard_init, pic_enable_irq
    <3>2. boot' \in {"pit_init", "keyboard_init", "idt_init"}
      BY <2>3 DEF pic_init, pit_init, keyboard_init
    <3>3. UNCHANGED <<if_flag, hlt, idt, pit_ticks, heap, panicked>>
      BY <2>3 DEF pic_init, pit_init, keyboard_init
    <3> QED BY <3>1, <3>2, <3>3 DEF MachineOK
  <2>4. CASE idt_init
    <3>1. Gates \subseteq 0 .. 255
      BY DEF Gates
    <3> QED BY <2>4, <3>1 DEF MachineOK, idt_init
  <2> QED BY <2>1, <2>2, <2>3, <2>4
<1>4. InOrder' /\ PanicIsDeaf' /\ NoInterruptPanic'
  BY <1>2 DEF InOrder, PanicIsDeaf, NoInterruptPanic, limine_checks,
              init_memory, pic_init, pit_init, keyboard_init, idt_init,
              kernel_panic
<1>5. OnlyHandledLines'
  BY DEF OnlyHandledLines, limine_checks, init_memory, pic_init, pit_init,
         keyboard_init, idt_init, pic_enable_irq
<1>6. NothingInService' /\ ResumesEnabled' /\ ShellAlert'
  BY <1>2, <1>4 DEF InOrder, NothingInService, ResumesEnabled, ShellAlert,
      limine_checks, init_memory, pic_init, pit_init, keyboard_init, idt_init,
      kernel_panic
<1> QED BY <1>1, <1>3, <1>4, <1>5, <1>6

(* The scheduler is started, tasks are created, interrupts enabled. *)
LEMMA LateBootPreserves ==
  ASSUME IInv,
         start_scheduler \/ (\E ok \in BOOLEAN : create_task(ok)) \/ sti
  PROVE  IInv'
<1>1. SP!IInv'
  BY SchedulerInductive DEF Next, Boot, IInv
<1>2. UNCHANGED <<hlt, imr, irr, isr, idt, pit_ticks, heap, panicked>>
  BY DEF start_scheduler, create_task, sti
<1> USE DEF IInv
<1>3. MachineOK'
  BY <1>2 DEF MachineOK, start_scheduler, create_task, sti
<1>4. InOrder'
  BY DEF InOrder, start_scheduler, create_task, sti, S!sched_init,
         S!sched_create_task, S!enable_interrupts
<1>5. OnlyHandledLines'
  BY <1>2 DEF OnlyHandledLines, start_scheduler, create_task, sti
<1>6. PanicIsDeaf' /\ NoInterruptPanic' /\ NothingInService'
  BY <1>2 DEF PanicIsDeaf, NoInterruptPanic, NothingInService,
              start_scheduler, create_task, sti
<1>7. ResumesEnabled'
  BY <1>4 DEF ResumesEnabled, InOrder, start_scheduler, create_task, sti
<1>8. ShellAlert'
  <2>1. rsp'[0] # "seeded"
    BY BootStackKept DEF Next, Boot, ShellAlert
  <2>2. ~hlt
    BY DEF ShellAlert, InOrder, start_scheduler, create_task, sti
  <2> QED BY <1>2, <1>4, <2>1, <2>2
          DEF ShellAlert, InOrder, start_scheduler, create_task, sti
<1> QED BY <1>1, <1>3, <1>4, <1>5, <1>6, <1>7, <1>8

(* A device raises its line; the shell sleeps, panics; a task enables      *)
(* interrupts.                                                             *)
LEMMA RaisePreserves == ASSUME IInv, NEW n \in Lines, Raise(n) PROVE IInv'
<1>1. SP!IInv'
  BY SchedulerInductive DEF Next, IInv
<1>2. UNCHANGED <<phase, rsp, s_current, boot, if_flag, hlt, imr, isr, idt,
                  pit_ticks, heap, panicked>>
  BY DEF Raise, sched
<1>3. MachineOK'
  BY <1>2 DEF IInv, MachineOK, Raise
<1> QED BY <1>1, <1>2, <1>3
        DEF IInv, InOrder, OnlyHandledLines, PanicIsDeaf, NoInterruptPanic,
            NothingInService, ResumesEnabled, ShellAlert

(* The shell's hlt, its panic command and a task's sti preserve IInv.       *)
LEMMA TaskPreserves ==
  ASSUME IInv, shell_hlt \/ shell_panic \/ task_sti
  PROVE  IInv'
<1>1. SP!IInv'
  BY SchedulerInductive DEF Next, IInv
<1>2. UNCHANGED <<phase, rsp, s_current, boot, imr, irr, isr, idt, pit_ticks,
                  heap>>
  BY DEF shell_hlt, shell_panic, task_sti, sched
<1> USE DEF IInv
<1>3. MachineOK'
  BY <1>2 DEF MachineOK, shell_hlt, shell_panic, task_sti, kernel_panic
<1>4. InOrder'
  BY <1>2 DEF InOrder, shell_hlt, shell_panic, task_sti, kernel_panic
<1>5. PanicIsDeaf' /\ NoInterruptPanic' /\ NothingInService'
  BY <1>2 DEF PanicIsDeaf, InOrder, NoInterruptPanic, NothingInService,
              shell_hlt, shell_panic, task_sti, kernel_panic
<1>6. OnlyHandledLines'
  BY <1>2 DEF OnlyHandledLines
<1>7. ResumesEnabled' /\ ShellAlert'
  BY <1>2 DEF ResumesEnabled, ShellAlert, shell_hlt, shell_panic, task_sti, kernel_panic
<1> QED BY <1>1, <1>3, <1>4, <1>5, <1>6, <1>7

-----------------------------------------------------------------------------
(* Interrupts.                                                             *)

(* Only IRQ0 and IRQ1 are ever taken, and both have a gate. *)
LEMMA HandledInterrupt ==
  ASSUME IInv, NEW n \in Lines, Interrupt(n)
  PROVE  /\ n \in {0, 1} /\ Vector(n) \in idt
         /\ boot = "done" /\ phase = "run" /\ panicked = "no" /\ isr = {}
<1>1. boot = "done" /\ phase = "run" /\ panicked = "no"
  BY DEF IInv, InOrder, PanicIsDeaf, Interrupt
<1>2. n \notin imr
  BY DEF Interrupt, Deliverable
<1>3. n \in {0, 1}
  BY <1>1, <1>2 DEF IInv, OnlyHandledLines
<1>4. Vector(n) \in idt
  BY <1>1, <1>3 DEF IInv, OnlyHandledLines, Gates, Vector
<1> QED BY <1>1, <1>3, <1>4 DEF IInv, NothingInService

(* The EOI retires the one interrupt in service. *)
LEMMA EoiRetires ==
  ASSUME NEW n \in Int
  PROVE  pic_send_eoi({} \cup {n}) = {}
<1>1. Highest({} \cup {n}) = n
  BY DEF Highest
<1> QED BY <1>1 DEF pic_send_eoi

(* The uptime counter stays in its width. *)
LEMMA UptimeType ==
  ASSUME MachineOK, pit_tick_handler
  PROVE  pit_ticks' \in 0 .. PIT_WRAP - 1
<1>1. pit_ticks \in 0 .. PIT_WRAP - 1
  BY DEF MachineOK
<1>2. pit_ticks' = IF pit_ticks + 1 = PIT_WRAP THEN 0 ELSE pit_ticks + 1
  BY <1>1, PreemptAssumption, RingSucc DEF pit_tick_handler
<1> QED BY <1>1, <1>2, PreemptAssumption

(* The timer interrupt: EOI before sched_tick, which may leave for another *)
(* task, new or preempted before.                                          *)
LEMMA TimerPreserves ==
  ASSUME IInv, 0 \in Lines, Interrupt(0)
  PROVE  IInv'
<1>1. SP!IInv'
  BY SchedulerInductive DEF Next, IInv
<1>2. /\ irq_stub_0 /\ phase = "run" /\ boot = "done" /\ panicked = "no"
      /\ isr = {} /\ if_flag /\ irr' = irr \ {0} /\ hlt' = FALSE
      /\ UNCHANGED <<boot, imr, idt, heap>>
  BY HandledInterrupt DEF Interrupt
<1>3. isr' = {} /\ UNCHANGED <<phase, panicked>> /\ S!sched_tick
  BY <1>2, EoiRetires DEF irq_stub_0, S!sched_tick
<1>4. pit_ticks' \in 0 .. PIT_WRAP - 1
  BY <1>2, UptimeType DEF irq_stub_0, IInv
<1>5. if_flag' = (Resumed # "seeded")
  BY <1>2 DEF irq_stub_0, LeaveStub
<1>6. MachineOK'
  BY <1>2, <1>3, <1>4, <1>5 DEF IInv, MachineOK
<1>7. InOrder' /\ OnlyHandledLines' /\ PanicIsDeaf' /\ NoInterruptPanic'
        /\ NothingInService'
  BY <1>2, <1>3 DEF IInv, InOrder, OnlyHandledLines, PanicIsDeaf,
                    NoInterruptPanic, NothingInService
<1>8. ResumesEnabled'
  <2>1. CASE s_current' = s_current
    BY <1>5, <2>1 DEF Resumed, ResumesEnabled
  <2>2. CASE s_current' # s_current
    <3>1. rsp' = [rsp EXCEPT ![s_current] = "saved"]
      BY <1>3, <2>2 DEF S!sched_tick, S!reschedule, S!context_switch
    <3>2. s_current' \in DOMAIN rsp
      BY <1>1, <3>1 DEF IInv, SP!IInv, SP!TypeOK
    <3>3. rsp'[s_current'] = rsp[s_current']
      BY <2>2, <3>1, <3>2
    <3> QED BY <1>5, <2>2, <3>3 DEF Resumed, ResumesEnabled
  <2> QED BY <2>1, <2>2
<1>9. ShellAlert'
  <2>1. rsp'[0] # "seeded"
    BY BootStackKept DEF Next, IInv, ShellAlert
  <2>2. s_current' = 0 => Resumed # "seeded"
    BY DEF IInv, ShellAlert, Resumed
  <2> QED BY <1>2, <1>5, <2>1, <2>2 DEF ShellAlert
<1> QED BY <1>1, <1>6, <1>7, <1>8, <1>9 DEF IInv

(* The keyboard's interrupt. *)
LEMMA KeyPreserves ==
  ASSUME IInv, 1 \in Lines, Interrupt(1)
  PROVE  IInv'
<1>1. SP!IInv'
  BY SchedulerInductive DEF Next, IInv
<1>2. /\ irq_stub_1 /\ panicked = "no"
      /\ isr = {} /\ irr' = irr \ {1} /\ hlt' = FALSE
      /\ UNCHANGED <<boot, imr, idt, heap>>
  <2>1. Vector(1) \in idt /\ panicked = "no" /\ isr = {}
    BY HandledInterrupt
  <2>2. 1 # 0
    OBVIOUS
  <2> QED BY <2>1, <2>2 DEF Interrupt
<1>3. /\ isr' = {}
      /\ UNCHANGED <<phase, rsp, s_current, if_flag, pit_ticks, panicked>>
  BY <1>2, EoiRetires DEF irq_stub_1, sched
<1>4. MachineOK'
  BY <1>2, <1>3 DEF IInv, MachineOK
<1> QED BY <1>1, <1>2, <1>3, <1>4
        DEF IInv, InOrder, OnlyHandledLines, PanicIsDeaf, NoInterruptPanic,
            NothingInService, ResumesEnabled, ShellAlert

(* Every step keeps the invariant. *)
LEMMA Inductive == IInv /\ [Next]_vars => IInv'
<1> SUFFICES ASSUME IInv, [Next]_vars PROVE IInv'
  OBVIOUS
<1>1. CASE Boot
  BY <1>1, EarlyBootPreserves, LateBootPreserves DEF Boot
<1>2. CASE \E n \in Lines : Raise(n)
  BY <1>2, RaisePreserves
<1>3. CASE \E n \in Lines : Interrupt(n)
  BY <1>3, HandledInterrupt, TimerPreserves, KeyPreserves
<1>4. CASE shell_hlt \/ shell_panic \/ task_sti
  BY <1>4, TaskPreserves
<1>5. CASE UNCHANGED vars
  <2>1. SP!IInv'
    BY SchedulerInductive DEF IInv
  <2> QED BY <1>5, <2>1
          DEF vars, sched, IInv, MachineOK, InOrder, OnlyHandledLines,
              PanicIsDeaf, NoInterruptPanic, NothingInService, ResumesEnabled,
              ShellAlert
<1> QED BY <1>1, <1>2, <1>3, <1>4, <1>5 DEF Next

(* Every reachable state satisfies the invariant. *)
THEOREM Invariance == Spec => []IInv
  BY InitEstablishes, Inductive, PTL DEF Spec

-----------------------------------------------------------------------------

(* Type correctness of the machine and the scheduler in it. *)
THEOREM TypeCorrect == Spec => []TypeOK
<1>1. IInv => TypeOK
  BY SameScheduler DEF IInv, SP!IInv, TypeOK
<1> QED BY <1>1, Invariance, PTL

(* No ordinary device interrupt ever ends in a panic, whatever lines there *)
(* are and whatever the firmware left masked or requested.                 *)
THEOREM InterruptsAreHandled == Spec => []NoInterruptPanic
<1>1. IInv => NoInterruptPanic
  BY DEF IInv
<1> QED BY <1>1, Invariance, PTL

(* No switch, to a new or an old task, leaves the PIC waiting for an EOI.  *)
THEOREM EoiNeverMissing == Spec => []NothingInService
<1>1. IInv => NothingInService
  BY DEF IInv
<1> QED BY <1>1, Invariance, PTL

(* A task that was preempted before always runs with interrupts enabled.   *)
THEOREM PreemptedTasksStayPreemptible == Spec => []ResumesEnabled
<1>1. IInv => ResumesEnabled
  BY DEF IInv
<1> QED BY <1>1, Invariance, PTL

(* Whenever the shell sleeps, the next tick of the timer can wake it, for  *)
(* any tasks, lines and firmware settings.                                 *)
THEOREM ShellCanBeWoken == Spec => []SleeperCanWake
<1>1. ASSUME IInv, hlt, panicked = "no"
      PROVE  if_flag /\ 0 \notin imr \cup isr /\ Vector(0) \in idt
  <2>1. phase = "run" /\ if_flag
    BY <1>1 DEF IInv, ShellAlert
  <2>2. boot = "done"
    BY <1>1, <2>1 DEF IInv, InOrder
  <2>3. 0 \notin imr /\ isr = {}
    BY <1>1, <2>2 DEF IInv, OnlyHandledLines, NothingInService
  <2>4. Vector(0) \in idt
    BY <1>1, <2>2 DEF IInv, OnlyHandledLines, Gates, Vector
  <2> QED BY <2>1, <2>3, <2>4
<1>2. IInv => SleeperCanWake
  BY <1>1 DEF SleeperCanWake
<1> QED BY <1>2, Invariance, PTL

(* After kernel_panic nothing but a request latch ever changes.            *)
THEOREM PanicsAreFinal == Spec => PanicIsFinal
<1>1. ASSUME IInv, [Next]_vars
      PROVE  [panicked # "no" =>
                UNCHANGED <<sched, hlt, if_flag, isr, panicked>>]_vars
  <2> SUFFICES ASSUME Next, panicked # "no"
               PROVE  UNCHANGED <<sched, hlt, if_flag, isr, panicked>>
    BY <1>1
  <2>1. ~if_flag /\ boot \in {"panic", "done"}
    BY <1>1 DEF IInv, PanicIsDeaf
  <2>2. \E n \in Lines : Raise(n)
    BY <2>1 DEF Next, Boot, limine_checks, init_memory, pic_init, pit_init,
                keyboard_init, idt_init, start_scheduler, create_task, sti,
                Interrupt, shell_hlt, shell_panic, task_sti
  <2> QED BY <2>2 DEF Raise
<1> QED BY <1>1, Invariance, PTL DEF Spec, PanicIsFinal

(* What SchedulerProofs shows of the scheduler holds inside the machine:   *)
(* one RUNNING task, valid switch targets, bounded waiting.                *)
THEOREM SchedulerInside ==
  Spec => [](SP!OneRunning /\ SP!SwitchTargetValid /\ SP!NearerEachTime)
<1>1. IInv => SP!OneRunning /\ SP!SwitchTargetValid /\ SP!NearerEachTime
  BY DEF IInv, SP!IInv
<1> QED BY <1>1, Invariance, PTL
==============================================================================
