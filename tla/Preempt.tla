------------------------------- MODULE Preempt -------------------------------
(***************************************************************************)
(* Preemption: the boot sequence of _start, the CPU's interrupt flag, the  *)
(* 8259 PIC, the IDT and the two IRQ stubs, around the Scheduler.          *)
(*                                                                         *)
(* A stub runs with IF clear (all gates are interrupt gates), so nothing   *)
(* but the latching of further requests can happen before it reaches task  *)
(* code again: an interrupt, from acknowledge to the iretq or ret that     *)
(* leaves the stub, is one step.  keyboard_irq_handler changes only the    *)
(* keyboard's own state, which is module Keyboard's.                       *)
(***************************************************************************)
EXTENDS Integers

CONSTANTS
  MAX_TASKS, SCHED_SLICE, TICK_WRAP,
  PIT_WRAP,      (* number of values of the uint64_t s_ticks of pit.cpp    *)
  Lines,         (* IRQ lines with a device on them                        *)
  StiTasks       (* slots whose entry function executes sti                *)

(* The scheduler's constants are as there. *)
ASSUME PreemptAssumption ==
  /\ MAX_TASKS \in Nat \ {0}
  /\ SCHED_SLICE \in Nat \ {0}
  /\ TICK_WRAP \in Nat \ {0}
  /\ TICK_WRAP % SCHED_SLICE = 0
  /\ PIT_WRAP \in Nat \ {0}

VARIABLES
  phase, state, stack_base, rsp, s_count, s_current, s_ticks, skipped, ran,
  boot,          (* the next call _start makes                             *)
  if_flag,       (* RFLAGS.IF                                              *)
  hlt,           (* the CPU sleeps in a hlt instruction                    *)
  imr, irr, isr, (* PIC: masked, requested and in-service lines            *)
  idt,           (* vectors with a present gate                            *)
  pit_ticks,     (* s_ticks of pit.cpp                                     *)
  heap,          (* kmalloc has a pool                                     *)
  panicked       (* "no", or who has entered kernel_panic                  *)

S == INSTANCE Scheduler

sched == <<phase, state, stack_base, rsp, s_count, s_current, s_ticks,
           skipped, ran>>
vars == <<sched, boot, if_flag, hlt, imr, irr, isr, idt, pit_ticks, heap,
          panicked>>

Vector(n) == 32 + n

-----------------------------------------------------------------------------
(* The 8259 as the drivers use it.                                         *)

Highest(lines) == CHOOSE n \in lines : \A m \in lines : n <= m

(* A non-specific EOI retires the in-service line of highest priority. *)
pic_send_eoi(lines) == lines \ {Highest(lines)}

(* Mutant: The mask is written without reading the old one first. *)
pic_enable_only(n) == imr' = Lines \ {n}

pic_enable_irq(n) == imr' = imr \ {n}

(* The line the PIC asks the CPU to take now, if any. *)
Deliverable(n) ==
  /\ n \in irr \ imr
  /\ n = Highest((irr \ imr) \cup isr)
  /\ n \notin isr

(* A device raises its line; a second edge before the first is taken is    *)
(* lost in the request latch.                                              *)
Raise(n) ==
  /\ irr' = irr \cup {n}
  /\ UNCHANGED <<sched, boot, if_flag, hlt, imr, isr, idt, pit_ticks,
                 heap, panicked>>

-----------------------------------------------------------------------------
(* The boot sequence.                                                      *)

(* Limine enters _start with IF clear; which lines the firmware left       *)
(* masked or requested is anybody's guess.                                 *)
Init ==
  /\ S!Init
  /\ boot = "limine"
  /\ if_flag = FALSE
  /\ hlt = FALSE
  /\ imr \in SUBSET Lines
  /\ irr \in SUBSET Lines
  /\ isr = {}
  /\ idt = {}
  /\ pit_ticks = 0
  /\ heap = FALSE
  /\ panicked = "no"

(* Mutant: Interrupts stay as they are. *)
kernel_panic_no_cli(who) == UNCHANGED if_flag /\ panicked' = who

(* cli, then hlt for ever. *)
kernel_panic(who) == if_flag' = FALSE /\ panicked' = who

(* Without a framebuffer, or with an old protocol, _start gives up. *)
limine_checks ==
  /\ boot = "limine"
  /\ \/ boot' = "memory" /\ UNCHANGED <<if_flag, panicked>>
     \/ boot' = "panic" /\ kernel_panic("boot")
  /\ UNCHANGED <<sched, hlt, imr, irr, isr, idt, pit_ticks, heap>>

(* pmm_init and heap_init, if Limine gave a memory map and an offset and   *)
(* the map has a free page; _start goes on without a heap.                 *)
init_memory ==
  /\ boot = "memory"
  /\ boot' = "pic_init"
  /\ heap' \in BOOLEAN
  /\ UNCHANGED <<sched, if_flag, hlt, imr, irr, isr, idt, pit_ticks, panicked>>

(* Mutant: pic_init keeps the firmware's masks (it reads them into m1 and m2). *)
pic_init_keeps_masks ==
  /\ boot = "pic_init"
  /\ boot' = "pit_init"
  /\ irr' = {}
  /\ isr' = {}
  /\ UNCHANGED <<sched, if_flag, hlt, imr, idt, pit_ticks, heap, panicked>>

(* ICW1 forgets requests; the driver then masks every line. *)
pic_init ==
  /\ boot = "pic_init"
  /\ boot' = "pit_init"
  /\ imr' = Lines
  /\ irr' = {}
  /\ isr' = {}
  /\ UNCHANGED <<sched, if_flag, hlt, idt, pit_ticks, heap, panicked>>

pit_init ==
  /\ boot = "pit_init"
  /\ boot' = "keyboard_init"
  /\ pic_enable_irq(0)
  /\ UNCHANGED <<sched, if_flag, hlt, irr, isr, idt, pit_ticks, heap, panicked>>

keyboard_init ==
  /\ boot = "keyboard_init"
  /\ boot' = "idt_init"
  /\ pic_enable_irq(1)
  /\ UNCHANGED <<sched, if_flag, hlt, irr, isr, idt, pit_ticks, heap, panicked>>

(* 32 exception gates and the gates of IRQ0 and IRQ1. *)
Gates == 0 .. 33

idt_init ==
  /\ boot = "idt_init"
  /\ boot' = "sched_init"
  /\ idt' = Gates
  /\ UNCHANGED <<sched, if_flag, hlt, imr, irr, isr, pit_ticks, heap, panicked>>

start_scheduler ==
  /\ boot = "sched_init"
  /\ boot' = "create"
  /\ S!sched_init
  /\ UNCHANGED <<if_flag, hlt, imr, irr, isr, idt, pit_ticks, heap, panicked>>

(* _start creates one task; other configurations create more.  The stack   *)
(* comes from the heap.                                                    *)
create_task(ok) ==
  /\ boot = "create"
  /\ ok => heap
  /\ S!sched_create_task(ok)
  /\ UNCHANGED <<boot, if_flag, hlt, imr, irr, isr, idt, pit_ticks, heap,
                 panicked>>

sti ==
  /\ boot = "create"
  /\ boot' = "done"
  /\ S!enable_interrupts
  /\ if_flag' = TRUE
  /\ UNCHANGED <<hlt, imr, irr, isr, idt, pit_ticks, heap, panicked>>

-----------------------------------------------------------------------------
(* Interrupts.                                                             *)

pit_tick_handler == pit_ticks' = (pit_ticks + 1) % PIT_WRAP

(* The frame the stub leaves through: a preempted (or never switched)      *)
(* task's own interrupt frame, or a new task's hand-made one.              *)
Resumed == IF s_current' = s_current THEN "saved" ELSE rsp[s_current']

(* Mutant: Tasks are resumed with a plain ret, as if iretq did not restore IF. *)
LeaveStub_ret == if_flag' = (s_current' = s_current)

(* A preempted task leaves the stub through iretq, which restores the IF   *)
(* it was interrupted with (set, or it could not have been interrupted).   *)
(* A new task leaves it through the ret of context_switch, which does not. *)
LeaveStub == if_flag' = (Resumed # "seeded")

(* Mutant: The EOI is sent after sched_tick, so a new task starts without it. *)
irq_stub_0_eoi_last ==
  /\ pit_tick_handler
  /\ S!sched_tick
  /\ isr' = IF Resumed = "seeded" THEN isr \cup {0}
                                  ELSE pic_send_eoi(isr \cup {0})
  /\ LeaveStub
  /\ UNCHANGED panicked

(* EOI comes before sched_tick, so it is sent whichever task comes next. *)
irq_stub_0 ==
  /\ pit_tick_handler
  /\ isr' = pic_send_eoi(isr \cup {0})
  /\ S!sched_tick
  /\ LeaveStub
  /\ UNCHANGED panicked

irq_stub_1 ==
  /\ isr' = pic_send_eoi(isr \cup {1})
  /\ UNCHANGED <<sched, if_flag, pit_ticks, panicked>>

(* No gate: the CPU faults inside the interrupt that the PIC started. *)
isr_handler(n) ==
  /\ isr' = isr \cup {n}
  /\ kernel_panic("exception")
  /\ UNCHANGED <<sched, pit_ticks>>

(* The CPU takes the interrupt, which also ends a hlt. *)
Interrupt(n) ==
  /\ if_flag
  /\ Deliverable(n)
  /\ irr' = irr \ {n}
  /\ hlt' = FALSE
  /\ IF Vector(n) \notin idt THEN isr_handler(n)
     ELSE IF n = 0 THEN irq_stub_0 ELSE irq_stub_1
  /\ UNCHANGED <<boot, imr, idt, heap>>

-----------------------------------------------------------------------------
(* What task code does to the CPU state.                                   *)

(* The shell, task 0, sleeps between polls of the keyboard. *)
shell_hlt ==
  /\ phase = "run"
  /\ s_current = 0
  /\ panicked = "no"
  /\ ~hlt
  /\ hlt' = TRUE
  /\ UNCHANGED <<sched, boot, if_flag, imr, irr, isr, idt, pit_ticks,
                 heap, panicked>>

(* The shell's command "panic", with interrupts enabled. *)
shell_panic ==
  /\ phase = "run"
  /\ s_current = 0
  /\ panicked = "no"
  /\ ~hlt
  /\ kernel_panic("shell")
  /\ hlt' = TRUE
  /\ UNCHANGED <<sched, boot, imr, irr, isr, idt, pit_ticks, heap>>

(* An entry function that enables interrupts does so when it first runs. *)
task_sti ==
  /\ phase = "run"
  /\ s_current \in StiTasks
  /\ panicked = "no"
  /\ ~if_flag
  /\ if_flag' = TRUE
  /\ UNCHANGED <<sched, boot, hlt, imr, irr, isr, idt, pit_ticks, heap,
                 panicked>>

Boot ==
  \/ limine_checks
  \/ init_memory
  \/ pic_init
  \/ pit_init
  \/ keyboard_init
  \/ idt_init
  \/ start_scheduler
  \/ \E ok \in BOOLEAN : create_task(ok)
  \/ sti

Next ==
  \/ Boot
  \/ \E n \in Lines : Raise(n)
  \/ \E n \in Lines : Interrupt(n)
  \/ shell_hlt
  \/ shell_panic
  \/ task_sti

Spec == Init /\ [][Next]_vars

(* The CPU executes _start, the PIT keeps pulsing, an interrupt that stays *)
(* deliverable is taken, and a task that is about to enable interrupts     *)
(* does so.  Nobody has to press a key.                                    *)
Fairness ==
  /\ WF_vars(limine_checks) /\ WF_vars(init_memory)
  /\ WF_vars(pic_init) /\ WF_vars(pit_init) /\ WF_vars(keyboard_init)
  /\ WF_vars(idt_init) /\ WF_vars(start_scheduler) /\ WF_vars(sti)
  /\ WF_vars(Raise(0))
  /\ WF_vars(Interrupt(0))
  /\ WF_vars(task_sti)

FairSpec == Spec /\ Fairness

-----------------------------------------------------------------------------

(* The variables that are not the scheduler's. *)
MachineOK ==
  /\ boot \in {"limine", "memory", "panic", "pic_init", "pit_init",
               "keyboard_init", "idt_init", "sched_init", "create", "done"}
  /\ if_flag \in BOOLEAN
  /\ hlt \in BOOLEAN
  /\ imr \subseteq Lines
  /\ irr \subseteq Lines
  /\ isr \subseteq Lines
  /\ idt \subseteq 0 .. 255
  /\ pit_ticks \in 0 .. PIT_WRAP - 1
  /\ heap \in BOOLEAN
  /\ panicked \in {"no", "boot", "shell", "exception"}

(* Every variable stays in the set of values the hardware and the drivers  *)
(* allow.                                                                  *)
TypeOK == S!TypeOK /\ MachineOK

(* The kernel never panics because of an ordinary device interrupt: by the *)
(* time _start executes sti, every line that may still interrupt has a     *)
(* gate, whatever masks and requests the firmware left behind.             *)
NoInterruptPanic == panicked # "exception"

(* Task code never runs with an interrupt still in service: the EOI is     *)
(* sent before sched_tick may switch to another task, so a switch cannot   *)
(* leave the PIC blocked.                                                  *)
NothingInService == panicked = "no" => isr = {}

(* A task that has been preempted once always resumes with interrupts      *)
(* enabled, so it can be preempted again.                                  *)
ResumesEnabled ==
  phase = "run" /\ rsp[s_current] = "saved" /\ panicked = "no" => if_flag

(* The shell never sleeps for good: whenever it is in its hlt, the flag is *)
(* set, and the timer's line is unmasked, not blocked and has a gate, so   *)
(* the next tick wakes it, whichever tasks ran since its last hlt.         *)
SleeperCanWake ==
  hlt /\ panicked = "no" =>
    if_flag /\ 0 \notin imr \cup isr /\ Vector(0) \in idt

(* Every task, once created, keeps getting the CPU, until somebody asks    *)
(* the shell to panic.                                                     *)
AllTasksRun ==
  \A t \in S!Slot :
    [](phase = "run" /\ t < s_count => <>(s_current = t \/ panicked # "no"))

(* A panic is final: pending and later interrupts neither wake the CPU nor *)
(* let the scheduler leave for another task, also when the shell panics    *)
(* with interrupts enabled.                                                *)
PanicIsFinal ==
  [][panicked # "no" => UNCHANGED <<sched, hlt, if_flag, isr, panicked>>]_vars

(* The shell, task 0, keeps getting the CPU: "Preemptive Round-Robin       *)
(* scheduler ... Switch happens during PIT IRQ ticks every time-slice".    *)
ShellKeepsRunning == [](phase = "run" => <>(s_current = 0))
==============================================================================
