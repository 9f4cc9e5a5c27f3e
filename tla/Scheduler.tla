------------------------------ MODULE Scheduler ------------------------------
(***************************************************************************)
(* The task table and the round-robin scheduler of kernel/sched.           *)
(*                                                                         *)
(* One CPU; sched_tick runs inside the IRQ0 stub with interrupts off, and  *)
(* sched_init / sched_create_task run in _start before `sti', so each of   *)
(* them is one step.  A slot of s_tasks is split into one function per     *)
(* field the scheduler reads: state, stack_base (is a stack allocated?)    *)
(* and rsp (what kind of frame the saved stack pointer points at).  id is  *)
(* always the slot number and name is never read, so neither is kept.      *)
(***************************************************************************)
EXTENDS Integers

CONSTANTS
  MAX_TASKS,     (* slots of s_tasks (16 in scheduler.hpp)                 *)
  SCHED_SLICE,   (* ticks per time slice (2)                               *)
  TICK_WRAP      (* number of values of the uint32_t s_ticks (2^32)        *)

(* 2^32 is a multiple of SCHED_SLICE = 2. *)
ASSUME SchedAssumption ==
  /\ MAX_TASKS \in Nat \ {0}
  /\ SCHED_SLICE \in Nat \ {0}
  /\ TICK_WRAP \in Nat \ {0}
  /\ TICK_WRAP % SCHED_SLICE = 0

VARIABLES
  phase,         (* how far _start has come: "bss", "boot", "run"          *)
  state,         (* s_tasks[i].state                                       *)
  stack_base,    (* s_tasks[i].stack_base # nullptr                        *)
  rsp,           (* the frame s_tasks[i].rsp points at                     *)
  s_count,
  s_current,
  s_ticks,
  skipped,       (* history: dispatches of others since i became READY     *)
  ran            (* history: ticks the current task has had in its slice   *)

vars == <<phase, state, stack_base, rsp, s_count, s_current, s_ticks,
          skipped, ran>>

TaskState == {"READY", "RUNNING", "BLOCKED", "DEAD"}

(* "none": rsp is 0, nothing to return to.  "seeded": the hand-made frame  *)
(* of setup_initial_stack, whose return address is the entry function.     *)
(* "saved": the frame context_switch pushed when the task was preempted.   *)
Frame == {"none", "seeded", "saved"}

Slot == 0 .. MAX_TASKS - 1

(* The slots that sched_tick may look at. *)
Live == 0 .. s_count - 1

-----------------------------------------------------------------------------

(* A zeroed .bss: every state byte is 0, which is READY. *)
Init ==
  /\ phase = "bss"
  /\ state = [i \in Slot |-> "READY"]
  /\ stack_base = [i \in Slot |-> FALSE]
  /\ rsp = [i \in Slot |-> "none"]
  /\ s_count = 0
  /\ s_current = 0
  /\ s_ticks = 0
  /\ skipped = [i \in Slot |-> 0]
  /\ ran = 0

(* The boot context becomes task 0, on the stack the boot loader gave it. *)
sched_init ==
  /\ phase = "bss"
  /\ phase' = "boot"
  /\ state' = [state EXCEPT ![0] = "RUNNING"]
  /\ stack_base' = [stack_base EXCEPT ![0] = FALSE]
  /\ rsp' = [rsp EXCEPT ![0] = "none"]
  /\ s_count' = 1
  /\ s_current' = 0
  /\ UNCHANGED <<s_ticks, skipped, ran>>

(* `ok' is whether kmalloc found room; without a stack rsp is left alone. *)
setup_initial_stack(t, ok) ==
  /\ stack_base' = [stack_base EXCEPT ![t] = ok]
  /\ rsp' = [rsp EXCEPT ![t] = IF ok THEN "seeded" ELSE @]

(* Mutant: A failed kmalloc does not stop the slot from being counted. *)
CreateCountsFailure(ok) ==
  /\ phase = "boot"
  /\ s_count < MAX_TASKS
  /\ state' = [state EXCEPT ![s_count] = "READY"]
  /\ setup_initial_stack(s_count, ok)
  /\ s_count' = s_count + 1
  /\ UNCHANGED <<phase, s_current, s_ticks, skipped, ran>>

(* Mutant: The test for a full table is off by one. *)
CreatePastEnd(ok) ==
  /\ phase = "boot"
  /\ s_count <= MAX_TASKS
  /\ state' = [state EXCEPT ![s_count] = "READY"]
  /\ setup_initial_stack(s_count, ok)
  /\ s_count' = IF ok THEN s_count + 1 ELSE s_count
  /\ UNCHANGED <<phase, s_current, s_ticks, skipped, ran>>

(* With a full table the code returns 0xFFFFFFFF and changes nothing.  A   *)
(* failed kmalloc leaves a READY slot behind, just past s_count.           *)
sched_create_task(ok) ==
  /\ phase = "boot"
  /\ s_count < MAX_TASKS
  /\ state' = [state EXCEPT ![s_count] = "READY"]
  /\ setup_initial_stack(s_count, ok)
  /\ s_count' = IF ok THEN s_count + 1 ELSE s_count
  /\ UNCHANGED <<phase, s_current, s_ticks, skipped, ran>>

(* `sti' in _start: from here on IRQ0 may call sched_tick. *)
enable_interrupts ==
  /\ phase = "boot"
  /\ phase' = "run"
  /\ UNCHANGED <<state, stack_base, rsp, s_count, s_current, s_ticks,
                 skipped, ran>>

-----------------------------------------------------------------------------

NextTick == (s_ticks + 1) % TICK_WRAP

(* Mutant: A slice lasts one tick too long. *)
SliceOverLong(ticks) == ticks % (SCHED_SLICE + 1) = 0

SliceOver(ticks) == ticks % SCHED_SLICE = 0

(* Mutant: The search starts one slot too far. *)
ProbeTooFar(i) == (s_current + 2 + i) % s_count

(* The slot the search loop looks at in its i-th round. *)
Probe(i) == (s_current + 1 + i) % s_count

(* The search loop over the states st: it stops at the first READY slot;   *)
(* after s_count failures `next' is back where the search began.           *)
NextReady(st) ==
  LET hits == {i \in Live : st[Probe(i)] = "READY"}
  IN  IF hits = {} THEN Probe(s_count)
      ELSE Probe(CHOOSE i \in hits : \A j \in hits : i <= j)

(* Mutant: The search forgets that the outgoing task must become READY. *)
PreemptedNoMark == state

(* The current task, unless it has killed itself, is READY again. *)
Preempted ==
  IF state[s_current] = "RUNNING"
  THEN [state EXCEPT ![s_current] = "READY"]
  ELSE state

(* context_switch: the outgoing task's registers and return address go on  *)
(* its stack and rsp remembers them; the incoming task continues from its  *)
(* own rsp, which its table entry keeps.                                   *)
context_switch(prev) == rsp' = [rsp EXCEPT ![prev] = "saved"]

(* The end of a slice with more than one task. *)
reschedule ==
  LET next == NextReady(Preempted)
  IN  /\ state' = [Preempted EXCEPT ![next] = "RUNNING"]
      /\ s_current' = next
      /\ IF next = s_current THEN UNCHANGED rsp
                             ELSE context_switch(s_current)
      /\ skipped' = [i \in Slot |->
                       IF i \in Live /\ i # next /\ i # s_current
                       THEN skipped[i] + 1 ELSE 0]
      /\ ran' = 0

sched_tick ==
  /\ phase = "run"
  /\ s_ticks' = NextTick
  /\ IF SliceOver(NextTick) /\ s_count > 1
     THEN reschedule
     ELSE /\ UNCHANGED <<state, rsp, s_current, skipped>>
          /\ ran' = IF s_count > 1 THEN ran + 1 ELSE 0
  /\ UNCHANGED <<phase, stack_base, s_count>>

Next ==
  \/ sched_init
  \/ \E ok \in BOOLEAN : sched_create_task(ok)
  \/ enable_interrupts
  \/ sched_tick

Spec == Init /\ [][Next]_vars

-----------------------------------------------------------------------------

(* Every variable stays in the set of values its C++ type and use allow. *)
TypeOK ==
  /\ phase \in {"bss", "boot", "run"}
  /\ state \in [Slot -> TaskState]
  /\ stack_base \in [Slot -> BOOLEAN]
  /\ rsp \in [Slot -> Frame]
  /\ s_count \in 0 .. MAX_TASKS
  /\ s_current \in Slot
  /\ s_ticks \in 0 .. TICK_WRAP - 1
  /\ skipped \in [Slot -> Nat]
  /\ ran \in Nat

(* Once sched_init has run, s_current names the one RUNNING task and every *)
(* other live task is READY: sched_tick never leaves two tasks marked      *)
(* RUNNING nor loses one to a state it never searches for.                 *)
OneRunning ==
  phase # "bss" =>
    /\ s_current \in Live
    /\ \A i \in Live : state[i] = IF i = s_current THEN "RUNNING" ELSE "READY"

(* context_switch never loads an rsp that points nowhere: each live task   *)
(* that is not running has a frame on a stack, which is the boot stack for *)
(* task 0 and an allocated one for the others, also when an earlier        *)
(* sched_create_task ran out of heap and left its slot half filled.        *)
SwitchTargetValid ==
  \A i \in Live :
    /\ i # s_current => rsp[i] # "none"
    /\ i # 0 => stack_base[i]

(* Round robin: while a task waits, sched_tick dispatches each other task  *)
(* at most once, so a READY task is passed over at most s_count - 2 times. *)
BoundedWait ==
  \A i \in Live : i # s_current => skipped[i] <= s_count - 2

(* With more than one task, sched_tick switches exactly when the current   *)
(* task has used SCHED_SLICE ticks, never earlier and never later, also    *)
(* when the 32-bit s_ticks wraps round.                                    *)
SliceExact ==
  [][(phase = "run" /\ s_count > 1) =>
        (s_current' # s_current <=> ran = SCHED_SLICE - 1)]_vars
==============================================================================
