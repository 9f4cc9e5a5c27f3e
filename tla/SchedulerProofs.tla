--------------------------- MODULE SchedulerProofs ---------------------------
(***************************************************************************)
(* Proofs, for any number of slots, any slice and any tick width, of what  *)
(* TLC checks of Scheduler on one instance.                                *)
(***************************************************************************)
EXTENDS Scheduler, NumberLemmas, TLAPS

(* Before sti nothing has ticked and the boot context is the current task. *)
Booting ==
  phase # "run" =>
    /\ s_current = 0
    /\ s_ticks = 0
    /\ ran = 0
    /\ skipped = [i \in Slot |-> 0]

Counted == IF phase = "bss" THEN s_count = 0 ELSE s_count >= 1

(* How many switches away slot i is, going round from the current task. *)
Distance(i) == IF i > s_current THEN i - s_current ELSE i - s_current + s_count

(* Each switch that passes a waiting task over brings it one slot nearer. *)
NearerEachTime ==
  \A i \in Live : i # s_current => skipped[i] + Distance(i) <= s_count - 1

(* The history variable ran agrees with what the code looks at, s_ticks. *)
SliceInPhase ==
  phase = "run" /\ s_count > 1 => ran = s_ticks % SCHED_SLICE

IInv ==
  /\ TypeOK
  /\ Counted
  /\ Booting
  /\ OneRunning
  /\ SwitchTargetValid
  /\ NearerEachTime
  /\ SliceInPhase

-----------------------------------------------------------------------------

(* The search of sched_tick stops at its first probe, the next slot of the *)
(* ring, because every other task is READY.                                *)
LEMMA NextReadyIsSuccessor ==
  ASSUME TypeOK, Counted, OneRunning, phase = "run", s_count > 1
  PROVE  /\ Preempted = [state EXCEPT ![s_current] = "READY"]
         /\ NextReady(Preempted) =
              IF s_current + 1 = s_count THEN 0 ELSE s_current + 1
<1> DEFINE next == IF s_current + 1 = s_count THEN 0 ELSE s_current + 1
           hits == {i \in Live : Preempted[Probe(i)] = "READY"}
<1>1. s_count \in Nat \ {0} /\ s_current \in 0 .. s_count - 1
  BY SchedAssumption DEF TypeOK, Counted, OneRunning, Live
<1>2. Probe(0) = next
  <2>1. s_current + 1 + 0 = s_current + 1
    BY <1>1
  <2> QED BY <1>1, <2>1, RingSucc DEF Probe
<1>3. next \in Live /\ next # s_current /\ Live \subseteq Slot
  BY <1>1, SchedAssumption DEF Live, TypeOK, Slot
<1>4. Preempted = [state EXCEPT ![s_current] = "READY"]
  BY <1>1 DEF OneRunning, Preempted, Live
<1>5. Preempted[next] = "READY"
  BY <1>3, <1>4 DEF OneRunning, TypeOK
<1> HIDE DEF next
<1>6. 0 \in hits
  BY <1>1, <1>2, <1>5 DEF Live
<1>7. \A j \in hits : 0 <= j
  BY <1>1 DEF Live
<1>8. (CHOOSE i \in hits : \A j \in hits : i <= j) = 0
  <2>1. PICK k \in hits : k = (CHOOSE i \in hits : \A j \in hits : i <= j)
                          /\ \A j \in hits : k <= j
    BY <1>6, <1>7
  <2>2. k \in Nat /\ k <= 0
    BY <1>1, <1>6, <2>1 DEF Live
  <2> QED BY <2>1, <2>2
<1>9. NextReady(Preempted) = Probe(0)
  BY <1>6, <1>8 DEF NextReady
<1> QED BY <1>2, <1>4, <1>9 DEF next

(* The slice test sees every SCHED_SLICE-th tick, also across a wrap. *)
LEMMA NextTickPhase ==
  ASSUME TypeOK
  PROVE  /\ NextTick \in 0 .. TICK_WRAP - 1
         /\ NextTick % SCHED_SLICE =
              IF s_ticks % SCHED_SLICE = SCHED_SLICE - 1
              THEN 0 ELSE (s_ticks % SCHED_SLICE) + 1
<1>1. s_ticks \in 0 .. TICK_WRAP - 1
  BY DEF TypeOK
<1>2. NextTick = IF s_ticks + 1 = TICK_WRAP THEN 0 ELSE s_ticks + 1
  BY <1>1, SchedAssumption, RingSucc DEF NextTick
<1>3. (s_ticks + 1) % SCHED_SLICE =
        IF s_ticks % SCHED_SLICE = SCHED_SLICE - 1
        THEN 0 ELSE (s_ticks % SCHED_SLICE) + 1
  <2>1. s_ticks \in Nat /\ SCHED_SLICE \in Nat \ {0}
    BY <1>1, SchedAssumption
  <2> QED BY <2>1, ModSucc, Zenon
<1>4. NextTick % SCHED_SLICE = (s_ticks + 1) % SCHED_SLICE
  <2>1. CASE s_ticks + 1 = TICK_WRAP
    <3>1. 0 % SCHED_SLICE = 0
      BY SchedAssumption, ModSmall
    <3> QED BY <1>2, <2>1, <3>1, SchedAssumption
  <2>2. CASE s_ticks + 1 # TICK_WRAP
    BY <1>2, <2>2
  <2> QED BY <2>1, <2>2
<1>5. NextTick \in 0 .. TICK_WRAP - 1
  BY <1>1, <1>2, SchedAssumption
<1> QED BY <1>3, <1>4, <1>5

-----------------------------------------------------------------------------

(* The zeroed .bss satisfies the invariant. *)
LEMMA InitEstablishes == Init => IInv
<1> SUFFICES ASSUME Init PROVE IInv
  OBVIOUS
<1>1. TypeOK
  BY SchedAssumption DEF Init, TypeOK, TaskState, Frame, Slot
<1>2. Counted /\ Booting /\ OneRunning /\ SliceInPhase
  BY DEF Init, Counted, Booting, OneRunning, SliceInPhase
<1>3. Live = {}
  BY DEF Init, Live
<1>4. SwitchTargetValid /\ NearerEachTime
  BY <1>3 DEF SwitchTargetValid, NearerEachTime
<1> QED BY <1>1, <1>2, <1>4 DEF IInv

(* sched_init makes slot 0 the only live one, and RUNNING. *)
LEMMA SchedInitPreserves == IInv /\ sched_init => IInv'
<1> SUFFICES ASSUME IInv, sched_init PROVE IInv'
  OBVIOUS
<1> USE SchedAssumption DEF IInv, sched_init
<1>1. TypeOK'
  BY DEF TypeOK, TaskState, Frame, Slot
<1>2. Counted' /\ SliceInPhase'
  BY DEF Counted, SliceInPhase
<1>3. Booting'
  BY DEF Booting, Slot
<1>4. Live' = {0}
  BY DEF Live
<1>5. OneRunning'
  BY <1>4 DEF OneRunning, TypeOK, Slot
<1>6. SwitchTargetValid' /\ NearerEachTime'
  BY <1>4 DEF SwitchTargetValid, NearerEachTime
<1> QED BY <1>1, <1>2, <1>3, <1>5, <1>6

(* A failed kmalloc leaves its half-filled slot outside Live; a good one   *)
(* adds a READY slot with a seeded stack at its end.                       *)
LEMMA CreatePreserves ==
  ASSUME NEW ok \in BOOLEAN
  PROVE  IInv /\ sched_create_task(ok) => IInv'
<1> SUFFICES ASSUME IInv, sched_create_task(ok) PROVE IInv'
  OBVIOUS
<1> USE SchedAssumption DEF IInv, sched_create_task, setup_initial_stack
<1>1. TypeOK'
  BY DEF TypeOK, TaskState, Frame, Slot
<1>2. Counted' /\ SliceInPhase'
  BY DEF Counted, SliceInPhase, TypeOK
<1>3. Booting'
  BY DEF Booting, Slot
<1>4. s_current = 0 /\ s_count \in Nat \ {0} /\ s_count < MAX_TASKS
  BY DEF Booting, Counted, TypeOK
<1>5. OneRunning'
  BY <1>4 DEF OneRunning, TypeOK, Slot, Live
<1>6. SwitchTargetValid'
  BY <1>4 DEF SwitchTargetValid, TypeOK, Slot, Live
<1>7. NearerEachTime'
  BY <1>1, <1>3, <1>4 DEF NearerEachTime, Booting, Distance, Slot, Live, TypeOK
<1> QED BY <1>1, <1>2, <1>3, <1>5, <1>6, <1>7

(* sti changes nothing the scheduler looks at. *)
LEMMA EnablePreserves == IInv /\ enable_interrupts => IInv'
<1> SUFFICES ASSUME IInv, enable_interrupts PROVE IInv'
  OBVIOUS
<1> USE SchedAssumption DEF IInv, enable_interrupts
<1>1. TypeOK' /\ Counted' /\ Booting'
  BY DEF TypeOK, Counted, Booting
<1>2. OneRunning' /\ SwitchTargetValid' /\ NearerEachTime'
  BY DEF OneRunning, SwitchTargetValid, NearerEachTime, Distance, Live
<1>3. SliceInPhase'
  <2>1. 0 % SCHED_SLICE = 0
    BY ModSmall
  <2> QED BY <2>1 DEF SliceInPhase, Booting
<1> QED BY <1>1, <1>2, <1>3

(* A tick inside a slice, or with a single task. *)
LEMMA QuietTickPreserves ==
  IInv /\ sched_tick /\ ~(SliceOver(NextTick) /\ s_count > 1) => IInv'
<1> SUFFICES ASSUME IInv, sched_tick, ~(SliceOver(NextTick) /\ s_count > 1)
             PROVE  IInv'
  OBVIOUS
<1> USE DEF IInv
<1>1. /\ phase = "run" /\ s_ticks' = NextTick
      /\ UNCHANGED <<phase, state, stack_base, rsp, s_count, s_current, skipped>>
      /\ ran' = IF s_count > 1 THEN ran + 1 ELSE 0
  BY DEF sched_tick
<1>2. TypeOK'
  BY <1>1, NextTickPhase DEF TypeOK
<1>3. Counted' /\ Booting' /\ OneRunning' /\ SwitchTargetValid'
        /\ NearerEachTime'
  BY <1>1 DEF Counted, Booting, OneRunning, SwitchTargetValid, NearerEachTime,
              Distance, Live
<1>4. SliceInPhase'
  <2>1. CASE s_count > 1
    <3>1. ran = s_ticks % SCHED_SLICE
      BY <1>1, <2>1 DEF SliceInPhase
    <3>2. NextTick % SCHED_SLICE # 0
      BY <2>1 DEF SliceOver
    <3> QED BY <1>1, <2>1, <3>1, <3>2, NextTickPhase DEF SliceInPhase
  <2>2. CASE ~(s_count > 1)
    BY <1>1, <2>2 DEF SliceInPhase
  <2> QED BY <2>1, <2>2
<1> QED BY <1>2, <1>3, <1>4

(* What the end of a slice does, written out. *)
LEMMA SwitchStep ==
  ASSUME IInv, sched_tick, SliceOver(NextTick), s_count > 1
  PROVE  LET next == IF s_current + 1 = s_count THEN 0 ELSE s_current + 1
         IN  /\ phase = "run" /\ next \in Live /\ next # s_current
             /\ s_ticks' = NextTick
             /\ s_current' = next
             /\ state' = [[state EXCEPT ![s_current] = "READY"]
                             EXCEPT ![next] = "RUNNING"]
             /\ rsp' = [rsp EXCEPT ![s_current] = "saved"]
             /\ skipped' = [i \in Slot |->
                               IF i \in Live /\ i # next /\ i # s_current
                               THEN skipped[i] + 1 ELSE 0]
             /\ ran' = 0
             /\ UNCHANGED <<phase, stack_base, s_count>>
<1> DEFINE next == IF s_current + 1 = s_count THEN 0 ELSE s_current + 1
<1>1. phase = "run" /\ reschedule /\ s_ticks' = NextTick
        /\ UNCHANGED <<phase, stack_base, s_count>>
  BY DEF sched_tick
<1>2. s_count \in Nat /\ s_current \in 0 .. s_count - 1
  BY <1>1, SchedAssumption DEF IInv, TypeOK, OneRunning, Live
<1>3. next \in Live /\ next # s_current
  BY <1>2 DEF Live
<1>4. Preempted = [state EXCEPT ![s_current] = "READY"]
        /\ NextReady(Preempted) = next
  BY <1>1, NextReadyIsSuccessor DEF IInv
<1> HIDE DEF next
<1>5. /\ s_current' = next
      /\ state' = [[state EXCEPT ![s_current] = "READY"] EXCEPT ![next] = "RUNNING"]
      /\ rsp' = [rsp EXCEPT ![s_current] = "saved"]
      /\ skipped' = [i \in Slot |->
                        IF i \in Live /\ i # next /\ i # s_current
                        THEN skipped[i] + 1 ELSE 0]
      /\ ran' = 0
  BY <1>1, <1>3, <1>4 DEF reschedule, context_switch
<1> QED BY <1>1, <1>3, <1>5 DEF next

(* The end of a slice: the next slot of the ring takes over, and whoever   *)
(* still waits is one slot nearer.                                         *)
LEMMA SwitchPreserves ==
  IInv /\ sched_tick /\ SliceOver(NextTick) /\ s_count > 1 => IInv'
<1> SUFFICES ASSUME IInv, sched_tick, SliceOver(NextTick), s_count > 1
             PROVE  IInv'
  OBVIOUS
<1> DEFINE next == IF s_current + 1 = s_count THEN 0 ELSE s_current + 1
<1>1. /\ phase = "run" /\ next \in Live /\ next # s_current
      /\ s_ticks' = NextTick /\ s_current' = next
      /\ state' = [[state EXCEPT ![s_current] = "READY"] EXCEPT ![next] = "RUNNING"]
      /\ rsp' = [rsp EXCEPT ![s_current] = "saved"]
      /\ skipped' = [i \in Slot |->
                        IF i \in Live /\ i # next /\ i # s_current
                        THEN skipped[i] + 1 ELSE 0]
      /\ ran' = 0
      /\ UNCHANGED <<phase, stack_base, s_count>>
  BY SwitchStep
<1>2. /\ s_count \in Nat /\ s_current \in 0 .. s_count - 1
      /\ Live \subseteq Slot /\ Live' = Live /\ TypeOK
  BY <1>1, SchedAssumption DEF IInv, TypeOK, OneRunning, Live, Slot
<1>3. TypeOK'
  <2> HIDE DEF next
  <2>1. s_ticks' \in 0 .. TICK_WRAP - 1
    BY <1>1, <1>2, NextTickPhase
  <2>2. skipped' \in [Slot -> Nat]
    BY <1>1, <1>2 DEF TypeOK
  <2> QED BY <1>1, <1>2, <2>1, <2>2 DEF TypeOK, TaskState, Frame
<1>4. Counted' /\ Booting'
  BY <1>1 DEF IInv, Counted, Booting
<1>5. OneRunning'
  <2> HIDE DEF next
  <2> QED BY <1>1, <1>2 DEF IInv, OneRunning, TypeOK
<1>6. SwitchTargetValid'
  <2> HIDE DEF next
  <2> QED BY <1>1, <1>2 DEF IInv, SwitchTargetValid, TypeOK
<1>7. NearerEachTime'
  <2> SUFFICES ASSUME NEW i \in Live, i # next
               PROVE  skipped'[i] + Distance(i)' <= s_count - 1
    BY <1>1, <1>2 DEF NearerEachTime
  <2>1. i \in Slot /\ i \in Nat /\ i < s_count
    BY <1>2 DEF Live
  <2>2. Distance(i)' = IF i > next THEN i - next ELSE i - next + s_count
    BY <1>1 DEF Distance
  <2>3. CASE i = s_current
    <3>1. skipped'[i] = 0
      BY <1>1, <2>1, <2>3
    <3> QED BY <1>2, <2>1, <2>2, <2>3, <3>1
  <2>4. CASE i # s_current
    <3>1. skipped'[i] = skipped[i] + 1
      BY <1>1, <2>1, <2>4
    <3>2. skipped[i] + Distance(i) <= s_count - 1 /\ skipped[i] \in Nat
      BY <2>1, <2>4, <1>2 DEF IInv, NearerEachTime, TypeOK
    <3>3. Distance(i)' = Distance(i) - 1 /\ Distance(i) \in Int
      BY <1>2, <2>1, <2>2, <2>4 DEF Distance
    <3> QED BY <1>2, <3>1, <3>2, <3>3
  <2> QED BY <2>3, <2>4
<1>8. SliceInPhase'
  BY <1>1 DEF SliceInPhase, SliceOver
<1> QED BY <1>3, <1>4, <1>5, <1>6, <1>7, <1>8 DEF IInv

(* The invariant is inductive. *)
LEMMA Inductive == IInv /\ [Next]_vars => IInv'
<1> SUFFICES ASSUME IInv, [Next]_vars PROVE IInv'
  OBVIOUS
<1>1. CASE sched_init
  BY <1>1, SchedInitPreserves
<1>2. CASE \E ok \in BOOLEAN : sched_create_task(ok)
  BY <1>2, CreatePreserves
<1>3. CASE enable_interrupts
  BY <1>3, EnablePreserves
<1>4. CASE sched_tick
  BY <1>4, QuietTickPreserves, SwitchPreserves
<1>5. CASE UNCHANGED vars
  BY <1>5 DEF vars, IInv, TypeOK, Counted, Booting, OneRunning,
              SwitchTargetValid, NearerEachTime, SliceInPhase, Distance, Live
<1> QED BY <1>1, <1>2, <1>3, <1>4, <1>5 DEF Next

(* Every reachable state satisfies the invariant. *)
THEOREM Invariance == Spec => []IInv
  BY InitEstablishes, Inductive, PTL DEF Spec

-----------------------------------------------------------------------------

(* Type correctness of the task table and the scheduler's counters. *)
THEOREM TypeCorrect == Spec => []TypeOK
<1>1. IInv => TypeOK
  BY DEF IInv
<1> QED BY <1>1, Invariance, PTL

(* s_current always names the one RUNNING task and all others are READY:   *)
(* sched_tick neither duplicates nor loses a task.                         *)
THEOREM OneRunningTask == Spec => []OneRunning
<1>1. IInv => OneRunning
  BY DEF IInv
<1> QED BY <1>1, Invariance, PTL

(* context_switch is never given a stack pointer that points nowhere.      *)
THEOREM SwitchesAreValid == Spec => []SwitchTargetValid
<1>1. IInv => SwitchTargetValid
  BY DEF IInv
<1> QED BY <1>1, Invariance, PTL

(* Round robin is fair for every number of tasks: a waiting task is passed *)
(* over at most s_count - 2 times.                                         *)
THEOREM WaitIsBounded == Spec => []BoundedWait
<1>1. IInv => BoundedWait
  <2> SUFFICES ASSUME IInv, NEW i \in Live, i # s_current
               PROVE  skipped[i] <= s_count - 2
    BY DEF BoundedWait
  <2>1. i \in Slot /\ i \in Nat /\ i < s_count /\ s_count \in Nat
    BY SchedAssumption DEF IInv, TypeOK, Live, Slot
  <2>2. s_current \in 0 .. s_count - 1
    BY <2>1 DEF IInv, OneRunning, Counted, Live
  <2>3. Distance(i) \in Int /\ Distance(i) >= 1
    BY <2>1, <2>2 DEF Distance
  <2>4. skipped[i] + Distance(i) <= s_count - 1 /\ skipped[i] \in Nat
    BY <2>1 DEF IInv, NearerEachTime, TypeOK
  <2> QED BY <2>1, <2>3, <2>4
<1> QED BY <1>1, Invariance, PTL

(* A switch happens exactly on the last tick of a slice, for every slice   *)
(* length and every counter width it divides.                              *)
THEOREM SlicesAreExact == Spec => SliceExact
<1>1. ASSUME IInv, [Next]_vars
      PROVE  [(phase = "run" /\ s_count > 1) =>
                (s_current' # s_current <=> ran = SCHED_SLICE - 1)]_vars
  <2> SUFFICES ASSUME Next, phase = "run", s_count > 1
               PROVE  s_current' # s_current <=> ran = SCHED_SLICE - 1
    BY <1>1
  <2>1. sched_tick
    BY DEF Next, sched_init, sched_create_task, enable_interrupts
  <2>2. ran = s_ticks % SCHED_SLICE
    BY <1>1 DEF IInv, SliceInPhase
  <2>3. SliceOver(NextTick) <=> ran = SCHED_SLICE - 1
    <3>1. ran \in Nat /\ TypeOK
      BY <1>1 DEF IInv, TypeOK
    <3> QED BY <2>2, <3>1, NextTickPhase, SchedAssumption DEF SliceOver
  <2>4. CASE SliceOver(NextTick)
    BY <1>1, <2>1, <2>3, <2>4, SwitchStep
  <2>5. CASE ~SliceOver(NextTick)
    BY <2>1, <2>3, <2>5 DEF sched_tick
  <2> QED BY <2>4, <2>5
<1> QED BY <1>1, Invariance, PTL DEF Spec, SliceExact
==============================================================================
