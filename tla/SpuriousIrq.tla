----------------------------- MODULE SpuriousIrq -----------------------------
(***************************************************************************)
(* Preempt on hardware whose master 8259 can raise a spurious interrupt:   *)
(* when a request goes away before the CPU acknowledges it, the PIC        *)
(* answers with line 7 (vector 39), masked or not.                         *)
(***************************************************************************)
EXTENDS Preempt

SpuriousLine == 7

(* The vector has no gate, so the CPU faults and isr_handler panics. *)
spurious_irq ==
  /\ if_flag
  /\ Vector(SpuriousLine) \notin idt
  /\ hlt' = FALSE
  /\ kernel_panic("exception")
  /\ UNCHANGED <<sched, boot, imr, irr, isr, idt, pit_ticks, heap>>

SpuriousSpec == Init /\ [][Next \/ spurious_irq]_vars

(* Leaving the unused vectors zeroed "ensures unused vectors are marked    *)
(* not-present and won't cause spurious faults" (idt_init).                *)
NoSpuriousFault == panicked # "exception"
=============================================================================
