-------------------------------- MODULE Traps --------------------------------
(***************************************************************************)
(* Descriptors and ContextSwitch together: _start builds the tables, then  *)
(* interrupts and exceptions reach the stubs through the gates the CPU     *)
(* finds there.                                                            *)
(***************************************************************************)
EXTENDS ContextSwitch

CONSTANTS Addr, VECTORS,
  Raised         (* the exceptions raised                                  *)

VARIABLES boot, kernel_tss, full_gdt, gdtr, seg, tr, idt, idtr

D == INSTANCE Descriptors

ASSUME TrapAssumption ==
  /\ Raised \subseteq D!Exceptions \ {29}
  /\ D!ConstantsOK

tables == <<boot, kernel_tss, full_gdt, gdtr, seg, tr, idt, idtr>>

TrapInit == D!Init /\ Init

(* gdt_init and idt_init.  The tasks are created between them and sti;     *)
(* their stacks and the registers are shown as they are then.              *)
Boot == D!Next /\ UNCHANGED vars

(* The CPU may raise exceptions, and takes interrupts when IF is set. *)
Trap ==
  /\ boot = "done"
  /\ \/ \E v \in {32, 33} : interrupt(v, D!Handler(v))
     \/ \E v \in Raised : exception(v, D!Handler(v))
  /\ UNCHANGED tables

Run == boot = "done" /\ Next /\ UNCHANGED tables

TrapNext == Boot \/ Trap \/ Run

Spec == TrapInit /\ [][TrapNext]_<<vars, tables>>

-----------------------------------------------------------------------------

(* Every variable keeps its type, and no stack grows with the number of    *)
(* interrupts and switches.                                                *)
TrapTypeOK == D!TypeOK /\ TypeOK

(* gdt_init loads selectors of valid descriptors, and every register and   *)
(* the TSS are then what the kernel's own table says.                      *)
SegmentsValid == D!SegmentsValid

(* Every exception and both lines reach the stub written for them: gates   *)
(* are filled field by field from a table kept by hand, and the CPU reads  *)
(* them back through the kernel's code segment.  It never shuts down for   *)
(* want of a handler.                                                      *)
EveryTrapHandled ==
  /\ pc # "shutdown"
  /\ boot = "done" =>
       /\ \A v \in D!Exceptions : D!Handler(v) = <<"isr_stub", v>>
       /\ D!Handler(32) = <<"irq_stub_0", 0>>
       /\ D!Handler(33) = <<"irq_stub_1", 0>>
==============================================================================
