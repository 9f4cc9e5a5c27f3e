------------------------------- MODULE TaskCpus -------------------------------
(***************************************************************************)
(* What preemption promises: every task has a CPU of its own.  Its         *)
(* registers, instruction pointer, interrupt flag and stack change only    *)
(* when its own code takes a step, whatever interrupts and other tasks do. *)
(*                                                                         *)
(* The e-th piece of a task's code leaves a value of its own in every      *)
(* register, so that a register restored from the wrong place shows.       *)
(***************************************************************************)
EXTENDS Integers

CONSTANTS
  Tasks,
  Regs,          (* general registers but rsp                              *)
  CalleeSaved,   (* the ones setup_initial_stack gives a value to          *)
  Epochs         (* the pieces of code, 0 .. Epochs - 1, run in a circle   *)

VARIABLE cpu

(* Tagged values, all of one shape. *)
Val(t, name, e) == <<t, name, e>>
Zero == <<-1, "zero", 0>>
Junk == <<-1, "junk", 0>>

New == [on |-> FALSE]

State(regs, rip, if, own) ==
  [on |-> TRUE, regs |-> regs, rip |-> rip, if |-> if, own |-> own]

RegsOf(t, e) == [r \in Regs |-> Val(t, r, e)]

(* Up to one word of its own on the stack. *)
OwnOf(t, e) == {<<>>, <<Val(t, "local", e)>>}

(* Task 0 is the boot context, after sti. *)
Init ==
  cpu = [t \in Tasks |->
           IF t = 0 THEN State(RegsOf(0, 0), Val(0, "rip", 0), TRUE, <<>>)
                    ELSE New]

(* A task's first piece of code starts on an empty stack with interrupts   *)
(* off; caller-saved registers hold whatever was in them.                  *)
Start(t) ==
  /\ cpu[t] = New
  /\ cpu' = [cpu EXCEPT ![t] =
       State([r \in Regs |-> IF r \in CalleeSaved THEN Zero ELSE Junk],
             Val(t, "rip", 0), FALSE, <<>>)]

Step(t) ==
  /\ cpu[t].on
  /\ LET e == (cpu[t].rip[3] + 1) % Epochs
     IN  \E own \in OwnOf(t, e), if \in BOOLEAN :
           cpu' = [cpu EXCEPT ![t] =
                     State(RegsOf(t, e), Val(t, "rip", e), if, own)]

Next == \E t \in Tasks : Start(t) \/ Step(t)

Spec == Init /\ [][Next]_cpu
==============================================================================
