------------------------------- MODULE MCTraps -------------------------------
(* TLC instance of Traps: three tasks on stacks of either alignment, two   *)
(* pieces of code each, an IDT of 36 entries, and addresses whose bytes    *)
(* all differ.                                                             *)
EXTENDS Traps

MCTop == [t \in Tasks |-> t % 2]
MCSchedUses == <<"rbp", "rbx">>

MCOthers == <<"irq_stub_0", "irq_stub_1", "kernel_tss", "kernel_stack_end">>

MCAddr ==
  [s \in ({"isr_stub"} \X (0 .. 31)) \cup (ToSet(MCOthers) \X {0}) |->
     <<IF s[1] = "isr_stub" THEN s[2] ELSE 31 + IndexOf(MCOthers, s[1]),
       81, 82, 83, 84, 85, 86, 87>>]
==============================================================================
