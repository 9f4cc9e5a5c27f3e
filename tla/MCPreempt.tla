------------------------------ MODULE MCPreempt ------------------------------
(* TLC instances of Preempt.  Lines has the PIT, the keyboard and one      *)
(* device (COM1 on line 4) that no driver ever enables.                    *)
EXTENDS Preempt
=============================================================================
