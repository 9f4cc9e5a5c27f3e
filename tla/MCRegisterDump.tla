---------------------------- MODULE MCRegisterDump ----------------------------
(* TLC instance of RegisterDump: zero, a small number and an address of    *)
(* the kernel's half of memory.                                            *)
EXTENDS RegisterDump

MCDigits(high, low) == [k \in 1 .. Digits |-> IF k <= 8 THEN low ELSE high]

MCValues == {MCDigits(0, 0), MCDigits(0, 7), MCDigits(15, 8)}
==============================================================================
