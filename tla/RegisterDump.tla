----------------------------- MODULE RegisterDump -----------------------------
(***************************************************************************)
(* u64_to_hex of idt.cpp and the printing of its buffer, as isr_handler    *)
(* does it for every line of the register dump.  A value is the sequence   *)
(* of its 16 hexadecimal digits, least significant first.                  *)
(***************************************************************************)
EXTENDS Integers, Sequences, SequencesExt

CONSTANTS
  Values,         (* register contents: sequences of Digits numbers 0 .. 15 *)
  Garbage         (* what an unwritten byte of the stack may hold          *)

Digits == 16

hex == <<"0", "1", "2", "3", "4", "5", "6", "7", "8", "9", "A", "B", "C", "D",
         "E", "F">>

VARIABLES
  pc,             (* "digits", "print", "done"                             *)
  reg,            (* the register                                          *)
  val, i,         (* the value shifted so far, the loop variable           *)
  hex_buf,        (* 20 bytes                                              *)
  out             (* what print_serial has sent                            *)

vars == <<pc, reg, val, i, hex_buf, out>>

(* val >>= 4 *)
ShiftRight(v) == Tail(v) \o <<0>>

(* The first two characters are written; the rest of the buffer holds what *)
(* was on the stack, of which only bytes 16 and 17 stay.                   *)
Init ==
  /\ pc = "digits"
  /\ reg \in Values
  /\ val = reg
  /\ i = 15
  /\ \E a, b \in Garbage :
       hex_buf = [k \in 0 .. 19 |->
                    CASE k = 0 -> "0" [] k = 1 -> "x"
                      [] k = 16 -> a [] k = 17 -> b [] OTHER -> "NUL"]
  /\ out = <<>>

digit ==
  /\ pc = "digits"
  /\ IF i >= 2
     THEN /\ hex_buf' = [hex_buf EXCEPT ![i] = hex[val[1] + 1]]
          /\ val' = ShiftRight(val)
          /\ i' = i - 1
          /\ pc' = pc
     ELSE /\ hex_buf' = [hex_buf EXCEPT ![18] = "NUL"]
          /\ pc' = "print"
          /\ i' = 0
          /\ UNCHANGED val
  /\ UNCHANGED <<reg, out>>

print_serial ==
  /\ pc = "print"
  /\ IF hex_buf[i] = "NUL" THEN pc' = "done" /\ UNCHANGED <<i, out>>
     ELSE out' = Append(out, hex_buf[i]) /\ i' = i + 1 /\ pc' = pc
  /\ UNCHANGED <<reg, val, hex_buf>>

Next == digit \/ print_serial

Spec == Init /\ [][Next]_vars

-----------------------------------------------------------------------------

(* "Writes a 64-bit value as "0x0000000000000000\0"" (u64_to_hex): the     *)
(* line shows all 16 digits of the register, most significant first.       *)
AllDigitsShown ==
  pc = "done" =>
    out = <<"0", "x">> \o Reverse([k \in DOMAIN reg |-> hex[reg[k] + 1]])
==============================================================================
