-------------------------------- MODULE MCShell --------------------------------
(* TLC instances of Shell.                                                 *)
EXTENDS Shell

(* Words of up to three letters stand for the commands. *)
MCWord ==
  [help    |-> <<"a", "a">>,      clear  |-> <<"a", "b">>,
   ls      |-> <<"b", "a">>,      panic  |-> <<"b", "b">>,
   meminfo |-> <<"a", "a", "a">>, ticks  |-> <<"a", "a", "b">>,
   tasks   |-> <<"a", "b", "a">>, reboot |-> <<"a", "b", "b">>,
   cat     |-> <<"b", " ">>,      echo   |-> <<"a", " ">>]

(* A file that ends in a new line and one that does not. *)
MCBuiltIn ==
  << [name |-> <<"a">>, data |-> <<"t">>],
     [name |-> <<"b">>, data |-> <<"t", "NL">>] >>

(* What a row of decimal digits stands for. *)
MCNumber(s) ==
  FoldLeft(LAMBDA n, d : (10 * n) + (CHOOSE k \in DOMAIN Digit : Digit[k] = d) - 1,
           0, s)

(* print_u64_dec prints the number, without leading zeros. *)
ASSUME MCDecimal ==
  \A v \in 0 .. 1200 :
    LET s == print_u64_dec(v)
    IN  MCNumber(s) = v /\ (Head(s) = Digit[1] => v = 0)
==============================================================================
