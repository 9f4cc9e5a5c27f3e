------------------------------- MODULE MCConsole -------------------------------
(* TLC instances of Console.                                               *)
EXTENDS Console
==============================================================================
