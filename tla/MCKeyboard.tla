------------------------------ MODULE MCKeyboard ------------------------------
(* TLC instances of Keyboard.  Scancodes: 42 and 54 Shift, 58 Caps Lock,   *)
(* 30 the letter A, 170 (E0 2A) the Shift code Print Screen sends.         *)
EXTENDS Keyboard
==============================================================================
