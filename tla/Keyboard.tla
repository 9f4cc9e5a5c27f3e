------------------------------- MODULE Keyboard -------------------------------
(***************************************************************************)
(* The PS/2 keyboard driver of kernel/drivers/keyboard.cpp: the IRQ1       *)
(* handler that decodes scancodes into a ring buffer, and the task that    *)
(* takes characters out with keyboard_getchar.                             *)
(*                                                                         *)
(* The handler runs with interrupts off and is one step.  keyboard_getchar *)
(* can be interrupted between any two of its accesses to the shared        *)
(* variables, and before its hlt.  A character is its ASCII code.          *)
(***************************************************************************)
EXTENDS Integers, Sequences

CONSTANTS
  KB_BUFSIZE,    (* 256                                                    *)
  Keys           (* the keys that are pressed, by scancode; those that     *)
                 (* send it behind the prefix E0 have 128 added            *)

ASSUME KeyboardAssumption ==
  /\ KB_BUFSIZE \in Nat \ {0, 1}
  /\ Keys \subseteq 0 .. 255

VARIABLES
  kb_buf, kb_head, kb_tail, shift_held, caps_locked,
  rd,            (* where the reader is: see Reader                        *)
  c,             (* keyboard_getchar's local                               *)
  out,           (* what keyboard_getchar returned last                    *)
  down           (* the keys that are physically down                      *)

vars == <<kb_buf, kb_head, kb_tail, shift_held, caps_locked, rd, c, out, down>>

Index == 0 .. KB_BUFSIZE - 1

(* "call": elsewhere, about to call keyboard_getchar.  "test": at the      *)
(* while.  "halt": about to execute hlt.  "asleep": in it.  "read" and     *)
(* "advance": at the two statements after the loop.                        *)
Reader == {"call", "test", "halt", "asleep", "read", "advance"}

LShift == 42
RShift == 54
CapsLock == 58
LCtrl == 29
LAlt == 56
Prefix == 224

(* The driver does not remember a prefix: an extended key is the plain key *)
(* of the same code to it, and the prefix the release of one (code & 0x7F) *)
(* that does not exist.                                                    *)
Base(code) == code % 128

-----------------------------------------------------------------------------

ascii == <<
   0,   0,  49,  50,  51,  52,  53,  54,  55,  56,  57,  48,  45,  61,
   8,   9, 113, 119, 101, 114, 116, 121, 117, 105, 111, 112,  91,  93,
  10,   0,  97, 115, 100, 102, 103, 104, 106, 107, 108,  59,  39,  96,
   0,  92, 122, 120,  99, 118,  98, 110, 109,  44,  46,  47,   0,  42,
   0,  32,   0,   0,   0,   0,   0,   0,   0,   0,   0,   0,   0,   0,
   0,  55,  56,  57,  45,  52,  53,  54,  43,  49,  50,  51,  48,  46 >>

ascii_shift == <<
   0,   0,  33,  64,  35,  36,  37,  94,  38,  42,  40,  41,  95,  43,
   8,   9,  81,  87,  69,  82,  84,  89,  85,  73,  79,  80, 123, 125,
  10,   0,  65,  83,  68,  70,  71,  72,  74,  75,  76,  58,  34, 126,
   0, 124,  90,  88,  67,  86,  66,  78,  77,  60,  62,  63,   0,  42,
   0,  32,   0,   0,   0,   0,   0,   0,   0,   0,   0,   0,   0,   0,
   0,  55,  56,  57,  45,  52,  53,  54,  43,  49,  50,  51,  48,  46 >>

(* The tables of 128 entries; those after the keypad are 0. *)
sc_to_ascii == [sc \in 0 .. 127 |-> IF sc < Len(ascii) THEN ascii[sc + 1] ELSE 0]
sc_to_ascii_shift ==
  [sc \in 0 .. 127 |-> IF sc < Len(ascii_shift) THEN ascii_shift[sc + 1] ELSE 0]

Letters == 97 .. 122

(* The character of a key; Shift wins over Caps Lock. *)
Decode(sc) ==
  IF shift_held THEN sc_to_ascii_shift[sc]
  ELSE IF caps_locked /\ sc_to_ascii[sc] \in Letters THEN sc_to_ascii[sc] - 32
  ELSE sc_to_ascii[sc]

-----------------------------------------------------------------------------

Init ==
  /\ kb_buf = [n \in Index |-> 0]
  /\ kb_head = 0
  /\ kb_tail = 0
  /\ shift_held = FALSE
  /\ caps_locked = FALSE
  /\ rd = "call"
  /\ c = 0
  /\ out = 0
  /\ down = {}

Succ(n) == (n + 1) % KB_BUFSIZE

(* Mutant: The buffer is not tested for being full. *)
StoreAlways(ch) ==
  /\ kb_buf' = [kb_buf EXCEPT ![kb_head] = ch]
  /\ kb_head' = Succ(kb_head)

(* The character goes into the buffer, or is lost when that is full. *)
Store(ch) ==
  IF ch # 0 /\ Succ(kb_head) # kb_tail
  THEN /\ kb_buf' = [kb_buf EXCEPT ![kb_head] = ch]
       /\ kb_head' = Succ(kb_head)
  ELSE UNCHANGED <<kb_buf, kb_head>>

(* Mutant: The release of the right Shift key is not recognised. *)
released_left_only(sc) ==
  /\ shift_held' = IF sc = LShift THEN FALSE ELSE shift_held
  /\ UNCHANGED <<caps_locked, kb_buf, kb_head>>

(* A release code: only the Shift keys matter. *)
released(sc) ==
  /\ shift_held' = IF sc \in {LShift, RShift} THEN FALSE ELSE shift_held
  /\ UNCHANGED <<caps_locked, kb_buf, kb_head>>

(* A press code. *)
pressed(sc) ==
  /\ shift_held' = (shift_held \/ sc \in {LShift, RShift})
  /\ caps_locked' = IF sc = CapsLock THEN ~caps_locked ELSE caps_locked
  /\ IF sc \in {LShift, RShift, CapsLock, LCtrl, LAlt}
     THEN UNCHANGED <<kb_buf, kb_head>>
     ELSE Store(Decode(sc))

(* Any interrupt ends a hlt. *)
Wake == rd' = IF rd = "asleep" THEN "test" ELSE rd

(* IRQ1, for the code of a key going down (again: typematic) or up. *)
keyboard_irq_handler(k) ==
  /\ \/ down' = down \cup {k} /\ pressed(Base(k))
     \/ k \in down /\ down' = down \ {k} /\ released(Base(k))
  /\ Wake
  /\ UNCHANGED <<kb_tail, c, out>>

(* IRQ1, for the prefix of an extended key's code. *)
keyboard_irq_prefix ==
  /\ released(Base(Prefix))
  /\ Wake
  /\ UNCHANGED <<kb_tail, c, out, down>>

(* Mutant: The timer does not interrupt a sleeping reader. *)
timer_irq_masked == UNCHANGED vars

(* IRQ0 leaves the keyboard alone. *)
timer_irq ==
  /\ Wake
  /\ UNCHANGED <<kb_buf, kb_head, kb_tail, shift_held, caps_locked, c, out,
                 down>>

-----------------------------------------------------------------------------

keyboard_has_char == kb_head # kb_tail

Goto(from, to) == rd = from /\ rd' = to

driver == <<kb_buf, kb_head, shift_held, caps_locked, down>>

getchar_call ==
  /\ Goto("call", "test")
  /\ UNCHANGED <<driver, kb_tail, c, out>>

getchar_test ==
  /\ Goto("test", IF keyboard_has_char THEN "read" ELSE "halt")
  /\ UNCHANGED <<driver, kb_tail, c, out>>

getchar_halt ==
  /\ Goto("halt", "asleep")
  /\ UNCHANGED <<driver, kb_tail, c, out>>

getchar_read ==
  /\ Goto("read", "advance")
  /\ c' = kb_buf[kb_tail]
  /\ UNCHANGED <<driver, kb_tail, out>>

(* The slot is given back and the character returned. *)
getchar_advance ==
  /\ Goto("advance", "call")
  /\ kb_tail' = Succ(kb_tail)
  /\ out' = c
  /\ c' = 0
  /\ UNCHANGED driver

Next ==
  \/ \E k \in Keys : keyboard_irq_handler(k)
  \/ keyboard_irq_prefix
  \/ timer_irq
  \/ getchar_call
  \/ getchar_test
  \/ getchar_halt
  \/ getchar_read
  \/ getchar_advance

Spec == Init /\ [][Next]_vars

(* The reader's code runs when it is not asleep, and the PIT keeps ticking *)
(* at 100 Hz.  Nobody has to press a key.  This presumes a scheduler that  *)
(* comes back to the reader's task.                                        *)
FairSpec ==
  /\ Spec
  /\ WF_vars(timer_irq)
  /\ WF_vars(getchar_call) /\ WF_vars(getchar_test) /\ WF_vars(getchar_halt)
  /\ WF_vars(getchar_read) /\ WF_vars(getchar_advance)

-----------------------------------------------------------------------------

(* Every variable stays in the set of values its C++ type and use allow. *)
TypeOK ==
  /\ kb_buf \in [Index -> 0 .. 127]
  /\ kb_head \in Index
  /\ kb_tail \in Index
  /\ shift_held \in BOOLEAN
  /\ caps_locked \in BOOLEAN
  /\ rd \in Reader
  /\ c \in 0 .. 127
  /\ out \in 0 .. 127
  /\ down \subseteq Keys

(* The characters in the buffer, oldest first. *)
Waiting ==
  [n \in 1 .. (kb_head + KB_BUFSIZE - kb_tail) % KB_BUFSIZE |->
     kb_buf[(kb_tail + n - 1) % KB_BUFSIZE]]

Fifo == INSTANCE BoundedFifo WITH
          Item <- 0 .. 127, Capacity <- KB_BUFSIZE - 1, q <- Waiting

(* The ring buffer is a FIFO: whatever the handler does between the steps  *)
(* of keyboard_getchar, a character that was accepted is returned once, in *)
(* order, unchanged.                                                       *)
ImplementsFifo == Fifo!Spec

(* Shift does not stick: when no key is down that sends a Shift code,      *)
(* letters are lower case again, whichever went up last.  The two Shift    *)
(* keys do, and so do Print Screen and others, which put the extended code *)
(* of Shift round their own.                                               *)
ShiftNotStuck == shift_held => \E k \in down : Base(k) \in {LShift, RShift}

(* A character that is in the buffer is taken out, also when its interrupt *)
(* came between keyboard_getchar's test and its hlt.                       *)
KeyDelivered ==
  \A n \in Index : kb_tail = n /\ keyboard_has_char ~> kb_tail # n
==============================================================================
