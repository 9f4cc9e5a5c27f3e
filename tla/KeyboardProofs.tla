---------------------------- MODULE KeyboardProofs ----------------------------
(***************************************************************************)
(* Proofs, for a ring of any size and any set of keys, that the keyboard   *)
(* driver keeps its types, never leaves Shift stuck, and that its ring     *)
(* buffer is a bounded FIFO.                                               *)
(***************************************************************************)
EXTENDS Keyboard, NumberLemmas, SequenceTheorems

(* Once keyboard_getchar has left its loop the character is there, and the *)
(* handler cannot take it away: it only ever writes at kb_head.            *)
ReaderCommitted ==
  /\ rd \in {"read", "advance"} => keyboard_has_char
  /\ rd = "advance" => c = kb_buf[kb_tail]

IInv ==
  /\ TypeOK
  /\ ShiftNotStuck
  /\ ReaderCommitted

-----------------------------------------------------------------------------
(* The tables and the ring.                                                *)

(* Every key's character is an ASCII code, with Shift, Caps Lock or none.  *)
LEMMA DecodeType ==
  ASSUME NEW sc \in 0 .. 127
  PROVE  Decode(sc) \in 0 .. 127
<1>1. Len(ascii) = 84 /\ Len(ascii_shift) = 84
  BY DEF ascii, ascii_shift
<1>2. \A n \in 1 .. 84 : ascii[n] \in 0 .. 127
  BY DEF ascii
<1>3. \A n \in 1 .. 84 : ascii_shift[n] \in 0 .. 127
  BY DEF ascii_shift
<1>4. sc < 84 => sc + 1 \in 1 .. 84
  OBVIOUS
<1>5. sc_to_ascii[sc] = IF sc < 84 THEN ascii[sc + 1] ELSE 0
  BY <1>1, Zenon DEF sc_to_ascii
<1>6. sc_to_ascii_shift[sc] = IF sc < 84 THEN ascii_shift[sc + 1] ELSE 0
  BY <1>1, Zenon DEF sc_to_ascii_shift
<1>7. sc_to_ascii[sc] \in 0 .. 127 /\ sc_to_ascii_shift[sc] \in 0 .. 127
  <2>1. 0 \in 0 .. 127
    OBVIOUS
  <2> QED BY <1>2, <1>3, <1>4, <1>5, <1>6, <2>1, Zenon
<1> QED BY <1>7 DEF Decode, Letters

(* How many characters wait between the two indices. *)
LEMMA CountOnRing ==
  ASSUME NEW h \in Index, NEW t \in Index
  PROVE  (h + KB_BUFSIZE - t) % KB_BUFSIZE =
           IF h >= t THEN h - t ELSE h - t + KB_BUFSIZE
<1>1. PICK x \in 0 .. 2 * KB_BUFSIZE - 1 : x = h + KB_BUFSIZE - t
  BY KeyboardAssumption DEF Index
<1>2. x % KB_BUFSIZE = IF x < KB_BUFSIZE THEN x ELSE x - KB_BUFSIZE
  BY KeyboardAssumption, ModOnce
<1>3. CASE h >= t
  BY <1>1, <1>2, <1>3, KeyboardAssumption DEF Index
<1>4. CASE h < t
  BY <1>1, <1>2, <1>4, KeyboardAssumption DEF Index
<1> QED BY <1>3, <1>4 DEF Index

(* The slot of the n-th waiting character. *)
LEMMA SlotOnRing ==
  ASSUME NEW t \in Index, NEW n \in 1 .. KB_BUFSIZE
  PROVE  (t + n - 1) % KB_BUFSIZE =
           IF t + n - 1 < KB_BUFSIZE THEN t + n - 1 ELSE t + n - 1 - KB_BUFSIZE
<1>1. PICK x \in 0 .. 2 * KB_BUFSIZE - 1 : x = t + n - 1
  BY KeyboardAssumption DEF Index
<1>2. x % KB_BUFSIZE = IF x < KB_BUFSIZE THEN x ELSE x - KB_BUFSIZE
  BY KeyboardAssumption, ModOnce
<1> QED BY <1>1, <1>2, KeyboardAssumption DEF Index

(* The successor of an index. *)
LEMMA SuccOnRing ==
  ASSUME NEW n \in Index
  PROVE  /\ Succ(n) = IF n + 1 = KB_BUFSIZE THEN 0 ELSE n + 1
         /\ Succ(n) \in Index
<1>1. Succ(n) = IF n + 1 = KB_BUFSIZE THEN 0 ELSE n + 1
  BY KeyboardAssumption, RingSucc DEF Succ, Index
<1> QED BY <1>1, KeyboardAssumption DEF Index

(* What Waiting is for a buffer b, a head h and a tail t ... *)
Ring(b, h, t) ==
  [n \in 1 .. (h + KB_BUFSIZE - t) % KB_BUFSIZE |-> b[(t + n - 1) % KB_BUFSIZE]]

(* ... and without its remainders. *)
Count(h, t) == IF h >= t THEN h - t ELSE h - t + KB_BUFSIZE
Cell(t, n) ==
  IF t + n - 1 < KB_BUFSIZE THEN t + n - 1 ELSE t + n - 1 - KB_BUFSIZE

(* A function on 1 .. n is a sequence of length n. *)
LEMMA FunctionIsSeq ==
  ASSUME NEW S, NEW n \in Nat, NEW w \in [1 .. n -> S]
  PROVE  w \in Seq(S) /\ Len(w) = n
  OBVIOUS

(* The ring as a sequence. *)
LEMMA RingContents ==
  ASSUME NEW b \in [Index -> 0 .. 127], NEW h \in Index, NEW t \in Index
  PROVE  /\ Ring(b, h, t) \in Seq(0 .. 127)
         /\ Len(Ring(b, h, t)) = Count(h, t)
         /\ Count(h, t) \in 0 .. KB_BUFSIZE - 1
         /\ \A n \in 1 .. Count(h, t) :
              Ring(b, h, t)[n] = b[Cell(t, n)] /\ Cell(t, n) \in Index
<1>1. (h + KB_BUFSIZE - t) % KB_BUFSIZE = Count(h, t)
  BY CountOnRing DEF Count
<1>2. Count(h, t) \in 0 .. KB_BUFSIZE - 1
  BY KeyboardAssumption DEF Count, Index
<1>3. \A n \in 1 .. Count(h, t) :
        (t + n - 1) % KB_BUFSIZE = Cell(t, n) /\ Cell(t, n) \in Index
  <2> TAKE n \in 1 .. Count(h, t)
  <2>1. n \in 1 .. KB_BUFSIZE
    BY <1>2, KeyboardAssumption
  <2>2. (t + n - 1) % KB_BUFSIZE = Cell(t, n)
    BY <2>1, SlotOnRing DEF Cell
  <2> QED BY <2>1, <2>2, KeyboardAssumption DEF Cell, Index
<1>4. Ring(b, h, t) = [n \in 1 .. Count(h, t) |-> b[Cell(t, n)]]
  BY <1>1, <1>3 DEF Ring
<1>5. Ring(b, h, t) \in [1 .. Count(h, t) -> 0 .. 127]
  BY <1>3, <1>4
<1>6. Ring(b, h, t) \in Seq(0 .. 127) /\ Len(Ring(b, h, t)) = Count(h, t)
  <2>1. Count(h, t) \in Nat
    BY <1>2
  <2> QED BY <1>5, <2>1, FunctionIsSeq
<1> QED BY <1>2, <1>3, <1>4, <1>6

(* A character stored at the head is the last one waiting. *)
LEMMA PutOnRing ==
  ASSUME NEW b \in [Index -> 0 .. 127], NEW h \in Index, NEW t \in Index,
         NEW ch \in 0 .. 127, Succ(h) # t
  PROVE  /\ Len(Ring(b, h, t)) < KB_BUFSIZE - 1
         /\ Ring([b EXCEPT ![h] = ch], Succ(h), t) = Append(Ring(b, h, t), ch)
<1>1. PICK b2 \in [Index -> 0 .. 127] : b2 = [b EXCEPT ![h] = ch]
  OBVIOUS
<1>2. PICK h2 \in Index :
        h2 = Succ(h) /\ h2 = IF h + 1 = KB_BUFSIZE THEN 0 ELSE h + 1
  BY SuccOnRing
<1> DEFINE w  == Ring(b, h, t)
           w2 == Ring(b2, h2, t)
           k  == Count(h, t)
<1>3. /\ w \in Seq(0 .. 127) /\ Len(w) = k /\ k \in 0 .. KB_BUFSIZE - 1
      /\ \A n \in 1 .. k : w[n] = b[Cell(t, n)] /\ Cell(t, n) \in Index
  BY RingContents
<1>4. /\ w2 \in Seq(0 .. 127) /\ Len(w2) = Count(h2, t)
      /\ \A n \in 1 .. Count(h2, t) : w2[n] = b2[Cell(t, n)]
  BY RingContents
<1>5. k = IF h >= t THEN h - t ELSE h - t + KB_BUFSIZE
  BY DEF Count
<1>6. k < KB_BUFSIZE - 1 /\ Count(h2, t) = k + 1
  BY <1>2, KeyboardAssumption DEF Count, Index
<1> HIDE DEF w, w2, k
<1>7. \A n \in 1 .. k : Cell(t, n) # h
  BY <1>3, <1>5, KeyboardAssumption DEF Cell, Index
<1>8. Cell(t, k + 1) = h
  BY <1>3, <1>5, KeyboardAssumption DEF Cell, Index
<1>9. \A n \in 1 .. k : w2[n] = w[n]
  BY <1>1, <1>3, <1>4, <1>6, <1>7
<1>10. w2[k + 1] = ch
  BY <1>1, <1>3, <1>4, <1>6, <1>8
<1>11. w2 = Append(w, ch)
  BY <1>3, <1>4, <1>6, <1>9, <1>10
<1> QED BY <1>1, <1>2, <1>3, <1>6, <1>11 DEF w, w2, k

(* Advancing the tail takes the first character away. *)
LEMMA GetFromRing ==
  ASSUME NEW b \in [Index -> 0 .. 127], NEW h \in Index, NEW t \in Index,
         h # t
  PROVE  /\ Ring(b, h, t) # <<>>
         /\ b[t] = Head(Ring(b, h, t))
         /\ Ring(b, h, Succ(t)) = Tail(Ring(b, h, t))
<1>1. PICK t2 \in Index :
        t2 = Succ(t) /\ t2 = IF t + 1 = KB_BUFSIZE THEN 0 ELSE t + 1
  BY SuccOnRing
<1> DEFINE w  == Ring(b, h, t)
           w2 == Ring(b, h, t2)
           k  == Count(h, t)
<1>2. /\ w \in Seq(0 .. 127) /\ Len(w) = k /\ k \in 0 .. KB_BUFSIZE - 1
      /\ \A n \in 1 .. k : w[n] = b[Cell(t, n)] /\ Cell(t, n) \in Index
  BY RingContents
<1>3. /\ w2 \in Seq(0 .. 127) /\ Len(w2) = Count(h, t2)
      /\ \A n \in 1 .. Count(h, t2) : w2[n] = b[Cell(t2, n)]
  BY RingContents
<1>4. k >= 1 /\ Count(h, t2) = k - 1
  BY <1>1, KeyboardAssumption DEF Count, Index
<1> HIDE DEF w, w2, k
<1>5. \A n \in 1 .. k - 1 : Cell(t2, n) = Cell(t, n + 1)
  BY <1>1, <1>2, KeyboardAssumption DEF Cell, Index
<1>6. Cell(t, 1) = t
  BY KeyboardAssumption DEF Cell, Index
<1>7. w # <<>> /\ Head(w) = b[t]
  BY <1>2, <1>4, <1>6
<1>8. w2 = Tail(w)
  BY <1>2, <1>3, <1>4, <1>5
<1> QED BY <1>1, <1>7, <1>8 DEF w, w2

-----------------------------------------------------------------------------
(* The invariant.                                                          *)

(* The driver starts with an empty buffer and no key down. *)
LEMMA InitEstablishes == Init => IInv
<1> SUFFICES ASSUME Init PROVE IInv
  OBVIOUS
<1>1. TypeOK
  <2>1. 0 \in Index /\ 0 \in 0 .. 127
    BY KeyboardAssumption DEF Index
  <2>2. kb_buf \in [Index -> 0 .. 127]
    BY <2>1 DEF Init
  <2> QED BY <2>1, <2>2 DEF Init, TypeOK, Reader
<1>2. ShiftNotStuck /\ ReaderCommitted
  BY DEF Init, ShiftNotStuck, ReaderCommitted
<1> QED BY <1>1, <1>2 DEF IInv

(* Storing keeps the buffer's type, and leaves what is waiting alone. *)
LEMMA StoreKeeps ==
  ASSUME TypeOK, NEW ch \in 0 .. 127, Store(ch)
  PROVE  /\ kb_buf' \in [Index -> 0 .. 127]
         /\ kb_head' \in Index
         /\ keyboard_has_char =>
              kb_head' # kb_tail /\ kb_buf'[kb_tail] = kb_buf[kb_tail]
<1>1. CASE ch # 0 /\ Succ(kb_head) # kb_tail
  BY <1>1, SuccOnRing DEF Store, TypeOK, keyboard_has_char
<1>2. CASE ~(ch # 0 /\ Succ(kb_head) # kb_tail)
  BY <1>2 DEF Store, TypeOK, keyboard_has_char
<1> QED BY <1>1, <1>2

(* What is left of a code without its high bit. *)
LEMMA BaseType ==
  ASSUME NEW key \in Keys
  PROVE  Base(key) \in 0 .. 127
<1>1. key \in 0 .. 255
  BY KeyboardAssumption
<1> QED BY <1>1 DEF Base

(* A key goes down or up while the reader is anywhere. *)
LEMMA HandlerPreserves ==
  ASSUME IInv, NEW key \in Keys, keyboard_irq_handler(key)
  PROVE  IInv'
<1> USE DEF IInv
<1>1. Base(key) \in 0 .. 127
  BY BaseType
<1>2. /\ kb_buf' \in [Index -> 0 .. 127]
      /\ kb_head' \in Index
      /\ keyboard_has_char =>
           kb_head' # kb_tail /\ kb_buf'[kb_tail] = kb_buf[kb_tail]
  <2>1. CASE UNCHANGED <<kb_buf, kb_head>>
    BY <2>1 DEF TypeOK, keyboard_has_char
  <2>2. CASE Store(Decode(Base(key)))
    BY <1>1, <2>2, DecodeType, StoreKeeps
  <2> QED BY <2>1, <2>2 DEF keyboard_irq_handler, pressed, released
<1>3. rd' \in Reader /\ (rd' \in {"read", "advance"} => rd' = rd)
  BY DEF keyboard_irq_handler, Wake, TypeOK, Reader
<1>4. shift_held' \in BOOLEAN /\ caps_locked' \in BOOLEAN
  BY DEF keyboard_irq_handler, pressed, released, TypeOK
<1>5. TypeOK'
  BY <1>2, <1>3, <1>4 DEF keyboard_irq_handler, TypeOK
<1>6. ShiftNotStuck'
  <2>1. CASE down' = down \cup {key} /\ pressed(Base(key))
    BY <2>1 DEF pressed, ShiftNotStuck, TypeOK
  <2>2. CASE down' = down \ {key} /\ released(Base(key))
    BY <2>2 DEF released, ShiftNotStuck, TypeOK
  <2> QED BY <2>1, <2>2 DEF keyboard_irq_handler
<1>7. ReaderCommitted'
  BY <1>2, <1>3 DEF keyboard_irq_handler, ReaderCommitted, keyboard_has_char
<1> QED BY <1>5, <1>6, <1>7

(* A prefix is no Shift key. *)
LEMMA PrefixIgnored ==
  ASSUME keyboard_irq_prefix
  PROVE  UNCHANGED <<kb_buf, kb_head, kb_tail, shift_held, caps_locked, c, out,
                     down>>
<1>1. Base(Prefix) \notin {LShift, RShift}
  BY DEF Base, Prefix, LShift, RShift
<1> QED BY <1>1 DEF keyboard_irq_prefix, released

(* The timer, and the prefix of an extended key, only wake the reader. *)
LEMMA WakePreserves == ASSUME IInv, timer_irq \/ keyboard_irq_prefix PROVE IInv'
<1>1. /\ Wake
      /\ UNCHANGED <<kb_buf, kb_head, kb_tail, shift_held, caps_locked, c, out,
                     down>>
  BY PrefixIgnored DEF timer_irq, keyboard_irq_prefix
<1> QED
  BY <1>1 DEF IInv, Wake, TypeOK, Reader, ShiftNotStuck, ReaderCommitted,
         keyboard_has_char

(* A step of keyboard_getchar. *)
LEMMA ReaderPreserves ==
  ASSUME IInv,
         getchar_call \/ getchar_test \/ getchar_halt \/ getchar_read
           \/ getchar_advance
  PROVE  IInv'
<1> USE DEF IInv, Goto, driver
<1>1. ShiftNotStuck'
  BY DEF getchar_call, getchar_test, getchar_halt, getchar_read,
         getchar_advance, ShiftNotStuck
<1>2. CASE getchar_call \/ getchar_test \/ getchar_halt
  <2>1. TypeOK'
    BY <1>2 DEF getchar_call, getchar_test, getchar_halt, TypeOK, Reader
  <2>2. ReaderCommitted'
    BY <1>2 DEF getchar_call, getchar_test, getchar_halt, ReaderCommitted,
                keyboard_has_char
  <2> QED BY <1>1, <2>1, <2>2
<1>3. CASE getchar_read
  <2>1. TypeOK'
    BY <1>3 DEF getchar_read, TypeOK, Reader
  <2>2. ReaderCommitted'
    BY <1>3 DEF getchar_read, ReaderCommitted, keyboard_has_char
  <2> QED BY <1>1, <2>1, <2>2
<1>4. CASE getchar_advance
  <2>1. TypeOK'
    BY <1>4, SuccOnRing DEF getchar_advance, TypeOK, Reader
  <2>2. ReaderCommitted'
    BY <1>4 DEF getchar_advance, ReaderCommitted
  <2> QED BY <1>1, <2>1, <2>2
<1> QED BY <1>2, <1>3, <1>4

(* Every step keeps the invariant. *)
LEMMA NextPreserves == IInv /\ [Next]_vars => IInv'
<1> SUFFICES ASSUME IInv, [Next]_vars PROVE IInv'
  OBVIOUS
<1>1. CASE UNCHANGED vars
  BY <1>1 DEF vars, IInv, TypeOK, ShiftNotStuck, ReaderCommitted,
              keyboard_has_char
<1>2. CASE Next
  BY <1>2, HandlerPreserves, WakePreserves, ReaderPreserves DEF Next
<1> QED BY <1>1, <1>2

(* The invariant holds in every reachable state. *)
THEOREM Invariant == Spec => []IInv
  BY InitEstablishes, NextPreserves, PTL DEF Spec

(* The indices, the buffer and the characters stay in their types, so the  *)
(* handler and the reader never touch memory outside kb_buf.               *)
THEOREM TypeCorrect == Spec => []TypeOK
<1>1. IInv => TypeOK
  BY DEF IInv
<1> QED BY Invariant, <1>1, PTL

(* Shift is never stuck, whichever keys are pressed, extended ones too. *)
THEOREM ShiftNeverSticks == Spec => []ShiftNotStuck
<1>1. IInv => ShiftNotStuck
  BY DEF IInv
<1> QED BY Invariant, <1>1, PTL

-----------------------------------------------------------------------------
(* The refinement.                                                         *)

(* A key adds a character at the end of the queue, or changes nothing. *)
LEMMA HandlerRefines ==
  ASSUME IInv, NEW key \in Keys, keyboard_irq_handler(key)
  PROVE  [Fifo!Next]_Fifo!vars
<1>1. Waiting = Ring(kb_buf, kb_head, kb_tail)
  BY DEF Waiting, Ring
<1>2. Waiting' = Ring(kb_buf', kb_head', kb_tail)
  BY DEF Waiting, Ring, keyboard_irq_handler
<1>3. CASE UNCHANGED <<kb_buf, kb_head>>
  BY <1>1, <1>2, <1>3 DEF keyboard_irq_handler, Fifo!vars
<1>4. ASSUME Store(Decode(Base(key))), ~UNCHANGED <<kb_buf, kb_head>>
      PROVE  Fifo!Next
  <2>1. PICK ch \in 0 .. 127 : ch = Decode(Base(key))
    BY DecodeType, BaseType
  <2>2. /\ Succ(kb_head) # kb_tail
        /\ kb_buf' = [kb_buf EXCEPT ![kb_head] = ch]
        /\ kb_head' = Succ(kb_head)
    BY <1>4, <2>1 DEF Store
  <2>3. /\ Len(Waiting) < KB_BUFSIZE - 1
        /\ Waiting' = Append(Waiting, ch)
    BY <1>1, <1>2, <2>2, PutOnRing DEF IInv, TypeOK
  <2>4. Fifo!Put(ch)
    BY <2>3 DEF Fifo!Put, keyboard_irq_handler
  <2> QED BY <2>4 DEF Fifo!Next
<1> QED BY <1>3, <1>4 DEF keyboard_irq_handler, pressed, released

(* Only the last step of keyboard_getchar changes the queue: it hands over *)
(* the first character, read a step earlier.                               *)
LEMMA AdvanceRefines ==
  ASSUME IInv, getchar_advance
  PROVE  Fifo!Next
<1>1. /\ kb_head # kb_tail /\ c = kb_buf[kb_tail]
      /\ kb_tail' = Succ(kb_tail) /\ out' = c
      /\ UNCHANGED <<kb_buf, kb_head>>
  BY DEF IInv, ReaderCommitted, keyboard_has_char, getchar_advance, Goto, driver
<1>2. Waiting = Ring(kb_buf, kb_head, kb_tail)
  BY DEF Waiting, Ring
<1>3. Waiting' = Ring(kb_buf, kb_head, Succ(kb_tail))
  BY <1>1 DEF Waiting, Ring
<1>4. /\ Waiting # <<>> /\ kb_buf[kb_tail] = Head(Waiting)
      /\ Waiting' = Tail(Waiting)
  BY <1>1, <1>2, <1>3, GetFromRing DEF IInv, TypeOK
<1>5. Fifo!Get
  BY <1>1, <1>4 DEF Fifo!Get
<1> QED BY <1>5 DEF Fifo!Next

(* The other steps leave the queue alone. *)
LEMMA OthersStutter ==
  ASSUME timer_irq \/ keyboard_irq_prefix \/ getchar_call \/ getchar_test
           \/ getchar_halt \/ getchar_read \/ UNCHANGED vars
  PROVE  UNCHANGED Fifo!vars
<1>1. UNCHANGED <<kb_buf, kb_head, kb_tail, out>>
  BY PrefixIgnored DEF timer_irq, getchar_call, getchar_test, getchar_halt,
                       getchar_read, driver, vars
<1> QED BY <1>1 DEF Fifo!vars, Waiting

(* The ring buffer of any size is a FIFO of one character less: whatever   *)
(* the interrupt handler does between the steps of keyboard_getchar, a     *)
(* character that was accepted is returned once, in order, unchanged.      *)
THEOREM RingIsFifo == Spec => ImplementsFifo
<1>1. Init => Fifo!Init
  <2> SUFFICES ASSUME Init PROVE Fifo!Init
    OBVIOUS
  <2>1. 0 \in Index /\ kb_buf \in [Index -> 0 .. 127]
    BY KeyboardAssumption DEF Init, Index
  <2>2. Waiting = Ring(kb_buf, 0, 0)
    BY DEF Init, Waiting, Ring
  <2>3. Count(0, 0) = 0
    BY DEF Count
  <2>4. Waiting \in Seq(0 .. 127) /\ Len(Waiting) = 0
    BY <2>1, <2>2, <2>3, RingContents
  <2>5. Waiting = <<>>
    BY <2>4
  <2> QED BY <2>5 DEF Init, Fifo!Init
<1>2. IInv /\ [Next]_vars => [Fifo!Next]_Fifo!vars
  <2> SUFFICES ASSUME IInv, [Next]_vars PROVE [Fifo!Next]_Fifo!vars
    OBVIOUS
  <2> QED BY HandlerRefines, AdvanceRefines, OthersStutter DEF Next
<1> QED BY Invariant, <1>1, <1>2, PTL DEF Spec, ImplementsFifo, Fifo!Spec
==============================================================================
