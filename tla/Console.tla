-------------------------------- MODULE Console --------------------------------
(***************************************************************************)
(* The text console of kernel/drivers/framebuffer.cpp: where characters    *)
(* land, when lines wrap and when the text scrolls.  A cell of the screen  *)
(* holds the glyph drawn last; pixels and colours are left out.            *)
(*                                                                         *)
(* fb_putchar is one step, except that the loop of a tab takes one step    *)
(* per blank.                                                              *)
(***************************************************************************)
EXTENDS Integers

CONSTANTS
  COLS, ROWS,    (* s_cols and s_rows                                      *)
  TAB,           (* distance of tab stops (4)                              *)
  Glyphs         (* printable characters                                   *)

Blank == " "

ASSUME ConsoleAssumption ==
  /\ {COLS, ROWS, TAB} \subseteq Nat \ {0}
  /\ Blank \in Glyphs

VARIABLES
  screen,
  s_cur_col, s_cur_row,
  next_tab       (* the stop a tab is on its way to, 0 when there is none  *)

vars == <<screen, s_cur_col, s_cur_row, next_tab>>

Col == 0 .. COLS - 1
Row == 0 .. ROWS - 1

BlankRow == [x \in Col |-> Blank]

-----------------------------------------------------------------------------

(* After fb_init, which ends with fb_clear. *)
Init ==
  /\ screen = [y \in Row |-> BlankRow]
  /\ s_cur_col = 0
  /\ s_cur_row = 0
  /\ next_tab = 0

draw_glyph(x, ch) == [screen EXCEPT ![s_cur_row][x] = ch]

(* Mutant: The row that comes free keeps its text. *)
scroll_up_no_clear(scr) == [y \in Row |-> IF y + 1 < ROWS THEN scr[y + 1] ELSE scr[y]]

(* Mutant: One row too many is cleared. *)
scroll_up_clears_two(scr) ==
  [y \in Row |-> IF y + 2 < ROWS THEN scr[y + 1] ELSE BlankRow]

scroll_up(scr) == [y \in Row |-> IF y + 1 < ROWS THEN scr[y + 1] ELSE BlankRow]

(* The cursor goes to the next row of scr, which scrolls at the bottom. *)
NewLine(scr) ==
  /\ s_cur_col' = 0
  /\ IF s_cur_row + 1 >= ROWS
     THEN screen' = scroll_up(scr) /\ s_cur_row' = ROWS - 1
     ELSE screen' = scr /\ s_cur_row' = s_cur_row + 1

(* A printable character is drawn; the line wraps after its last column. *)
Put(ch) ==
  IF s_cur_col + 1 >= COLS THEN NewLine(draw_glyph(s_cur_col, ch))
  ELSE /\ screen' = draw_glyph(s_cur_col, ch)
       /\ s_cur_col' = s_cur_col + 1
       /\ UNCHANGED s_cur_row

Idle == next_tab = 0 /\ UNCHANGED next_tab

putchar_glyph(ch) == Idle /\ Put(ch)

putchar_cr ==
  /\ Idle
  /\ s_cur_col' = 0
  /\ UNCHANGED <<screen, s_cur_row>>

(* In column 0 it stays there and erases that cell. *)
putchar_bs ==
  /\ Idle
  /\ LET x == IF s_cur_col > 0 THEN s_cur_col - 1 ELSE 0
     IN  s_cur_col' = x /\ screen' = draw_glyph(x, Blank)
  /\ UNCHANGED s_cur_row

putchar_nl == Idle /\ NewLine(screen)

(* (s_cur_col + 4) & ~3 *)
putchar_tab ==
  /\ next_tab = 0
  /\ next_tab' = ((s_cur_col + TAB) \div TAB) * TAB
  /\ UNCHANGED <<screen, s_cur_col, s_cur_row>>

(* Mutant: The loop runs until it is past the stop. *)
BeforeStopOrOnIt == s_cur_col <= next_tab

BeforeStop == s_cur_col < next_tab

(* The loop: a blank until the cursor is at the stop. *)
tab_blank ==
  /\ next_tab # 0
  /\ BeforeStop
  /\ Put(Blank)
  /\ UNCHANGED next_tab

tab_done ==
  /\ next_tab # 0
  /\ ~BeforeStop
  /\ next_tab' = 0
  /\ UNCHANGED <<screen, s_cur_col, s_cur_row>>

fb_clear ==
  /\ Idle
  /\ screen' = [y \in Row |-> BlankRow]
  /\ s_cur_col' = 0
  /\ s_cur_row' = 0

Next ==
  \/ \E ch \in Glyphs : putchar_glyph(ch)
  \/ putchar_cr
  \/ putchar_bs
  \/ putchar_nl
  \/ putchar_tab
  \/ tab_blank
  \/ tab_done
  \/ fb_clear

Spec == Init /\ [][Next]_vars

(* The loop of a tab keeps running. *)
FairSpec == Spec /\ WF_vars(tab_blank) /\ WF_vars(tab_done)

-----------------------------------------------------------------------------

(* Every variable stays in its range: the cursor never leaves the screen.  *)
TypeOK ==
  /\ screen \in [Row -> [Col -> Glyphs]]
  /\ s_cur_col \in Col
  /\ s_cur_row \in Row
  /\ next_tab \in 0 .. COLS + TAB

(* A line starts on an empty row, whether the cursor moved down or the     *)
(* text scrolled, and whatever was erased, overwritten or scrolled before. *)
FreshLine ==
  [][putchar_nl \/ (s_cur_col = COLS - 1 /\ s_cur_col' = 0 /\ ~putchar_cr)
       => screen'[s_cur_row'] = BlankRow]_vars

(* fb_putchar draws one cell, the cursor's or the one before it.  Every    *)
(* other cell, the rest of the cursor's row included, keeps its text, and  *)
(* when the cursor is on the last row the text may move up by one row with *)
(* only the top row lost; nothing is lost before the screen is full.       *)
TextKept ==
  [][fb_clear \/
       \E x \in {s_cur_col - 1, s_cur_col}, up \in {0, 1} :
         /\ up = 1 => s_cur_row = ROWS - 1
         /\ \A y \in Row, z \in Col :
              y >= up /\ ~(y = s_cur_row /\ z = x) =>
                screen'[y - up][z] = screen[y][z]]_vars

(* The loop of a tab ends when its stop lies on the line.  (A stop at the  *)
(* end of the line is never reached: the line wraps first.)                *)
TabEnds == next_tab # 0 /\ next_tab < COLS ~> next_tab = 0
==============================================================================
