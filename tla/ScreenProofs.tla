------------------------------ MODULE ScreenProofs ------------------------------
(***************************************************************************)
(* Proofs about what is on the screen, for a screen, a line buffer, a file *)
(* table and command words of any size: of the console (Con, with tabs)    *)
(* that a line starts on an empty row and that no text is lost early; of   *)
(* the shell that Enter executes what was typed and that the screen shows  *)
(* it.                                                                     *)
(***************************************************************************)
EXTENDS Shell, NumberLemmas, SequenceTheorems

CONSTANT TAB
VARIABLE next_tab

Con == INSTANCE Console

-----------------------------------------------------------------------------
(* A console as values: a screen s with the cursor in column x of row y,   *)
(* and what a character makes of it.                                       *)

Cols == 0 .. COLS - 1
Rows == 0 .. ROWS - 1
Empty == [x \in Cols |-> Blank]

OnScreen(s, x, y) == s \in [Rows -> [Cols -> Glyphs]] /\ x \in Cols /\ y \in Rows

(* Nothing is written below the cursor's row. *)
Below(s, y) == \A k \in Rows : k > y => s[k] = Empty

(* In the cursor's row the last column is blank: a character there ends    *)
(* the row.                                                                *)
Good(s, x, y) == OnScreen(s, x, y) /\ Below(s, y) /\ s[y][COLS - 1] = Blank

Draw(s, x, y, ch) == [s EXCEPT ![y][x] = ch]

Scrolled(s) == [y \in Rows |-> IF y + 1 < ROWS THEN s[y + 1] ELSE Empty]

LineEnds(s, y, s2, x2, y2) ==
  /\ x2 = 0
  /\ IF y + 1 >= ROWS THEN s2 = Scrolled(s) /\ y2 = ROWS - 1
     ELSE s2 = s /\ y2 = y + 1

Puts(s, x, y, ch, s2, x2, y2) ==
  IF x + 1 >= COLS THEN LineEnds(Draw(s, x, y, ch), y, s2, x2, y2)
  ELSE s2 = Draw(s, x, y, ch) /\ x2 = x + 1 /\ y2 = y

Erases(s, x, y, s2, x2, y2) ==
  /\ x2 = IF x > 0 THEN x - 1 ELSE 0
  /\ s2 = Draw(s, x2, y, Blank)
  /\ y2 = y

Clears(s2, x2, y2) == s2 = [y \in Rows |-> Empty] /\ x2 = 0 /\ y2 = 0

(* All cells but cell c of row y are as they were, up rows higher ... *)
Moved(s, c, y, up, s2) ==
  \A k \in Rows, z \in Cols :
    k >= up /\ ~(k = y /\ z = c) => s2[k - up][z] = s[k][z]

(* ... for the cursor's cell or the one before it; up only at the bottom.  *)
Keeps(s, x, y, s2) ==
  \E c \in {x - 1, x}, up \in {0, 1} :
    (up = 1 => y = ROWS - 1) /\ Moved(s, c, y, up, s2)

(* d is s but for cell c of row y; s2 is d, or d moved up at the bottom.   *)
OneCell(s, c, y, d) ==
  /\ \A k \in Rows \ {y} : d[k] = s[k]
  /\ \A z \in Cols : z # c => d[y][z] = s[y][z]

SameOrUp(d, y, s2) ==
  \/ s2 = d
  \/ y = ROWS - 1 /\ \A k \in Rows : k > 0 => s2[k - 1] = d[k]

(* Sizes, and the blank. *)
LEMMA Sizes ==
  /\ COLS \in Nat \ {0} /\ ROWS \in Nat \ {0}
  /\ Blank \in Glyphs /\ Empty \in [Cols -> Glyphs]
<1>1. COLS \in Nat \ {0} /\ ROWS \in Nat \ {0} /\ Blank \in Keys
  BY ShellAssumption
<1>2. Blank \in Glyphs
  BY <1>1 DEF Glyphs
<1> QED BY <1>1, <1>2 DEF Empty

(* draw_glyph changes one cell. *)
LEMMA DrawOne ==
  ASSUME NEW s, NEW x, NEW y, OnScreen(s, x, y), NEW ch \in Glyphs
  PROVE  /\ Draw(s, x, y, ch) \in [Rows -> [Cols -> Glyphs]]
         /\ \A k \in Rows \ {y} : Draw(s, x, y, ch)[k] = s[k]
         /\ \A c \in Cols : Draw(s, x, y, ch)[y][c] = IF c = x THEN ch ELSE s[y][c]
  BY DEF OnScreen, Draw

(* A screen that differs in one cell, as it is or scrolled, keeps the text. *)
LEMMA OneCellKeeps ==
  ASSUME NEW s, NEW y \in Rows, NEW d, NEW x, NEW c \in {x - 1, x}, NEW s2,
         OneCell(s, c, y, d), SameOrUp(d, y, s2)
  PROVE  Keeps(s, x, y, s2)
<1>1. \A k \in Rows, z \in Cols : ~(k = y /\ z = c) => d[k][z] = s[k][z]
  BY DEF OneCell
<1>2. CASE s2 = d
  <2>1. \A k \in Rows : k - 0 = k
    BY DEF Rows
  <2>2. Moved(s, c, y, 0, s2)
    BY <1>1, <1>2, <2>1 DEF Moved
  <2> QED BY <2>2 DEF Keeps
<1>3. CASE y = ROWS - 1 /\ \A k \in Rows : k > 0 => s2[k - 1] = d[k]
  <2>1. \A k \in Rows : k >= 1 => k > 0
    BY DEF Rows
  <2>2. Moved(s, c, y, 1, s2)
    BY <1>1, <1>3, <2>1 DEF Moved
  <2> QED BY <1>3, <2>2 DEF Keeps
<1> QED BY <1>2, <1>3 DEF SameOrUp

(* The end of a line: the cursor comes to an empty row, with nothing below *)
(* it, whether the text scrolls or not.                                    *)
LEMMA LineEffect ==
  ASSUME NEW s, NEW y, s \in [Rows -> [Cols -> Glyphs]], y \in Rows, Below(s, y),
         NEW s2, NEW x2, NEW y2, LineEnds(s, y, s2, x2, y2)
  PROVE  /\ Good(s2, x2, y2)
         /\ x2 = 0
         /\ s2[y2] = Empty
         /\ \/ s2 = s
            \/ y = ROWS - 1 /\ \A k \in Rows : k > 0 => s2[k - 1] = s[k]
<1>1. COLS \in Nat \ {0} /\ ROWS \in Nat \ {0} /\ COLS - 1 \in Cols /\ 0 \in Cols
  BY Sizes DEF Cols
<1>2. Empty[COLS - 1] = Blank
  BY <1>1 DEF Empty
<1>3. CASE y + 1 >= ROWS
  <2>1. y = ROWS - 1 /\ y \in Rows /\ y2 = y /\ s2 = Scrolled(s) /\ x2 = 0
    BY <1>1, <1>3 DEF LineEnds, Rows
  <2>2. Scrolled(s) \in [Rows -> [Cols -> Glyphs]]
    BY <1>1, Sizes DEF Scrolled, Rows
  <2>3. Scrolled(s)[y] = Empty
    BY <1>1, <2>1 DEF Scrolled, Rows
  <2>4. \A k \in Rows : k > 0 => Scrolled(s)[k - 1] = s[k]
    BY <1>1 DEF Scrolled, Rows
  <2>5. \A k \in Rows : ~(k > y)
    BY <1>1, <2>1 DEF Rows
  <2> QED BY <1>1, <1>2, <2>1, <2>2, <2>3, <2>4, <2>5 DEF Good, OnScreen, Below
<1>4. CASE ~(y + 1 >= ROWS)
  <2>1. y2 = y + 1 /\ y2 \in Rows /\ s2 = s /\ x2 = 0 /\ y2 > y
    BY <1>1, <1>4 DEF LineEnds, Rows
  <2>2. s2[y2] = Empty
    BY <2>1 DEF Below
  <2>3. \A k \in Rows : k > y2 => k > y
    BY <1>1, <2>1 DEF Rows
  <2> QED BY <1>1, <1>2, <2>1, <2>2, <2>3 DEF Good, OnScreen, Below
<1> QED BY <1>3, <1>4

(* A printable character. *)
LEMMA PutEffect ==
  ASSUME NEW s, NEW x, NEW y, Good(s, x, y), NEW ch \in Glyphs,
         NEW s2, NEW x2, NEW y2, Puts(s, x, y, ch, s2, x2, y2)
  PROVE  /\ Good(s2, x2, y2)
         /\ x = COLS - 1 => x2 = 0 /\ s2[y2] = Empty
         /\ x # COLS - 1 =>
              /\ x2 = x + 1 /\ y2 = y
              /\ \A c \in Cols : s2[y][c] = IF c = x THEN ch ELSE s[y][c]
         /\ Keeps(s, x, y, s2)
<1>1. COLS \in Nat \ {0} /\ ROWS \in Nat \ {0} /\ COLS - 1 \in Cols /\ x \in Cols
      /\ y \in Rows /\ (x + 1 >= COLS <=> x = COLS - 1)
  BY Sizes DEF Cols, Good, OnScreen
<1>2. PICK d : d = Draw(s, x, y, ch)
  OBVIOUS
<1>3. /\ d \in [Rows -> [Cols -> Glyphs]]
      /\ \A k \in Rows \ {y} : d[k] = s[k]
      /\ \A c \in Cols : d[y][c] = IF c = x THEN ch ELSE s[y][c]
  BY <1>2, DrawOne DEF Good
<1>4. Below(d, y)
  <2>1. \A k \in Rows : k > y => k \in Rows \ {y}
    BY <1>1 DEF Rows
  <2> QED BY <1>3, <2>1 DEF Below, Good
<1>5. CASE x = COLS - 1
  <2>1. LineEnds(d, y, s2, x2, y2)
    BY <1>1, <1>2, <1>5 DEF Puts
  <2>2. Good(s2, x2, y2) /\ x2 = 0 /\ s2[y2] = Empty
    BY <1>1, <1>3, <1>4, <2>1, LineEffect
  <2>3. s2 = d \/ (y = ROWS - 1 /\ \A k \in Rows : k > 0 => s2[k - 1] = d[k])
    BY <1>1, <1>3, <1>4, <2>1, LineEffect
  <2>4. Keeps(s, x, y, s2)
    <3>1. OneCell(s, x, y, d) /\ SameOrUp(d, y, s2)
      BY <1>3, <2>3 DEF OneCell, SameOrUp
    <3> QED BY <1>1, <3>1, OneCellKeeps, Zenon
  <2> QED BY <1>5, <2>2, <2>4
<1>6. CASE x # COLS - 1
  <2>1. s2 = d /\ x2 = x + 1 /\ y2 = y
    BY <1>1, <1>2, <1>6 DEF Puts
  <2>2. x + 1 \in Cols
    BY <1>1, <1>6 DEF Cols
  <2>3. d[y][COLS - 1] = Blank
    BY <1>1, <1>3, <1>6 DEF Good
  <2>4. Good(s2, x2, y2)
    BY <1>1, <1>3, <1>4, <2>1, <2>2, <2>3 DEF Good, OnScreen
  <2>5. Keeps(s, x, y, s2)
    <3>1. OneCell(s, x, y, d) /\ SameOrUp(d, y, s2)
      BY <1>3, <2>1 DEF OneCell, SameOrUp
    <3> QED BY <1>1, <3>1, OneCellKeeps, Zenon
  <2> QED BY <1>3, <1>6, <2>1, <2>4, <2>5
<1> QED BY <1>5, <1>6

(* A backspace. *)
LEMMA EraseEffect ==
  ASSUME NEW s, NEW x, NEW y, Good(s, x, y),
         NEW s2, NEW x2, NEW y2, Erases(s, x, y, s2, x2, y2)
  PROVE  /\ Good(s2, x2, y2)
         /\ y2 = y
         /\ x2 = IF x > 0 THEN x - 1 ELSE 0
         /\ \A c \in Cols : s2[y][c] = IF c = x2 THEN Blank ELSE s[y][c]
         /\ Keeps(s, x, y, s2)
<1>1. COLS \in Nat \ {0} /\ COLS - 1 \in Cols /\ x \in Cols /\ y \in Rows
      /\ Blank \in Glyphs
  BY Sizes DEF Cols, Good, OnScreen
<1>2. x2 \in Cols /\ y2 = y
  BY <1>1 DEF Erases, Cols
<1>3. OnScreen(s, x2, y)
  BY <1>2 DEF Good, OnScreen
<1>4. /\ s2 \in [Rows -> [Cols -> Glyphs]]
      /\ \A k \in Rows \ {y} : s2[k] = s[k]
      /\ \A c \in Cols : s2[y][c] = IF c = x2 THEN Blank ELSE s[y][c]
  BY <1>1, <1>3, DrawOne DEF Erases
<1>5. Below(s2, y)
  <2>1. \A k \in Rows : k > y => k \in Rows \ {y}
    BY <1>1 DEF Rows
  <2> QED BY <1>4, <2>1 DEF Below, Good
<1>6. s2[y][COLS - 1] = Blank
  BY <1>1, <1>4 DEF Good
<1>7. Keeps(s, x, y, s2)
  <2>1. x2 \in {x - 1, x}
    BY <1>1 DEF Erases, Cols
  <2>2. OneCell(s, x2, y, s2) /\ SameOrUp(s2, y, s2)
    BY <1>4 DEF OneCell, SameOrUp
  <2> QED BY <1>1, <2>1, <2>2, OneCellKeeps, Zenon
<1> QED BY <1>2, <1>3, <1>4, <1>5, <1>6, <1>7 DEF Good, OnScreen, Erases

(* fb_clear. *)
LEMMA ClearEffect ==
  ASSUME NEW s2, NEW x2, NEW y2, Clears(s2, x2, y2)
  PROVE  Good(s2, x2, y2) /\ x2 = 0 /\ s2[y2] = Empty
<1>1. COLS \in Nat \ {0} /\ ROWS \in Nat \ {0} /\ COLS - 1 \in Cols /\ 0 \in Cols
      /\ 0 \in Rows /\ Empty \in [Cols -> Glyphs]
  BY Sizes DEF Cols, Rows
<1>2. Empty[COLS - 1] = Blank
  BY <1>1 DEF Empty
<1>3. s2 \in [Rows -> [Cols -> Glyphs]] /\ \A k \in Rows : s2[k] = Empty
  BY <1>1 DEF Clears
<1> QED BY <1>1, <1>2, <1>3 DEF Clears, Good, OnScreen, Below

-----------------------------------------------------------------------------
(* The console.                                                            *)

ConInv == Good(screen, s_cur_col, s_cur_row)

(* Console's actions are these operations on its variables. *)
LEMMA ConViews ==
  /\ \A ch : Con!Put(ch) => Puts(screen, s_cur_col, s_cur_row, ch,
                                 screen', s_cur_col', s_cur_row')
  /\ Con!putchar_nl => LineEnds(screen, s_cur_row, screen', s_cur_col', s_cur_row')
  /\ Con!putchar_bs => Erases(screen, s_cur_col, s_cur_row,
                              screen', s_cur_col', s_cur_row')
  /\ Con!fb_clear => Clears(screen', s_cur_col', s_cur_row')
  /\ Con!BlankRow = Empty
<1>1. Con!BlankRow = Empty /\ Con!Row = Rows /\ Con!Blank = Blank
  BY DEF Con!BlankRow, Con!Row, Con!Col, Con!Blank, Empty, Rows, Cols, Blank
<1>2. \A t : Con!scroll_up(t) = Scrolled(t)
  BY <1>1 DEF Con!scroll_up, Scrolled
<1>3. \A x, ch : Con!draw_glyph(x, ch) = Draw(screen, x, s_cur_row, ch)
  BY DEF Con!draw_glyph, Draw
<1>4. \A t : Con!NewLine(t) => LineEnds(t, s_cur_row, screen', s_cur_col', s_cur_row')
  BY <1>2 DEF Con!NewLine, LineEnds
<1>5. \A ch : Con!Put(ch) => Puts(screen, s_cur_col, s_cur_row, ch,
                                  screen', s_cur_col', s_cur_row')
  BY <1>3, <1>4 DEF Con!Put, Puts
<1>6. Con!putchar_bs => Erases(screen, s_cur_col, s_cur_row,
                               screen', s_cur_col', s_cur_row')
  BY <1>1, <1>3 DEF Con!putchar_bs, Erases
<1>7. Con!fb_clear => Clears(screen', s_cur_col', s_cur_row')
  BY <1>1 DEF Con!fb_clear, Clears
<1> QED BY <1>1, <1>4, <1>5, <1>6, <1>7 DEF Con!putchar_nl

(* Every step of the console keeps the cursor on the screen, nothing below *)
(* its row and the last column of that row blank; and keeps the text.      *)
LEMMA ConStep ==
  ASSUME ConInv, Con!Next
  PROVE  /\ ConInv'
         /\ Con!fb_clear \/ Keeps(screen, s_cur_col, s_cur_row, screen')
<1>1. CASE \/ \E ch \in Glyphs : Con!putchar_glyph(ch)
           \/ Con!tab_blank
  <2>1. PICK ch \in Glyphs : Con!Put(ch)
    BY <1>1, Sizes DEF Con!putchar_glyph, Con!tab_blank, Con!Blank, Blank
  <2>2. Puts(screen, s_cur_col, s_cur_row, ch, screen', s_cur_col', s_cur_row')
    BY <2>1, ConViews
  <2> QED BY <2>2, PutEffect DEF ConInv
<1>2. CASE Con!putchar_cr \/ Con!putchar_tab \/ Con!tab_done
  <2>1. screen' = screen /\ s_cur_row' = s_cur_row
        /\ (s_cur_col' = 0 \/ s_cur_col' = s_cur_col)
    BY <1>2 DEF Con!putchar_cr, Con!putchar_tab, Con!tab_done
  <2>2. 0 \in Cols
    BY Sizes DEF Cols
  <2>3. Keeps(screen, s_cur_col, s_cur_row, screen')
    <3>1. /\ s_cur_row \in Rows
          /\ OneCell(screen, s_cur_col, s_cur_row, screen)
          /\ SameOrUp(screen, s_cur_row, screen')
      BY <2>1 DEF ConInv, Good, OnScreen, OneCell, SameOrUp
    <3> QED BY <3>1, OneCellKeeps, Zenon
  <2> QED BY <2>1, <2>2, <2>3 DEF ConInv, Good, OnScreen
<1>3. CASE Con!putchar_bs
  BY <1>3, ConViews, EraseEffect DEF ConInv
<1>4. CASE Con!putchar_nl
  <2>1. LineEnds(screen, s_cur_row, screen', s_cur_col', s_cur_row')
    BY <1>4, ConViews
  <2>2. /\ Good(screen', s_cur_col', s_cur_row')
        /\ \/ screen' = screen
           \/ s_cur_row = ROWS - 1
              /\ \A k \in Rows : k > 0 => screen'[k - 1] = screen[k]
    BY <2>1, LineEffect DEF ConInv, Good, OnScreen
  <2>3. Keeps(screen, s_cur_col, s_cur_row, screen')
    <3>1. /\ s_cur_row \in Rows
          /\ OneCell(screen, s_cur_col, s_cur_row, screen)
          /\ SameOrUp(screen, s_cur_row, screen')
      BY <2>2 DEF ConInv, Good, OnScreen, OneCell, SameOrUp
    <3> QED BY <3>1, OneCellKeeps, Zenon
  <2> QED BY <2>2, <2>3 DEF ConInv
<1>5. CASE Con!fb_clear
  BY <1>5, ConViews, ClearEffect DEF ConInv
<1> QED BY <1>1, <1>2, <1>3, <1>4, <1>5 DEF Con!Next

(* The console starts with an empty screen. *)
LEMMA ConInit == Con!Init => ConInv
<1> SUFFICES ASSUME Con!Init PROVE ConInv
  OBVIOUS
<1>1. Clears(screen, s_cur_col, s_cur_row)
  BY ConViews DEF Con!Init, Con!Row, Clears, Rows
<1> QED BY <1>1, ClearEffect DEF ConInv

(* The cursor never leaves the screen, whatever is printed, and a row that *)
(* the cursor comes to is empty in its last column.                        *)
THEOREM CursorOnScreen == Con!Spec => []ConInv
<1>1. ConInv /\ [Con!Next]_Con!vars => ConInv'
  <2>1. ConInv /\ UNCHANGED Con!vars => ConInv'
    BY DEF ConInv, Con!vars
  <2> QED BY <2>1, ConStep
<1> QED BY <1>1, ConInit, PTL DEF Con!Spec

(* A line starts on an empty row, on a screen of any size, whether it was  *)
(* ended by a new line or wrapped in the middle of a tab, and whatever was *)
(* erased, overwritten or scrolled before.                                 *)
THEOREM LinesStartEmpty == Con!Spec => Con!FreshLine
<1>1. ASSUME ConInv, [Con!Next]_Con!vars
      PROVE  [Con!putchar_nl
                \/ (s_cur_col = COLS - 1 /\ s_cur_col' = 0 /\ ~Con!putchar_cr)
              => screen'[s_cur_row'] = Con!BlankRow]_Con!vars
  <2>0. Con!BlankRow = Empty
    BY ConViews
  <2>1. ASSUME Con!putchar_nl
        PROVE  screen'[s_cur_row'] = Empty
    <3>1. LineEnds(screen, s_cur_row, screen', s_cur_col', s_cur_row')
      BY <2>1, ConViews
    <3> QED BY <1>1, <3>1, LineEffect DEF ConInv, Good, OnScreen
  <2>2. ASSUME Con!Next, s_cur_col = COLS - 1, s_cur_col' = 0, ~Con!putchar_cr
        PROVE  screen'[s_cur_row'] = Empty
    <3>0. COLS \in Nat \ {0} /\ s_cur_row \in Rows
          /\ screen[s_cur_row] \in [Cols -> Glyphs]
          /\ screen[s_cur_row][COLS - 1] = Blank
      BY <1>1, Sizes DEF ConInv, Good, OnScreen
    <3>1. CASE \/ \E ch \in Glyphs : Con!putchar_glyph(ch)
               \/ Con!tab_blank
      <4>1. PICK ch \in Glyphs : Con!Put(ch)
        BY <3>1, Sizes DEF Con!putchar_glyph, Con!tab_blank, Con!Blank, Blank
      <4>2. Puts(screen, s_cur_col, s_cur_row, ch, screen', s_cur_col', s_cur_row')
        BY <4>1, ConViews
      <4> QED BY <1>1, <2>2, <4>2, PutEffect DEF ConInv
    <3>2. CASE Con!putchar_tab \/ Con!tab_done
      <4>1. screen' = screen /\ s_cur_row' = s_cur_row /\ COLS = 1
        BY <2>2, <3>0, <3>2 DEF Con!putchar_tab, Con!tab_done
      <4>2. \A c \in Cols : screen[s_cur_row][c] = Blank
        BY <3>0, <4>1 DEF Cols
      <4> QED BY <3>0, <4>1, <4>2 DEF Empty
    <3>3. CASE Con!putchar_bs
      <4>1. Erases(screen, s_cur_col, s_cur_row, screen', s_cur_col', s_cur_row')
        BY <3>3, ConViews
      <4>2. /\ Good(screen', s_cur_col', s_cur_row') /\ s_cur_row' = s_cur_row
            /\ s_cur_col' = IF s_cur_col > 0 THEN s_cur_col - 1 ELSE 0
            /\ \A c \in Cols : screen'[s_cur_row][c] =
                 IF c = s_cur_col' THEN Blank ELSE screen[s_cur_row][c]
        BY <1>1, <4>1, EraseEffect DEF ConInv
      <4>3. \A c \in Cols : c = 0 \/ c = COLS - 1
        BY <2>2, <3>0, <4>2 DEF Cols
      <4>4. \A c \in Cols : screen'[s_cur_row][c] = Blank
        BY <2>2, <3>0, <4>2, <4>3
      <4>5. screen'[s_cur_row] \in [Cols -> Glyphs]
        BY <3>0, <4>2 DEF Good, OnScreen
      <4> QED BY <4>2, <4>4, <4>5 DEF Empty
    <3>4. CASE Con!fb_clear
      BY <3>4, ConViews, ClearEffect
    <3> QED BY <2>1, <2>2, <3>1, <3>2, <3>3, <3>4 DEF Con!Next
  <2> QED BY <1>1, <2>0, <2>1, <2>2
<1> QED BY <1>1, CursorOnScreen, PTL DEF Con!Spec, Con!FreshLine

(* fb_putchar draws one cell; the rest of the text, the cursor's own row   *)
(* included, stays, or moves up by one when the cursor is on the last row: *)
(* on a screen of any size no text is lost before the screen is full.      *)
THEOREM TextIsKept == Con!Spec => Con!TextKept
<1>1. ASSUME ConInv, [Con!Next]_Con!vars
      PROVE  [Con!fb_clear \/
                \E x \in {s_cur_col - 1, s_cur_col}, up \in {0, 1} :
                  /\ up = 1 => s_cur_row = ROWS - 1
                  /\ \A y \in Con!Row, z \in Con!Col :
                       y >= up /\ ~(y = s_cur_row /\ z = x) =>
                         screen'[y - up][z] = screen[y][z]]_Con!vars
  <2>1. Con!Row = Rows /\ Con!Col = Cols
    BY DEF Con!Row, Con!Col, Rows, Cols
  <2>2. CASE UNCHANGED Con!vars
    BY <2>2
  <2>3. CASE Con!Next
    <3>1. Con!fb_clear \/ Keeps(screen, s_cur_col, s_cur_row, screen')
      BY <1>1, <2>3, ConStep
    <3>2. CASE Con!fb_clear
      BY <3>2
    <3>3. CASE Keeps(screen, s_cur_col, s_cur_row, screen')
      <4>1. PICK x \in {s_cur_col - 1, s_cur_col}, up \in {0, 1} :
              (up = 1 => s_cur_row = ROWS - 1) /\ Moved(screen, x, s_cur_row, up, screen')
        BY <3>3 DEF Keeps
      <4>2. \A y \in Con!Row, z \in Con!Col :
              y >= up /\ ~(y = s_cur_row /\ z = x) => screen'[y - up][z] = screen[y][z]
        BY <2>1, <4>1, Zenon DEF Moved
      <4> QED BY <4>1, <4>2, Zenon
    <3> QED BY <3>1, <3>2, <3>3
  <2> QED BY <1>1, <2>2, <2>3
<1> QED BY <1>1, CursorOnScreen, PTL DEF Con!Spec, Con!TextKept

-----------------------------------------------------------------------------
(* The files.                                                              *)

Text == Seq(Glyphs \cup {NL})

File ==
  {f \in [used : {TRUE}, name : Seq(Glyphs), data : Text \ {<<>>}, size : Nat] :
     f.size = Len(f.data)}

Table == [Vfs!Slot -> File \cup {Vfs!Unused}]

(* What Min finds in slots. *)
LEMMA FirstSlot ==
  ASSUME NEW S, S \subseteq Vfs!Slot, S # {}
  PROVE  Vfs!Min(S) \in S
<1>1. S \subseteq Nat
  BY ShellAssumption DEF Vfs!Slot
<1>2. \E m \in S : \A n \in S : m <= n
  BY <1>1, LeastElement
<1> QED BY <1>2 DEF Vfs!Min

(* The part of a sequence. *)
LEMMA PartOf ==
  ASSUME NEW S, NEW s \in Seq(S), NEW m \in Nat \ {0}, NEW n \in Int, n <= Len(s)
  PROVE  SubSeq(s, m, n) \in Seq(S)
<1>1. \A i \in m .. n : s[i] \in S
  OBVIOUS
<1> QED BY <1>1, SubSeqProperties

(* vfs_create_file keeps a table a table. *)
LEMMA CreateKeepsTable ==
  ASSUME NEW t \in Table, NEW nm \in Seq(Glyphs), NEW dt \in Text \ {<<>>}
  PROVE  Vfs!vfs_create_file(t, nm, dt) \in Table
<1> DEFINE cut == Vfs!strncpy_local(nm)
           new == [used |-> TRUE, name |-> cut, data |-> dt, size |-> Len(dt)]
           free == {i \in Vfs!Slot : ~t[i].used}
<1>1. cut \in Seq(Glyphs)
  <2> DEFINE n == Vfs!Min({Len(nm), MAX_FILENAME - 1})
  <2>1. Len(nm) \in Nat /\ MAX_FILENAME - 1 \in Nat
    BY ShellAssumption
  <2>2. \E m \in {Len(nm), MAX_FILENAME - 1} :
          \A k \in {Len(nm), MAX_FILENAME - 1} : m <= k
    BY <2>1
  <2>3. n \in Int /\ n <= Len(nm)
    BY <2>1, <2>2 DEF Vfs!Min
  <2> HIDE DEF n
  <2>4. SubSeq(nm, 1, n) \in Seq(Glyphs)
    BY <2>3, PartOf
  <2> QED BY <2>4 DEF n, Vfs!strncpy_local
<1>2. Len(dt) \in Nat
  BY DEF Text
<1>3. new \in File
  <2> HIDE DEF cut
  <2> QED BY <1>1, <1>2 DEF File
<1>4. CASE free = {}
  BY <1>4 DEF Vfs!vfs_create_file
<1>5. CASE free # {}
  <2>1. Vfs!Min(free) \in Vfs!Slot
    BY <1>5, FirstSlot
  <2>2. Vfs!vfs_create_file(t, nm, dt) = [t EXCEPT ![Vfs!Min(free)] = new]
    BY <1>5 DEF Vfs!vfs_create_file
  <2> HIDE DEF new, free
  <2>3. [t EXCEPT ![Vfs!Min(free)] = new] \in Table
    BY <1>3, <2>1 DEF Table
  <2> QED BY <2>2, <2>3
<1> QED BY <1>4, <1>5

(* vfs_init, which the model writes as a recursion, fills a table. *)
TableEq(f) ==
  f = [n \in 0 .. Len(BuiltIn) |->
         IF n = 0 THEN [i \in Vfs!Slot |-> Vfs!Unused]
         ELSE Vfs!vfs_create_file(f[n - 1], BuiltIn[n].name, BuiltIn[n].data)]

(* vfs_init leaves a table of files whose names end and whose data is text. *)
LEMMA FilesTyped == Vfs!vfs_init \in Table
<1> DEFINE N == Len(BuiltIn)
           bare == [i \in Vfs!Slot |-> Vfs!Unused]
           New(k, t) == Vfs!vfs_create_file(t, BuiltIn[k].name, BuiltIn[k].data)
           g == [p \in (1 .. N) \X Table |-> New(p[1], p[2])]
<1>1. N \in Nat /\ \A k \in 1 .. N : BuiltIn[k].name \in Seq(Glyphs)
                                     /\ BuiltIn[k].data \in Text \ {<<>>}
  <2> DEFINE Source == [name : Seq(Glyphs), data : Text \ {<<>>}]
  <2>1. BuiltIn \in Seq(Source)
    BY ShellAssumption DEF Text
  <2> HIDE DEF Source
  <2>2. N \in Nat /\ \A k \in 1 .. N : BuiltIn[k] \in Source
    BY <2>1
  <2> QED BY <2>2 DEF Source
<1>2. bare \in Table
  BY DEF Table
<1>3. \A k \in 1 .. N : \A t \in Table : New(k, t) \in Table
  BY <1>1, CreateKeepsTable
<1> HIDE DEF N, New, bare
<1>4. g \in [(1 .. N) \X Table -> Table]
  BY <1>3
<1>5. \A k \in 1 .. N : \A t \in Table : g[<<k, t>>] = New(k, t)
  OBVIOUS
<1> HIDE DEF g
<1>6. PICK f : RecursesUpTo(f, N, Table, bare, g)
  BY <1>1, <1>2, <1>4, RecursionUpTo
<1>7. f \in [0 .. N -> Table]
      /\ \A k \in 0 .. N : f[k] = IF k = 0 THEN bare ELSE g[<<k, f[k - 1]>>]
  BY <1>6 DEF RecursesUpTo
<1>8. \A k \in 0 .. N : f[k] = IF k = 0 THEN bare ELSE New(k, f[k - 1])
  <2> SUFFICES ASSUME NEW k \in 0 .. N, k # 0 PROVE f[k] = New(k, f[k - 1])
    BY <1>7
  <2>1. k \in 1 .. N /\ k - 1 \in 0 .. N
    BY <1>1
  <2> QED BY <1>5, <1>7, <2>1
<1>9. f = [k \in 0 .. N |-> IF k = 0 THEN bare ELSE New(k, f[k - 1])]
  BY <1>7, <1>8
<1>10. TableEq(f)
  BY <1>9 DEF TableEq, N, bare, New
<1> DEFINE h == CHOOSE e : TableEq(e)
<1>11. TableEq(h)
  BY <1>10
<1>12. Vfs!vfs_init = h[N]
  BY Zenon DEF Vfs!vfs_init, TableEq, N
<1> HIDE DEF h
<1>13. h = [k \in 0 .. N |-> IF k = 0 THEN bare ELSE New(k, h[k - 1])]
  BY <1>11 DEF TableEq, N, bare, New
<1> DEFINE Ok == {k \in 0 .. N : h[k] \in Table}
<1>14. 0 \in Ok
  BY <1>1, <1>2, <1>13
<1>15. ASSUME NEW k \in 1 .. N, k - 1 \in Ok
       PROVE  k \in Ok
  <2>1. h[k] = New(k, h[k - 1]) /\ k \in 0 .. N
    BY <1>1, <1>13
  <2> QED BY <1>3, <1>15, <2>1
<1> HIDE DEF Ok
<1>16. \A k \in 0 .. N : k \in Ok
  BY <1>1, <1>14, <1>15, InductionUpTo
<1> QED BY <1>1, <1>12, <1>16 DEF Ok

(* vfs_open finds a file or nothing. *)
LEMMA OpenTyped ==
  ASSUME NEW t \in Table, NEW nm
  PROVE  LET node == Vfs!vfs_open(t, nm) IN node.used => node \in File
<1> DEFINE found == {i \in Vfs!Slot : t[i].used /\ Vfs!streql(t[i].name, nm)}
<1>1. CASE found = {}
  BY <1>1 DEF Vfs!vfs_open, Vfs!Unused
<1>2. CASE found # {}
  <2>1. Vfs!Min(found) \in found
    BY <1>2, FirstSlot
  <2>2. Vfs!vfs_open(t, nm) = t[Vfs!Min(found)]
    BY <1>2 DEF Vfs!vfs_open
  <2>3. PICK i \in Vfs!Slot : Vfs!vfs_open(t, nm) = t[i] /\ t[i].used
    BY <2>1, <2>2
  <2> QED BY <2>3 DEF Table, Vfs!Unused
<1> QED BY <1>1, <1>2

(* vfs_list, also a recursion, gives files only. *)
ListEq(f, t, m) ==
  f = [n \in 0 .. MAX_VFS_FILES |->
         IF n = 0 THEN <<>>
         ELSE f[n - 1] \o (IF Len(f[n - 1]) < m /\ t[n - 1].used
                           THEN <<t[n - 1]>> ELSE <<>>)]

(* vfs_list returns nodes of the table. *)
LEMMA ListTyped ==
  ASSUME NEW t \in Table, NEW m \in Nat
  PROVE  Vfs!vfs_list(t, m) \in Seq(File)
<1> DEFINE N == MAX_VFS_FILES
           New(k, s) == s \o (IF Len(s) < m /\ t[k - 1].used
                              THEN <<t[k - 1]>> ELSE <<>>)
           g == [p \in (1 .. N) \X Seq(File) |-> New(p[1], p[2])]
<1>1. N \in Nat
  BY ShellAssumption
<1>2. <<>> \in Seq(File)
  OBVIOUS
<1>3. \A k \in 1 .. N : \A s \in Seq(File) : New(k, s) \in Seq(File)
  <2> SUFFICES ASSUME NEW k \in 1 .. N, NEW s \in Seq(File)
               PROVE  New(k, s) \in Seq(File)
    OBVIOUS
  <2>1. k - 1 \in Vfs!Slot
    BY <1>1 DEF Vfs!Slot
  <2>2. t[k - 1].used => t[k - 1] \in File
    BY <2>1 DEF Table, Vfs!Unused
  <2>3. PICK e : e = IF Len(s) < m /\ t[k - 1].used THEN <<t[k - 1]>> ELSE <<>>
    OBVIOUS
  <2>4. e \in Seq(File)
    BY <2>2, <2>3
  <2>5. s \o e \in Seq(File)
    BY <2>4, ConcatProperties
  <2> QED BY <2>3, <2>5
<1> HIDE DEF N, New
<1>4. g \in [(1 .. N) \X Seq(File) -> Seq(File)]
  BY <1>3
<1>5. \A k \in 1 .. N : \A s \in Seq(File) : g[<<k, s>>] = New(k, s)
  OBVIOUS
<1> HIDE DEF g
<1>6. PICK f : RecursesUpTo(f, N, Seq(File), <<>>, g)
  BY <1>1, <1>2, <1>4, RecursionUpTo
<1>7. f \in [0 .. N -> Seq(File)]
      /\ \A k \in 0 .. N : f[k] = IF k = 0 THEN <<>> ELSE g[<<k, f[k - 1]>>]
  BY <1>6 DEF RecursesUpTo
<1>8. \A k \in 0 .. N : f[k] = IF k = 0 THEN <<>> ELSE New(k, f[k - 1])
  <2> SUFFICES ASSUME NEW k \in 0 .. N, k # 0 PROVE f[k] = New(k, f[k - 1])
    BY <1>7
  <2>1. k \in 1 .. N /\ k - 1 \in 0 .. N
    BY <1>1
  <2> QED BY <1>5, <1>7, <2>1
<1>9. f = [k \in 0 .. N |-> IF k = 0 THEN <<>> ELSE New(k, f[k - 1])]
  BY <1>7, <1>8
<1>10. ListEq(f, t, m)
  BY <1>9 DEF ListEq, N, New
<1> DEFINE h == CHOOSE e : ListEq(e, t, m)
<1>11. ListEq(h, t, m)
  BY <1>10
<1>12. Vfs!vfs_list(t, m) = h[N]
  BY Zenon DEF Vfs!vfs_list, ListEq, N
<1> HIDE DEF h
<1>13. h = [k \in 0 .. N |-> IF k = 0 THEN <<>> ELSE New(k, h[k - 1])]
  BY <1>11 DEF ListEq, N, New
<1> DEFINE Ok == {k \in 0 .. N : h[k] \in Seq(File)}
<1>14. 0 \in Ok
  BY <1>1, <1>2, <1>13
<1>15. ASSUME NEW k \in 1 .. N, k - 1 \in Ok
       PROVE  k \in Ok
  <2>1. h[k] = New(k, h[k - 1]) /\ k \in 0 .. N
    BY <1>1, <1>13
  <2> QED BY <1>3, <1>15, <2>1
<1> HIDE DEF Ok
<1>16. \A k \in 0 .. N : k \in Ok
  BY <1>1, <1>14, <1>15, InductionUpTo
<1> QED BY <1>1, <1>12, <1>16 DEF Ok

-----------------------------------------------------------------------------
(* What commands print.                                                    *)

Printed == Glyphs \cup {NL, BS, CLEAR, HALT}

(* Output that ends its last line, or the machine. *)
Ends(o) == o \in Seq(Printed) /\ o # <<>> /\ o[Len(o)] \in {NL, HALT}

(* Output before output that ends. *)
LEMMA ConcatEnds ==
  ASSUME NEW a \in Seq(Printed), NEW b, Ends(b)
  PROVE  Ends(a \o b)
<1>1. b \in Seq(Printed) /\ Len(b) \in Nat \ {0} /\ Len(a) \in Nat
  BY DEF Ends
<1>2. a \o b \in Seq(Printed) /\ Len(a \o b) = Len(a) + Len(b)
      /\ (a \o b)[Len(a) + Len(b)] = b[Len(b)]
  BY <1>1, ConcatProperties
<1>3. a \o b # <<>>
  BY <1>1, <1>2
<1> QED BY <1>2, <1>3 DEF Ends

(* Glyphs and text are printed. *)
LEMMA PrintedSeqs ==
  /\ \A s \in Seq(Glyphs) : s \in Seq(Printed)
  /\ \A s \in Text : s \in Seq(Printed)
  /\ \A s \in Seq(Keys) : s \in Seq(Glyphs)
  /\ T \in Glyphs /\ ">" \in Glyphs
  /\ \A k \in 1 .. 10 : Digit[k] \in Glyphs
<1>1. Keys \subseteq Glyphs /\ Glyphs \subseteq Printed /\ Glyphs \cup {NL} \subseteq Printed
  BY DEF Glyphs, Printed
<1>2. \A k \in 1 .. 10 : Digit[k] \in ToSet(Digit)
  <2>1. DOMAIN Digit = 1 .. 10
    BY DEF Digit
  <2> QED BY <2>1 DEF ToSet
<1>3. ToSet(Digit) \subseteq Glyphs /\ T \in Glyphs /\ ">" \in Glyphs
  BY DEF Glyphs
<1> QED BY <1>1, <1>2, <1>3, SeqMonotonic DEF Text

(* The digits of a number. *)
DigitsEq(f) ==
  f = [v \in Nat |-> IF v = 0 THEN <<>>
                     ELSE <<Digit[(v % 10) + 1]>> \o f[v \div 10]]

(* print_u64_dec prints digits, by induction over the number. *)
LEMMA DigitsTyped == \A v \in Nat : DigitsOf[v] \in Seq(Glyphs)
<1> DEFINE S == Seq(Glyphs)
           New(v, s) == <<Digit[(v % 10) + 1]>> \o s
           d == [v \in Nat |-> v \div 10]
           g == [p \in Nat \X S |-> New(p[1], p[2])]
<1>1. d \in [Nat -> Nat]
  OBVIOUS
<1>2. \A v \in Nat \ {0} : d[v] < v
  OBVIOUS
<1>3. \A v \in Nat : \A s \in S : New(v, s) \in S
  <2> SUFFICES ASSUME NEW v \in Nat, NEW s \in S PROVE New(v, s) \in S
    OBVIOUS
  <2>1. (v % 10) + 1 \in 1 .. 10
    OBVIOUS
  <2>2. PICK dg \in Glyphs : dg = Digit[(v % 10) + 1]
    BY <2>1, PrintedSeqs
  <2>3. <<dg>> \in S
    OBVIOUS
  <2> QED BY <2>2, <2>3, ConcatProperties
<1>4. <<>> \in S
  OBVIOUS
<1> HIDE DEF New, S
<1>5. g \in [Nat \X S -> S]
  BY <1>3
<1>6. \A v \in Nat : \A s \in S : g[<<v, s>>] = New(v, s)
  OBVIOUS
<1>7. \A v \in Nat : d[v] = v \div 10 /\ d[v] \in Nat
  OBVIOUS
<1> HIDE DEF g, d
<1>8. PICK f : Recurses(f, S, <<>>, d, g)
  BY <1>1, <1>2, <1>4, <1>5, RecursionOnNat
<1>9. f \in [Nat -> S]
      /\ \A v \in Nat : f[v] = IF v = 0 THEN <<>> ELSE g[<<v, f[d[v]]>>]
  BY <1>8 DEF Recurses
<1>10. \A v \in Nat : f[v] = IF v = 0 THEN <<>> ELSE New(v, f[v \div 10])
  BY <1>6, <1>7, <1>9
<1>11. f = [v \in Nat |-> IF v = 0 THEN <<>> ELSE New(v, f[v \div 10])]
  BY <1>9, <1>10
<1>12. DigitsEq(f)
  BY <1>11 DEF DigitsEq, New
<1> DEFINE h == CHOOSE e : DigitsEq(e)
<1>13. DigitsEq(h)
  BY <1>12
<1>14. DigitsOf = h
  BY Zenon DEF DigitsOf, DigitsEq
<1> HIDE DEF h
<1>15. h = [v \in Nat |-> IF v = 0 THEN <<>> ELSE New(v, h[v \div 10])]
  BY <1>13 DEF DigitsEq, New
<1> DEFINE Ok == {v \in Nat : h[v] \in S}
<1>16. ASSUME NEW v \in Nat, \A k \in 0 .. v - 1 : k \in Ok
       PROVE  v \in Ok
  <2>1. CASE v = 0
    BY <1>4, <1>15, <2>1
  <2>2. CASE v # 0
    <3>1. v \div 10 \in 0 .. v - 1
      BY <1>2, <1>7, <2>2
    <3>2. h[v \div 10] \in S
      BY <1>16, <3>1
    <3>3. h[v] = New(v, h[v \div 10])
      BY <1>15, <2>2
    <3> QED BY <1>3, <3>2, <3>3
  <2> QED BY <2>1, <2>2
<1> HIDE DEF Ok
<1>17. \A v \in Nat : v \in Ok
  BY <1>16, StrongInduction
<1> QED BY <1>14, <1>17 DEF Ok, S

(* A number is printed as glyphs, and fb_print_dec ends the line. *)
LEMMA NumberPrinted ==
  ASSUME NEW v \in Nat, NEW p \in Seq(Glyphs)
  PROVE  Ends(fb_print_dec(p, v))
<1>1. print_u64_dec(v) \in Seq(Glyphs)
  <2>1. CASE v = 0
    BY <2>1, PrintedSeqs DEF print_u64_dec
  <2>2. CASE v # 0
    <3>1. PICK s \in Seq(Glyphs) : s = DigitsOf[v]
      BY DigitsTyped
    <3>2. Reverse(s) \in Seq(Glyphs)
      BY DEF Reverse
    <3> QED BY <2>2, <3>1, <3>2 DEF print_u64_dec
  <2> QED BY <2>1, <2>2
<1>2. p \o print_u64_dec(v) \in Seq(Glyphs)
  BY <1>1, ConcatProperties
<1>3. p \o print_u64_dec(v) \in Seq(Printed)
  BY <1>2, PrintedSeqs
<1>4. Ends(<<NL>>)
  BY DEF Ends, Printed
<1> QED BY <1>3, <1>4, ConcatEnds DEF fb_print_dec

(* Several outputs one after the other, none of them empty. *)
FlatEq(f, s) ==
  f = [i \in 1 .. Len(s) |-> IF i = 1 THEN s[i] ELSE f[i - 1] \o s[i]]

(* Entries that end, one after the other. *)
LEMMA FlattenEnds ==
  ASSUME NEW s, NEW N \in Nat, DOMAIN s = 1 .. N, Len(s) = N, N # 0,
         \A k \in 1 .. N : Ends(s[k])
  PROVE  Ends(FlattenSeq(s))
<1> DEFINE S == Seq(Printed)
           g == [p \in (1 .. N) \X S |-> IF p[1] = 1 THEN s[1] ELSE p[2] \o s[p[1]]]
<1>1. \A k \in 1 .. N : s[k] \in S
  BY DEF Ends
<1>2. \A k \in 1 .. N : \A x \in S : x \o s[k] \in S
  BY <1>1, ConcatProperties
<1>3. 1 \in 1 .. N
  OBVIOUS
<1> HIDE DEF S
<1>4. g \in [(1 .. N) \X S -> S]
  BY <1>1, <1>2, <1>3
<1>5. \A k \in 1 .. N : \A x \in S :
        g[<<k, x>>] = IF k = 1 THEN s[1] ELSE x \o s[k]
  OBVIOUS
<1> HIDE DEF g
<1>6. PICK f : RecursesUpTo(f, N, S, s[1], g)
  BY <1>1, <1>3, <1>4, RecursionUpTo
<1>7. f \in [0 .. N -> S]
      /\ \A k \in 0 .. N : f[k] = IF k = 0 THEN s[1] ELSE g[<<k, f[k - 1]>>]
  BY <1>6 DEF RecursesUpTo
<1>8. \A k \in 1 .. N : f[k] = IF k = 1 THEN s[k] ELSE f[k - 1] \o s[k]
  <2> SUFFICES ASSUME NEW k \in 1 .. N
               PROVE  f[k] = IF k = 1 THEN s[k] ELSE f[k - 1] \o s[k]
    OBVIOUS
  <2>1. k \in 0 .. N /\ k # 0 /\ k - 1 \in 0 .. N
    OBVIOUS
  <2>2. f[k] = g[<<k, f[k - 1]>>] /\ f[k - 1] \in S
    BY <1>7, <2>1
  <2> QED BY <1>5, <2>2
<1> DEFINE e == [k \in 1 .. N |-> f[k]]
<1>9. e = [k \in 1 .. N |-> IF k = 1 THEN s[k] ELSE e[k - 1] \o s[k]]
  <2>1. \A k \in 1 .. N : e[k] = IF k = 1 THEN s[k] ELSE e[k - 1] \o s[k]
    <3> SUFFICES ASSUME NEW k \in 1 .. N
                 PROVE  e[k] = IF k = 1 THEN s[k] ELSE e[k - 1] \o s[k]
      OBVIOUS
    <3>1. e[k] = f[k] /\ (k # 1 => k - 1 \in 1 .. N /\ e[k - 1] = f[k - 1])
      OBVIOUS
    <3> HIDE DEF e
    <3> QED BY <1>8, <3>1
  <2>2. e = [k \in 1 .. N |-> e[k]]
    OBVIOUS
  <2> HIDE DEF e
  <2> QED BY <2>1, <2>2
<1> HIDE DEF e
<1>10. FlatEq(e, s)
  BY <1>9 DEF FlatEq
<1> DEFINE h == CHOOSE x : FlatEq(x, s)
<1>11. FlatEq(h, s)
  BY <1>10
<1>12. FlattenSeq(s) = h[N]
  <2>1. FlattenSeq(s) = h[Len(s)]
    <3>1. ~(Len(s) = 0)
      OBVIOUS
    <3> QED BY <3>1, Zenon DEF FlattenSeq, FlatEq
  <2> QED BY <2>1
<1> HIDE DEF h
<1>13. \A k \in 1 .. N : h[k] = IF k = 1 THEN s[k] ELSE h[k - 1] \o s[k]
  <2>1. h = [k \in 1 .. N |-> IF k = 1 THEN s[k] ELSE h[k - 1] \o s[k]]
    BY <1>11 DEF FlatEq
  <2> QED BY <2>1
<1> DEFINE Ok == {k \in 0 .. N : k # 0 => Ends(h[k])}
<1>14. 0 \in Ok
  OBVIOUS
<1>15. ASSUME NEW k \in 1 .. N, k - 1 \in Ok
       PROVE  k \in Ok
  <2>1. CASE k = 1
    BY <1>13, <2>1
  <2>2. CASE k # 1
    <3>1. h[k] = h[k - 1] \o s[k] /\ Ends(h[k - 1])
      <4>1. k - 1 # 0 /\ k - 1 \in Ok
        BY <1>15, <2>2
      <4>2. Ends(h[k - 1])
        BY <4>1
      <4>3. h[k] = h[k - 1] \o s[k]
        BY <1>13, <2>2
      <4> QED BY <4>2, <4>3
    <3>2. PICK x \in Seq(Printed) : x = h[k - 1]
      BY <3>1 DEF Ends
    <3>3. Ends(x \o s[k])
      BY ConcatEnds
    <3>4. Ends(h[k])
      BY <3>1, <3>2, <3>3
    <3>5. k \in 0 .. N
      OBVIOUS
    <3> QED BY <3>4, <3>5
  <2> QED BY <2>1, <2>2
<1> HIDE DEF Ok
<1>16. \A k \in 0 .. N : k \in Ok
  BY <1>14, <1>15, InductionUpTo
<1> QED BY <1>12, <1>16 DEF Ok

(* A command line without its leading blanks. *)
LEMMA SkipTyped ==
  ASSUME NEW s \in Seq(Keys)
  PROVE  SkipBlanks(s) \in Seq(Keys)
<1> DEFINE S == {j \in 0 .. Len(s) : \A i \in 1 .. j : s[i] = Blank}
           R == {Len(s) - j : j \in S}
<1>1. Len(s) \in Nat /\ 0 \in S
  OBVIOUS
<1>2. R \subseteq Nat /\ R # {}
  BY <1>1
<1>3. PICK m \in R : \A n \in R : m <= n
  BY <1>2, LeastElement
<1>4. PICK k \in S : m = Len(s) - k
  BY <1>3
<1>5. ASSUME NEW j \in S PROVE k >= j
  <2>1. Len(s) - j \in R
    OBVIOUS
  <2>2. m <= Len(s) - j
    BY <1>3, <2>1
  <2>3. j \in Nat /\ k \in Nat
    OBVIOUS
  <2> HIDE DEF S, R
  <2> QED BY <1>1, <1>4, <2>2, <2>3
<1>6. Max(S) \in S
  <2> HIDE DEF S
  <2> QED BY <1>4, <1>5 DEF Max
<1>7. Max(S) \in 0 .. Len(s)
  BY <1>6
<1>8. SkipBlanks(s) = SubSeq(s, Max(S) + 1, Len(s))
  BY DEF SkipBlanks
<1> HIDE DEF S
<1>9. PICK n \in Nat \ {0} : n = Max(S) + 1
  BY <1>1, <1>7
<1>10. SubSeq(s, n, Len(s)) \in Seq(Keys)
  BY <1>1, PartOf
<1> QED BY <1>8, <1>9, <1>10

(* Output that is not empty ends in a new line, or ends everything. *)
LEMMA ShortOutputs ==
  /\ Ends(<<NL>>) /\ Ends(<<T, NL>>) /\ Ends(<<CLEAR, T, NL>>)
  /\ Ends(<<T, NL, HALT>>) /\ Ends(<<HALT>>)
  /\ <<T>> \in Seq(Printed)
<1>1. {T, NL, CLEAR, HALT} \subseteq Printed
  BY PrintedSeqs DEF Printed
<1> QED BY <1>1 DEF Ends

(* What ls prints. *)
LEMMA LsEnds ==
  ASSUME s_files \in Table
  PROVE  Ends(ls)
<1>1. PICK nodes \in Seq(File) : nodes = Vfs!vfs_list(s_files, 16)
  BY ListTyped
<1> DEFINE Line(k) == <<T>> \o nodes[k].name \o fb_print_dec(<<T>>, nodes[k].size)
                        \o <<T, NL>>
           rows == [k \in DOMAIN nodes |-> Line(k)]
<1>2. ls = Report \o FlattenSeq(rows)
  BY <1>1 DEF ls
<1>3. Report \in Seq(Printed) /\ Ends(Report)
  BY ShortOutputs DEF Report, Ends
<1>4. PICK N \in Nat : N = Len(nodes) /\ DOMAIN nodes = 1 .. N
  BY LenProperties
<1>5. ASSUME NEW k \in 1 .. N
      PROVE  Ends(Line(k))
  <2>1. nodes[k] \in File
    BY <1>4
  <2>2. nodes[k].name \in Seq(Glyphs) /\ nodes[k].size \in Nat
    BY <2>1 DEF File
  <2>3. <<T>> \in Seq(Glyphs)
    BY PrintedSeqs
  <2>4. PICK num : num = fb_print_dec(<<T>>, nodes[k].size) /\ Ends(num)
    BY <2>2, <2>3, NumberPrinted
  <2>5. PICK nm \in Seq(Printed) : nm = nodes[k].name
    BY <2>2, PrintedSeqs
  <2>6. <<T>> \o nm \in Seq(Printed)
    BY ShortOutputs, ConcatProperties
  <2>7. (<<T>> \o nm) \o num \in Seq(Printed)
    BY <2>4, <2>6, ConcatProperties DEF Ends
  <2>8. Ends(((<<T>> \o nm) \o num) \o <<T, NL>>)
    BY <2>7, ShortOutputs, ConcatEnds
  <2> QED BY <2>4, <2>5, <2>8
<1> HIDE DEF Line
<1>6. DOMAIN rows = 1 .. N /\ Len(rows) = N /\ \A k \in 1 .. N : rows[k] = Line(k)
  <2>1. rows = [k \in 1 .. N |-> Line(k)]
    BY <1>4
  <2> QED BY <2>1
<1> HIDE DEF rows
<1>7. CASE N = 0
  <2>1. FlattenSeq(rows) = rows /\ rows = <<>>
    BY <1>6, <1>7 DEF FlattenSeq, rows
  <2>2. Report \o <<>> = Report
    BY <1>3, ConcatEmptySeq
  <2> QED BY <1>2, <1>3, <2>1, <2>2
<1>8. CASE N # 0
  <2>1. Ends(FlattenSeq(rows))
    BY <1>5, <1>6, <1>8, FlattenEnds
  <2> QED BY <1>2, <1>3, <2>1, ConcatEnds
<1> QED BY <1>7, <1>8

(* What cat prints, for a file and for a name that is none. *)
LEMMA CatEnds ==
  ASSUME s_files \in Table, NEW nm \in Seq(Keys)
  PROVE  Ends(cat(nm))
<1>1. PICK node : node = Vfs!vfs_open(s_files, nm) /\ (node.used => node \in File)
  BY OpenTyped
<1>2. CASE node.used
  <2>1. node.data \in Text \ {<<>>} /\ node.size = Len(node.data)
    BY <1>1, <1>2 DEF File
  <2>2. PICK dt \in Seq(Printed) : dt = node.data /\ dt # <<>> /\ node.size = Len(dt)
    BY <2>1, PrintedSeqs
  <2>3. CASE dt[Len(dt)] # NL
    <3>1. cat(nm) = dt \o <<NL>>
      BY <1>1, <1>2, <2>2, <2>3 DEF cat
    <3> QED BY <3>1, ShortOutputs, ConcatEnds
  <2>4. CASE dt[Len(dt)] = NL
    <3>1. cat(nm) = dt \o <<>>
      BY <1>1, <1>2, <2>2, <2>4 DEF cat
    <3>2. dt \o <<>> = dt
      BY ConcatEmptySeq
    <3> QED BY <2>2, <2>4, <3>1, <3>2 DEF Ends
  <2> QED BY <2>3, <2>4
<1>3. CASE ~node.used
  <2>1. cat(nm) = <<T>> \o nm \o <<NL>>
    BY <1>1, <1>3 DEF cat
  <2>2. <<T>> \o nm \in Seq(Printed)
    BY PrintedSeqs, ShortOutputs, ConcatProperties
  <2> QED BY <2>1, <2>2, ShortOutputs, ConcatEnds
<1> QED BY <1>2, <1>3

(* Every command ends the line it prints last. *)
LEMMA ExecuteEnds ==
  ASSUME s_files \in Table, NEW line \in Seq(Keys)
  PROVE  shell_execute(line) = <<>> \/ Ends(shell_execute(line))
<1>1. PICK cmd \in Seq(Keys) : cmd = SkipBlanks(line)
  BY SkipTyped
<1> DEFINE Rest(c) == SubSeq(cmd, Len(Word[c]) + 1, Len(cmd))
<1>2. \A c \in Commands : Rest(c) \in Seq(Keys)
  <2> SUFFICES ASSUME NEW c \in Commands PROVE Rest(c) \in Seq(Keys)
    OBVIOUS
  <2>1. PICK n \in Nat \ {0} : n = Len(Word[c]) + 1
    BY ShellAssumption
  <2>2. SubSeq(cmd, n, Len(cmd)) \in Seq(Keys)
    BY PartOf
  <2> QED BY <2>1, <2>2
<1>3. "cat" \in Commands /\ "echo" \in Commands
  BY DEF Commands
<1>4. Ends(cat(SkipBlanks(Rest("cat"))))
  BY <1>2, <1>3, SkipTyped, CatEnds
<1>5. Ends(Rest("echo") \o <<NL>>)
  BY <1>2, <1>3, PrintedSeqs, ShortOutputs, ConcatEnds
<1>6. Ends(<<T>> \o cmd \o <<T, NL>>)
  <2>1. <<T>> \o cmd \in Seq(Printed)
    BY PrintedSeqs, ShortOutputs, ConcatProperties
  <2> QED BY <2>1, ShortOutputs, ConcatEnds
<1>7. Ends(ls) /\ Ends(Report)
  BY LsEnds, ShortOutputs DEF Report
<1>8. \/ shell_execute(line) \in {<<>>, Report, <<CLEAR, T, NL>>, ls,
                                  cat(SkipBlanks(Rest("cat"))),
                                  Rest("echo") \o <<NL>>,
                                  <<T, NL, HALT>>, <<HALT>>,
                                  <<T>> \o cmd \o <<T, NL>>}
  BY <1>1 DEF shell_execute
<1> HIDE DEF Rest
<1> QED BY <1>4, <1>5, <1>6, <1>7, <1>8, ShortOutputs

-----------------------------------------------------------------------------
(* Sequences, and rows that show one.                                      *)

(* A sequence and one more element. *)
LEMMA AppendFacts ==
  ASSUME NEW S, NEW t \in Seq(S), NEW c \in S
  PROVE  /\ Append(t, c) \in Seq(S) /\ Append(t, c) # <<>>
         /\ Len(Append(t, c)) = Len(t) + 1
         /\ \A k \in 1 .. Len(t) : Append(t, c)[k] = t[k]
         /\ Append(t, c)[Len(t) + 1] = c
         /\ Last(Append(t, c)) = c
         /\ Front(Append(t, c)) = t
<1>1. PICK u : u = Append(t, c)
  OBVIOUS
<1>2. /\ u \in Seq(S) /\ Len(u) = Len(t) + 1
      /\ \A k \in 1 .. Len(t) : u[k] = t[k]
      /\ u[Len(t) + 1] = c
  BY <1>1
<1>3. u # <<>>
  BY <1>2
<1>4. Front(u) = SubSeq(u, 1, Len(t))
  BY <1>2 DEF Front
<1>5. /\ SubSeq(u, 1, Len(t)) \in Seq(S)
      /\ Len(SubSeq(u, 1, Len(t))) = Len(t)
      /\ \A k \in 1 .. Len(t) : SubSeq(u, 1, Len(t))[k] = u[k]
  <2>1. \A k \in 1 .. Len(t) : u[k] \in S
    BY <1>2
  <2> QED BY <2>1, SubSeqProperties
<1>6. SubSeq(u, 1, Len(t)) = t
  BY <1>2, <1>5, SeqEqual
<1> QED BY <1>1, <1>2, <1>3, <1>4, <1>6 DEF Last

(* A sequence without its last element. *)
LEMMA FrontLast ==
  ASSUME NEW S, NEW t \in Seq(S), t # <<>>
  PROVE  /\ Front(t) \in Seq(S) /\ Last(t) \in S /\ Len(t) \in Nat \ {0}
         /\ Len(Front(t)) = Len(t) - 1
         /\ \A k \in 1 .. Len(t) - 1 : Front(t)[k] = t[k]
         /\ Append(Front(t), Last(t)) = t
<1>1. Len(t) \in Nat \ {0}
  OBVIOUS
<1>2. Last(t) \in S
  BY <1>1 DEF Last
<1>3. /\ Front(t) \in Seq(S) /\ Len(Front(t)) = Len(t) - 1
      /\ \A k \in 1 .. Len(t) - 1 : Front(t)[k] = t[k]
  <2>1. PICK n \in Nat : n = Len(t) - 1
    BY <1>1
  <2>2. \A k \in 1 .. n : t[k] \in S
    BY <1>1, <2>1
  <2>3. /\ SubSeq(t, 1, n) \in Seq(S) /\ Len(SubSeq(t, 1, n)) = n
        /\ \A k \in 1 .. n : SubSeq(t, 1, n)[k] = t[k]
    BY <2>2, SubSeqProperties
  <2> QED BY <2>1, <2>3 DEF Front
<1>4. PICK f \in Seq(S) : f = Front(t)
  BY <1>3
<1>5. PICK u \in Seq(S) :
        /\ u = Append(f, Last(t))
        /\ Len(u) = Len(f) + 1
        /\ \A k \in 1 .. Len(f) : u[k] = f[k]
        /\ u[Len(f) + 1] = Last(t)
  BY <1>2, AppendFacts
<1>6. \A k \in 1 .. Len(t) : u[k] = t[k]
  BY <1>1, <1>3, <1>4, <1>5 DEF Last
<1>7. u = t
  BY <1>1, <1>3, <1>4, <1>5, <1>6, SeqEqual
<1> QED BY <1>1, <1>2, <1>3, <1>4, <1>5, <1>7

(* The row of the cursor shows t and nothing else, with the cursor behind. *)
Shows(s, x, y, t) ==
  /\ x = Len(t)
  /\ \A c \in Cols : s[y][c] = IF c < Len(t) THEN t[c + 1] ELSE Blank

(* u is t and one more element. *)
Longer(u, t) == Len(u) = Len(t) + 1 /\ \A k \in 1 .. Len(t) : u[k] = t[k]

(* An empty row shows the empty sequence. *)
LEMMA EmptyShown ==
  ASSUME NEW s, NEW y, s[y] = Empty
  PROVE  Shows(s, 0, y, <<>>)
<1>1. \A c \in Cols : Empty[c] = Blank /\ ~(c < 0)
  BY Sizes DEF Empty, Cols
<1> QED BY <1>1 DEF Shows

(* A character typed behind t, before the last column. *)
LEMMA PutShown ==
  ASSUME NEW s, NEW x, NEW y, Good(s, x, y), NEW t, NEW u,
         Len(t) \in Nat, Len(t) + 1 < COLS, Shows(s, x, y, t), Longer(u, t),
         u[Len(t) + 1] \in Glyphs,
         NEW s2, NEW x2, NEW y2, Puts(s, x, y, u[Len(t) + 1], s2, x2, y2)
  PROVE  Good(s2, x2, y2) /\ Shows(s2, x2, y2, u)
<1>1. COLS \in Nat /\ x = Len(t) /\ x # COLS - 1
  BY Sizes DEF Shows
<1>2. /\ Good(s2, x2, y2) /\ x2 = x + 1 /\ y2 = y
      /\ \A c \in Cols : s2[y][c] = IF c = x THEN u[Len(t) + 1] ELSE s[y][c]
  BY <1>1, PutEffect
<1>3. ASSUME NEW c \in Cols
      PROVE  s2[y2][c] = IF c < Len(u) THEN u[c + 1] ELSE Blank
  <2>1. c \in Nat
    BY Sizes DEF Cols
  <2>2. Len(u) = Len(t) + 1
    BY DEF Longer
  <2>3. CASE c = x
    BY <1>1, <1>2, <2>1, <2>2, <2>3
  <2>4. CASE c < x
    <3>1. c + 1 \in 1 .. Len(t)
      BY <1>1, <2>1, <2>4
    <3>2. u[c + 1] = t[c + 1]
      BY <3>1 DEF Longer
    <3>3. s[y][c] = t[c + 1]
      BY <1>1, <2>4 DEF Shows
    <3> QED BY <1>1, <1>2, <2>1, <2>2, <2>4, <3>2, <3>3
  <2>5. CASE c > x
    <3>1. s[y][c] = Blank
      BY <1>1, <2>1, <2>5 DEF Shows
    <3> QED BY <1>1, <1>2, <2>1, <2>2, <2>5, <3>1
  <2> QED BY <1>1, <2>1, <2>3, <2>4, <2>5
<1> QED BY <1>1, <1>2, <1>3 DEF Shows, Longer

(* A backspace behind u. *)
LEMMA EraseShown ==
  ASSUME NEW s, NEW x, NEW y, Good(s, x, y), NEW t, NEW u,
         Len(t) \in Nat, Shows(s, x, y, u), Longer(u, t),
         NEW s2, NEW x2, NEW y2, Erases(s, x, y, s2, x2, y2)
  PROVE  Good(s2, x2, y2) /\ Shows(s2, x2, y2, t)
<1>1. x = Len(t) + 1
  BY DEF Shows, Longer
<1>2. /\ Good(s2, x2, y2) /\ y2 = y /\ x2 = Len(t)
      /\ \A c \in Cols : s2[y][c] = IF c = x2 THEN Blank ELSE s[y][c]
  BY <1>1, EraseEffect
<1>3. ASSUME NEW c \in Cols
      PROVE  s2[y2][c] = IF c < Len(t) THEN t[c + 1] ELSE Blank
  <2>1. c \in Nat
    BY Sizes DEF Cols
  <2>2. Len(u) = Len(t) + 1
    BY DEF Longer
  <2>3. CASE c = Len(t)
    BY <1>2, <2>3
  <2>4. CASE c < Len(t)
    <3>1. c + 1 \in 1 .. Len(t)
      BY <2>1, <2>4
    <3>2. u[c + 1] = t[c + 1]
      BY <3>1 DEF Longer
    <3>3. s[y][c] = u[c + 1]
      BY <2>1, <2>2, <2>4 DEF Shows
    <3> QED BY <1>2, <2>1, <2>4, <3>2, <3>3
  <2>5. CASE c > Len(t)
    <3>1. s[y][c] = Blank
      BY <2>1, <2>2, <2>5 DEF Shows
    <3> QED BY <1>2, <2>1, <2>5, <3>1
  <2> QED BY <2>1, <2>3, <2>4, <2>5
<1> QED BY <1>2, <1>3 DEF Shows

-----------------------------------------------------------------------------
(* The shell.                                                              *)

(* buf holds the line, up to idx; what follows is left from earlier lines. *)
LineHeld ==
  /\ buf \in [0 .. BUF_SIZE - 1 -> Keys \cup {NUL}]
  /\ idx \in 0 .. BUF_SIZE - 1
  /\ typed \in Seq(Keys)
  /\ Len(typed) = idx
  /\ \A k \in 1 .. idx : buf[k - 1] = typed[k]

(* A full line fits beside the prompt. *)
Fits == Len(Prompt) + BUF_SIZE <= COLS

(* What Enter leaves to be printed: the prompt comes last, and before it   *)
(* the end of a line or of everything.                                     *)
Answer(o) ==
  /\ o \in Seq(Printed) /\ o # <<>>
  /\ o[Len(o)] = ">"
  /\ Len(o) > 1 => o[Len(o) - 1] \in {NL, HALT}

Shown(t) == Shows(screen, s_cur_col, s_cur_row, t)

(* The row of the cursor between two keys: what it shows and what is still *)
(* to be printed make up the prompt and the line.                          *)
RowInStep ==
  \/ out = <<>> /\ Shown(Prompt \o typed)
  \/ typed # <<>> /\ out = <<Last(typed)>> /\ Shown(Prompt \o Front(typed))
  \/ out = <<BS>> /\ \E k \in Keys : Shown(Prompt \o Append(typed, k))
  \/ typed = <<>> /\ Answer(out) /\ (Len(out) = 1 => Shown(<<>>))

IInv ==
  /\ Good(screen, s_cur_col, s_cur_row)
  /\ s_files \in Table
  /\ LineHeld
  /\ halted \in BOOLEAN
  /\ out \in Seq(Printed)
  /\ Fits /\ ~halted => RowInStep

(* The shell's console is the console. *)
LEMMA FbViews ==
  /\ \A ch : Fb!putchar_glyph(ch) => Puts(screen, s_cur_col, s_cur_row, ch,
                                          screen', s_cur_col', s_cur_row')
  /\ Fb!putchar_nl => LineEnds(screen, s_cur_row, screen', s_cur_col', s_cur_row')
  /\ Fb!putchar_bs => Erases(screen, s_cur_col, s_cur_row,
                             screen', s_cur_col', s_cur_row')
  /\ Fb!fb_clear => Clears(screen', s_cur_col', s_cur_row')
  /\ Fb!Init => Clears(screen, s_cur_col, s_cur_row)
<1>1. Fb!BlankRow = Empty /\ Fb!Row = Rows /\ Fb!Blank = Blank
  BY DEF Fb!BlankRow, Fb!Row, Fb!Col, Fb!Blank, Empty, Rows, Cols, Blank
<1>2. \A t : Fb!scroll_up(t) = Scrolled(t)
  BY <1>1 DEF Fb!scroll_up, Scrolled
<1>3. \A x, ch : Fb!draw_glyph(x, ch) = Draw(screen, x, s_cur_row, ch)
  BY DEF Fb!draw_glyph, Draw
<1>4. \A t : Fb!NewLine(t) => LineEnds(t, s_cur_row, screen', s_cur_col', s_cur_row')
  BY <1>2 DEF Fb!NewLine, LineEnds
<1>5. \A ch : Fb!putchar_glyph(ch) => Puts(screen, s_cur_col, s_cur_row, ch,
                                           screen', s_cur_col', s_cur_row')
  BY <1>3, <1>4 DEF Fb!putchar_glyph, Fb!Put, Puts
<1>6. Fb!putchar_bs => Erases(screen, s_cur_col, s_cur_row,
                              screen', s_cur_col', s_cur_row')
  BY <1>1, <1>3 DEF Fb!putchar_bs, Erases
<1>7. Fb!fb_clear => Clears(screen', s_cur_col', s_cur_row')
  BY <1>1 DEF Fb!fb_clear, Clears
<1>8. Fb!Init => Clears(screen, s_cur_col, s_cur_row)
  BY <1>1 DEF Fb!Init, Clears
<1> QED BY <1>4, <1>5, <1>6, <1>7, <1>8 DEF Fb!putchar_nl

(* fb_print, case by case. *)
LEMMA PrintIs ==
  ASSUME fb_print
  PROVE  /\ out # <<>> /\ Head(out) # HALT /\ out' = Tail(out)
         /\ UNCHANGED <<s_files, buf, idx, halted, typed>>
         /\ Head(out) = NL =>
              LineEnds(screen, s_cur_row, screen', s_cur_col', s_cur_row')
         /\ Head(out) = BS => Erases(screen, s_cur_col, s_cur_row,
                                     screen', s_cur_col', s_cur_row')
         /\ Head(out) = CLEAR => Clears(screen', s_cur_col', s_cur_row')
         /\ Head(out) \notin {NL, BS, CLEAR} =>
              Puts(screen, s_cur_col, s_cur_row, Head(out),
                   screen', s_cur_col', s_cur_row')
<1>1. NL # BS /\ NL # CLEAR /\ BS # CLEAR
  BY DEF NL, BS, CLEAR
<1>2. CASE Head(out) = NL
  BY <1>1, <1>2, FbViews DEF fb_print
<1>3. CASE Head(out) = BS
  BY <1>1, <1>3, FbViews DEF fb_print
<1>4. CASE Head(out) = CLEAR
  BY <1>1, <1>4, FbViews DEF fb_print
<1>5. CASE Head(out) \notin {NL, BS, CLEAR}
  BY <1>1, <1>5, FbViews DEF fb_print
<1> QED BY <1>2, <1>3, <1>4, <1>5

(* A line behind the prompt. *)
LEMMA PromptFacts ==
  ASSUME NEW t \in Seq(Keys)
  PROVE  /\ Prompt \o t \in Seq(Glyphs)
         /\ Len(Prompt \o t) = Len(t) + 1
         /\ (Prompt \o t)[1] = ">"
         /\ \A k \in 1 .. Len(t) : (Prompt \o t)[k + 1] = t[k]
<1>1. Prompt \in Seq(Glyphs) /\ Len(Prompt) = 1 /\ Prompt[1] = ">" /\ t \in Seq(Glyphs)
  BY PrintedSeqs DEF Prompt
<1>2. Len(t) \in Nat
  OBVIOUS
<1>3. /\ Prompt \o t \in Seq(Glyphs)
      /\ Len(Prompt \o t) = 1 + Len(t)
      /\ \A i \in 1 .. 1 + Len(t) :
           (Prompt \o t)[i] = IF i <= 1 THEN Prompt[i] ELSE t[i - 1]
  <2>1. PICK p \in Seq(Glyphs), w \in Seq(Glyphs) : p = Prompt /\ w = t /\ Len(p) = 1
    BY <1>1
  <2>2. /\ p \o w \in Seq(Glyphs)
        /\ Len(p \o w) = Len(p) + Len(w)
        /\ \A i \in 1 .. Len(p) + Len(w) :
             (p \o w)[i] = IF i <= Len(p) THEN p[i] ELSE w[i - Len(p)]
    BY ConcatProperties
  <2> QED BY <2>1, <2>2
<1>4. \A k \in 1 .. Len(t) : (Prompt \o t)[k + 1] = t[k]
  BY <1>2, <1>3
<1> QED BY <1>1, <1>2, <1>3, <1>4

(* A character more behind the prompt. *)
LEMMA PromptLonger ==
  ASSUME NEW t \in Seq(Keys), NEW c \in Keys
  PROVE  /\ Longer(Prompt \o Append(t, c), Prompt \o t)
         /\ (Prompt \o Append(t, c))[Len(Prompt \o t) + 1] = c
         /\ Longer(Prompt \o <<>>, <<>>)
<1>1. PICK u \in Seq(Keys) :
        /\ u = Append(t, c) /\ Len(u) = Len(t) + 1
        /\ \A k \in 1 .. Len(t) : u[k] = t[k]
        /\ u[Len(t) + 1] = c
  BY AppendFacts
<1>2. Len(t) \in Nat
  OBVIOUS
<1>3. /\ Len(Prompt \o u) = Len(u) + 1
      /\ (Prompt \o u)[1] = ">"
      /\ \A k \in 1 .. Len(u) : (Prompt \o u)[k + 1] = u[k]
  BY PromptFacts
<1>4. /\ Len(Prompt \o t) = Len(t) + 1
      /\ (Prompt \o t)[1] = ">"
      /\ \A k \in 1 .. Len(t) : (Prompt \o t)[k + 1] = t[k]
  BY PromptFacts
<1>5. ASSUME NEW k \in 1 .. Len(Prompt \o t)
      PROVE  (Prompt \o u)[k] = (Prompt \o t)[k]
  <2>1. CASE k = 1
    BY <1>3, <1>4, <2>1
  <2>2. CASE k # 1
    <3>1. PICK j \in 1 .. Len(t) : k = j + 1
      BY <1>2, <1>4, <2>2
    <3>2. j \in 1 .. Len(u)
      BY <1>1, <1>2
    <3> QED BY <1>1, <1>3, <1>4, <3>1, <3>2
  <2> QED BY <2>1, <2>2
<1>6. (Prompt \o u)[Len(Prompt \o t) + 1] = c
  <2>1. PICK j \in 1 .. Len(u) : j = Len(t) + 1
    BY <1>1, <1>2
  <2> QED BY <1>1, <1>3, <1>4, <2>1
<1>7. Len(Prompt \o <<>>) = 1 /\ Len(<<>>) = 0
  <2>1. <<>> \in Seq(Keys) /\ Len(<<>>) = 0
    BY EmptySeq
  <2>2. Len(Prompt \o <<>>) = Len(<<>>) + 1
    BY <2>1, PromptFacts
  <2> QED BY <2>1, <2>2
<1> QED BY <1>1, <1>2, <1>3, <1>4, <1>5, <1>6, <1>7 DEF Longer

(* The line that Enter hands to shell_execute is the one typed: the NUL at *)
(* idx cuts off what buf keeps of longer lines.                            *)
LEMMA CStringIs ==
  ASSUME LineHeld
  PROVE  CString([buf EXCEPT ![idx] = NUL]) = typed
<1>1. PICK b : b = [buf EXCEPT ![idx] = NUL]
  OBVIOUS
<1>2. BUF_SIZE \in Nat \ {0} /\ NUL \notin Keys
  BY ShellAssumption
<1>3. /\ idx \in Nat /\ idx \in 0 .. BUF_SIZE - 1
      /\ DOMAIN b = 0 .. BUF_SIZE - 1
      /\ b[idx] = NUL
      /\ \A i \in 0 .. idx - 1 : b[i] = typed[i + 1] /\ b[i] # NUL
  <2>1. /\ idx \in Nat /\ idx \in 0 .. BUF_SIZE - 1
        /\ DOMAIN b = 0 .. BUF_SIZE - 1
        /\ b[idx] = NUL
    BY <1>1, <1>2 DEF LineHeld
  <2>2. ASSUME NEW i \in 0 .. idx - 1
        PROVE  b[i] = typed[i + 1] /\ b[i] # NUL
    <3>1. i \in 0 .. BUF_SIZE - 1 /\ i # idx /\ i + 1 \in 1 .. idx /\ (i + 1) - 1 = i
      BY <1>2, <2>1
    <3>2. b[i] = buf[i]
      BY <1>1, <3>1 DEF LineHeld
    <3>3. buf[(i + 1) - 1] = typed[i + 1]
      BY <3>1 DEF LineHeld
    <3>4. typed[i + 1] \in Keys
      BY <3>1 DEF LineHeld
    <3> QED BY <1>2, <3>1, <3>2, <3>3, <3>4
  <2> QED BY <2>1, <2>2
<1> DEFINE S == {i \in DOMAIN b : b[i] = NUL}
<1>4. Min(S) = idx
  <2>1. idx \in S /\ \A i \in S : idx <= i
    BY <1>2, <1>3
  <2>2. \A i \in S : i \in Nat
    BY <1>3
  <2>3. \A x \in S : (\A y \in S : x <= y) => x = idx
    BY <2>1, <2>2
  <2> HIDE DEF S
  <2> QED BY <2>1, <2>3 DEF Min
<1>5. CString(b) = [i \in 1 .. idx |-> b[i - 1]]
  BY <1>4 DEF CString
<1>6. typed = [i \in 1 .. idx |-> typed[i]]
  BY DEF LineHeld
<1>7. \A i \in 1 .. idx : b[i - 1] = typed[i]
  <2>1. \A i \in 1 .. idx : i - 1 \in 0 .. idx - 1 /\ (i - 1) + 1 = i
    BY <1>3
  <2> QED BY <1>3, <2>1
<1> QED BY <1>1, <1>5, <1>6, <1>7

(* No glyph controls the console. *)
LEMMA GlyphsPlain ==
  \A g \in Glyphs : g \notin {NL, BS, CLEAR, HALT}
<1>1. \A g \in Keys : g \notin {NL, BS, CLEAR, HALT}
  BY ShellAssumption
<1>2. \A g \in ToSet(Digit) : g \notin {NL, BS, CLEAR, HALT}
  <2>1. \A g \in ToSet(Digit) : \E i \in 1 .. 10 : g = Digit[i]
    BY DEF ToSet, Digit
  <2>2. \A i \in 1 .. 10 : Digit[i] \notin {NL, BS, CLEAR, HALT}
    BY DEF Digit, NL, BS, CLEAR, HALT
  <2> QED BY <2>1, <2>2
<1>3. T \notin {NL, BS, CLEAR, HALT} /\ ">" \notin {NL, BS, CLEAR, HALT}
  BY DEF T, NL, BS, CLEAR, HALT
<1> QED BY <1>1, <1>2, <1>3 DEF Glyphs

(* The prompt behind output that ends. *)
LEMMA AnswerIs ==
  ASSUME NEW o, Ends(o)
  PROVE  Answer(o \o Prompt) /\ Len(o \o Prompt) > 1
<1>1. PICK a \in Seq(Printed) : a = o /\ Len(a) \in Nat \ {0} /\ a[Len(a)] \in {NL, HALT}
  BY DEF Ends
<1>2. PICK p \in Seq(Printed) : p = Prompt /\ Len(p) = 1 /\ p[1] = ">"
  <2>1. ">" \in Printed
    BY PrintedSeqs DEF Printed
  <2>2. Prompt \in Seq(Printed) /\ Len(Prompt) = 1 /\ Prompt[1] = ">"
    BY <2>1 DEF Prompt
  <2> QED BY <2>2
<1>3. PICK u \in Seq(Printed) :
        /\ u = a \o p
        /\ Len(u) = Len(a) + Len(p)
        /\ \A i \in 1 .. Len(a) + Len(p) :
             u[i] = IF i <= Len(a) THEN a[i] ELSE p[i - Len(a)]
  <2>1. /\ a \o p \in Seq(Printed)
        /\ Len(a \o p) = Len(a) + Len(p)
        /\ \A i \in 1 .. Len(a) + Len(p) :
             (a \o p)[i] = IF i <= Len(a) THEN a[i] ELSE p[i - Len(a)]
    BY ConcatProperties
  <2> QED BY <2>1
<1>4. Len(u) = Len(a) + 1 /\ u[Len(a) + 1] = ">" /\ u[Len(a)] = a[Len(a)]
  BY <1>1, <1>2, <1>3
<1>5. u # <<>> /\ Len(u) > 1 /\ Len(u) - 1 = Len(a)
  BY <1>1, <1>4
<1> QED BY <1>1, <1>2, <1>3, <1>4, <1>5 DEF Answer

(* One character less to print. *)
LEMMA AnswerTail ==
  ASSUME NEW o, Answer(o), Len(o) > 1
  PROVE  /\ Answer(Tail(o)) /\ Head(o) \in Printed
         /\ Len(Tail(o)) = 1 => Head(o) \in {NL, HALT}
<1>1. o \in Seq(Printed) /\ o # <<>> /\ Len(o) \in Nat
  BY DEF Answer
<1>2. PICK t \in Seq(Printed) :
        /\ t = Tail(o) /\ Len(t) = Len(o) - 1
        /\ \A i \in 1 .. Len(t) : t[i] = o[i + 1]
  BY <1>1, HeadTailProperties
<1>3. t # <<>> /\ t[Len(t)] = ">"
  <2>1. Len(t) \in 1 .. Len(t) /\ Len(t) + 1 = Len(o)
    BY <1>1, <1>2
  <2> QED BY <1>2, <2>1 DEF Answer
<1>4. ASSUME Len(t) > 1
      PROVE  t[Len(t) - 1] \in {NL, HALT}
  <2>1. Len(t) - 1 \in 1 .. Len(t) /\ (Len(t) - 1) + 1 = Len(o) - 1
    BY <1>1, <1>2, <1>4
  <2> QED BY <1>2, <2>1 DEF Answer
<1>5. Len(t) = 1 => Head(o) = o[Len(o) - 1]
  BY <1>1, <1>2
<1>6. Head(o) \in Printed
  BY <1>1, HeadTailProperties
<1> QED BY <1>2, <1>3, <1>4, <1>5, <1>6 DEF Answer

(* The shell starts with an empty screen and the banner to print. *)
LEMMA ShellInit == Init => IInv
<1> SUFFICES ASSUME Init PROVE IInv
  OBVIOUS
<1>1. Good(screen, s_cur_col, s_cur_row)
  BY FbViews, ClearEffect DEF Init
<1>2. s_files \in Table
  BY FilesTyped DEF Init
<1>3. LineHeld
  <2>1. BUF_SIZE \in Nat \ {0}
    BY ShellAssumption
  <2>2. typed \in Seq(Keys) /\ Len(typed) = 0
    BY EmptySeq DEF Init
  <2>3. buf \in [0 .. BUF_SIZE - 1 -> Keys \cup {NUL}] /\ idx \in 0 .. BUF_SIZE - 1
    BY <2>1 DEF Init
  <2> QED BY <2>2, <2>3 DEF LineHeld, Init
<1>4. Answer(out) /\ Len(out) > 1
  <2>1. {T, NL} \subseteq Printed
    BY PrintedSeqs DEF Printed
  <2>2. Ends(<<NL, T, NL, T, NL, NL>>)
    BY <2>1 DEF Ends
  <2> QED BY <2>2, AnswerIs DEF Init
<1>5. out \in Seq(Printed)
  BY <1>4 DEF Answer
<1>6. RowInStep
  BY <1>4 DEF RowInStep, Init
<1> QED BY <1>1, <1>2, <1>3, <1>5, <1>6 DEF IInv, Init

(* Enter: the answer to the line typed is printed, the next line is empty. *)
LEMMA EnterAnswers ==
  ASSUME IInv, key_enter
  PROVE  /\ out' = <<NL>> \o shell_execute(typed) \o Prompt
         /\ Answer(out') /\ Len(out') > 1
<1>1. out' = <<NL>> \o shell_execute(typed) \o Prompt
  BY CStringIs DEF IInv, key_enter
<1>2. PICK x : x = shell_execute(typed)
  OBVIOUS
<1>3. x = <<>> \/ Ends(x)
  BY <1>2, ExecuteEnds DEF IInv, LineHeld
<1>4. Ends(<<NL>> \o x)
  <2>1. <<NL>> \in Seq(Printed) /\ Ends(<<NL>>)
    BY ShortOutputs DEF Ends
  <2>2. CASE x = <<>>
    <3>1. <<NL>> \o x = <<NL>>
      BY <2>1, <2>2, ConcatEmptySeq
    <3> QED BY <2>1, <3>1
  <2>3. CASE Ends(x)
    BY <2>1, <2>3, ConcatEnds
  <2> QED BY <1>3, <2>2, <2>3
<1> QED BY <1>1, <1>2, <1>4, AnswerIs

(* Enter keeps the invariant. *)
LEMMA EnterPreserves ==
  ASSUME IInv, key_enter
  PROVE  IInv'
<1>1. Answer(out') /\ Len(out') > 1
  BY EnterAnswers
<1>2. out' \in Seq(Printed) /\ RowInStep'
  BY <1>1 DEF Answer, RowInStep, key_enter
<1>3. LineHeld'
  <2>1. typed' \in Seq(Keys) /\ Len(typed') = 0
    BY EmptySeq DEF key_enter
  <2>2. buf' \in [0 .. BUF_SIZE - 1 -> Keys \cup {NUL}] /\ idx' = 0
    BY DEF key_enter, IInv, LineHeld
  <2>3. idx' \in 0 .. BUF_SIZE - 1
    BY <2>2, ShellAssumption
  <2> QED BY <2>1, <2>2, <2>3 DEF LineHeld
<1> QED BY <1>2, <1>3 DEF IInv, key_enter, console

(* Between two keys the row shows the whole line. *)
LEMMA NothingToPrint ==
  ASSUME RowInStep, out = <<>>
  PROVE  Shown(Prompt \o typed)
<1>1. \A z : <<z>> # <<>>
  OBVIOUS
<1>2. out # <<Last(typed)>> /\ out # <<BS>>
  BY <1>1
<1>3. ~Answer(out)
  BY DEF Answer
<1> QED BY <1>2, <1>3 DEF RowInStep

(* A backspace takes a character off the line and sends its erasure. *)
LEMMA BackspacePreserves ==
  ASSUME IInv, key_backspace
  PROVE  IInv'
<1>1. typed \in Seq(Keys) /\ Len(typed) = idx /\ idx \in 0 .. BUF_SIZE - 1 /\ idx > 0
      /\ BUF_SIZE \in Nat
  BY ShellAssumption DEF IInv, LineHeld, key_backspace
<1>2. typed # <<>>
  BY <1>1, EmptySeq
<1>3. PICK f \in Seq(Keys), k \in Keys :
        /\ f = Front(typed) /\ k = Last(typed)
        /\ Len(f) = Len(typed) - 1
        /\ \A j \in 1 .. Len(typed) - 1 : f[j] = typed[j]
        /\ Append(f, k) = typed
  BY <1>1, <1>2, FrontLast
<1>4. typed' = f /\ idx' = idx - 1 /\ buf' = buf /\ out = <<>> /\ out' = <<BS>>
      /\ ~halted
      /\ UNCHANGED <<screen, s_cur_col, s_cur_row, s_files, halted>>
  BY <1>3 DEF key_backspace, Reading, console
<1>5. LineHeld'
  <2>1. idx' \in 0 .. BUF_SIZE - 1 /\ Len(typed') = idx'
    BY <1>1, <1>3, <1>4
  <2>2. ASSUME NEW j \in 1 .. idx'
        PROVE  buf'[j - 1] = typed'[j]
    <3>1. j \in 1 .. idx /\ j \in 1 .. Len(typed) - 1
      BY <1>1, <1>4
    <3>2. buf[j - 1] = typed[j]
      BY <3>1 DEF IInv, LineHeld
    <3> QED BY <1>3, <1>4, <3>1, <3>2
  <2> QED BY <1>3, <1>4, <2>1, <2>2 DEF IInv, LineHeld
<1>6. <<BS>> \in Seq(Printed)
  BY DEF Printed
<1>7. ASSUME Fits
      PROVE  RowInStep'
  <2>1. Shown(Prompt \o typed)
    <3>1. RowInStep
      BY <1>4, <1>7 DEF IInv
    <3> QED BY <1>4, <3>1, NothingToPrint
  <2>2. Shown(Prompt \o Append(typed, k))'
    BY <1>3, <1>4, <2>1 DEF Shown
  <2> QED BY <1>4, <2>2 DEF RowInStep
<1> QED BY <1>4, <1>5, <1>6, <1>7 DEF IInv, Fits

(* A character goes to the end of the line and to the screen. *)
LEMMA CharPreserves ==
  ASSUME IInv, NEW c \in Keys, key_char(c)
  PROVE  IInv'
<1>1. typed \in Seq(Keys) /\ Len(typed) = idx /\ idx \in 0 .. BUF_SIZE - 1
      /\ idx < BUF_SIZE - 1 /\ BUF_SIZE \in Nat
  BY ShellAssumption DEF IInv, LineHeld, key_char, Room
<1>2. PICK u \in Seq(Keys) :
        /\ u = Append(typed, c) /\ u # <<>>
        /\ Len(u) = Len(typed) + 1
        /\ \A k \in 1 .. Len(typed) : u[k] = typed[k]
        /\ u[Len(typed) + 1] = c
        /\ Last(u) = c /\ Front(u) = typed
  BY <1>1, AppendFacts
<1>3. /\ typed' = u /\ idx' = idx + 1 /\ buf' = [buf EXCEPT ![idx] = c]
      /\ out = <<>> /\ out' = <<c>> /\ ~halted
      /\ UNCHANGED <<screen, s_cur_col, s_cur_row, s_files, halted>>
  BY <1>2 DEF key_char, Reading, console
<1>4. LineHeld'
  <2>1. idx' \in 0 .. BUF_SIZE - 1 /\ Len(typed') = idx'
    BY <1>1, <1>2, <1>3
  <2>2. buf' \in [0 .. BUF_SIZE - 1 -> Keys \cup {NUL}]
    BY <1>3 DEF IInv, LineHeld
  <2>3. ASSUME NEW k \in 1 .. idx'
        PROVE  buf'[k - 1] = typed'[k]
    <3>1. CASE k = idx + 1
      <4>1. k - 1 = idx
        BY <1>1, <3>1
      <4>2. buf'[idx] = c
        BY <1>1, <1>3 DEF IInv, LineHeld
      <4> QED BY <1>1, <1>2, <1>3, <3>1, <4>1, <4>2
    <3>2. CASE k # idx + 1
      <4>1. k \in 1 .. idx /\ k - 1 \in 0 .. BUF_SIZE - 1 /\ k - 1 # idx
        BY <1>1, <1>3, <3>2
      <4>2. buf'[k - 1] = buf[k - 1]
        BY <1>3, <4>1 DEF IInv, LineHeld
      <4>3. buf[k - 1] = typed[k]
        BY <4>1 DEF IInv, LineHeld
      <4> QED BY <1>1, <1>2, <1>3, <4>1, <4>2, <4>3
    <3> QED BY <3>1, <3>2
  <2> QED BY <1>3, <2>1, <2>2, <2>3 DEF LineHeld
<1>5. <<c>> \in Seq(Printed)
  BY DEF Printed, Glyphs
<1>6. ASSUME Fits
      PROVE  RowInStep'
  <2>1. Shown(Prompt \o typed)
    <3>1. RowInStep
      BY <1>3, <1>6 DEF IInv
    <3> QED BY <1>3, <3>1, NothingToPrint
  <2>2. Shown(Prompt \o Front(typed))'
    BY <1>2, <1>3, <2>1 DEF Shown
  <2> QED BY <1>2, <1>3, <2>2 DEF RowInStep
<1> QED BY <1>3, <1>4, <1>5, <1>6 DEF IInv, Fits

(* A character reaches the console, and the rest is still to be printed. *)
LEMMA PrintKeepsConsole ==
  ASSUME IInv, fb_print
  PROVE  Good(screen, s_cur_col, s_cur_row)' /\ Tail(out) \in Seq(Printed)
<1>1. /\ Good(screen, s_cur_col, s_cur_row) /\ out \in Seq(Printed)
      /\ out # <<>> /\ Head(out) # HALT
  BY PrintIs DEF IInv
<1>2. Head(out) \in Printed /\ Tail(out) \in Seq(Printed)
  BY <1>1, HeadTailProperties
<1>3. CASE Head(out) = NL
  BY <1>1, <1>3, PrintIs, LineEffect DEF Good, OnScreen
<1>4. CASE Head(out) = BS
  BY <1>1, <1>4, PrintIs, EraseEffect
<1>5. CASE Head(out) = CLEAR
  BY <1>2, <1>5, PrintIs, ClearEffect
<1>6. CASE Head(out) \in Glyphs
  <2>1. Head(out) \notin {NL, BS, CLEAR}
    BY <1>6, GlyphsPlain
  <2> QED BY <1>1, <1>6, <2>1, PrintIs, PutEffect
<1> QED BY <1>1, <1>2, <1>3, <1>4, <1>5, <1>6 DEF Printed

(* A character of the line, or an erasure, or the prompt, appears on the   *)
(* row; the end of a line starts an empty one.                             *)
LEMMA PrintKeepsRow ==
  ASSUME IInv, fb_print, Fits, ~halted
  PROVE  RowInStep'
<1>1. /\ Good(screen, s_cur_col, s_cur_row) /\ RowInStep
      /\ typed \in Seq(Keys) /\ Len(typed) \in 0 .. BUF_SIZE - 1
      /\ BUF_SIZE \in Nat /\ COLS \in Nat /\ 1 + BUF_SIZE <= COLS
  BY ShellAssumption DEF IInv, LineHeld, Fits, Prompt
<1>2. out # <<>> /\ Head(out) # HALT /\ out' = Tail(out) /\ typed' = typed
  BY PrintIs
<1>3. CASE typed # <<>> /\ out = <<Last(typed)>> /\ Shown(Prompt \o Front(typed))
  <2>1. PICK f \in Seq(Keys), k \in Keys :
          f = Front(typed) /\ k = Last(typed) /\ Len(f) = Len(typed) - 1
          /\ Append(f, k) = typed
    BY <1>1, <1>3, FrontLast
  <2>2. Head(out) = k /\ out' = <<>>
    BY <1>2, <1>3, <2>1
  <2>3. k \in Glyphs /\ k \notin {NL, BS, CLEAR}
    BY GlyphsPlain DEF Glyphs
  <2>4. Puts(screen, s_cur_col, s_cur_row, k, screen', s_cur_col', s_cur_row')
    BY <2>2, <2>3, PrintIs
  <2>5. PICK t, u : t = Prompt \o f /\ u = Prompt \o typed
    OBVIOUS
  <2>6. Len(t) = Len(typed) /\ Longer(u, t) /\ u[Len(t) + 1] = k
    <3>1. Len(t) = Len(f) + 1
      BY <2>5, PromptFacts
    <3>2. Longer(u, t) /\ u[Len(t) + 1] = k
      BY <2>1, <2>5, PromptLonger
    <3> QED BY <1>1, <2>1, <3>1, <3>2
  <2>7. Shows(screen, s_cur_col, s_cur_row, t)
    BY <1>3, <2>1, <2>5 DEF Shown
  <2>8. Len(t) \in Nat /\ Len(t) + 1 < COLS
    BY <1>1, <2>6
  <2>9. Shows(screen', s_cur_col', s_cur_row', u)
    BY <1>1, <2>3, <2>4, <2>6, <2>7, <2>8, PutShown
  <2> QED BY <1>2, <2>2, <2>5, <2>9 DEF RowInStep, Shown
<1>4. CASE out = <<BS>> /\ \E k \in Keys : Shown(Prompt \o Append(typed, k))
  <2>1. PICK k \in Keys : Shown(Prompt \o Append(typed, k))
    BY <1>4
  <2>2. Head(out) = BS /\ out' = <<>>
    BY <1>2, <1>4
  <2>3. Erases(screen, s_cur_col, s_cur_row, screen', s_cur_col', s_cur_row')
    BY <2>2, PrintIs
  <2>4. PICK t, u : t = Prompt \o typed /\ u = Prompt \o Append(typed, k)
    OBVIOUS
  <2>5. Longer(u, t) /\ Len(t) \in Nat
    BY <1>1, <2>4, PromptLonger, PromptFacts
  <2>6. Shows(screen', s_cur_col', s_cur_row', t)
    BY <1>1, <2>1, <2>3, <2>4, <2>5, EraseShown DEF Shown
  <2> QED BY <1>2, <2>2, <2>4, <2>6 DEF RowInStep, Shown
<1>5. CASE typed = <<>> /\ Answer(out) /\ Len(out) = 1 /\ Shown(<<>>)
  <2>1. Head(out) = ">" /\ out' = <<>>
    <3>1. out \in Seq(Printed) /\ out[1] = ">"
      BY <1>5 DEF Answer
    <3>2. Len(Tail(out)) = 0 /\ Tail(out) \in Seq(Printed)
      BY <1>2, <1>5, <3>1, HeadTailProperties
    <3> QED BY <1>2, <3>1, <3>2, EmptySeq
  <2>2. ">" \in Glyphs /\ ">" \notin {NL, BS, CLEAR}
    BY PrintedSeqs, GlyphsPlain
  <2>3. Puts(screen, s_cur_col, s_cur_row, ">", screen', s_cur_col', s_cur_row')
    BY <2>1, <2>2, PrintIs
  <2>4. PICK e, u : e = <<>> /\ u = Prompt \o <<>> /\ u = Prompt \o typed
    BY <1>5
  <2>5. Longer(u, e) /\ Len(e) = 0 /\ u[Len(e) + 1] = ">"
    <3>1. <<>> \in Seq(Keys) /\ Len(<<>>) = 0 /\ Blank \in Keys
      BY EmptySeq, ShellAssumption
    <3>2. Longer(u, e)
      BY <2>4, <3>1, PromptLonger
    <3>3. u[1] = ">"
      BY <2>4, <3>1, PromptFacts
    <3> QED BY <2>4, <3>1, <3>2, <3>3
  <2>6. Shows(screen, s_cur_col, s_cur_row, e)
    BY <1>5, <2>4 DEF Shown
  <2>7. Len(e) \in Nat /\ Len(e) + 1 < COLS
    BY <1>1, <2>5
  <2>8. Shows(screen', s_cur_col', s_cur_row', u)
    BY <1>1, <2>2, <2>3, <2>5, <2>6, <2>7, PutShown
  <2> QED BY <1>2, <2>1, <2>4, <2>8 DEF RowInStep, Shown
<1>6. CASE typed = <<>> /\ Answer(out) /\ Len(out) # 1
  <2>1. Len(out) > 1
    <3>1. PICK n \in Nat \ {0} : n = Len(out)
      BY <1>2, <1>6, EmptySeq DEF Answer
    <3>2. n # 1
      BY <1>6, <3>1
    <3>3. n > 1
      BY <3>2
    <3> QED BY <3>1, <3>3
  <2>2. Answer(out') /\ (Len(out') = 1 => Head(out) = NL)
    BY <1>2, <1>6, <2>1, AnswerTail
  <2>3. ASSUME Head(out) = NL
        PROVE  Shown(<<>>)'
    <3>1. LineEnds(screen, s_cur_row, screen', s_cur_col', s_cur_row')
      BY <2>3, PrintIs
    <3>2. s_cur_col' = 0 /\ screen'[s_cur_row'] = Empty
      BY <1>1, <3>1, LineEffect DEF Good, OnScreen
    <3> QED BY <3>2, EmptyShown DEF Shown
  <2> QED BY <1>2, <1>6, <2>2, <2>3 DEF RowInStep
<1> QED BY <1>1, <1>2, <1>3, <1>4, <1>5, <1>6 DEF RowInStep

(* fb_print keeps the invariant. *)
LEMMA PrintPreserves ==
  ASSUME IInv, fb_print
  PROVE  IInv'
<1>1. out' = Tail(out) /\ UNCHANGED <<s_files, buf, idx, halted, typed>>
  BY PrintIs
<1>2. LineHeld'
  BY <1>1 DEF IInv, LineHeld
<1> QED BY <1>1, <1>2, PrintKeepsConsole, PrintKeepsRow DEF IInv, Fits

(* So does the end of reboot and panic. *)
LEMMA HaltPreserves ==
  ASSUME IInv, halt
  PROVE  IInv'
<1>1. <<>> \in Seq(Printed)
  BY EmptySeq
<1> QED BY <1>1 DEF IInv, halt, console, LineHeld

(* What every step of the shell keeps: the screen is sound, buf holds the  *)
(* line, and the cursor's row and what is still to be printed make up the  *)
(* prompt and the line.                                                    *)
THEOREM ShellInvariant == Spec => []IInv
<1>1. IInv /\ [Next]_vars => IInv'
  <2> SUFFICES ASSUME IInv, [Next]_vars PROVE IInv'
    OBVIOUS
  <2>1. CASE key_enter
    BY <2>1, EnterPreserves
  <2>2. CASE key_backspace
    BY <2>2, BackspacePreserves
  <2>3. CASE \E c \in Keys : key_char(c)
    BY <2>3, CharPreserves
  <2>4. CASE fb_print
    BY <2>4, PrintPreserves
  <2>5. CASE halt
    BY <2>5, HaltPreserves
  <2>6. CASE UNCHANGED vars
    BY <2>6 DEF vars, console, IInv, LineHeld, RowInStep, Shown
  <2> QED BY <2>1, <2>2, <2>3, <2>4, <2>5, <2>6 DEF Next
<1> QED BY <1>1, ShellInit, PTL DEF Spec

(* The cursor never leaves the screen and the line always leaves room for  *)
(* its NUL, whatever is typed and printed.                                 *)
THEOREM ShellTypes == Spec => []TypeOK
<1>1. IInv => TypeOK
  <2> SUFFICES ASSUME IInv PROVE TypeOK
    OBVIOUS
  <2>1. Fb!TypeOK
    <3>1. 0 \in 0 .. COLS + 4
      BY Sizes
    <3> QED BY <3>1 DEF IInv, Good, OnScreen, Rows, Cols, Fb!TypeOK, Fb!Row, Fb!Col
  <2> QED BY <2>1 DEF IInv, LineHeld, TypeOK
<1> QED BY <1>1, ShellInvariant, PTL

(* Enter executes exactly the characters typed and not erased, for a line  *)
(* buffer, a file table and command words of any size.                     *)
THEOREM EnterRunsWhatWasTyped == Spec => EnterRunsTyped
<1>1. ASSUME IInv, [Next]_vars
      PROVE  [out = <<>> /\ out' # <<>> /\ Head(out') = NL
                => out' = <<NL>> \o shell_execute(typed) \o Prompt]_vars
  <2> SUFFICES ASSUME out = <<>>, out' # <<>>, Head(out') = NL
               PROVE  out' = <<NL>> \o shell_execute(typed) \o Prompt
    OBVIOUS
  <2>1. CASE key_enter
    BY <1>1, <2>1, EnterAnswers
  <2>2. CASE key_backspace
    BY <2>2 DEF key_backspace, BS, NL
  <2>3. CASE \E c \in Keys : key_char(c)
    <3>1. NL \notin Keys
      BY ShellAssumption
    <3> QED BY <2>3, <3>1 DEF key_char
  <2>4. CASE fb_print \/ halt \/ UNCHANGED vars
    BY <2>4 DEF fb_print, halt, vars
  <2> QED BY <1>1, <2>1, <2>2, <2>3, <2>4 DEF Next
<1> QED BY <1>1, ShellInvariant, PTL DEF Spec, EnterRunsTyped

(* Whenever the shell waits for a key, the cursor's row shows the prompt   *)
(* and the line that Enter would execute, on every screen on which a full  *)
(* line fits beside the prompt.                                            *)
THEOREM ScreenShowsLine == Spec => []LineShown
<1>1. IInv => LineShown
  <2> SUFFICES ASSUME IInv, Fits, Reading PROVE LineShown
    BY DEF LineShown, Fits
  <2>1. Shown(Prompt \o typed)
    BY NothingToPrint DEF IInv, Reading
  <2> QED BY <2>1 DEF Shown, Shows, LineShown, Cols
<1> QED BY <1>1, ShellInvariant, PTL
==============================================================================
