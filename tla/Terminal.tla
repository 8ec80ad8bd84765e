------------------------------ MODULE Terminal ------------------------------
(***************************************************************************)
(* What the console promises: a page of character cells, a cursor, two     *)
(* colours.  Text goes on in the next line at the right edge; what falls   *)
(* below the page or beside it is dropped.  Background 0 is transparent.   *)
(* Console implements it on a frame buffer.                                *)
(***************************************************************************)
EXTENDS Integers, Sequences, SequencesExt

CONSTANTS
  CellWidth, CellHeight,   \* a cell, in pixels
  Ink,                     \* for every character that can be drawn, its pixels in a cell
  Texts, Colours, Positions

VARIABLES
  mode,    \* width, height and distance of the lines, in pixels
  page,    \* [cells, col, row, fg, bg]; a cell is a picture of its visible pixels
  spare,   \* the memory that is no visible pixel, by address
  call     \* the last call

vars == <<mode, page, spare, call>>

None == <<"none">>
Transparent == 0

\* Columns and rows, one that is cut off at the edge included, and whole ones.
Columns == (mode.w + CellWidth - 1) \div CellWidth
Rows == (mode.h + CellHeight - 1) \div CellHeight
WholeColumns == mode.w \div CellWidth
WholeRows == mode.h \div CellHeight

\* The pixels of the cell in row r and column c that are on the screen.
Visible(r, c) ==
  {d \in (0 .. CellHeight - 1) \X (0 .. CellWidth - 1) :
     r * CellHeight + d[1] < mode.h /\ c * CellWidth + d[2] < mode.w}

Cells == (0 .. Rows - 1) \X (0 .. Columns - 1)

Init ==
  /\ DOMAIN page.cells = Cells
  /\ \A k \in Cells : DOMAIN page.cells[k] = Visible(k[1], k[2])
  /\ page.col = 0 /\ page.row = 0
  /\ call = None

-----------------------------------------------------------------------------
NewLine(t) == [t EXCEPT !.row = @ + 1, !.col = 0]

\* A character covers its cell, if it is on the page, and the cursor moves on.
Stamp(t, ch) ==
  LET k == <<t.row, t.col>>
      stamped(cell) == [d \in DOMAIN cell |-> IF d \in Ink[ch] THEN t.fg
                                              ELSE IF t.bg # Transparent THEN t.bg ELSE cell[d]]
  IN  [t EXCEPT !.cells = [j \in Cells |-> IF j = k THEN stamped(@[j]) ELSE @[j]],
                !.col = @ + 1]

\* Characters that cannot be drawn are skipped, tabs among them.
Type(t, ch) ==
  LET u == IF ch = 10 THEN NewLine(t)
           ELSE IF ch = 13 THEN [t EXCEPT !.col = 0]
           ELSE IF ch # 9 /\ ch \in DOMAIN Ink THEN Stamp(t, ch) ELSE t
  IN  IF u.col >= Columns THEN NewLine(u) ELSE u

Written(t, text) == FoldLeft(Type, t, text)

Show(text) ==
  /\ page' = Written(page, text)
  /\ call' = <<"print", text>>
  /\ UNCHANGED <<mode, spare>>

SetColours(fg, bg) ==
  /\ page' = [page EXCEPT !.fg = fg, !.bg = bg]
  /\ call' = <<"colours", fg, bg>>
  /\ UNCHANGED <<mode, spare>>

\* In other colours, which the next text does not keep.
ShowColoured(fg, bg, text) ==
  /\ page' = [Written([page EXCEPT !.fg = fg, !.bg = bg], text)
                EXCEPT !.fg = page.fg, !.bg = page.bg]
  /\ call' = <<"coloured", fg, bg, text>>
  /\ UNCHANGED <<mode, spare>>

\* Somewhere else, counted from the right or the bottom where negative.
ShowAt(c, r, text) ==
  /\ page' = [Written([page EXCEPT !.col = IF c < 0 THEN c % WholeColumns ELSE c,
                                   !.row = IF r < 0 THEN r % WholeRows ELSE r], text)
                EXCEPT !.col = page.col, !.row = page.row]
  /\ call' = <<"at", c, r, text>>
  /\ UNCHANGED <<mode, spare>>

(***************************************************************************)
(* As much memory as the screen has pixels is cleared, from the first one  *)
(* on: the screen, where nothing lies between its lines, and less of it    *)
(* where something does.                                                   *)
(***************************************************************************)
Clear ==
  LET cleared(a) == a < mode.w * mode.h
      address(k, d) == (k[1] * CellHeight + d[1]) * mode.ppsl + k[2] * CellWidth + d[2]
  IN  /\ page' = [page EXCEPT !.cells =
             [k \in Cells |-> [d \in DOMAIN @[k] |->
                IF cleared(address(k, d)) THEN page.bg ELSE @[k][d]]]]
      /\ spare' = [a \in DOMAIN spare |-> IF cleared(a) THEN page.bg ELSE spare[a]]
      /\ call' = <<"clear">>
      /\ UNCHANGED mode

Next ==
  \/ \E text \in Texts : Show(text) \/ Show(Append(text, 10))
  \/ \E k \in Colours : SetColours(k[1], k[2])
  \/ \E k \in Colours, text \in Texts : ShowColoured(k[1], k[2], text)
  \/ \E p \in Positions, text \in Texts : ShowAt(p[1], p[2], text)
  \/ Clear

Spec == Init /\ [][Next]_vars

=============================================================================
