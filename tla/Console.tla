------------------------------ MODULE Console ------------------------------
(***************************************************************************)
(* The console: conlib.c over ssfn_putc of ssfn.c, drawing on the frame    *)
(* buffer, which is memory addressed by pixel.  A call of the console is   *)
(* one step: the handlers that return do not use it, and those that do     *)
(* print a message and stop.                                               *)
(***************************************************************************)
EXTENDS Integers, Sequences, SequencesExt, Folds, FiniteSetsExt, TLC

CONSTANTS
  Modes,                 \* graphics modes: width, height, pixels per scan line
  PitchMod,              \* pixels of a line whose bytes a uint16_t can count, 16384
  CellWidth, CellHeight, \* the font's width and height, and every glyph's
  Table,                 \* the font's table of characters
  Limit,                 \* code points it may name, 0x110000
  Texts,                 \* what is printed: sequences of unsigned bytes
  Colours,               \* what callers set: foreground and background
  Positions,             \* places callers of puts_at name
  Logo,                  \* what the firmware left on the screen
  MaxCalls               \* bound on the calls

ASSUME ConsoleAssumption ==
  /\ Modes \subseteq [w : Nat \ {0}, h : Nat \ {0}, ppsl : Nat]
  /\ \A m \in Modes : m.w >= CellWidth /\ m.h >= CellHeight /\ m.ppsl >= m.w
  /\ \A t \in Texts : t \in Seq(1 .. 255)

VARIABLES
  mode,    \* the graphics mode
  dst,     \* ssfn_dst: x, y, fg, bg, and the memory ptr points to
  call,    \* the last call
  calls    \* how many there were

vars == <<mode, dst, call, calls>>

\* conlib_init; a part of the memory behind the frame buffer is looked at too.
Init ==
  /\ mode \in Modes
  /\ dst = [x |-> 0, y |-> 0, fg |-> 1, bg |-> 0,
            ptr |-> [a \in 0 .. (mode.h + CellHeight) * mode.ppsl - 1 |-> Logo]]
  /\ call = <<"none">> /\ calls = 0

-----------------------------------------------------------------------------
(* ssfn_putc.                                                              *)

\* Pixels from one line to the next: the pitch is kept in 16 bits.
Stride == mode.ppsl % PitchMod

(***************************************************************************)
(* The table is a sequence of entries: a glyph, [frags |-> its fragments], *)
(* stands for one code point, [skip |-> j] for j + 1 that have none.       *)
(* First[k] is where entry k stands.                                       *)
(***************************************************************************)
Skips(entry) == "skip" \in DOMAIN entry

First[k \in 1 .. Len(Table)] ==
  IF k = 1 THEN 0
  ELSE First[k - 1] + (IF Skips(Table[k - 1]) THEN Table[k - 1].skip + 1 ELSE 1)

\* The glyphs found for a code point: one or none.
Glyphs(unicode) ==
  {Table[k] : k \in {k \in DOMAIN Table : /\ ~ Skips(Table[k])
                                          /\ First[k] = unicode /\ unicode < Limit}}

\* Rows of the background colour, nothing if that is 0.
Blank(rows, bg) == [d \in (IF bg = 0 THEN {} ELSE rows \X (0 .. CellWidth - 1)) |-> bg]

\* A mutation: the rows between two fragments are left as they are.
DrawFragment_gap_kept(d, frag, fg, bg) ==
  LET y == IF bg = 0 THEN frag.top ELSE Max({d.y, frag.top})
      rows == y .. y + Len(frag.rows) - 1
      row(p) == frag.rows[p[1] - y + 1]
  IN  [y |-> y + Len(frag.rows),
       px |-> [p \in {p \in rows \X (0 .. CellWidth - 1) : bg # 0 \/ p[2] \in row(p)} |->
                 IF p[2] \in row(p) THEN fg ELSE bg] @@ d.px]

\* A fragment is drawn below what is drawn already, after the rows left out
\* between the two; its own rows are the columns that are set.
DrawFragment(d, frag, fg, bg) ==
  LET y == IF bg = 0 THEN frag.top ELSE Max({d.y, frag.top})
      rows == y .. y + Len(frag.rows) - 1
      row(p) == frag.rows[p[1] - y + 1]
  IN  [y |-> y + Len(frag.rows),
       px |-> [p \in {p \in rows \X (0 .. CellWidth - 1) : bg # 0 \/ p[2] \in row(p)} |->
                 IF p[2] \in row(p) THEN fg ELSE bg]
               @@ Blank(d.y .. frag.top - 1, bg) @@ d.px]

\* The pixels drawn, by row and column within the cell.
Drawing(glyph, fg, bg) ==
  LET d == FoldLeft(LAMBDA acc, frag : DrawFragment(acc, frag, fg, bg),
                    [y |-> 0, px |-> << >>], SelectSeq(glyph.frags, LAMBDA frag : frag.bitmap))
  IN  Blank(d.y .. CellHeight - 1, bg) @@ d.px

\* Only rows and columns of the screen are written.
Paint(c, px) ==
  LET shown == {p \in DOMAIN px : c.y + p[1] < mode.h /\ c.x + p[2] < mode.w}
      at(a) == {p \in shown : (c.y + p[1]) * Stride + c.x + p[2] = a}
  IN  [c EXCEPT !.ptr = [a \in DOMAIN @ |-> IF at(a) = {} THEN @[a] ELSE px[CHOOSE p \in at(a) : TRUE]]]

\* Nothing is done without a pitch, or without a glyph.
ssfn_putc(c, unicode) ==
  IF Stride = 0 \/ Glyphs(unicode) = {} THEN c
  ELSE LET glyph == CHOOSE g \in Glyphs(unicode) : TRUE
       IN  [Paint(c, Drawing(glyph, c.fg, c.bg)) EXCEPT !.x = @ + CellWidth]

-----------------------------------------------------------------------------
(* conlib.c.                                                               *)

\* A char is signed: as a uint32_t a negative one is beyond every code point.
CodePoint(ch) == IF ch < 128 THEN ch ELSE Limit + ch

NewLine(c) == [c EXCEPT !.y = @ + CellHeight, !.x = 0]

putc(c, ch) ==
  LET d == CASE ch = 10 -> NewLine(c)
             [] ch = 13 -> [c EXCEPT !.x = 0]
             [] ch = 9  -> c
             [] OTHER   -> ssfn_putc(c, CodePoint(ch))
  IN  IF d.x >= mode.w THEN NewLine(d) ELSE d

puts(c, str) == FoldLeft(putc, c, str)

\* A loop adds the number of columns, or rows, until the place is not negative.
FromEdge(n, whole) == IF n < 0 THEN n % whole ELSE n

Called(what) ==
  /\ calls < MaxCalls
  /\ calls' = calls + 1
  /\ call' = what
  /\ UNCHANGED mode

\* puts, and puts_n, which prints one string after another.
Puts(str) ==
  /\ Called(<<"print", str>>)
  /\ dst' = puts(dst, str)

Putln(str) ==
  /\ Called(<<"print", Append(str, 10)>>)
  /\ dst' = putc(puts(dst, str), 10)

SetColor(fg, bg) ==
  /\ Called(<<"colours", fg, bg>>)
  /\ dst' = [dst EXCEPT !.fg = fg, !.bg = bg]

\* putsx, which ERR calls, puts the colours back.
Putsx(fg, bg, str) ==
  /\ Called(<<"coloured", fg, bg, str>>)
  /\ dst' = [puts([dst EXCEPT !.fg = fg, !.bg = bg], str) EXCEPT !.fg = dst.fg, !.bg = dst.bg]

PutsAt(x, y, str) ==
  /\ Called(<<"at", x, y, str>>)
  /\ dst' = [puts([dst EXCEPT !.x = FromEdge(x, mode.w \div CellWidth) * CellWidth,
                              !.y = FromEdge(y, mode.h \div CellHeight) * CellHeight], str)
               EXCEPT !.x = dst.x, !.y = dst.y]

\* w * h pixels from ptr on, whatever the pitch; the cursor stays.
Cls ==
  /\ Called(<<"clear">>)
  /\ dst' = [dst EXCEPT !.ptr = [a \in DOMAIN @ |-> IF a < mode.w * mode.h THEN dst.bg ELSE @[a]]]

Next ==
  \/ \E str \in Texts : Puts(str) \/ Putln(str)
  \/ \E k \in Colours : SetColor(k[1], k[2])
  \/ \E k \in Colours, str \in Texts : Putsx(k[1], k[2], str)
  \/ \E p \in Positions, str \in Texts : PutsAt(p[1], p[2], str)
  \/ Cls

Spec == Init /\ [][Next]_vars

-----------------------------------------------------------------------------
\* The pixels a glyph sets, in a cell.
InkOf(glyph) ==
  UNION {{<<f.top + i - 1, x>> : x \in f.rows[i]} : <<f, i>> \in
           {<<f, i>> \in {f \in Range(glyph.frags) : f.bitmap} \X (1 .. CellHeight) : i <= Len(f.rows)}}

Ink == [ch \in {ch \in 1 .. 127 : Glyphs(ch) # {}} |-> UNION {InkOf(g) : g \in Glyphs(ch)}]

Screen == (0 .. mode.h - 1) \X (0 .. mode.w - 1)
Pixel(py, px) == py * mode.ppsl + px

\* Pixel <<dy, dx>> of the cell in row r, column c, and those that are visible.
CellPixels(r, c) ==
  {d \in (0 .. CellHeight - 1) \X (0 .. CellWidth - 1) :
     r * CellHeight + d[1] < mode.h /\ c * CellWidth + d[2] < mode.w}
Picture(r, c) ==
  [d \in CellPixels(r, c) |-> dst.ptr[Pixel(r * CellHeight + d[1], c * CellWidth + d[2])]]

(***************************************************************************)
(* On the frame buffer, the console is a terminal: text lands in the cells *)
(* the cursor says, over what was there if the background is 0; nothing    *)
(* else changes, neither another cell, nor the memory between two lines,   *)
(* nor what lies behind the frame buffer when the cursor has run off the   *)
(* last line, since nothing scrolls.                                       *)
(***************************************************************************)
Abstract == INSTANCE Terminal WITH
  page  <- [cells |-> [k \in (0 .. (mode.h - 1) \div CellHeight) \X (0 .. (mode.w - 1) \div CellWidth)
                         |-> Picture(k[1], k[2])],
            col |-> dst.x \div CellWidth, row |-> dst.y \div CellHeight,
            fg |-> dst.fg, bg |-> dst.bg],
  spare <- [a \in DOMAIN dst.ptr \ {Pixel(p[1], p[2]) : p \in Screen} |-> dst.ptr[a]]

ImplementsTerminal == Abstract!Spec

(***************************************************************************)
(* conlib_init sets the colours to "white on black": where white text was  *)
(* printed, a pixel is either.                                             *)
(***************************************************************************)
ColoursAsSet ==
  call[1] = "print" /\ calls = 1 /\ call[2] # <<>> /\ Glyphs(call[2][1]) # {} =>
    \A d \in CellPixels(0, 0) : Picture(0, 0)[d] \in {dst.fg, dst.bg}

=============================================================================
