----------------------------- MODULE MCConsole -----------------------------
(***************************************************************************)
(* Small instances of Console: cells of two by four pixels, a screen of    *)
(* two by two cells and one whose last column and row are cut off and      *)
(* whose lines have a pixel between them.                                  *)
(***************************************************************************)
EXTENDS Console

Whole == [w |-> 4, h |-> 8, ppsl |-> 4]
Cut == [w |-> 5, h |-> 9, ppsl |-> 6]
AllModes == {Whole, Cut}

Fragment(top, rows) == [bitmap |-> TRUE, top |-> top, rows |-> rows]
Glyph(frags) == [frags |-> frags]
Skip(j) == [skip |-> j]

\* A space without fragments, a letter with a gap, one with a fragment that is
\* no bitmap, and a character a signed char cannot name.
SmallTable ==
  <<Skip(31), Glyph(<<>>), Skip(31),
    Glyph(<<Fragment(0, <<{0, 1}>>), Fragment(2, <<{1}, {0}>>)>>),
    Glyph(<<[bitmap |-> FALSE, top |-> 0], Fragment(1, <<{0}>>)>>),
    Skip(132), Glyph(<<Fragment(0, <<{0}>>)>>)>>

A == 65
B == 66
SomeTexts == {<<>>, <<A>>, <<B, 32, A>>, <<A, 10, B>>, <<B, 13, A>>, <<A, 9, 200, B>>}

\* White on "black", which is transparent, and black on white.
SomeColours == {<<1, 0>>, <<0, 1>>}

\* Within the page, from the right and the bottom, and beyond both.
SomePositions == {<<-1, 0>>, <<1, -3>>, <<7, 0>>, <<0, 9>>}

=============================================================================
