----------------------------- MODULE MCPageMap -----------------------------
(***************************************************************************)
(* Small instances of PageMap: tables of two entries, a memory of nine     *)
(* frames, of which seven at most can become tables.                       *)
(***************************************************************************)
EXTENDS PageMap

Region(kind, a, n) == [type |-> kind, start |-> a, pages |-> n]

\* One range: enough for the tables of two pages, or for one and other frames.
MapOneRange == <<Region("other", 0, 1), Region(Conventional, 1, 8)>>

\* Two ranges: the search starts in the last one and leaves the first unused.
MapTwoRanges ==
  <<Region("other", 0, 1), Region(Conventional, 1, 2), Region("other", 3, 1),
    Region(Conventional, 4, 5)>>

AllMaps == {MapOneRange, MapTwoRanges}

\* Two pages in one leaf table, one two levels apart, one under another root entry.
SomePages == {<<0, 0, 0, 0>>, <<0, 0, 0, 1>>, <<0, 1, 0, 0>>, <<1, 0, 1, 1>>}

=============================================================================
