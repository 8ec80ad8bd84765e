--------------------------- MODULE MCPageAllocator ---------------------------
(***************************************************************************)
(* Small instances of PageAllocator: bitmap words of 2 bits, two words to  *)
(* a frame, one low frame, counters modulo 10, an int that overflows at 4  *)
(* pages.                                                                  *)
(***************************************************************************)
EXTENDS PageLoops

Region(kind, a, n) == [type |-> kind, start |-> a, pages |-> n]

\* Two conventional ranges round a hole of another type; the larger one above.
MapSplit ==
  <<Region(Conventional, 0, 2), Region("other", 2, 1), Region(Conventional, 3, 4)>>

\* The largest range starts at address 0, which ppa_init takes for "none found".
MapAtZero == <<Region(Conventional, 0, 4), Region("other", 4, 2)>>

\* An unlisted hole: the last range lies partly beyond the sum of the sizes.
MapHole ==
  <<Region("other", 0, 1), Region(Conventional, 1, 2), Region(Conventional, 4, 2)>>

\* The last conventional range lies wholly beyond the sum of the sizes.
MapBeyond ==
  <<Region("other", 0, 1), Region(Conventional, 1, 3), Region(Conventional, 8, 1)>>

\* A range that overflows the release loop's int, above memory that is not free.
MapOverspan == <<Region("other", 0, 2), Region(Conventional, 2, 5)>>

\* No conventional memory but the low frame: everything ends up taken.
MapLowOnly == <<Region("other", 3, 1), Region(Conventional, 1, 1), Region("other", 2, 1)>>

AllMaps == {MapSplit, MapAtZero, MapHole, MapBeyond, MapOverspan, MapLowOnly}

\* Single frames, ranges across a hole, one that leaves memory, and one long
\* enough for the int to go round and below the range.
SomeRanges == {<<1, 1>>, <<3, 2>>, <<4, 1>>, <<5, 1>>, <<1, 3>>, <<6, 3>>, <<4, 6>>}

=============================================================================
