--------------------------- MODULE MCKernelMemory ---------------------------
(***************************************************************************)
(* Small instances of KernelMemory: tables of three entries (81 pages),    *)
(* memories of 12 to 27 frames, of which the tables need up to 21.         *)
(***************************************************************************)
EXTENDS KernelMemory

Region(kind, a, n) == [type |-> kind, start |-> a, pages |-> n]

\* The loader's memory below, one range for the kernel above it.
MapPlain == <<Region("other", 0, 3), Region(Conventional, 3, 24)>>

\* Two ranges round reserved memory; the search stays in the last one.
MapSplit ==
  <<Region("other", 0, 2), Region(Conventional, 2, 6), Region("other", 8, 1),
    Region(Conventional, 9, 17)>>

\* Too small for the tables it needs.
MapSmall == <<Region("other", 0, 3), Region(Conventional, 3, 9)>>

\* No segment for the bitmap: the largest one starts at address 0.
MapAtZero == <<Region(Conventional, 0, 12), Region("other", 12, 2)>>

\* The image lies in a range the map still calls conventional.
MapStale == <<Region("other", 0, 1), Region(Conventional, 1, 3), Region(Conventional, 4, 22)>>

AllMaps == {MapPlain, MapSplit, MapSmall, MapAtZero, MapStale}

\* Beyond memory, within it, one that ends with a part of a frame, and one
\* round the test page.
SomeFrameBuffers == {<<60, 2, 0>>, <<20, 2, 0>>, <<40, 1, 1>>, <<77, 2, 0>>}

=============================================================================
