------------------------------- MODULE MCBoot -------------------------------
(***************************************************************************)
(* Small instances of Boot: 32 to 60 frames, an image of two segments and   *)
(* five frames, tables of four entries (256 pages).                       *)
(***************************************************************************)
EXTENDS Boot

\* Runs of frames of the types in kinds, of the lengths in counts.
Laid(kinds, counts) ==
  LET first(i) == MapThenSumSet(LAMBDA j : counts[j], 1 .. i - 1)
      last == first(Len(counts) + 1) - 1
  IN  [f \in 0 .. last |->
         kinds[CHOOSE i \in DOMAIN counts : first(i) <= f /\ f < first(i) + counts[i]]]

C == Conventional
O == "other"
H == "hole"

\* Low memory, the firmware's, one range above it, and the stack on top.  The
\* pool's frames leave the range more than it takes, just enough, or too little.
MemoryPlain == Laid(<<C, O, C, O>>, <<5, 1, 24, 2>>)

\* A hole below the range, which the sum of the descriptors does not count: the
\* stack lies above that sum.
MemoryHole == Laid(<<C, O, H, C, O>>, <<5, 1, 2, 22, 2>>)

\* The largest range begins inside the image.
MemoryLow == Laid(<<O, C, O, C, O>>, <<1, 29, 2, 28, 1>>)

\* The kernel searches the range its image lies in, beyond the bitmap.
MemoryOne == Laid(<<O, C, O>>, <<1, 29, 2>>)

\* No range has the frames the bitmap needs.
MemoryScattered == Laid(<<O, C, O, C, O>>, <<3, 1, 3, 1, 24>>)

AllMemories == {MemoryPlain, MemoryHole, MemoryLow, MemoryOne, MemoryScattered}

TwoSegments == <<<<0, 1>>, <<1, 4>>>>

\* To read the file the firmware takes nothing, or the last frame of a range or
\* one in the midst of it.
FileCalls == {{}, {8}, {29}}

\* Beyond memory, and its last frames.
SomeFrameBuffers == {<<100, 2, 1>>, <<30, 1, 0>>}

=============================================================================
