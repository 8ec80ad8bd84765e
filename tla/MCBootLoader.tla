---------------------------- MODULE MCBootLoader ----------------------------
(***************************************************************************)
(* Small instances of BootLoader: eight frames, an image of two segments.  *)
(***************************************************************************)
EXTENDS BootLoader

Types(s) == [f \in 0 .. Len(s) - 1 |-> s[f + 1]]

C == Conventional
L == LoaderData
O == "other"

\* The image's frames 0 and 2 to 3 are free; ...
MemoryFree == Types(<<C, C, C, C, O, C, L, C>>)

\* ... one of them is not, ...
MemoryTaken == Types(<<C, C, C, O, O, C, L, C>>)

\* ... or none is.
MemoryFull == Types(<<O, C, O, O, O, C, L, C>>)

AllMemories == {MemoryFree, MemoryTaken, MemoryFull}

AllFrames == 0 .. 7

\* The firmware takes nothing, one frame or two; frame 3 is the image's.
FileCalls == {{}, {3}, {5}, {5, 7}}

TwoSegments == <<<<0, 1>>, <<2, 2>>>>

=============================================================================
