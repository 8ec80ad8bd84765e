----------------------------- MODULE BootLoader -----------------------------
(***************************************************************************)
(* bootloader.c: from efi_main to the kernel's entry.  The firmware is     *)
(* modelled by what the loader sees of it: a type for every frame, a key   *)
(* that changes whenever an allocation changes the map, and calls that may *)
(* fail.  The loader looks at the outcome of few of them.                  *)
(***************************************************************************)
EXTENDS Integers, Sequences, FiniteSets

CONSTANTS
  Memories,   \* what the firmware's frames are when GetMemoryMap begins; a hole is
              \* an address range the memory map does not list
  Segments,   \* the loadable segments of kernel.elf: first frame, pages
  Stack,      \* the frames of the loader's stack, with the frame buffer record
  Pool,       \* where the firmware may place a pool buffer
  Growth      \* the sets of frames it may take for itself while it serves a step

Conventional == "EfiConventionalMemory"
LoaderData == "EfiLoaderData"

Pages(a, n) == a .. (a + n - 1)

ASSUME BootAssumption ==
  /\ Segments \in Seq(Nat \X (Nat \ {0}))
  /\ \A i, j \in DOMAIN Segments :   \* kernel.ld aligns the sections to frames
       i # j => Pages(Segments[i][1], Segments[i][2])
                  \cap Pages(Segments[j][1], Segments[j][2]) = {}
  /\ \A m \in Memories :
       /\ DOMAIN m = 0 .. Cardinality(DOMAIN m) - 1
       /\ m \in [DOMAIN m -> {Conventional, LoaderData, "other", "hole"}]
       /\ Stack \subseteq {f \in DOMAIN m : m[f] # Conventional}
       /\ Pool \subseteq DOMAIN m
  /\ {} \in Growth

VARIABLES
  pc,
  frames,      \* the type of every frame
  key,         \* the map's key: counts the changes of the map
  exited,      \* boot services have ended
  MapSize,     \* descriptors that fit the loader's buffer
  buffer,      \* frames of that buffer
  handed,      \* the map in the buffer: frames and key, when it was fetched
  segment,     \* the program header being looked at
  overwritten  \* frames the loader wrote to without having got them

vars == <<pc, frames, key, exited, MapSize, buffer, handed, segment, overwritten>>

Init ==
  /\ pc = "gop"
  /\ frames \in Memories /\ key = 0 /\ exited = FALSE
  /\ MapSize = 1 /\ buffer = {} /\ handed = [frames |-> <<>>, key |-> 0]
  /\ segment = 1 /\ overwritten = {}

At(label) == pc = label

-----------------------------------------------------------------------------
(* The firmware.                                                           *)

FreeFrames == {f \in DOMAIN frames : frames[f] = Conventional}

\* The descriptors of the map, by their first frames: one for every run of
\* frames of one type, none for the frames of a hole.
Runs(fr) == {f \in DOMAIN fr : fr[f] # "hole" /\ (f = 0 \/ fr[f] # fr[f - 1])}
Descriptors == Cardinality(Runs(frames))

\* The frames F, all of them free, go to the loader, and the frames G to the
\* firmware itself.
Take(F, G) ==
  /\ F \cup G \subseteq FreeFrames /\ F \cap G = {}
  /\ frames' = [f \in DOMAIN frames |-> IF f \in F THEN LoaderData
                                       ELSE IF f \in G THEN "other" ELSE frames[f]]
  /\ key' = IF F \cup G = {} THEN key ELSE key + 1

\* A pool buffer, in frame f, lies in memory the pool has already, or in one
\* more frame.
AllocatePool(f, G) ==
  \/ Take({f}, G)
  \/ frames[f] = LoaderData /\ Take({}, G)

-----------------------------------------------------------------------------
(* efi_main.                                                               *)

\* InitializeGop; without a graphics mode the loader stops.
InitializeGop ==
  /\ At("gop")
  /\ pc' \in {"map", "END"}
  /\ UNCHANGED <<frames, key, exited, MapSize, buffer, handed, segment, overwritten>>

\* A mutation: the map is fetched before its buffer is allocated.
GetMemoryMap_before_buffer ==
  /\ At("map")
  /\ \E f \in Pool :
       /\ AllocatePool(f, {})
       /\ buffer' = {f}
  /\ IF Descriptors <= MapSize
       THEN /\ handed' = [frames |-> frames, key |-> key]
            /\ pc' = "open"
            /\ UNCHANGED MapSize
       ELSE MapSize' = Descriptors /\ UNCHANGED <<pc, handed>>
  /\ UNCHANGED <<exited, segment, overwritten>>

\* A mutation: the size the firmware asked for is forgotten.
GetMemoryMap_size_kept ==
  /\ At("map")
  /\ \E f \in Pool :
       /\ AllocatePool(f, {})
       /\ buffer' = {f}
  /\ IF Descriptors' <= MapSize
       THEN handed' = [frames |-> frames', key |-> key'] /\ pc' = "open"
       ELSE UNCHANGED <<pc, handed>>
  /\ UNCHANGED <<exited, MapSize, segment, overwritten>>

(***************************************************************************)
(* One turn of GetMemoryMap's loop: a buffer of the size last asked for,   *)
(* and a call that fills it or asks for more.  The allocation may itself   *)
(* have added a descriptor.  Buffers that were too small are not freed.    *)
(***************************************************************************)
GetMemoryMap ==
  /\ At("map")
  /\ \E f \in Pool :
       /\ AllocatePool(f, {})
       /\ buffer' = {f}
  /\ IF Descriptors' <= MapSize
       THEN /\ handed' = [frames |-> frames', key |-> key']
            /\ pc' = "open"
            /\ UNCHANGED MapSize
       ELSE MapSize' = Descriptors' /\ UNCHANGED <<pc, handed>>
  /\ UNCHANGED <<exited, segment, overwritten>>

\* Without a buffer the call fails, GetMemoryMap returns NULL and efi_main stops.
NoMemoryMap ==
  /\ At("map")
  /\ pc' = "END"
  /\ UNCHANGED <<frames, key, exited, MapSize, buffer, handed, segment, overwritten>>

(***************************************************************************)
(* GetKernelEntry: open the volume and kernel.elf, read its header.  A     *)
(* file that did not open is used all the same; a header that is not the   *)
(* kernel's ends the loader.  To open and read files the firmware may need *)
(* memory of its own, here and in the steps below, and the map has been    *)
(* fetched: what it takes now, the map calls free.                         *)
(***************************************************************************)
ReadHeader ==
  /\ At("open")
  /\ \E G \in Growth : Take({}, G)
  /\ pc' \in {"headers", "END", "astray"}
  /\ UNCHANGED <<exited, MapSize, buffer, handed, segment, overwritten>>

\* The program headers are read into a pool buffer nobody checks or frees.
ReadProgramHeaders ==
  /\ At("headers")
  /\ \/ /\ \E f \in Pool, G \in Growth : AllocatePool(f, G)
        /\ pc' = "load"
     \/ /\ pc' = "astray"
        /\ UNCHANGED <<frames, key>>
  /\ UNCHANGED <<exited, MapSize, buffer, handed, segment, overwritten>>

\* What the loader goes on to use: its stack, the map, the program headers.
LoaderFrames == Stack \cup {f \in DOMAIN frames : frames[f] = LoaderData}

(***************************************************************************)
(* A segment goes to its physical address.  AllocatePages refuses frames   *)
(* that are not free; the segment is read to its place in any case, and    *)
(* if what the loader works with lies there, that is overwritten.          *)
(***************************************************************************)
LoadSegment ==
  /\ At("load") /\ segment <= Len(Segments)
  /\ LET F == Pages(Segments[segment][1], Segments[segment][2])
     IN  \/ /\ \E G \in Growth : Take(F, G)
            /\ UNCHANGED <<pc, overwritten>>
         \/ /\ ~ F \subseteq FreeFrames
            /\ \E G \in Growth : Take({}, G)
            /\ \/ F \cap (Stack \cup buffer) = {} /\ UNCHANGED pc
               \/ F \cap LoaderFrames # {} /\ pc' = "astray"
            /\ overwritten' = overwritten \cup F
  /\ segment' = segment + 1
  /\ UNCHANGED <<exited, MapSize, buffer, handed>>

\* A mutation: the key is asked for again.
ExitBootServices_fresh_key ==
  /\ At("load") /\ segment > Len(Segments)
  /\ exited' = TRUE
  /\ pc' = "kernel"
  /\ UNCHANGED <<frames, key, MapSize, buffer, handed, segment, overwritten>>

\* The firmware ends boot services only for the current key; the kernel is
\* entered whatever it answers.
ExitBootServices ==
  /\ At("load") /\ segment > Len(Segments)
  /\ exited' = (handed.key = key)
  /\ pc' = "kernel"
  /\ UNCHANGED <<frames, key, MapSize, buffer, handed, segment, overwritten>>

Progress ==
  \/ InitializeGop \/ GetMemoryMap \/ ReadHeader
  \/ ReadProgramHeaders \/ LoadSegment \/ ExitBootServices

Next == Progress \/ NoMemoryMap

\* The loader is the only program that runs; that the firmware has no buffer
\* to give is not taken for granted.
Spec == Init /\ [][Next]_vars /\ WF_vars(Progress)

-----------------------------------------------------------------------------
Image == UNION {Pages(Segments[i][1], Segments[i][2]) : i \in DOMAIN Segments}

(***************************************************************************)
(* The map the kernel gets is older than the image, so it may call the     *)
(* image's frames free: init_kernel has to lock the image itself.  All     *)
(* else the kernel still needs, the stack with the frame buffer record and *)
(* the map itself, is not free memory in that map; and of what the loader  *)
(* holds besides, the map calls one frame free at most, that of the        *)
(* program headers.  (What the firmware has taken since is another         *)
(* matter: Boot says what becomes of it.)                                  *)
(***************************************************************************)
NeededFramesListed ==
  pc = "kernel" =>
    /\ \A f \in Stack \cup buffer : handed.frames[f] # Conventional
    /\ Cardinality({f \in DOMAIN frames : /\ frames[f] = LoaderData
                                          /\ handed.frames[f] = Conventional} \ Image) <= 1

(***************************************************************************)
(* The image is allocated after the map was fetched, and that makes the    *)
(* key stale: the kernel runs without boot services having ended, unless   *)
(* every allocation of the image was refused.  So what the firmware has    *)
(* taken since is in use as long as the kernel runs.                       *)
(***************************************************************************)
EnteredWithBootServices ==
  pc = "kernel" /\ Segments # <<>> /\ exited => Image \subseteq overwritten

\* The loop of GetMemoryMap ends, although every turn may enlarge the map.
MapLoopEnds == (pc = "map") ~> (pc # "map")

=============================================================================
