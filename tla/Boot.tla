-------------------------------- MODULE Boot --------------------------------
(***************************************************************************)
(* From the firmware to the mapping test: the loader of BootLoader, and    *)
(* after it the kernel of KernelMemory on the memory map, the image and    *)
(* the stack the loader leaves.                                            *)
(***************************************************************************)
EXTENDS KernelMemory

CONSTANTS
  Memories, Segments, Stack, Pool, Growth   \* as in BootLoader

VARIABLES
  lpc,                                                  \* the loader's pc
  frames, key, exited, MapSize, buffer, handed, segment, overwritten,
  room    \* frames the allocator had to give when init_pmm began

Loader == INSTANCE BootLoader WITH pc <- lpc

loader_vars ==
  <<lpc, frames, key, exited, MapSize, buffer, handed, segment, overwritten>>

system_vars == <<kernel_vars, loader_vars, room>>

\* kernel.ld: the segments lie between _kernel_start, which is 0, and _kernel_end.
ASSUME ImageAssumption ==
  /\ Loader!Image \subseteq KernelImage
  /\ \A m \in Memories :
       /\ Pool \subseteq DOMAIN m
       /\ Stack \subseteq {f \in DOMAIN m : m[f] # Conventional}

\* The memory has a frame for every number below its size, and what lies at its
\* end, the image, and a bitmap that begins there still have addresses of 47 bits.
ASSUME MemoryAssumption ==
  LET pages == Fanout * (Fanout * (Fanout * Fanout))
  IN  /\ KernelPages <= pages
      /\ \A m \in Memories :
           LET n == Cardinality(DOMAIN m)
           IN  n \in Nat /\ DOMAIN m = 0 .. (n - 1) /\ n < CounterMod /\ 2 * n <= pages

\* The frames of the descriptor that begins at frame a.
RunFrom(fr, a) == {f \in DOMAIN fr : f >= a /\ \A g \in a .. f : fr[g] = fr[a]}

\* The map as ppa_init walks it: a descriptor for each run of frames of one type.
MapOf(fr) ==
  LET starts == Loader!Runs(fr)
      first(d) == CHOOSE a \in starts : Cardinality({b \in starts : b <= a}) = d
  IN  [d \in 1 .. Cardinality(starts) |->
         [type  |-> IF fr[first(d)] = Conventional THEN Conventional ELSE "other",
          start |-> first(d),
          pages |-> Cardinality(RunFrom(fr, first(d)))]]

\* The loader reads the part of a segment that is in the file and leaves the rest
\* as it was: .bss, and with it ppa_initialized, need not be zero.
SystemInit ==
  /\ Loader!Init
  /\ ppa \in {Unbooted, [Unbooted EXCEPT !.initialized = TRUE]}
  /\ mem = <<>> /\ lost = FALSE /\ PML4 = {} /\ others = {}
  /\ pc = "ppa_init" /\ fb \in FrameBuffers /\ addr = 0 /\ cr3 = {}
  /\ room = 0

Load == Loader!Next /\ UNCHANGED <<kernel_vars, room>>

\* What ppa_request can still answer with that is a frame of memory.
Room(s) == Cardinality(Candidates(s) \cap Usable(s))

Run ==
  /\ lpc = "kernel"
  /\ \/ \E wraps \in BOOLEAN : InitAllocator(MapOf(handed.frames), wraps)
     \/ LockKernel \/ LockFrameBuffer \/ RequestPml4 \/ MapMemory \/ MapFrameBuffer
     \/ RequestIdt \/ TestMapping
  /\ room' = IF pc = "lock_fb" THEN Room(ppa') ELSE room
  /\ UNCHANGED loader_vars

SystemNext == Load \/ Run

SystemSpec == SystemInit /\ [][SystemNext]_system_vars

-----------------------------------------------------------------------------
\* ppa_init has set the allocator up.
Started == ppa.initialized /\ ppa.size > 0

Bitmap == Pages(ppa.data, bitmap_pages(ppa))

\* What somebody has, or what is no memory.
Occupied == {f \in DOMAIN frames : frames[f] # Conventional}

\* What was taken after the map was fetched: the map calls it free.
Unlisted == {f \in Occupied : handed.frames[f] = Conventional}

(***************************************************************************)
(* For its page tables and its descriptor table the kernel keeps off the   *)
(* image, the stack and the map itself, and off everything else that was   *)
(* in use when the loader fetched the map.  What was taken since the map   *)
(* calls free and the kernel may take: the program headers, which nobody   *)
(* needs any more, and what the firmware needed to read the file, which    *)
(* goes on using it.  The bitmap is placed before the image is locked: it  *)
(* keeps off the image if its range starts above it, and off the rest if   *)
(* it is not longer than its range.  A range too long for the int of       *)
(* ppa_init's loop may release what lies below it.                         *)
(***************************************************************************)
KernelTakesOnlyListedFree ==
  Started =>
    LET taken == Tables \cup others
        overshot == Overshot(MapOf(handed.frames))
    IN  /\ taken \cap Loader!Image = {}
        /\ taken \cap (Stack \cup buffer) \subseteq overshot
        /\ taken \cap Occupied \subseteq Unlisted \cup overshot
        /\ ppa.data >= KernelPages => Bitmap \cap Loader!Image = {}
        /\ Bitmap \subseteq RunFrom(handed.frames, ppa.data) =>
             Bitmap \cap (Stack \cup buffer) = {} /\ Bitmap \cap Occupied \subseteq Unlisted

\* The tables the kernel's pages need, its root and the descriptor table.
MappedAtBoot == Pages(0, ppa.total) \cup Pages(fb[1], fbsize_up) \cup {TestPage}

NeededFrames ==
  2 + Cardinality(UNION {{SubSeq(PageOf(a), 1, n) : n \in 1 .. 3} : a \in MappedAtBoot})

(***************************************************************************)
(* init_pmm, init_idt and the mapping test check no answer of ppa_request. *)
(* They get through exactly when ppa_init did its work, which takes a      *)
(* cleared .bss and a range for the bitmap, and the last conventional      *)
(* range, as the loader's own buffers have left it, holds a frame for      *)
(* every table.                                                            *)
(***************************************************************************)
BootFitsExactly ==
  /\ lost => ~ Started \/ room < NeededFrames
  /\ pc = "done" /\ ~ lost => Started /\ room >= NeededFrames

(***************************************************************************)
(* The kernel goes on with the loader's stack and its own image and bitmap *)
(* once its tables are in use.  The tables map as many frames as the       *)
(* descriptors list, from 0 up: where the map has holes, memory above that *)
(* sum is not mapped, and a stack there is lost to the kernel.             *)
(***************************************************************************)
InUseMapped ==
  cr3 # {} /\ Started /\ ~ lost =>
    \A a \in (Stack \cup Loader!Image \cup Bitmap) \ (Pages(fb[1], fbsize_up) \cup {TestPage}) :
      Translated(a) = IF a < ppa.total THEN {a} ELSE {}

=============================================================================
