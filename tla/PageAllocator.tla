---------------------------- MODULE PageAllocator ----------------------------
(***************************************************************************)
(* The page allocator and its callers.  The calls of page_frames.h run one *)
(* after the other in the kernel's only thread (no interrupt handler calls *)
(* them), so each call is one step.                                        *)
(*                                                                         *)
(* Callers are disciplined: they release only frames they took through the *)
(* call of the same kind, at most IntSpan of them at a time.  They lock    *)
(* and reserve any range, also one that is taken or outside memory, as     *)
(* init_kernel does with the kernel image and the frame buffer.            *)
(*                                                                         *)
(* Only ppa is program state.  The other variables record what the callers *)
(* know: the memory map, the frames the allocator locked for its bitmap    *)
(* (own), the frames callers locked or got from ppa_request (held) and     *)
(* reserved (kept), how often a page outside memory was counted (phantom)  *)
(* and what the last ppa_request returned (answer; 0 is the null pointer). *)
(***************************************************************************)
EXTENDS PageFrames

CONSTANTS
  MemoryMaps,   \* the memory maps the firmware may hand over
  CallRanges    \* the ranges <<a, n>> callers pass: n pages from frame a

ASSUME MapAssumption ==
  \A m \in MemoryMaps : m # <<>> /\ m \in Seq(Descriptor) /\ MapPages(m) < CounterMod

ASSUME CallAssumption ==
  \A c \in CallRanges : c \in Nat \X Nat /\ c[2] < CounterMod

VARIABLES ppa, mmap, own, held, kept, phantom, answer

vars == <<ppa, mmap, own, held, kept, phantom, answer>>

Memory == Frames(ppa)

\* The pages of R that are counted although they are not frames of memory.
Outside(s, R) == Cardinality(R \ Frames(s))

-----------------------------------------------------------------------------

\* Before ppa_init the bitmap is the word at address 0, whatever it holds.
Init ==
  /\ \E garbage \in SUBSET {0} :
       ppa = [size |-> 0, max_index |-> 0, data |-> 0, bits |-> garbage,
              used |-> 0, rsvd |-> 0, free |-> 0, total |-> 0,
              last_hit |-> 0, initialized |-> FALSE]
  /\ mmap = <<>>
  /\ own = {} /\ held = {} /\ kept = {}
  /\ phantom = [used |-> 0, rsvd |-> 0]
  /\ answer = 0

\* The kernel calls ppa_init once; a later call finds it initialised.
Boot(m, wraps) ==
  /\ mmap = <<>>
  /\ ppa' = ppa_init(ppa, m, wraps)
  /\ mmap' = m
  /\ IF ppa'.initialized
       THEN LET low == BeforeBitmapLock(ppa, m, wraps)
                store == Pages(low.data, bitmap_pages(low))
            IN  /\ own' = ppa'.bits \ low.bits
                /\ phantom' = [used |-> Outside(low, store),
                               rsvd |-> Outside(low, Pages(0, LowPages))]
       ELSE UNCHANGED <<own, phantom>>
  /\ UNCHANGED <<held, kept, answer>>

BootAgain(m, wraps) ==
  /\ ppa.initialized
  /\ ppa' = ppa_init(ppa, m, wraps)
  /\ UNCHANGED <<mmap, own, held, kept, phantom, answer>>

Lock(a, n) ==
  /\ mmap # <<>>
  /\ ppa' = ppa_lckn(ppa, a, n)
  /\ held' = held \cup (ppa'.bits \ ppa.bits)
  /\ phantom' = [phantom EXCEPT !.used = Add(@, Outside(ppa, Pages(a, n)))]
  /\ UNCHANGED <<mmap, own, kept, answer>>

Reserve(a, n) ==
  /\ mmap # <<>>
  /\ ppa' = ppa_rsvn(ppa, a, n)
  /\ kept' = kept \cup (ppa'.bits \ ppa.bits)
  /\ phantom' = [phantom EXCEPT !.rsvd = Add(@, Outside(ppa, Pages(a, n)))]
  /\ UNCHANGED <<mmap, own, held, answer>>

Unlock(a, n) ==
  /\ n \in 1 .. IntSpan
  /\ Pages(a, n) \subseteq held
  /\ ppa' = ppa_ulckn(ppa, Pages(a, n), a)
  /\ held' = held \ Pages(a, n)
  /\ UNCHANGED <<mmap, own, kept, phantom, answer>>

Unreserve(a, n) ==
  /\ n \in 1 .. IntSpan
  /\ Pages(a, n) \subseteq kept
  /\ ppa' = ppa_ursvn(ppa, Pages(a, n), a)
  /\ kept' = kept \ Pages(a, n)
  /\ UNCHANGED <<mmap, own, held, phantom, answer>>

Request ==
  /\ mmap # <<>>
  /\ ppa' = ppa_request(ppa)
  /\ answer' = RequestedFrame(ppa)
  /\ held' = held \cup (ppa'.bits \ ppa.bits)
  /\ phantom' = IF Candidates(ppa) # {} /\ RequestedFrame(ppa) \notin Memory
                  THEN [phantom EXCEPT !.used = Add(@, 1)] ELSE phantom
  /\ UNCHANGED <<mmap, own, kept>>

Call(a, n) == Lock(a, n) \/ Reserve(a, n) \/ Unlock(a, n) \/ Unreserve(a, n)

Next ==
  \/ \E m \in MemoryMaps, wraps \in BOOLEAN : Boot(m, wraps) \/ BootAgain(m, wraps)
  \/ \E c \in CallRanges : Call(c[1], c[2])
  \/ Request

Spec == Init /\ [][Next]_vars

-----------------------------------------------------------------------------

\* Type correctness of the allocator's globals and of the record of its use.
TypeOK ==
  /\ ppa \in State
  /\ mmap \in MemoryMaps \cup {<<>>}
  /\ own \in SUBSET Nat /\ held \in SUBSET Nat /\ kept \in SUBSET Nat
  /\ phantom \in [used : Counter, rsvd : Counter]
  /\ answer \in Nat

(***************************************************************************)
(* Whatever was locked, reserved or handed out and not given back has its  *)
(* bit set, and has one holder: the allocator itself, a locker or a        *)
(* reserver.  With ppa_request taking only clear bits, this is what keeps  *)
(* two owners off one frame.                                               *)
(***************************************************************************)
TakenFramesMarked ==
  ppa.initialized =>
    /\ ppa.bits \subseteq Memory
    /\ own \cup held \cup kept \subseteq ppa.bits
    /\ own \cap held = {} /\ own \cap kept = {} /\ held \cap kept = {}

(***************************************************************************)
(* A clear bit means memory that may be used: conventional in the memory   *)
(* map, above the low megabyte and not part of the bitmap.  It is what     *)
(* ppa_init establishes by reserving everything and then releasing the     *)
(* conventional ranges.  A range that overflows the loop's int may also    *)
(* free what is not usable, but only within an int's reach below it.       *)
(***************************************************************************)
ClearFramesUsable ==
  ppa.initialized =>
    Memory \ ppa.bits \subseteq
      (ConventionalFrames(mmap) \cup Overshot(mmap))
        \ (Pages(0, LowPages) \cup Pages(ppa.data, bitmap_pages(ppa)))

\* The counters of s, when U are the locked frames among the set bits and the
\* pages outside memory were counted as ph says.
Accounted(s, U, ph) ==
  /\ s.used = Add(Cardinality(U), ph.used)
  /\ s.rsvd = Add(Cardinality(s.bits \ U), ph.rsvd)
  /\ s.free = Sub(Sub(s.total - Cardinality(s.bits), ph.used), ph.rsvd)

(***************************************************************************)
(* What ppa_get_mem_used, _rsvd and _free report: the set bits split by    *)
(* the call that set them, plus every page outside memory that was counted *)
(* as taken.  So the three add up to the total, and mem_free is short by   *)
(* the pages counted outside memory.                                       *)
(***************************************************************************)
CountersExact == ppa.initialized => Accounted(ppa, own \cup held, phantom)

(***************************************************************************)
(* A request never answers with a frame somebody already has, and when it  *)
(* answers with the null pointer or an address outside memory, every frame *)
(* from the hint on is taken.  (Frames below the hint may be free: the     *)
(* search does not wrap around.)                                           *)
(***************************************************************************)
RequestedFrameFresh ==
  [][Request /\ ppa.initialized =>
       /\ answer' \notin own \cup held \cup kept
       /\ answer' \notin Memory \ {0} =>
            Memory \cap (ppa.last_hit .. ppa.max_index) \subseteq ppa.bits]_vars

(***************************************************************************)
(* After a release the next request finds a frame of memory: the release   *)
(* moves last_hit to what it freed.                                        *)
(***************************************************************************)
ReleasedFrameFound ==
  [][(\E c \in CallRanges : Unlock(c[1], c[2]) \/ Unreserve(c[1], c[2]))
       /\ ppa.initialized =>
       RequestedFrame(ppa') \in Memory \ {0}]_vars

-----------------------------------------------------------------------------
(* The allocator implements FrameAllocator.                                *)

Ready(S) == IF ppa.initialized THEN S ELSE {}

Abstract ==
  INSTANCE FrameAllocator WITH
    Frame   <- 1 .. (CounterMod - 1),
    NoFrame <- 0,
    pool    <- Ready(Memory \ ppa.bits),
    held    <- Ready(held),
    kept    <- Ready(kept),
    answer  <- IF ppa.initialized /\ answer \in Memory THEN answer ELSE 0

\* Every step of the allocator is a step FrameAllocator allows, or none: frame 0,
\* whose address is the null pointer, is never in the pool, and an address
\* outside memory counts as a refusal.
ImplementsFrameAllocator == Abstract!Spec

=============================================================================
