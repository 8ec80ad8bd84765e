----------------------------- MODULE PageFrames -----------------------------
(***************************************************************************)
(* The physical page allocator of page_frames.c as functions on its state. *)
(*                                                                         *)
(* The allocator's globals are one record, here called s:                  *)
(*   size, max_index, data   the Bitmap header; data is the frame in which *)
(*                           the bitmap words are stored                   *)
(*   bits                    the frames whose bit is set                   *)
(*   used, rsvd, free, total the mem_* counters                            *)
(*   last_hit, initialized   the search hint and ppa_initialized           *)
(* Addresses and byte counts are counted in frames: every address is       *)
(* divided by 4096 before it is used and every counter moves by multiples  *)
(* of 4096.  A loop over n pages is one set operation on the frames it     *)
(* visits: a page already in the wanted state is left alone by the code,   *)
(* so the order of the visits and repetitions make no difference.          *)
(***************************************************************************)
EXTENDS Integers, Sequences, FiniteSetsExt

CONSTANTS
  WordBits,      \* bits in a bitmap word: 32
  WordsPerPage,  \* bitmap words in a frame: 1024
  LowPages,      \* frames reserved at the bottom of memory: 0x100
  CounterMod,    \* 2^64 bytes in frames: the modulus of the counters
  IntSpan        \* frames after which 4096 * i leaves an int: 2^19

ASSUME SizeAssumption ==
  /\ WordBits \in Nat /\ WordBits > 1
  /\ WordsPerPage \in Nat \ {0}
  /\ LowPages \in Nat \ {0}
  /\ CounterMod \in Nat \ {0}
  /\ LowPages < CounterMod
  /\ IntSpan \in Nat \ {0}

-----------------------------------------------------------------------------
(* Memory descriptors, as the firmware's memory map lists them.            *)

Conventional == "EfiConventionalMemory"

Descriptor == [type : {Conventional, "other"}, start : Nat, pages : Nat]

Pages(a, n) == a .. (a + n - 1)

ConventionalIn(m) == {d \in DOMAIN m : m[d].type = Conventional}

ConventionalFrames(m) ==
  UNION {Pages(m[d].start, m[d].pages) : d \in ConventionalIn(m)}

\* The sum of numberofpages, as the size of the disjoint union of the ranges.
MapPages(m) ==
  Cardinality(UNION {{d} \X Pages(0, m[d].pages) : d \in DOMAIN m})

\* The first conventional descriptor of the greatest size above 0.
Largest(m) ==
  {d \in ConventionalIn(m) :
     /\ m[d].pages > 0
     /\ \A e \in ConventionalIn(m) :
          m[e].pages < m[d].pages \/ (m[e].pages = m[d].pages /\ d <= e)}

largest_segment(m) ==
  IF Largest(m) = {} THEN 0 ELSE m[CHOOSE d \in Largest(m) : TRUE].start

LastConventional(m) == Max(ConventionalIn(m))

-----------------------------------------------------------------------------
(* The globals, their 64-bit counters and the bitmap.                      *)

Counter == 0 .. (CounterMod - 1)

State == [size : Nat, max_index : Counter, data : Nat, bits : SUBSET Nat,
          used : Counter, rsvd : Counter, free : Counter, total : Counter,
          last_hit : Nat, initialized : BOOLEAN]

Add(x, k) == IF x + k < CounterMod THEN x + k ELSE x + k - CounterMod

\* A mutation: a counter below zero does not wrap.
Sub_unwrapped(x, k) == x - k

Sub(x, k) == IF x >= k THEN x - k ELSE x - k + CounterMod

\* The indices ppa_bitmap_get and ppa_bitmap_set accept.
Frames(s) == 0 .. s.max_index

\* ppa_bitmap_get answers 0 for an index that is out of range.
ppa_bitmap_get(s, i) == i \in s.bits \cap Frames(s)

Unset(s, R) == {i \in R : ~ ppa_bitmap_get(s, i)}

ppa_init_bitmap(s, data_addr, pages) ==
  [s EXCEPT !.size = pages \div WordBits + 1, !.max_index = pages - 1,
            !.data = data_addr, !.bits = {}]

-----------------------------------------------------------------------------
(* Locking and reserving: the counters move even when ppa_bitmap_set       *)
(* refuses an index that is out of range.                                  *)

ppa_lckn(s, a, n) ==
  LET new == Unset(s, Pages(a, n))
  IN  [s EXCEPT !.bits = @ \cup (new \cap Frames(s)),
                !.used = Add(@, Cardinality(new)),
                !.free = Sub(@, Cardinality(new))]

ppa_rsvn(s, a, n) ==
  LET new == Unset(s, Pages(a, n))
  IN  [s EXCEPT !.bits = @ \cup (new \cap Frames(s)),
                !.rsvd = Add(@, Cardinality(new)),
                !.free = Sub(@, Cardinality(new))]

(***************************************************************************)
(* Releasing.  The loops compute addr + 4096 * i with an int i.  The       *)
(* product overflows from i = IntSpan on, which is undefined: the build    *)
(* either widens it to 64 bits or wraps it at 32, and then the loop comes  *)
(* back IntSpan frames below its first page.                               *)
(***************************************************************************)
Visited(a, n, wraps) ==
  IF wraps
    THEN {a + ((i + IntSpan) % (2 * IntSpan)) - IntSpan : i \in 0 .. (n - 1)}
    ELSE Pages(a, n)

\* A mutation: the loop runs to i <= pages.
ppa_ulckn_page_too_many(s, R, hint) ==
  LET old == (R \cup {i + 1 : i \in R}) \ Unset(s, R \cup {i + 1 : i \in R})
  IN  [s EXCEPT !.bits = @ \ old,
                !.used = Sub(@, Cardinality(old)),
                !.free = Add(@, Cardinality(old)),
                !.last_hit = hint]

\* A mutation: copied from ppa_ursvn.
ppa_ulckn_as_reserved(s, R, hint) ==
  LET old == R \ Unset(s, R)
  IN  [s EXCEPT !.bits = @ \ old,
                !.rsvd = Sub(@, Cardinality(old)),
                !.free = Add(@, Cardinality(old)),
                !.last_hit = hint]

\* A mutation: the search hint stays where it was.
ppa_ulckn_keeps_hint(s, R, hint) ==
  LET old == R \ Unset(s, R)
  IN  [s EXCEPT !.bits = @ \ old,
                !.used = Sub(@, Cardinality(old)),
                !.free = Add(@, Cardinality(old))]

ppa_ulckn(s, R, hint) ==
  LET old == R \ Unset(s, R)
  IN  [s EXCEPT !.bits = @ \ old,
                !.used = Sub(@, Cardinality(old)),
                !.free = Add(@, Cardinality(old)),
                !.last_hit = hint]

ppa_ursvn(s, R, hint) ==
  LET old == R \ Unset(s, R)
  IN  [s EXCEPT !.bits = @ \ old,
                !.rsvd = Sub(@, Cardinality(old)),
                !.free = Add(@, Cardinality(old)),
                !.last_hit = hint]

\* The frames the release loop of ppa_init visits, over all descriptors.
Released(m, wraps) ==
  UNION {Visited(m[d].start, m[d].pages, wraps) : d \in ConventionalIn(m)}

\* The frames below a range that the loop comes back to when its int wraps.
Overshot(m) ==
  UNION {(m[d].start - IntSpan) .. (m[d].start - 1) :
           d \in {e \in ConventionalIn(m) : m[e].pages > IntSpan}}

-----------------------------------------------------------------------------
(* Initialisation and requests.                                            *)

bitmap_pages(s) ==
  s.size \div WordsPerPage + (IF s.size % WordsPerPage # 0 THEN 1 ELSE 0)

Counted(s, m) ==
  [s EXCEPT !.used = 0, !.rsvd = 0, !.free = MapPages(m), !.total = MapPages(m)]

\* A mutation: the low frames are not reserved again.
BeforeBitmapLock_low_frames_free(s, m, wraps) ==
  LET total_pages == MapPages(m)
      blank == ppa_init_bitmap(Counted(s, m), largest_segment(m), total_pages)
      all   == ppa_rsvn(blank, 0, total_pages)
  IN  ppa_ursvn(all, Released(m, wraps), m[LastConventional(m)].start)

\* ppa_init up to its last call, which locks the frames of the bitmap itself.
BeforeBitmapLock(s, m, wraps) ==
  LET total_pages == MapPages(m)
      blank  == ppa_init_bitmap(Counted(s, m), largest_segment(m), total_pages)
      all    == ppa_rsvn(blank, 0, total_pages)
      usable == ppa_ursvn(all, Released(m, wraps), m[LastConventional(m)].start)
  IN  ppa_rsvn(usable, 0, LowPages)

ppa_init(s, m, wraps) ==
  LET low == BeforeBitmapLock(s, m, wraps)
  IN  IF s.initialized THEN s
      ELSE IF largest_segment(m) = 0 THEN Counted(s, m)
      ELSE [ppa_lckn(low, low.data, bitmap_pages(low)) EXCEPT !.initialized = TRUE]

\* A mutation: the search starts in the word after the hint's.
Candidates_next_word(s) ==
  Unset(s, (WordBits * (s.last_hit \div WordBits + 1)) .. (WordBits * s.size - 1))

(***************************************************************************)
(* ppa_request scans the words from the one that holds last_hit to the     *)
(* last.  A word that is not full always holds an index for which          *)
(* ppa_bitmap_get answers 0, which may lie past max_index.                 *)
(***************************************************************************)
Candidates(s) ==
  Unset(s, (WordBits * (s.last_hit \div WordBits)) .. (WordBits * s.size - 1))

RequestedFrame(s) == IF Candidates(s) = {} THEN 0 ELSE Min(Candidates(s))

\* A mutation: the frame is handed out and not locked.
ppa_request_unlocked(s) ==
  IF Candidates(s) = {} THEN s ELSE [s EXCEPT !.last_hit = RequestedFrame(s)]

ppa_request(s) ==
  IF Candidates(s) = {} THEN s
  ELSE [ppa_lckn(s, RequestedFrame(s), 1) EXCEPT !.last_hit = RequestedFrame(s)]

=============================================================================
