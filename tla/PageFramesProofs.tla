-------------------------- MODULE PageFramesProofs --------------------------
(***************************************************************************)
(* What the operators of PageFrames return, for every size of word, frame  *)
(* and counter, every memory map and every state of the allocator.  The    *)
(* proofs about PageAllocator, PageMap and KernelMemory rest on it.        *)
(***************************************************************************)
EXTENDS PageFrames, TLAPS, FiniteSetTheorems, WellFoundedInduction

-----------------------------------------------------------------------------
(* Minimum and maximum.                                                    *)

\* A set of numbers has a least element: what the word scan of ppa_request
\* finds whenever there is a candidate.
LEMMA MinExists ==
  ASSUME NEW S \in SUBSET Nat, S # {}
  PROVE  Min(S) \in S /\ \A y \in S : Min(S) <= y
<1>1. PICK x \in S : \A y \in S : ~ (<<y, x>> \in OpToRel(<, Nat))
  BY WFMin, NatLessThanWellFounded
<1>2. \A y \in S : ~ (y < x)
  BY <1>1 DEF OpToRel
<1>3. \A y \in S : x <= y
  BY <1>2
<1> QED
  BY <1>3 DEF Min

\* The last conventional descriptor, which the release loop of ppa_init ends with.
LEMMA MaxExists ==
  ASSUME NEW n \in Nat, NEW S \in SUBSET (1 .. n), S # {}
  PROVE  Max(S) \in S
<1> DEFINE T == {i \in Nat : n - i \in S}
<1>1. T # {}
  <2>1. PICK x \in S : TRUE  OBVIOUS
  <2>2. n - x \in Nat /\ n - (n - x) = x  OBVIOUS
  <2> QED BY <2>1, <2>2
<1>2. Min(T) \in T /\ \A y \in T : Min(T) <= y
  BY <1>1, MinExists
<1>3. n - Min(T) \in S
  BY <1>2
<1>4. \A y \in S : n - Min(T) >= y
  <2> TAKE y \in S
  <2>1. n - y \in Nat /\ n - (n - y) = y  OBVIOUS
  <2>2. n - y \in T  BY <2>1
  <2> QED BY <1>2, <2>2
<1> QED
  BY <1>3, <1>4 DEF Max

-----------------------------------------------------------------------------
(* Intervals and counters.                                                 *)

LEMMA PagesFinite ==
  ASSUME NEW a \in Int, NEW n \in Nat
  PROVE  IsFiniteSet(Pages(a, n)) /\ Cardinality(Pages(a, n)) = n
<1>1. a + n - 1 \in Int  OBVIOUS
<1> QED BY <1>1, FS_Interval DEF Pages

LEMMA FramesFinite ==
  ASSUME NEW s \in State
  PROVE  IsFiniteSet(Frames(s)) /\ Cardinality(Frames(s)) = s.max_index + 1
<1>1. s.max_index \in Nat
  BY SizeAssumption DEF State, Counter
<1> QED
  BY <1>1, FS_Interval DEF Frames

\* Counters stay 64-bit numbers.
LEMMA CounterClosed ==
  ASSUME NEW x \in Counter, NEW k \in 0 .. CounterMod
  PROVE  Add(x, k) \in Counter /\ Sub(x, k) \in Counter
BY SizeAssumption DEF Counter, Add, Sub

-----------------------------------------------------------------------------
(* Memory maps.                                                            *)

\* A map ppa_init can walk: descriptors, and pages that a counter can count.
WalkedMap(m) == m # <<>> /\ m \in Seq(Descriptor) /\ MapPages(m) < CounterMod

LEMMA MapTypes ==
  ASSUME NEW m, WalkedMap(m)
  PROVE  /\ m # <<>> /\ MapPages(m) < CounterMod
         /\ Len(m) \in Nat /\ DOMAIN m = 1 .. Len(m)
         /\ \A d \in DOMAIN m : m[d].start \in Nat /\ m[d].pages \in Nat
         /\ ConventionalIn(m) \subseteq 1 .. Len(m)
<1>1. m \in Seq(Descriptor) /\ m # <<>> /\ MapPages(m) < CounterMod
  BY DEF WalkedMap
<1>2. DOMAIN m = 1 .. Len(m) /\ Len(m) \in Nat /\ \A d \in 1 .. Len(m) : m[d] \in Descriptor
  BY <1>1
<1> QED
  BY <1>1, <1>2 DEF Descriptor, ConventionalIn

LEMMA MapFinite ==
  ASSUME NEW m, WalkedMap(m)
  PROVE  IsFiniteSet(UNION {{d} \X Pages(0, m[d].pages) : d \in DOMAIN m})
<1> DEFINE T == {{d} \X Pages(0, m[d].pages) : d \in DOMAIN m}
           f == [d \in DOMAIN m |-> {d} \X Pages(0, m[d].pages)]
<1>1. IsFiniteSet(DOMAIN m)
  BY MapTypes, FS_Interval
<1>2. f \in Surjection(DOMAIN m, T)
  BY DEF Surjection
<1>3. IsFiniteSet(T)
  BY <1>1, <1>2, FS_Surjection
<1>4. ASSUME NEW d \in DOMAIN m
      PROVE  IsFiniteSet({d} \X Pages(0, m[d].pages))
  <2>1. m[d].pages \in Nat
    BY MapTypes
  <2>2. IsFiniteSet(Pages(0, m[d].pages))
    BY <2>1, PagesFinite
  <2>3. IsFiniteSet({d})
    BY FS_Singleton
  <2> QED BY <2>2, <2>3, FS_Product
<1>5. \A S \in T : IsFiniteSet(S)
  BY <1>4
<1> QED
  BY <1>3, <1>5, FS_UNION

\* The sizes of the descriptors add up to a 64-bit number of pages.
LEMMA MapPagesType ==
  ASSUME NEW m, WalkedMap(m)
  PROVE  MapPages(m) \in Counter
BY MapFinite, FS_CardinalityType, MapTypes, SizeAssumption DEF MapPages, Counter

\* A segment found starts at a number, and is one of the conventional ranges,
\* so there is memory and there is a last conventional descriptor.
LEMMA SegmentFound ==
  ASSUME NEW m, WalkedMap(m), largest_segment(m) # 0
  PROVE  /\ largest_segment(m) \in Nat
         /\ LastConventional(m) \in ConventionalIn(m)
         /\ m[LastConventional(m)].start \in Nat
         /\ MapPages(m) > 0
<1>1. PICK d \in Largest(m) : largest_segment(m) = m[d].start
  BY DEF largest_segment
<1>2. d \in ConventionalIn(m) /\ m[d].pages > 0
  BY <1>1 DEF Largest
<1>3. LastConventional(m) \in ConventionalIn(m)
  BY <1>2, MapTypes, MaxExists DEF LastConventional
<1>4. ConventionalIn(m) \subseteq DOMAIN m
  BY DEF ConventionalIn
<1>5. MapPages(m) # 0
  <2> DEFINE T == {{e} \X Pages(0, m[e].pages) : e \in DOMAIN m}
  <2>1. <<d, 0>> \in {d} \X Pages(0, m[d].pages)
    BY <1>2, <1>4, MapTypes DEF Pages
  <2>2. UNION T # {}
    BY <2>1, <1>2, <1>4
  <2>3. SUFFICES ASSUME Cardinality(UNION T) = 0 PROVE FALSE
    BY DEF MapPages
  <2>4. IsFiniteSet(UNION T)
    BY MapFinite
  <2> QED BY <2>2, <2>3, <2>4, FS_EmptySet
<1> QED
  BY <1>1, <1>2, <1>3, <1>4, <1>5, MapTypes, MapPagesType DEF Counter

-----------------------------------------------------------------------------
(* Locking, reserving and releasing keep the globals well-typed.           *)

\* The pages a range newly takes: those in memory that were clear, and all
\* of those outside, which the counters nevertheless count.
LEMMA TakenSplit ==
  ASSUME NEW s \in State, NEW a \in Nat, NEW n \in Nat
  PROVE  LET new == Unset(s, Pages(a, n))
             in  == Pages(a, n) \cap (Frames(s) \ s.bits)
             out == Pages(a, n) \ Frames(s)
         IN  /\ new \cap Frames(s) = in
             /\ IsFiniteSet(in) /\ IsFiniteSet(out)
             /\ Cardinality(in) \in Nat /\ Cardinality(out) \in Nat
             /\ Cardinality(new) = Cardinality(in) + Cardinality(out)
             /\ Cardinality(new) \in Nat /\ Cardinality(new) <= n
<1> DEFINE new == Unset(s, Pages(a, n))
           in  == Pages(a, n) \cap (Frames(s) \ s.bits)
           out == Pages(a, n) \ Frames(s)
<1>1. new = in \cup out /\ in \cap out = {} /\ new \cap Frames(s) = in
  BY DEF Unset, ppa_bitmap_get
<1>2. IsFiniteSet(Pages(a, n)) /\ Cardinality(Pages(a, n)) = n
  BY PagesFinite
<1>3. new \in SUBSET Pages(a, n) /\ in \in SUBSET Pages(a, n) /\ out \in SUBSET Pages(a, n)
  BY <1>1
<1>4. IsFiniteSet(in) /\ IsFiniteSet(out) /\ Cardinality(new) <= n
  BY <1>2, <1>3, FS_Subset
<1>5. Cardinality(in \cup out) = Cardinality(in) + Cardinality(out) - Cardinality(in \cap out)
  BY <1>4, FS_Union
<1>6. Cardinality(in) \in Nat /\ Cardinality(out) \in Nat /\ Cardinality({}) = 0
  BY <1>4, FS_CardinalityType, FS_EmptySet
<1> HIDE DEF new, in, out
<1>7. Cardinality(new) = Cardinality(in) + Cardinality(out) - 0
  BY <1>1, <1>5, <1>6
<1>8. Cardinality(new) \in Nat
  BY <1>6, <1>7
<1> QED
  BY <1>1, <1>4, <1>6, <1>7, <1>8 DEF new, in, out

LEMMA TakeState ==
  ASSUME NEW s \in State, NEW a \in Nat, NEW n \in 0 .. CounterMod
  PROVE  ppa_lckn(s, a, n) \in State /\ ppa_rsvn(s, a, n) \in State
<1> DEFINE new == Unset(s, Pages(a, n))
<1>1. Cardinality(new) \in Nat /\ Cardinality(new) <= n
  <2>1. n \in Nat
    BY SizeAssumption
  <2> QED BY <2>1, TakenSplit
<1>2. /\ Add(s.used, Cardinality(new)) \in Counter /\ Add(s.rsvd, Cardinality(new)) \in Counter
      /\ Sub(s.free, Cardinality(new)) \in Counter
  BY <1>1, CounterClosed, SizeAssumption DEF State
<1>3. s.bits \cup (new \cap Frames(s)) \subseteq Nat
  BY DEF State, Frames
<1> QED
  BY <1>2, <1>3 DEF ppa_lckn, ppa_rsvn, State

\* The frames a release clears.
LEMMA ReleasedSet ==
  ASSUME NEW s \in State, NEW R
  PROVE  LET old == R \ Unset(s, R)
         IN  /\ old = R \cap s.bits \cap Frames(s)
             /\ IsFiniteSet(old) /\ Cardinality(old) \in 0 .. CounterMod
             /\ Cardinality(old) <= s.max_index + 1
<1> DEFINE old == R \ Unset(s, R)
<1>1. old = R \cap s.bits \cap Frames(s)
  BY DEF Unset, ppa_bitmap_get
<1>2. IsFiniteSet(Frames(s)) /\ Cardinality(Frames(s)) = s.max_index + 1
  BY FramesFinite
<1>3. old \in SUBSET Frames(s)
  BY <1>1
<1>4. IsFiniteSet(old) /\ Cardinality(old) <= s.max_index + 1
  BY <1>2, <1>3, FS_Subset
<1>5. Cardinality(old) \in Nat
  BY <1>4, FS_CardinalityType
<1> HIDE DEF old
<1>6. s.max_index + 1 <= CounterMod /\ s.max_index \in Nat
  BY SizeAssumption DEF State, Counter
<1>7. Cardinality(old) \in 0 .. CounterMod
  BY <1>4, <1>5, <1>6, SizeAssumption
<1> QED
  BY <1>1, <1>4, <1>7 DEF old

LEMMA ReleaseState ==
  ASSUME NEW s \in State, NEW R, NEW hint \in Nat
  PROVE  ppa_ulckn(s, R, hint) \in State /\ ppa_ursvn(s, R, hint) \in State
<1> DEFINE old == R \ Unset(s, R)
<1>1. Cardinality(old) \in 0 .. CounterMod
  BY ReleasedSet
<1>2. /\ Sub(s.used, Cardinality(old)) \in Counter /\ Sub(s.rsvd, Cardinality(old)) \in Counter
      /\ Add(s.free, Cardinality(old)) \in Counter
  BY <1>1, CounterClosed DEF State
<1> QED
  BY <1>2 DEF ppa_ulckn, ppa_ursvn, State

-----------------------------------------------------------------------------
(* What the calls do to the globals, field by field.                       *)

LEMMA TakeEffect ==
  ASSUME NEW s \in State, NEW a, NEW n
  PROVE  LET new == Unset(s, Pages(a, n))
             l   == ppa_lckn(s, a, n)
             r   == ppa_rsvn(s, a, n)
         IN  /\ l.bits = s.bits \cup (new \cap Frames(s)) /\ r.bits = l.bits
             /\ l.used = Add(s.used, Cardinality(new)) /\ r.used = s.used
             /\ r.rsvd = Add(s.rsvd, Cardinality(new)) /\ l.rsvd = s.rsvd
             /\ l.free = Sub(s.free, Cardinality(new)) /\ r.free = l.free
             /\ \A t \in {l, r} :
                  /\ t.size = s.size /\ t.max_index = s.max_index /\ t.data = s.data
                  /\ t.total = s.total /\ t.last_hit = s.last_hit
                  /\ t.initialized = s.initialized
BY DEF ppa_lckn, ppa_rsvn, State

LEMMA ReleaseEffect ==
  ASSUME NEW s \in State, NEW R, NEW hint
  PROVE  LET old == R \ Unset(s, R)
             l   == ppa_ulckn(s, R, hint)
             r   == ppa_ursvn(s, R, hint)
         IN  /\ l.bits = s.bits \ old /\ r.bits = s.bits \ old
             /\ l.used = Sub(s.used, Cardinality(old)) /\ r.used = s.used
             /\ r.rsvd = Sub(s.rsvd, Cardinality(old)) /\ l.rsvd = s.rsvd
             /\ l.free = Add(s.free, Cardinality(old)) /\ r.free = l.free
             /\ \A t \in {l, r} :
                  /\ t.size = s.size /\ t.max_index = s.max_index /\ t.data = s.data
                  /\ t.total = s.total /\ t.last_hit = hint
                  /\ t.initialized = s.initialized
BY DEF ppa_ulckn, ppa_ursvn, State

-----------------------------------------------------------------------------
(* The size of the bitmap, and ppa_request.                                *)

\* Dividing into words and frames of words.
LEMMA WordDivision ==
  ASSUME NEW p \in Nat, NEW W \in Nat, W > 1
  PROVE  /\ p \div W \in Nat /\ p \div W + 1 <= p + 1
         /\ (p > 0 => p \div W + 1 <= p)
         /\ W * (p \div W) \in Nat /\ W * (p \div W) <= p
         /\ p < W * (p \div W + 1)
OBVIOUS

LEMMA PartialFrame ==
  ASSUME NEW p \in Nat, NEW W \in Nat, W > 0
  PROVE  /\ p \div W + (IF p % W # 0 THEN 1 ELSE 0) \in Nat
         /\ p \div W + (IF p % W # 0 THEN 1 ELSE 0) <= p
OBVIOUS

\* The bitmap of p pages reaches the last of them and needs at most p frames.
LEMMA BitmapSize ==
  ASSUME NEW s, NEW p \in Nat, p > 0, p < CounterMod, s.size = p \div WordBits + 1
  PROVE  /\ s.size \in Nat /\ p < WordBits * s.size
         /\ bitmap_pages(s) \in Nat /\ bitmap_pages(s) <= p /\ bitmap_pages(s) < CounterMod
<1>1. s.size \in Nat /\ s.size <= p /\ p < WordBits * s.size
  <2> DEFINE q == p \div WordBits
  <2>1. q \in Nat /\ q + 1 <= p /\ p < WordBits * (q + 1)
    BY WordDivision, SizeAssumption
  <2>2. s.size = q + 1
    OBVIOUS
  <2> HIDE DEF q
  <2> QED BY <2>1, <2>2
<1>2. bitmap_pages(s) \in Nat /\ bitmap_pages(s) <= s.size
  BY <1>1, PartialFrame, SizeAssumption DEF bitmap_pages
<1> QED
  BY <1>1, <1>2, SizeAssumption

\* The candidates start at the hint's word.
LEMMA CandidatesType ==
  ASSUME NEW s \in State
  PROVE  /\ Candidates(s) \subseteq Nat
         /\ \A i \in Nat : (s.last_hit <= i /\ i < WordBits * s.size
                              /\ i \notin s.bits) => i \in Candidates(s)
         /\ \A i \in Candidates(s) : ~ (i \in s.bits /\ i \in Frames(s))
<1> DEFINE lo == WordBits * (s.last_hit \div WordBits)
           hi == WordBits * s.size
<1>1. lo \in Nat /\ lo <= s.last_hit
  BY WordDivision, SizeAssumption DEF State
<1>2. hi \in Nat
  BY SizeAssumption DEF State
<1>3. s.last_hit \in Nat
  BY DEF State
<1>4. Candidates(s) = {i \in lo .. (hi - 1) : ~ (i \in s.bits /\ i \in Frames(s))}
  BY DEF Candidates, Unset, ppa_bitmap_get
<1> HIDE DEF lo, hi
<1>5. Candidates(s) \subseteq Nat
  BY <1>1, <1>2, <1>4
<1>6. \A i \in Nat : (s.last_hit <= i /\ i < hi) => i \in lo .. (hi - 1)
  BY <1>1, <1>2, <1>3
<1> QED
  BY <1>4, <1>5, <1>6 DEF hi

LEMMA RequestEffect ==
  ASSUME NEW s \in State, Candidates(s) # {}
  PROVE  LET f == RequestedFrame(s)
             l == ppa_lckn(s, f, 1)
             t == ppa_request(s)
         IN  /\ f \in Nat /\ f \in Candidates(s) /\ \A y \in Candidates(s) : f <= y
             /\ t \in State /\ l \in State
             /\ t.bits = l.bits /\ t.used = l.used /\ t.rsvd = l.rsvd /\ t.free = l.free
             /\ t.total = l.total /\ t.max_index = l.max_index
             /\ t.size = s.size /\ t.data = s.data /\ t.initialized = s.initialized
             /\ l.max_index = s.max_index
<1> DEFINE f == RequestedFrame(s)
           l == ppa_lckn(s, f, 1)
           t == ppa_request(s)
<1>1. Candidates(s) \in SUBSET Nat
  BY CandidatesType
<1>2. f \in Candidates(s) /\ \A y \in Candidates(s) : f <= y
  BY <1>1, MinExists DEF RequestedFrame
<1>3. f \in Nat /\ 1 \in 0 .. CounterMod
  BY <1>1, <1>2, SizeAssumption
<1>4. l \in State
  BY <1>3, TakeState
<1>5. /\ l.size = s.size /\ l.data = s.data /\ l.initialized = s.initialized
      /\ l.max_index = s.max_index
  BY TakeEffect
<1>6. t = [l EXCEPT !.last_hit = f]
  BY DEF ppa_request
<1> HIDE DEF l, t, f
<1>7. /\ t \in State /\ t.bits = l.bits /\ t.used = l.used /\ t.rsvd = l.rsvd
      /\ t.free = l.free /\ t.total = l.total /\ t.max_index = l.max_index
      /\ t.size = l.size /\ t.data = l.data /\ t.initialized = l.initialized
  BY <1>3, <1>4, <1>6 DEF State
<1> QED
  BY <1>2, <1>3, <1>4, <1>5, <1>7 DEF l, t, f

-----------------------------------------------------------------------------
(* The bitmap as the rest of the kernel may rely on it.                    *)

\* The fields no call but ppa_init changes.
SameHeader(t, s) ==
  /\ t.size = s.size /\ t.max_index = s.max_index /\ t.data = s.data
  /\ t.total = s.total /\ t.initialized = s.initialized

\* The frames ppa_init takes for good: the lowest and the bitmap's own.
Fixed(s) == Pages(0, LowPages) \cup Pages(s.data, bitmap_pages(s))

\* The bitmap has bits for memory only and a word for each frame of it, and the
\* fixed frames are taken.
SoundBitmap(s) ==
  /\ s \in State /\ s.bits \subseteq Frames(s)
  /\ s.max_index < WordBits * s.size
  /\ Frames(s) \cap Fixed(s) \subseteq s.bits

LEMMA SameFixed ==
  ASSUME NEW s, NEW t, SameHeader(t, s)
  PROVE  Fixed(t) = Fixed(s) /\ Frames(t) = Frames(s)
BY DEF SameHeader, Fixed, bitmap_pages, Frames

LEMMA FrameZeroTaken ==
  ASSUME NEW s, SoundBitmap(s)
  PROVE  0 \in s.bits /\ 0 \in Frames(s) /\ 0 \in Pages(0, LowPages) /\ s.max_index \in Nat
<1>1. s.max_index \in Nat BY SizeAssumption DEF SoundBitmap, State, Counter
<1>2. 0 \in Pages(0, LowPages) BY SizeAssumption DEF Pages
<1> QED BY <1>1, <1>2 DEF SoundBitmap, Frames, Fixed

\* ppa_lckn takes what lies in memory.
LEMMA LockBits ==
  ASSUME NEW s, SoundBitmap(s), NEW a \in Nat, NEW n \in 0 .. CounterMod
  PROVE  LET t == ppa_lckn(s, a, n)
         IN  /\ SoundBitmap(t) /\ SameHeader(t, s) /\ t.last_hit = s.last_hit
             /\ t.bits = s.bits \cup (Pages(a, n) \cap Frames(s))
<1> DEFINE t   == ppa_lckn(s, a, n)
           new == Unset(s, Pages(a, n))
<1>1. s \in State BY DEF SoundBitmap
<1>2. t \in State BY <1>1, TakeState
<1>3. /\ t.bits = s.bits \cup (new \cap Frames(s))
      /\ SameHeader(t, s) /\ t.last_hit = s.last_hit
  BY <1>1, TakeEffect DEF SameHeader
<1>4. s.bits \cup (new \cap Frames(s)) = s.bits \cup (Pages(a, n) \cap Frames(s))
  BY DEF Unset, ppa_bitmap_get
<1> HIDE DEF t, new
<1>5. Fixed(t) = Fixed(s) /\ Frames(t) = Frames(s) BY <1>3, SameFixed
<1>6. SoundBitmap(t) BY <1>2, <1>3, <1>4, <1>5 DEF SoundBitmap, SameHeader
<1> QED BY <1>3, <1>4, <1>6 DEF t

\* ppa_ulckn gives back what is not fixed.
LEMMA UnlockBits ==
  ASSUME NEW s, SoundBitmap(s), NEW R, R \cap Fixed(s) = {}, NEW hint \in Nat
  PROVE  LET t == ppa_ulckn(s, R, hint)
         IN  /\ SoundBitmap(t) /\ SameHeader(t, s) /\ t.last_hit = hint
             /\ t.bits = s.bits \ R
<1> DEFINE t   == ppa_ulckn(s, R, hint)
           old == R \ Unset(s, R)
<1>1. s \in State BY DEF SoundBitmap
<1>2. t \in State BY <1>1, ReleaseState
<1>3. t.bits = s.bits \ old /\ SameHeader(t, s) /\ t.last_hit = hint
  BY <1>1 DEF ppa_ulckn, State, SameHeader
<1>4. s.bits \ old = s.bits \ R
  BY DEF Unset, ppa_bitmap_get, SoundBitmap
<1> HIDE DEF t, old
<1>5. Fixed(t) = Fixed(s) /\ Frames(t) = Frames(s) BY <1>3, SameFixed
<1>6. SoundBitmap(t) BY <1>2, <1>3, <1>4, <1>5 DEF SoundBitmap, SameHeader
<1> QED BY <1>3, <1>4, <1>6 DEF t

(***************************************************************************)
(* ppa_request either takes a clear frame of memory that is not fixed, and *)
(* then every frame from the old hint to it is taken, or finds none, and   *)
(* then every frame from the hint on was taken.                            *)
(***************************************************************************)
LEMMA RequestBits ==
  ASSUME NEW s, SoundBitmap(s)
  PROVE  LET t == ppa_request(s)
             f == RequestedFrame(s)
         IN  /\ SoundBitmap(t) /\ SameHeader(t, s) /\ f \in Nat
             /\ f \in Frames(s) \ {0} =>
                  /\ f \notin s.bits /\ f \notin Fixed(s)
                  /\ t.bits = s.bits \cup {f} /\ t.last_hit = f
                  /\ Frames(s) \cap (s.last_hit .. f) \subseteq t.bits
             /\ f \notin Frames(s) \ {0} =>
                  /\ t.bits = s.bits
                  /\ s.last_hit .. s.max_index \subseteq s.bits
<1> DEFINE t == ppa_request(s)
           f == RequestedFrame(s)
<1>1. /\ s \in State /\ s.max_index \in Nat /\ s.last_hit \in Nat /\ s.size \in Nat
      /\ 0 \in s.bits /\ 0 \in Frames(s) /\ s.bits \subseteq Frames(s)
      /\ Frames(s) = 0 .. s.max_index
      /\ s.max_index < WordBits * s.size /\ WordBits * s.size \in Nat
  BY FrameZeroTaken, SizeAssumption DEF SoundBitmap, State, Frames
<1>2. \A i \in Frames(s) \ s.bits : s.last_hit <= i => i \in Candidates(s)
  BY <1>1, CandidatesType
<1>3. CASE Candidates(s) = {}
  <2>1. t = s /\ f = 0 BY <1>3 DEF ppa_request, RequestedFrame
  <2>2. s.last_hit .. s.max_index \subseteq s.bits
    BY <1>1, <1>2, <1>3
  <2> HIDE DEF t, f
  <2>3. SoundBitmap(t) /\ SameHeader(t, s) BY <2>1 DEF SameHeader
  <2> QED BY <2>1, <2>2, <2>3 DEF t, f
<1>4. CASE Candidates(s) # {}
  <2> DEFINE l == ppa_lckn(s, f, 1)
  <2>1. /\ f \in Nat /\ f \in Candidates(s) /\ \A y \in Candidates(s) : f <= y
        /\ t \in State /\ t.bits = l.bits /\ t.total = l.total
        /\ t.size = s.size /\ t.data = s.data /\ t.initialized = s.initialized
        /\ t.max_index = s.max_index
    BY <1>1, <1>4, RequestEffect
  <2>2. 1 \in 0 .. CounterMod BY SizeAssumption
  <2>3. l.total = s.total /\ l.bits = s.bits \cup (Pages(f, 1) \cap Frames(s))
    BY <2>1, <2>2, LockBits DEF SameHeader
  <2>4. Pages(f, 1) = {f} BY <2>1 DEF Pages
  <2>5. t.last_hit = f
    <3>1. t = [l EXCEPT !.last_hit = f] BY <1>4 DEF ppa_request
    <3>2. l \in State BY <1>1, <2>1, <2>2, TakeState
    <3> QED BY <3>1, <3>2 DEF State
  <2>6. f \notin s.bits BY <1>1, <2>1, CandidatesType
  <2> HIDE DEF t, f, l
  <2>7. SameHeader(t, s) BY <2>1, <2>3 DEF SameHeader
  <2>8. Fixed(t) = Fixed(s) /\ Frames(t) = Frames(s) BY <2>7, SameFixed
  <2>9. t.bits = s.bits \cup ({f} \cap Frames(s)) BY <2>1, <2>3, <2>4
  <2>10. SoundBitmap(t) BY <2>1, <2>8, <2>9 DEF SoundBitmap
  <2>11. \A i \in Frames(s) : s.last_hit <= i /\ i < f => i \in s.bits
    BY <1>1, <1>2, <2>1
  <2>12. ASSUME f \in Frames(s) \ {0}
         PROVE  /\ f \notin Fixed(s) /\ t.bits = s.bits \cup {f}
                /\ Frames(s) \cap (s.last_hit .. f) \subseteq t.bits
    <3>1. f \notin Fixed(s) BY <2>6, <2>12 DEF SoundBitmap
    <3>2. t.bits = s.bits \cup {f} BY <2>9, <2>12
    <3>3. \A i \in Frames(s) \cap (s.last_hit .. f) : i = f \/ (s.last_hit <= i /\ i < f)
      BY <1>1, <2>1
    <3> QED BY <2>11, <3>1, <3>2, <3>3
  <2>13. ASSUME f \notin Frames(s) \ {0}
         PROVE  t.bits = s.bits /\ s.last_hit .. s.max_index \subseteq s.bits
    <3>1. f \notin Frames(s) BY <1>1, <2>6, <2>13
    <3>2. f > s.max_index BY <1>1, <2>1, <3>1
    <3>3. \A i \in s.last_hit .. s.max_index :
            i \in Frames(s) /\ s.last_hit <= i /\ i < f
      BY <1>1, <2>1, <3>2
    <3> QED BY <2>9, <2>11, <3>1, <3>3
  <2> QED BY <2>1, <2>5, <2>6, <2>7, <2>10, <2>12, <2>13 DEF t, f
<1> QED BY <1>3, <1>4

\* An int offset that does not overflow visits the pages of the range.
LEMMA VisitedPages ==
  ASSUME NEW a \in Nat, NEW n \in Nat, n <= IntSpan, NEW wraps
  PROVE  Visited(a, n, wraps) \subseteq Pages(a, n)
<1> SUFFICES ASSUME wraps
             PROVE  Visited(a, n, wraps) \subseteq Pages(a, n)
  BY DEF Visited
<1>1. ASSUME NEW i \in 0 .. (n - 1)
      PROVE  a + ((i + IntSpan) % (2 * IntSpan)) - IntSpan \in Pages(a, n)
  <2>1. i + IntSpan \in Nat /\ i + IntSpan < 2 * IntSpan /\ 2 * IntSpan \in Nat
    BY SizeAssumption
  <2>2. (i + IntSpan) % (2 * IntSpan) = i + IntSpan
    <3> DEFINE p == i + IntSpan
               W == 2 * IntSpan
    <3>1. p \in Nat /\ W \in Nat /\ p < W
      BY <2>1
    <3> HIDE DEF p, W
    <3>2. p % W = p
      BY <3>1
    <3> QED BY <3>2 DEF p, W
  <2>3. a + (i + IntSpan) - IntSpan = a + i
    BY SizeAssumption
  <2> QED BY <2>2, <2>3 DEF Pages
<1> QED
  BY <1>1 DEF Visited

\* One that overflows comes back at most IntSpan frames below it.
LEMMA VisitedBelow ==
  ASSUME NEW a \in Nat, NEW n \in Nat, n > IntSpan, NEW wraps
  PROVE  Visited(a, n, wraps) \subseteq Pages(a, n) \cup ((a - IntSpan) .. (a - 1))
<1> SUFFICES ASSUME wraps
             PROVE  Visited(a, n, wraps) \subseteq Pages(a, n) \cup ((a - IntSpan) .. (a - 1))
  BY DEF Visited
<1>1. ASSUME NEW i \in 0 .. (n - 1)
      PROVE  a + ((i + IntSpan) % (2 * IntSpan)) - IntSpan
               \in Pages(a, n) \cup ((a - IntSpan) .. (a - 1))
  <2> DEFINE p == i + IntSpan
             W == 2 * IntSpan
             r == p % W
  <2>1. p \in Nat /\ W \in Nat /\ W > 0 /\ W = IntSpan + IntSpan /\ IntSpan \in Nat
    BY SizeAssumption
  <2> HIDE DEF p, W
  <2>2. r \in Nat /\ r < W BY <2>1
  <2> HIDE DEF r
  <2>3. a + r - IntSpan \in Int /\ a + r - IntSpan >= a - IntSpan /\ a + r - IntSpan < a + n
    BY <2>1, <2>2
  <2>4. a + r - IntSpan \in Pages(a, n) \/ a + r - IntSpan \in (a - IntSpan) .. (a - 1)
    BY <2>1, <2>3 DEF Pages
  <2> QED BY <2>4 DEF r, p, W
<1> QED
  BY <1>1 DEF Visited

LEMMA ReleasedConventional ==
  ASSUME NEW m, WalkedMap(m), NEW wraps
  PROVE  Released(m, wraps) \subseteq ConventionalFrames(m) \cup Overshot(m)
<1>1. ASSUME NEW d \in ConventionalIn(m), NEW f \in Visited(m[d].start, m[d].pages, wraps)
      PROVE  f \in ConventionalFrames(m) \cup Overshot(m)
  <2>1. d \in DOMAIN m
    BY DEF ConventionalIn
  <2>2. m[d].start \in Nat /\ m[d].pages \in Nat
    BY <2>1, MapTypes
  <2>3. CASE f \in Pages(m[d].start, m[d].pages)
    BY <2>3 DEF ConventionalFrames
  <2>4. CASE f \notin Pages(m[d].start, m[d].pages)
    <3>1. m[d].pages > IntSpan
      BY <2>2, <2>4, VisitedPages, SizeAssumption
    <3>2. f \in (m[d].start - IntSpan) .. (m[d].start - 1)
      BY <2>2, <2>4, <3>1, VisitedBelow
    <3> QED BY <3>1, <3>2 DEF Overshot
  <2> QED BY <2>3, <2>4
<1> QED
  BY <1>1 DEF Released

\* What ppa_init leaves when it finds a segment for the bitmap.
LEMMA InitBits ==
  ASSUME NEW s \in State, ~ s.initialized, NEW m, WalkedMap(m),
         largest_segment(m) # 0, NEW wraps
  PROVE  LET t == ppa_init(s, m, wraps)
         IN  /\ SoundBitmap(t) /\ t.initialized
             /\ t.max_index = MapPages(m) - 1 /\ t.total = MapPages(m)
             /\ t.data = largest_segment(m)
             /\ bitmap_pages(t) \in Nat /\ bitmap_pages(t) <= MapPages(m)
             /\ Frames(t) \ t.bits \subseteq Released(m, wraps)
<1> DEFINE T      == MapPages(m)
           blank  == ppa_init_bitmap(Counted(s, m), largest_segment(m), T)
           all    == ppa_rsvn(blank, 0, T)
           hint   == m[LastConventional(m)].start
           usable == ppa_ursvn(all, Released(m, wraps), hint)
           low    == ppa_rsvn(usable, 0, LowPages)
           n      == bitmap_pages(low)
           locked == ppa_lckn(low, low.data, n)
           t      == ppa_init(s, m, wraps)
<1>1. /\ T \in Nat /\ T > 0 /\ T < CounterMod /\ T \in Counter
      /\ largest_segment(m) \in Nat /\ hint \in Nat
  BY SegmentFound, MapPagesType, SizeAssumption DEF Counter
<1>2. /\ blank.size = T \div WordBits + 1 /\ blank.max_index = T - 1
      /\ blank.data = largest_segment(m) /\ blank.bits = {} /\ blank.total = T
      /\ blank.size \in Nat /\ blank \in State
  <2>1. T \div WordBits + 1 \in Nat
    <3> HIDE DEF T
    <3>1. T \div WordBits \in Nat BY <1>1, SizeAssumption, WordDivision
    <3> QED BY <3>1
  <2>2. 0 \in Counter /\ T - 1 \in Counter
    BY <1>1, SizeAssumption DEF Counter
  <2>3. Counted(s, m) = [s EXCEPT !.used = 0, !.rsvd = 0, !.free = T, !.total = T]
    BY DEF Counted
  <2>4. Counted(s, m) \in State /\ Counted(s, m).total = T
    BY <1>1, <2>2, <2>3 DEF State
  <2> HIDE DEF T
  <2> QED BY <1>1, <2>1, <2>2, <2>4 DEF ppa_init_bitmap, State
<1> HIDE DEF T, blank, hint
<1>3. all \in State /\ SameHeader(all, blank) /\ all.bits = Frames(blank)
  <2>1. T \in 0 .. CounterMod /\ 0 \in Nat BY <1>1, SizeAssumption
  <2>2. all \in State BY <1>2, <2>1, TakeState
  <2>3. SameHeader(all, blank) /\ all.bits = Unset(blank, Pages(0, T)) \cap Frames(blank)
    BY <1>2 DEF ppa_rsvn, State, SameHeader, Frames
  <2>4. Frames(blank) = Pages(0, T) BY <1>1, <1>2 DEF Frames, Pages
  <2>5. Unset(blank, Pages(0, T)) = Pages(0, T) BY <1>2 DEF Unset, ppa_bitmap_get
  <2> QED BY <2>2, <2>3, <2>4, <2>5
<1> HIDE DEF all
<1>4. /\ usable \in State /\ SameHeader(usable, blank) /\ usable.bits \subseteq Frames(blank)
      /\ Frames(blank) \ usable.bits \subseteq Released(m, wraps)
  <2>1. usable \in State BY <1>1, <1>3, ReleaseState
  <2>2. /\ SameHeader(usable, all) /\ usable.bits \subseteq all.bits
        /\ all.bits \ usable.bits \subseteq Released(m, wraps)
    BY <1>3 DEF ppa_ursvn, State, SameHeader
  <2> HIDE DEF usable
  <2> QED BY <1>3, <2>1, <2>2 DEF SameHeader
<1> HIDE DEF usable
<1>5. /\ low \in State /\ SameHeader(low, blank) /\ low.bits \subseteq Frames(blank)
      /\ Frames(blank) \cap Pages(0, LowPages) \subseteq low.bits
      /\ usable.bits \subseteq low.bits
  <2> DEFINE new == Unset(usable, Pages(0, LowPages))
  <2>1. LowPages \in 0 .. CounterMod /\ 0 \in Nat BY SizeAssumption
  <2>2. Frames(usable) = Frames(blank) BY <1>4 DEF SameHeader, Frames
  <2>3. low \in State BY <1>4, <2>1, TakeState
  <2>4. SameHeader(low, usable) /\ low.bits = usable.bits \cup (new \cap Frames(usable))
    BY <1>4, <2>1, TakeEffect DEF SameHeader
  <2>5. Frames(usable) \cap Pages(0, LowPages) \subseteq usable.bits \cup new
    BY DEF Unset, ppa_bitmap_get
  <2> HIDE DEF low, new
  <2> QED BY <1>4, <2>2, <2>3, <2>4, <2>5 DEF SameHeader
<1> HIDE DEF low
<1>6. n \in 0 .. CounterMod /\ n \in Nat /\ n <= T /\ low.data \in Nat /\ T < WordBits * low.size
  <2>1. low.size = T \div WordBits + 1 /\ low.data \in Nat
    BY <1>1, <1>2, <1>5 DEF SameHeader
  <2>2. n \in Nat /\ n <= T /\ n < CounterMod /\ T < WordBits * low.size
    BY <1>1, <2>1, BitmapSize
  <2> QED BY <2>1, <2>2, SizeAssumption
<1> HIDE DEF n
<1>7. /\ locked \in State /\ SameHeader(locked, low)
      /\ low.bits \subseteq locked.bits /\ locked.bits \subseteq low.bits \cup Frames(low)
      /\ Frames(low) \cap Pages(low.data, n) \subseteq locked.bits
  <2> DEFINE new == Unset(low, Pages(low.data, n))
  <2>1. locked \in State BY <1>5, <1>6, TakeState
  <2>2. SameHeader(locked, low) /\ locked.bits = low.bits \cup (new \cap Frames(low))
    BY <1>5, <1>6, TakeEffect DEF SameHeader
  <2>3. Frames(low) \cap Pages(low.data, n) \subseteq low.bits \cup new
    BY DEF Unset, ppa_bitmap_get
  <2> HIDE DEF locked, new
  <2> QED BY <2>1, <2>2, <2>3
<1>8. t = [locked EXCEPT !.initialized = TRUE]
  BY DEF ppa_init, BeforeBitmapLock, low, usable, all, blank, T, n, hint
<1> HIDE DEF locked, t
<1>9. /\ t \in State /\ t.initialized /\ t.bits = locked.bits /\ t.size = low.size
      /\ t.max_index = low.max_index /\ t.data = low.data /\ t.total = low.total
  BY <1>7, <1>8 DEF State, SameHeader
<1>10. /\ Frames(t) = Frames(low) /\ Frames(low) = Frames(blank)
       /\ bitmap_pages(t) = n
  BY <1>5, <1>9 DEF SameHeader, Frames, bitmap_pages, n
<1>11. SoundBitmap(t)
  <2>1. t.max_index = T - 1 /\ t.size = low.size /\ low.size \in Nat
    BY <1>2, <1>5, <1>9 DEF SameHeader
  <2>2. t.max_index < WordBits * t.size BY <1>1, <1>6, <2>1, SizeAssumption
  <2>3. Frames(t) \cap Fixed(t) \subseteq t.bits
    BY <1>5, <1>7, <1>9, <1>10 DEF Fixed
  <2>4. t.bits \subseteq Frames(t) BY <1>5, <1>7, <1>9, <1>10
  <2> QED BY <1>9, <2>2, <2>3, <2>4 DEF SoundBitmap
<1>12. Frames(t) \ t.bits \subseteq Released(m, wraps)
  BY <1>4, <1>5, <1>7, <1>9, <1>10
<1> QED
  BY <1>2, <1>5, <1>6, <1>9, <1>10, <1>11, <1>12 DEF t, T, SameHeader

=============================================================================
