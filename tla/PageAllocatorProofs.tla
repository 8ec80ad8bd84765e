------------------------- MODULE PageAllocatorProofs -------------------------
(***************************************************************************)
(* Proofs about PageAllocator for every size of memory, word, counter and  *)
(* memory map.                                                             *)
(***************************************************************************)
EXTENDS PageLoops, PageFramesProofs

-----------------------------------------------------------------------------
(* Counters and memory maps.                                               *)

\* Every map the firmware may hand over can be walked.
LEMMA MapsWalked == \A m \in MemoryMaps : WalkedMap(m)
BY MapAssumption DEF WalkedMap

\* A counter that is c plus p, modulo 2^64, and grows by i and o.
LEMMA AddBoth ==
  ASSUME NEW c \in Nat, NEW p \in Counter, NEW i \in Nat, NEW o \in Nat,
         c + i < CounterMod, i + o <= CounterMod
  PROVE  Add(Add(c, p), i + o) = Add(c + i, Add(p, o))
BY SizeAssumption DEF Counter, Add

\* A counter that is x less p less q, modulo 2^64, and shrinks by i and o.
LEMMA SubBoth ==
  ASSUME NEW x \in Counter, NEW p \in Counter, NEW q \in Counter,
         NEW i \in Nat, NEW o \in Nat, i <= x, i + o <= CounterMod
  PROVE  /\ Sub(Sub(Sub(x, p), q), i + o) = Sub(Sub(x - i, Add(p, o)), q)
         /\ Sub(Sub(Sub(x, p), q), i + o) = Sub(Sub(x - i, p), Add(q, o))
BY SizeAssumption DEF Counter, Add, Sub

\* Giving i back.
LEMMA GiveBack ==
  ASSUME NEW x \in Counter, NEW p \in Counter, NEW q \in Counter,
         NEW i \in Nat, x + i < CounterMod
  PROVE  Add(Sub(Sub(x, p), q), i) = Sub(Sub(x + i, p), q)
BY SizeAssumption DEF Counter, Add, Sub

LEMMA TakeBack ==
  ASSUME NEW c \in Counter, NEW p \in Counter, NEW i \in Nat, i <= c
  PROVE  Sub(Add(c, p), i) = Add(c - i, p)
BY SizeAssumption DEF Counter, Add, Sub

-----------------------------------------------------------------------------
(* The counters: taking and releasing keep them in step with the bitmap.   *)

\* The bitmap covers exactly the pages that mem_total counts.
Covering(s) ==
  /\ s \in State
  /\ s.max_index + 1 = s.total
  /\ s.bits \subseteq Frames(s)

Phantom == [used : Counter, rsvd : Counter]

\* The sizes of the parts of a bitmap.
LEMMA CoveringSizes ==
  ASSUME NEW s, Covering(s), NEW U \in SUBSET s.bits
  PROVE  /\ IsFiniteSet(s.bits) /\ IsFiniteSet(U) /\ IsFiniteSet(s.bits \ U)
         /\ Cardinality(s.bits) \in Nat /\ Cardinality(U) \in Nat
         /\ Cardinality(s.bits \ U) \in Nat
         /\ Cardinality(s.bits) <= s.total /\ Cardinality(U) <= s.total
         /\ Cardinality(s.bits \ U) <= s.total
         /\ s.total \in Nat /\ s.total < CounterMod
<1>1. IsFiniteSet(Frames(s)) /\ Cardinality(Frames(s)) = s.total
  BY FramesFinite DEF Covering
<1>2. s.bits \in SUBSET Frames(s) /\ U \in SUBSET Frames(s) /\ s.bits \ U \in SUBSET Frames(s)
  BY DEF Covering
<1>3. /\ IsFiniteSet(s.bits) /\ IsFiniteSet(U) /\ IsFiniteSet(s.bits \ U)
      /\ Cardinality(s.bits) <= s.total /\ Cardinality(U) <= s.total
      /\ Cardinality(s.bits \ U) <= s.total
  BY <1>1, <1>2, FS_Subset
<1>4. s.total \in Nat /\ s.total < CounterMod
  BY SizeAssumption DEF Covering, State, Counter
<1> QED
  BY <1>3, <1>4, FS_CardinalityType

\* Adding fresh frames to a part of the bitmap adds up their numbers, and the
\* sum stays below the modulus.
LEMMA FreshSizes ==
  ASSUME NEW s, Covering(s), NEW U \in SUBSET s.bits,
         NEW in \in SUBSET (Frames(s) \ s.bits)
  PROVE  /\ Cardinality(U \cup in) = Cardinality(U) + Cardinality(in)
         /\ Cardinality(U) + Cardinality(in) < CounterMod
         /\ Cardinality(s.bits) + Cardinality(in) <= s.total
         /\ Cardinality(in) \in Nat
<1>1. IsFiniteSet(Frames(s)) /\ Cardinality(Frames(s)) = s.total
  BY FramesFinite DEF Covering
<1>2. IsFiniteSet(in)
  BY <1>1, FS_Subset
<1>3. Cardinality(in) \in Nat /\ Cardinality({}) = 0
  BY <1>2, FS_CardinalityType, FS_EmptySet
<1>4. /\ IsFiniteSet(U) /\ Cardinality(U) \in Nat
      /\ IsFiniteSet(s.bits) /\ Cardinality(s.bits) \in Nat
      /\ s.total \in Nat /\ s.total < CounterMod
  BY CoveringSizes
<1>5. U \cap in = {} /\ s.bits \cap in = {}
  OBVIOUS
<1>6. Cardinality(U \cup in) = Cardinality(U) + Cardinality(in) - Cardinality(U \cap in)
  BY <1>2, <1>4, FS_Union
<1>7. Cardinality(s.bits \cup in)
        = Cardinality(s.bits) + Cardinality(in) - Cardinality(s.bits \cap in)
  BY <1>2, <1>4, FS_Union
<1>8. Cardinality(s.bits \cup in) <= s.total /\ Cardinality(U) <= Cardinality(s.bits)
  <2>1. s.bits \cup in \in SUBSET Frames(s)
    BY DEF Covering
  <2>2. Cardinality(s.bits \cup in) <= s.total
    BY <1>1, <2>1, FS_Subset
  <2>3. Cardinality(U) <= Cardinality(s.bits)
    BY <1>4, FS_Subset
  <2> QED BY <2>2, <2>3
<1> QED
  <2>1. Cardinality(U \cap in) = 0 /\ Cardinality(s.bits \cap in) = 0
    BY <1>3, <1>5
  <2>2. /\ Cardinality(U \cup in) = Cardinality(U) + Cardinality(in)
        /\ Cardinality(s.bits \cup in) = Cardinality(s.bits) + Cardinality(in)
    BY <1>3, <1>4, <1>6, <1>7, <2>1
  <2> QED BY <1>3, <1>4, <1>8, <2>2, SizeAssumption

\* Locking a range accounts for it: the frames of memory it newly takes join
\* the locked ones, the pages outside memory join the phantom ones.
LEMMA LockAccounted ==
  ASSUME NEW s, Covering(s), NEW U \in SUBSET s.bits, NEW ph \in Phantom,
         Accounted(s, U, ph), NEW a \in Nat, NEW n \in 0 .. CounterMod
  PROVE  LET in  == Pages(a, n) \cap (Frames(s) \ s.bits)
             out == Pages(a, n) \ Frames(s)
             l   == ppa_lckn(s, a, n)
             r   == ppa_rsvn(s, a, n)
         IN  /\ l.bits = s.bits \cup in /\ r.bits = s.bits \cup in
             /\ Covering(l) /\ Covering(r)
             /\ Accounted(l, U \cup in,
                          [ph EXCEPT !.used = Add(@, Cardinality(out))])
             /\ Accounted(r, U, [ph EXCEPT !.rsvd = Add(@, Cardinality(out))])
<1> DEFINE in  == Pages(a, n) \cap (Frames(s) \ s.bits)
           out == Pages(a, n) \ Frames(s)
           new == Unset(s, Pages(a, n))
           l   == ppa_lckn(s, a, n)
           r   == ppa_rsvn(s, a, n)
           i   == Cardinality(in)
           o   == Cardinality(out)
           C   == Cardinality(s.bits)
           V   == s.bits \ U
<1>0. s \in State /\ n \in Nat /\ n <= CounterMod
  BY SizeAssumption DEF Covering
<1>1. /\ new \cap Frames(s) = in /\ i \in Nat /\ o \in Nat
      /\ Cardinality(new) = i + o /\ i + o <= CounterMod
  <2>1. /\ new \cap Frames(s) = in /\ i \in Nat /\ o \in Nat
        /\ Cardinality(new) = i + o /\ Cardinality(new) <= n
    BY <1>0, TakenSplit
  <2> QED BY <1>0, <2>1, SizeAssumption
<1>2. /\ l.bits = s.bits \cup in /\ r.bits = s.bits \cup in
      /\ l.used = Add(s.used, i + o) /\ r.used = s.used
      /\ l.rsvd = s.rsvd /\ r.rsvd = Add(s.rsvd, i + o)
      /\ l.free = Sub(s.free, i + o) /\ r.free = l.free
      /\ l.total = s.total /\ r.total = s.total
      /\ l.max_index = s.max_index /\ r.max_index = s.max_index
  BY <1>0, <1>1, TakeEffect
<1>3. Covering(l) /\ Covering(r)
  BY <1>0, <1>2, TakeState DEF Covering, Frames
<1>4. in \in SUBSET (Frames(s) \ s.bits) /\ V \in SUBSET s.bits
  OBVIOUS
<1>5. /\ Cardinality(U \cup in) = Cardinality(U) + i /\ Cardinality(U) + i < CounterMod
      /\ Cardinality(V \cup in) = Cardinality(V) + i /\ Cardinality(V) + i < CounterMod
      /\ Cardinality(s.bits \cup in) = C + i /\ C + i <= s.total
  <2>1. Cardinality(U \cup in) = Cardinality(U) + i /\ Cardinality(U) + i < CounterMod
    BY <1>4, FreshSizes
  <2>2. Cardinality(V \cup in) = Cardinality(V) + i /\ Cardinality(V) + i < CounterMod
    BY <1>4, FreshSizes
  <2>3. Cardinality(s.bits \cup in) = C + i /\ C + i <= s.total
    BY <1>4, FreshSizes
  <2> QED BY <2>1, <2>2, <2>3
<1>6. /\ C \in Nat /\ Cardinality(U) \in Nat /\ Cardinality(V) \in Nat
      /\ s.total \in Nat
      /\ s.total - C \in Counter /\ s.total - (C + i) = s.total - C - i
  <2>1. /\ C \in Nat /\ Cardinality(U) \in Nat /\ Cardinality(V) \in Nat
        /\ C <= s.total /\ s.total \in Nat /\ s.total < CounterMod
    BY CoveringSizes
  <2> QED BY <1>1, <2>1, SizeAssumption DEF Counter
<1>7. (s.bits \cup in) \ (U \cup in) = V /\ (s.bits \cup in) \ U = V \cup in
  OBVIOUS
<1>8. /\ s.used = Add(Cardinality(U), ph.used) /\ s.rsvd = Add(Cardinality(V), ph.rsvd)
      /\ s.free = Sub(Sub(s.total - C, ph.used), ph.rsvd)
      /\ ph.used \in Counter /\ ph.rsvd \in Counter
  BY DEF Accounted, Phantom
<1> HIDE DEF i, o, C
<1>9. /\ Add(s.used, i + o) = Add(Cardinality(U) + i, Add(ph.used, o))
      /\ Add(s.rsvd, i + o) = Add(Cardinality(V) + i, Add(ph.rsvd, o))
  BY <1>1, <1>5, <1>6, <1>8, AddBoth
<1>10. i <= s.total - C
  BY <1>1, <1>5, <1>6, SizeAssumption DEF Counter
<1>11. /\ Sub(s.free, i + o) = Sub(Sub(s.total - C - i, Add(ph.used, o)), ph.rsvd)
       /\ Sub(s.free, i + o) = Sub(Sub(s.total - C - i, ph.used), Add(ph.rsvd, o))
  BY <1>1, <1>6, <1>8, <1>10, SubBoth
<1>12. /\ [ph EXCEPT !.used = Add(@, o)].used = Add(ph.used, o)
       /\ [ph EXCEPT !.used = Add(@, o)].rsvd = ph.rsvd
       /\ [ph EXCEPT !.rsvd = Add(@, o)].rsvd = Add(ph.rsvd, o)
       /\ [ph EXCEPT !.rsvd = Add(@, o)].used = ph.used
  BY DEF Phantom
<1>13. Accounted(l, U \cup in, [ph EXCEPT !.used = Add(@, o)])
  BY <1>2, <1>5, <1>6, <1>7, <1>8, <1>9, <1>11, <1>12 DEF Accounted
<1>14. Accounted(r, U, [ph EXCEPT !.rsvd = Add(@, o)])
  BY <1>2, <1>5, <1>6, <1>7, <1>8, <1>9, <1>11, <1>12 DEF Accounted
<1> QED
  BY <1>2, <1>3, <1>13, <1>14 DEF o

\* Releasing frames that one kind of call took gives them back to mem_free.
LEMMA ReleaseAccounted ==
  ASSUME NEW s, Covering(s), NEW U \in SUBSET s.bits, NEW ph \in Phantom,
         Accounted(s, U, ph), NEW R, NEW hint \in Nat
  PROVE  LET l == ppa_ulckn(s, R, hint)
             r == ppa_ursvn(s, R, hint)
         IN  /\ l.bits = s.bits \ R /\ r.bits = s.bits \ R
             /\ Covering(l) /\ Covering(r)
             /\ R \cap s.bits \subseteq U => Accounted(l, U \ R, ph)
             /\ R \cap U = {} => Accounted(r, U, ph)
<1> DEFINE l   == ppa_ulckn(s, R, hint)
           r   == ppa_ursvn(s, R, hint)
           old == R \ Unset(s, R)
           k   == Cardinality(old)
           C   == Cardinality(s.bits)
           V   == s.bits \ U
<1>0. s \in State /\ s.bits \subseteq Frames(s)
  BY DEF Covering
<1>1. old = R \cap s.bits /\ IsFiniteSet(old) /\ k \in Nat
  <2>1. old = R \cap s.bits \cap Frames(s) /\ IsFiniteSet(old)
    BY <1>0, ReleasedSet
  <2> QED BY <1>0, <2>1, FS_CardinalityType
<1>2. /\ l.bits = s.bits \ old /\ r.bits = s.bits \ old
      /\ l.used = Sub(s.used, k) /\ r.used = s.used
      /\ l.rsvd = s.rsvd /\ r.rsvd = Sub(s.rsvd, k)
      /\ l.free = Add(s.free, k) /\ r.free = l.free
      /\ l.total = s.total /\ r.total = s.total
      /\ l.max_index = s.max_index /\ r.max_index = s.max_index
  BY <1>0, ReleaseEffect
<1>3. Covering(l) /\ Covering(r)
  BY <1>0, <1>2, ReleaseState DEF Covering, Frames
<1>4. l.bits = s.bits \ R /\ r.bits = s.bits \ R
  BY <1>1, <1>2
<1>5. /\ C \in Nat /\ Cardinality(U) \in Nat /\ Cardinality(V) \in Nat
      /\ IsFiniteSet(s.bits) /\ IsFiniteSet(U) /\ IsFiniteSet(V)
      /\ Cardinality(U) <= s.total /\ Cardinality(V) <= s.total
      /\ C <= s.total /\ s.total \in Nat /\ s.total < CounterMod
  BY CoveringSizes
<1>6. Cardinality(s.bits \ R) = C - k /\ k <= C
  <2>1. Cardinality(s.bits \ R) = C - Cardinality(s.bits \cap R)
    BY <1>5, FS_Difference
  <2>2. s.bits \cap R = old
    BY <1>1
  <2>3. k <= C
    BY <1>1, <1>5, FS_Subset
  <2> QED BY <2>1, <2>2, <2>3
<1>7. /\ s.used = Add(Cardinality(U), ph.used) /\ s.rsvd = Add(Cardinality(V), ph.rsvd)
      /\ s.free = Sub(Sub(s.total - C, ph.used), ph.rsvd)
      /\ ph.used \in Counter /\ ph.rsvd \in Counter
  BY DEF Accounted, Phantom
<1>8. s.total - C \in Counter /\ Cardinality(U) \in Counter /\ Cardinality(V) \in Counter
  BY <1>5, SizeAssumption DEF Counter
<1> HIDE DEF k, C
<1>9. l.free = Sub(Sub(s.total - (C - k), ph.used), ph.rsvd) /\ r.free = l.free
  <2>1. s.total - C + k < CounterMod /\ s.total - C + k = s.total - (C - k)
    BY <1>1, <1>5, <1>6, SizeAssumption
  <2>2. Add(s.free, k) = Sub(Sub(s.total - C + k, ph.used), ph.rsvd)
    BY <1>1, <1>7, <1>8, <2>1, GiveBack
  <2> QED BY <1>2, <2>1, <2>2
<1>10. ASSUME R \cap s.bits \subseteq U
       PROVE  Accounted(l, U \ R, ph)
  <2>1. U \cap R = old /\ (s.bits \ R) \ (U \ R) = V
    BY <1>1, <1>10
  <2>2. Cardinality(U \ R) = Cardinality(U) - k
    <3> HIDE DEF old, V
    <3>1. Cardinality(U \ R) = Cardinality(U) - Cardinality(U \cap R)
      BY <1>5, FS_Difference
    <3> QED BY <2>1, <3>1 DEF k
  <2>3. k <= Cardinality(U)
    BY <1>1, <1>5, <2>1, FS_Subset DEF k
  <2>4. Sub(s.used, k) = Add(Cardinality(U) - k, ph.used)
    BY <1>1, <1>7, <1>8, <2>3, TakeBack
  <2> QED BY <1>2, <1>4, <1>6, <1>7, <1>9, <2>1, <2>2, <2>4 DEF Accounted
<1>11. ASSUME R \cap U = {}
       PROVE  Accounted(r, U, ph)
  <2>1. V \cap R = old /\ (s.bits \ R) \ U = V \ R
    BY <1>1, <1>11
  <2>2. Cardinality(V \ R) = Cardinality(V) - k
    <3> HIDE DEF old, V
    <3>1. Cardinality(V \ R) = Cardinality(V) - Cardinality(V \cap R)
      BY <1>5, FS_Difference
    <3> QED BY <2>1, <3>1 DEF k
  <2>3. k <= Cardinality(V)
    BY <1>1, <1>5, <2>1, FS_Subset DEF k
  <2>4. Sub(s.rsvd, k) = Add(Cardinality(V) - k, ph.rsvd)
    BY <1>1, <1>7, <1>8, <2>3, TakeBack
  <2> QED BY <1>2, <1>4, <1>6, <1>7, <1>9, <2>1, <2>2, <2>4 DEF Accounted
<1> QED
  BY <1>3, <1>4, <1>10, <1>11

\* The two lemmas for one call at a time.
LEMMA LockStep ==
  ASSUME NEW s, Covering(s), NEW U \in SUBSET s.bits, NEW ph \in Phantom,
         Accounted(s, U, ph), NEW a \in Nat, NEW n \in 0 .. CounterMod
  PROVE  LET t == ppa_lckn(s, a, n)
         IN  /\ t.bits = s.bits \cup (Pages(a, n) \cap (Frames(s) \ s.bits))
             /\ Covering(t)
             /\ Accounted(t, U \cup (Pages(a, n) \cap (Frames(s) \ s.bits)),
                  [ph EXCEPT !.used = Add(@, Outside(s, Pages(a, n)))])
BY LockAccounted DEF Outside

LEMMA ReserveStep ==
  ASSUME NEW s, Covering(s), NEW U \in SUBSET s.bits, NEW ph \in Phantom,
         Accounted(s, U, ph), NEW a \in Nat, NEW n \in 0 .. CounterMod
  PROVE  LET t == ppa_rsvn(s, a, n)
         IN  /\ t.bits = s.bits \cup (Pages(a, n) \cap (Frames(s) \ s.bits))
             /\ Covering(t)
             /\ Accounted(t, U, [ph EXCEPT !.rsvd = Add(@, Outside(s, Pages(a, n)))])
BY LockAccounted DEF Outside

LEMMA UnlockStep ==
  ASSUME NEW s, Covering(s), NEW U \in SUBSET s.bits, NEW ph \in Phantom,
         Accounted(s, U, ph), NEW R, R \subseteq U, NEW hint \in Nat
  PROVE  LET t == ppa_ulckn(s, R, hint)
         IN  t.bits = s.bits \ R /\ Covering(t) /\ Accounted(t, U \ R, ph)
<1>1. R \cap s.bits \subseteq U
  OBVIOUS
<1> QED
  BY <1>1, ReleaseAccounted

LEMMA UnreserveStep ==
  ASSUME NEW s, Covering(s), NEW U \in SUBSET s.bits, NEW ph \in Phantom,
         Accounted(s, U, ph), NEW R, R \cap U = {}, NEW hint \in Nat
  PROVE  LET t == ppa_ursvn(s, R, hint)
         IN  t.bits = s.bits \ R /\ Covering(t) /\ Accounted(t, U, ph)
BY ReleaseAccounted

\* While nothing is locked, any release of reserved frames is accounted for.
LEMMA UnreserveAccounted ==
  ASSUME NEW s, Covering(s), NEW ph \in Phantom, Accounted(s, {}, ph),
         NEW R, NEW hint \in Nat, NEW t, t = ppa_ursvn(s, R, hint)
  PROVE  /\ t.bits = s.bits \ R /\ Covering(t) /\ Accounted(t, {}, ph)
         /\ t.size = s.size /\ t.data = s.data /\ t.max_index = s.max_index
<1>1. {} \in SUBSET s.bits /\ R \cap {} = {}
  OBVIOUS
<1>2. t.bits = s.bits \ R /\ Covering(t)
  BY <1>1, ReleaseAccounted
<1>3. Accounted(t, {}, ph)
  BY <1>1, ReleaseAccounted
<1>4. s \in State
  BY DEF Covering
<1> QED
  BY <1>2, <1>3, <1>4 DEF ppa_ursvn, State

-----------------------------------------------------------------------------
(* ppa_init.                                                               *)

\* What ppa_init leaves when it finds a segment for the bitmap.
LEMMA InitEffect ==
  ASSUME NEW s \in State, ~ s.initialized, NEW m \in MemoryMaps,
         largest_segment(m) # 0, NEW wraps
  PROVE  LET low   == BeforeBitmapLock(s, m, wraps)
             t     == ppa_init(s, m, wraps)
             store == Pages(low.data, bitmap_pages(low))
         IN  /\ Covering(t) /\ t.initialized
             /\ t.max_index < WordBits * t.size
             /\ Accounted(t, t.bits \ low.bits,
                          [used |-> Outside(low, store),
                           rsvd |-> Outside(low, Pages(0, LowPages))])
             /\ Outside(low, store) \in Counter
             /\ Outside(low, Pages(0, LowPages)) \in Counter
             /\ 0 \in low.bits /\ low.bits \subseteq t.bits
             /\ Frames(t) \cap Pages(0, LowPages) \subseteq t.bits
             /\ Frames(t) \cap Pages(t.data, bitmap_pages(t)) \subseteq t.bits
             /\ Frames(t) \ t.bits \subseteq Released(m, wraps)
<1> DEFINE T      == MapPages(m)
           zero   == [used |-> 0, rsvd |-> 0]
           blank  == ppa_init_bitmap(Counted(s, m), largest_segment(m), T)
           all    == ppa_rsvn(blank, 0, T)
           hint   == m[LastConventional(m)].start
           usable == ppa_ursvn(all, Released(m, wraps), hint)
           low    == ppa_rsvn(usable, 0, LowPages)
           n      == bitmap_pages(low)
           store  == Pages(low.data, n)
           locked == ppa_lckn(low, low.data, n)
           t      == ppa_init(s, m, wraps)
           lowout == Outside(low, Pages(0, LowPages))
<1>1. /\ T \in Nat /\ T > 0 /\ T < CounterMod /\ T \in Counter
      /\ largest_segment(m) \in Nat /\ hint \in Nat
  BY SegmentFound, MapPagesType, MapsWalked, SizeAssumption DEF Counter
<1>2. /\ blank.size = T \div WordBits + 1 /\ blank.max_index = T - 1
      /\ blank.data = largest_segment(m) /\ blank.bits = {}
      /\ blank.used = 0 /\ blank.rsvd = 0 /\ blank.free = T /\ blank.total = T
      /\ blank.size \in Nat /\ blank \in State
  <2>1. T \div WordBits + 1 \in Nat
    BY <1>1, WordDivision, SizeAssumption
  <2>2. 0 \in Counter /\ T - 1 \in Counter
    BY <1>1, SizeAssumption DEF Counter
  <2>3. Counted(s, m) = [s EXCEPT !.used = 0, !.rsvd = 0, !.free = T, !.total = T]
    BY DEF Counted
  <2>4. /\ Counted(s, m) \in State /\ Counted(s, m).used = 0 /\ Counted(s, m).rsvd = 0
        /\ Counted(s, m).free = T /\ Counted(s, m).total = T
    BY <1>1, <2>2, <2>3 DEF State
  <2> HIDE DEF T
  <2> QED BY <1>1, <2>1, <2>2, <2>4 DEF ppa_init_bitmap, State
<1>3. Covering(blank) /\ Accounted(blank, {}, zero) /\ zero \in Phantom
  <2>1. Add(0, 0) = 0 /\ Sub(Sub(T - 0, 0), 0) = T /\ 0 \in Counter
    BY <1>1, SizeAssumption DEF Add, Sub, Counter
  <2>2. blank.bits \ {} = {} /\ Cardinality({}) = 0
    BY <1>2, FS_EmptySet
  <2> HIDE DEF T, blank
  <2> QED BY <1>1, <1>2, <2>1, <2>2 DEF Covering, Accounted, Frames, Phantom
<1> HIDE DEF T, blank, hint
<1>4. /\ all.bits = Frames(blank) /\ Covering(all) /\ Accounted(all, {}, zero)
      /\ all.size = blank.size /\ all.data = blank.data /\ all.max_index = blank.max_index
  <2> DEFINE out == Pages(0, T) \ Frames(blank)
             in  == Pages(0, T) \cap (Frames(blank) \ blank.bits)
  <2>1. Pages(0, T) = Frames(blank)
    BY <1>1, <1>2 DEF Pages, Frames
  <2>2. out = {} /\ in = Frames(blank) /\ Cardinality({}) = 0
    BY <1>2, <2>1, FS_EmptySet
  <2>3. T \in 0 .. CounterMod /\ {} \in SUBSET blank.bits /\ 0 \in Nat
    BY <1>1, SizeAssumption
  <2>4. /\ all.bits = blank.bits \cup in /\ Covering(all)
        /\ Accounted(all, {}, [zero EXCEPT !.rsvd = Add(@, Outside(blank, Pages(0, T)))])
    <3> HIDE DEF zero, out
    <3> QED BY <1>3, <2>3, ReserveStep
  <2>5. Add(0, 0) = 0
    BY SizeAssumption DEF Add
  <2>6. [zero EXCEPT !.rsvd = Add(@, Outside(blank, Pages(0, T)))] = zero
    <3>1. Outside(blank, Pages(0, T)) = 0
      BY <2>2 DEF Outside
    <3> HIDE DEF out
    <3> QED BY <2>5, <3>1
  <2>7. all.size = blank.size /\ all.data = blank.data /\ all.max_index = blank.max_index
    BY <1>2, TakeEffect
  <2> QED BY <1>2, <2>2, <2>4, <2>6, <2>7
<1> HIDE DEF all
<1>5. /\ usable.bits = Frames(blank) \ Released(m, wraps)
      /\ Covering(usable) /\ Accounted(usable, {}, zero)
      /\ usable.size = blank.size /\ usable.data = blank.data
      /\ usable.max_index = blank.max_index
  <2> DEFINE R == Released(m, wraps)
  <2> HIDE DEF zero, R
  <2>1. usable = ppa_ursvn(all, R, hint)
    BY DEF R
  <2> HIDE DEF usable
  <2>2. /\ usable.bits = all.bits \ R /\ Covering(usable) /\ Accounted(usable, {}, zero)
        /\ usable.size = all.size /\ usable.data = all.data
        /\ usable.max_index = all.max_index
    BY <1>1, <1>3, <1>4, <2>1, UnreserveAccounted
  <2> QED BY <1>4, <2>2 DEF R
<1> HIDE DEF usable
<1>6. /\ low.bits = usable.bits \cup (Pages(0, LowPages) \cap (Frames(blank) \ usable.bits))
      /\ Covering(low) /\ lowout \in Counter
      /\ Accounted(low, {}, [zero EXCEPT !.rsvd = lowout])
      /\ low.size = blank.size /\ low.data = blank.data /\ low.max_index = blank.max_index
  <2>1. LowPages \in 0 .. CounterMod /\ {} \in SUBSET usable.bits /\ LowPages \in Nat /\ 0 \in Nat
    BY SizeAssumption
  <2>2. usable \in State /\ Frames(usable) = Frames(blank)
    BY <1>5 DEF Covering, Frames
  <2>3. low.size = blank.size /\ low.data = blank.data /\ low.max_index = blank.max_index
    BY <1>5, <2>2, TakeEffect
  <2>4. Frames(low) = Frames(usable)
    BY <1>5, <2>3 DEF Frames
  <2>5. /\ low.bits = usable.bits \cup (Pages(0, LowPages) \cap (Frames(usable) \ usable.bits))
        /\ Covering(low)
        /\ Accounted(low, {}, [zero EXCEPT !.rsvd = Add(@, lowout)])
    <3> HIDE DEF zero
    <3> QED BY <1>3, <1>5, <2>1, <2>4, ReserveStep DEF lowout, Outside
  <2>6. lowout \in Nat /\ lowout <= LowPages
    <3>1. IsFiniteSet(Pages(0, LowPages)) /\ Cardinality(Pages(0, LowPages)) = LowPages
      BY <2>1, PagesFinite
    <3>2. Pages(0, LowPages) \ Frames(low) \in SUBSET Pages(0, LowPages)
      OBVIOUS
    <3> QED BY <3>1, <3>2, FS_Subset, FS_CardinalityType DEF Outside
  <2>7. lowout \in Counter /\ Add(0, lowout) = lowout
    BY <2>6, SizeAssumption DEF Counter, Add
  <2>8. [zero EXCEPT !.rsvd = Add(@, lowout)] = [zero EXCEPT !.rsvd = lowout]
    <3> HIDE DEF lowout
    <3> QED BY <2>7
  <2> QED BY <2>2, <2>3, <2>5, <2>7, <2>8
<1> HIDE DEF low, lowout
<1>7. n \in 0 .. CounterMod /\ n \in Nat /\ n < CounterMod /\ low.data \in Nat
      /\ T < WordBits * low.size
  <2>1. low.size = T \div WordBits + 1 /\ low.data \in Nat
    BY <1>1, <1>2, <1>6
  <2>2. n \in Nat /\ n < CounterMod /\ T < WordBits * low.size
    BY <1>1, <2>1, BitmapSize
  <2> QED BY <2>1, <2>2, SizeAssumption
<1> HIDE DEF n
<1> DEFINE out == store \ Frames(low)
           in  == store \cap (Frames(low) \ low.bits)
           ph  == [zero EXCEPT !.rsvd = lowout]
<1>8. /\ locked.bits = low.bits \cup in /\ Covering(locked)
      /\ Accounted(locked, {} \cup in, [ph EXCEPT !.used = Add(@, Outside(low, store))])
      /\ locked \in State /\ locked.size = low.size /\ locked.data = low.data
      /\ locked.max_index = low.max_index
  <2>1. {} \in SUBSET low.bits /\ ph \in Phantom
    BY <1>3, <1>6 DEF Phantom
  <2> HIDE DEF ph
  <2>2. /\ locked.bits = low.bits \cup in /\ Covering(locked)
        /\ Accounted(locked, {} \cup in, [ph EXCEPT !.used = Add(@, Outside(low, store))])
    <3>1. Covering(low) /\ Accounted(low, {}, ph) /\ low.data \in Nat /\ n \in 0 .. CounterMod
      BY <1>6, <1>7 DEF ph
    <3> QED BY <2>1, <3>1, LockStep
  <2>3. low \in State /\ locked \in State
    BY <1>6, <2>2 DEF Covering
  <2> QED BY <2>2, <2>3, TakeEffect
<1>9. /\ Outside(low, store) \in Counter
      /\ [ph EXCEPT !.used = Add(@, Outside(low, store))]
           = [used |-> Outside(low, store), rsvd |-> lowout]
  <2>1. IsFiniteSet(store) /\ Cardinality(store) = n
    BY <1>7, PagesFinite
  <2>2. out \in SUBSET store
    OBVIOUS
  <2>3. Cardinality(out) \in Nat /\ Cardinality(out) <= n
    BY <2>1, <2>2, FS_Subset, FS_CardinalityType
  <2>4. Cardinality(out) \in Counter /\ Add(0, Cardinality(out)) = Cardinality(out)
    BY <1>7, <2>3, SizeAssumption DEF Counter, Add
  <2>5. Outside(low, store) = Cardinality(out)
    BY DEF Outside
  <2>6. ph.used = 0 /\ ph.rsvd = lowout /\ ph = [used |-> 0, rsvd |-> lowout]
    OBVIOUS
  <2> HIDE DEF out, store, ph
  <2> QED BY <2>4, <2>5, <2>6
<1>10. t = [locked EXCEPT !.initialized = TRUE] /\ low = BeforeBitmapLock(s, m, wraps)
  BY DEF ppa_init, BeforeBitmapLock, low, usable, all, blank, T, n, hint
<1> HIDE DEF locked, t
<1>11. /\ t.bits = locked.bits /\ t.size = low.size /\ t.data = low.data
       /\ t.max_index = low.max_index /\ t.total = locked.total /\ t.used = locked.used
       /\ t.rsvd = locked.rsvd /\ t.free = locked.free /\ t.initialized /\ t \in State
  BY <1>8, <1>10 DEF State
<1>12. /\ Covering(t) /\ Frames(t) = Frames(low) /\ Frames(low) = Frames(blank)
       /\ bitmap_pages(t) = n
  <2>1. Covering(t)
    BY <1>8, <1>11 DEF Covering, Frames
  <2>2. Frames(t) = Frames(low) /\ Frames(low) = Frames(blank)
    BY <1>6, <1>11 DEF Frames
  <2>3. bitmap_pages(t) = n
    BY <1>11 DEF bitmap_pages, n
  <2> QED BY <2>1, <2>2, <2>3
<1>13. t.bits \ low.bits = in
  BY <1>8, <1>11
<1>14. Accounted(t, t.bits \ low.bits, [used |-> Outside(low, store), rsvd |-> lowout])
  <2> HIDE DEF in, ph, store, out
  <2>1. {} \cup in = in
    OBVIOUS
  <2> QED BY <1>8, <1>9, <1>11, <1>13, <2>1 DEF Accounted
<1>15. t.max_index < WordBits * t.size
  <2>1. t.max_index = T - 1 /\ t.size = low.size
    BY <1>2, <1>6, <1>11
  <2>2. low.size \in Nat
    BY <1>2, <1>6
  <2> QED BY <1>1, <1>7, <2>1, <2>2, SizeAssumption
<1>16. 0 \in low.bits
  <2>1. 0 \in Pages(0, LowPages) /\ 0 \in Frames(blank)
    BY <1>1, <1>2, SizeAssumption DEF Pages, Frames
  <2> QED BY <1>6, <2>1
<1>17. /\ low.bits \subseteq t.bits
       /\ Frames(t) \cap Pages(0, LowPages) \subseteq t.bits
       /\ Frames(t) \cap store \subseteq t.bits
       /\ Frames(t) \ t.bits \subseteq Released(m, wraps)
  BY <1>5, <1>6, <1>8, <1>11, <1>12
<1> QED
  BY <1>6, <1>9, <1>10, <1>11, <1>12, <1>14, <1>15, <1>16, <1>17 DEF t, lowout, n

-----------------------------------------------------------------------------
(* ppa_request and the pages outside memory.                               *)

LEMMA OutsideType ==
  ASSUME NEW s, NEW a \in Nat, NEW n \in 0 .. CounterMod
  PROVE  Outside(s, Pages(a, n)) \in 0 .. CounterMod
<1> DEFINE out == Pages(a, n) \ Frames(s)
<1>1. n \in Nat /\ n <= CounterMod
  BY SizeAssumption
<1>2. IsFiniteSet(Pages(a, n)) /\ Cardinality(Pages(a, n)) = n
  BY <1>1, PagesFinite
<1>3. out \in SUBSET Pages(a, n)
  OBVIOUS
<1>4. Cardinality(out) \in Nat /\ Cardinality(out) <= n
  BY <1>2, <1>3, FS_Subset, FS_CardinalityType
<1> QED
  BY <1>1, <1>4, SizeAssumption DEF Outside

-----------------------------------------------------------------------------
(* Type correctness.                                                       *)

LEMMA CallTypes ==
  ASSUME NEW c \in CallRanges
  PROVE  c[1] \in Nat /\ c[2] \in 0 .. CounterMod /\ c[2] \in Nat
BY CallAssumption, SizeAssumption

\* The globals, the counters among them, keep their types through every call.
LEMMA InitStateType ==
  ASSUME NEW s \in State, NEW m \in MemoryMaps, NEW wraps
  PROVE  ppa_init(s, m, wraps) \in State
<1>1. CASE s.initialized
  BY <1>1 DEF ppa_init
<1>2. CASE ~ s.initialized /\ largest_segment(m) = 0
  <2>1. MapPages(m) \in Counter /\ 0 \in Counter
    BY MapPagesType, MapsWalked, SizeAssumption DEF Counter
  <2>2. Counted(s, m) \in State
    BY <2>1 DEF Counted, State
  <2> QED BY <1>2, <2>2 DEF ppa_init
<1>3. CASE ~ s.initialized /\ largest_segment(m) # 0
  BY <1>3, InitEffect DEF Covering
<1> QED
  BY <1>1, <1>2, <1>3

\* Until the memory map arrives nothing is initialised and nobody holds a frame.
NothingBeforeBoot ==
  mmap = <<>> =>
    ~ ppa.initialized /\ own = {} /\ held = {} /\ kept = {} /\ answer = 0

LEMMA TypeInit == Init => TypeOK /\ NothingBeforeBoot
BY SizeAssumption DEF Init, TypeOK, NothingBeforeBoot, State, Counter

LEMMA BeforeBootStep ==
  NothingBeforeBoot /\ [Next]_vars => NothingBeforeBoot'
<1> SUFFICES ASSUME NothingBeforeBoot, [Next]_vars, mmap' = <<>>
             PROVE  UNCHANGED vars
  BY DEF NothingBeforeBoot, vars
<1>1. ASSUME NEW m \in MemoryMaps, NEW wraps \in BOOLEAN, Boot(m, wraps)
      PROVE  FALSE
  BY <1>1, MapTypes, MapsWalked DEF Boot
<1>2. ASSUME NEW m \in MemoryMaps, NEW wraps \in BOOLEAN, BootAgain(m, wraps)
      PROVE  FALSE
  BY <1>2 DEF BootAgain, NothingBeforeBoot
<1>3. ASSUME NEW c \in CallRanges, Call(c[1], c[2])
      PROVE  held \cup kept # {} \/ mmap # <<>>
  <2>1. CASE Lock(c[1], c[2]) \/ Reserve(c[1], c[2])
    BY <2>1 DEF Lock, Reserve
  <2>2. CASE Unlock(c[1], c[2]) \/ Unreserve(c[1], c[2])
    <3>1. c[1] \in Pages(c[1], c[2])
      BY <2>2, CallTypes, SizeAssumption DEF Unlock, Unreserve, Pages
    <3> QED BY <2>2, <3>1 DEF Unlock, Unreserve
  <2> QED BY <1>3, <2>1, <2>2 DEF Call
<1>4. ASSUME NEW c \in CallRanges, Call(c[1], c[2])
      PROVE  FALSE
  <2>1. mmap' = mmap
    BY <1>4 DEF Call, Lock, Reserve, Unlock, Unreserve
  <2> QED BY <1>3, <1>4, <2>1 DEF NothingBeforeBoot
<1>5. ~ Request
  BY DEF Request
<1> QED
  BY <1>1, <1>2, <1>4, <1>5 DEF Next

LEMMA TypeStep == TypeOK /\ NothingBeforeBoot /\ [Next]_vars => TypeOK'
<1> SUFFICES ASSUME TypeOK, NothingBeforeBoot, [Next]_vars
             PROVE  TypeOK'
  OBVIOUS
<1>1. /\ ppa \in State /\ ppa.bits \subseteq Nat /\ phantom \in [used : Counter, rsvd : Counter]
      /\ mmap \in MemoryMaps \cup {<<>>}
      /\ own \subseteq Nat /\ held \subseteq Nat /\ kept \subseteq Nat /\ answer \in Nat
  BY DEF TypeOK, State
<1>2. ASSUME NEW m \in MemoryMaps, NEW wraps \in BOOLEAN, Boot(m, wraps)
      PROVE  TypeOK'
  <2>1. ppa' \in State /\ ppa'.bits \subseteq Nat /\ ppa' = ppa_init(ppa, m, wraps)
    BY <1>1, <1>2, InitStateType DEF Boot, State
  <2>2. CASE ~ ppa'.initialized
    BY <1>1, <1>2, <2>1, <2>2 DEF Boot, TypeOK
  <2>3. CASE ppa.initialized /\ ppa'.initialized
    BY <1>2, <2>3 DEF Boot, NothingBeforeBoot
  <2>4. CASE ~ ppa.initialized /\ ppa'.initialized
    <3>1. largest_segment(m) # 0
      <4>1. SUFFICES ASSUME largest_segment(m) = 0 PROVE FALSE
        OBVIOUS
      <4>2. ppa' = Counted(ppa, m)
        BY <2>1, <2>4, <4>1 DEF ppa_init
      <4> QED BY <1>1, <2>4, <4>2 DEF Counted, State
    <3>2. /\ own' \subseteq ppa'.bits
          /\ phantom' \in [used : Counter, rsvd : Counter]
      <4>1. /\ Outside(BeforeBitmapLock(ppa, m, wraps),
                       Pages(BeforeBitmapLock(ppa, m, wraps).data,
                             bitmap_pages(BeforeBitmapLock(ppa, m, wraps)))) \in Counter
            /\ Outside(BeforeBitmapLock(ppa, m, wraps), Pages(0, LowPages)) \in Counter
        BY <1>1, <2>4, <3>1, InitEffect
      <4> QED BY <1>2, <2>4, <4>1 DEF Boot
    <3> QED BY <1>1, <1>2, <2>1, <3>2 DEF Boot, TypeOK
  <2> QED BY <2>2, <2>3, <2>4
<1>3. ASSUME NEW m \in MemoryMaps, NEW wraps \in BOOLEAN, BootAgain(m, wraps)
      PROVE  TypeOK'
  BY <1>1, <1>3, InitStateType DEF BootAgain, TypeOK
<1>4. ASSUME NEW c \in CallRanges, Lock(c[1], c[2]) \/ Reserve(c[1], c[2])
      PROVE  TypeOK'
  <2>1. c[1] \in Nat /\ c[2] \in 0 .. CounterMod
    BY CallTypes
  <2>2. ppa' \in State /\ ppa'.bits \subseteq Nat
    <3>1. ppa' \in State
      BY <1>1, <1>4, <2>1, TakeState DEF Lock, Reserve
    <3> QED BY <3>1 DEF State
  <2>3. Outside(ppa, Pages(c[1], c[2])) \in 0 .. CounterMod
    BY <2>1, OutsideType
  <2>4. phantom' \in [used : Counter, rsvd : Counter]
    BY <1>1, <1>4, <2>3, CounterClosed DEF Lock, Reserve
  <2> QED BY <1>1, <1>4, <2>2, <2>4 DEF Lock, Reserve, TypeOK
<1>5. ASSUME NEW c \in CallRanges, Unlock(c[1], c[2]) \/ Unreserve(c[1], c[2])
      PROVE  TypeOK'
  <2>1. ppa' \in State
    BY <1>1, <1>5, CallTypes, ReleaseState DEF Unlock, Unreserve
  <2> QED BY <1>1, <1>5, <2>1 DEF Unlock, Unreserve, TypeOK
<1>6. ASSUME Request
      PROVE  TypeOK'
  <2>1. CASE Candidates(ppa) = {}
    BY <1>1, <1>6, <2>1 DEF Request, RequestedFrame, ppa_request, TypeOK
  <2>2. CASE Candidates(ppa) # {}
    <3>1. ppa' \in State /\ ppa'.bits \subseteq Nat /\ answer' \in Nat
      BY <1>1, <1>6, <2>2, RequestEffect DEF Request, State
    <3>2. Add(phantom.used, 1) \in Counter
      BY <1>1, CounterClosed, SizeAssumption
    <3> QED BY <1>1, <1>6, <3>1, <3>2 DEF Request, TypeOK
  <2> QED BY <2>1, <2>2
<1>7. CASE UNCHANGED vars
  BY <1>7 DEF vars, TypeOK
<1> QED
  BY <1>2, <1>3, <1>4, <1>5, <1>6, <1>7 DEF Next, Call

\* The globals and the callers' records keep their types: no call takes a
\* counter out of 64 bits or a frame number below zero.
THEOREM TypeCorrect == Spec => []TypeOK
BY TypeInit, TypeStep, BeforeBootStep, PTL DEF Spec

-----------------------------------------------------------------------------
(* The inductive invariant.                                                *)

\* The frames ppa_init takes for good.
Barred(s, m) ==
  Pages(0, LowPages) \cup Pages(s.data, bitmap_pages(s))
    \cup (Frames(s) \ (ConventionalFrames(m) \cup Overshot(m)))

\* The bitmap agrees with its three kinds of holder.
HoldersMarked(bits, o, h, k) ==
  /\ o \cup h \cup k \subseteq bits
  /\ o \cap h = {} /\ o \cap k = {} /\ h \cap k = {}

\* What ppa_init took is set and cannot be released: no caller took it.
BarredKept(s, m, o, h, k) ==
  /\ Frames(s) \cap Barred(s, m) \subseteq s.bits \ (h \cup k)
  /\ 0 \in s.bits \ (o \cup h \cup k)

Sound ==
  ppa.initialized =>
    /\ mmap \in MemoryMaps
    /\ Covering(ppa)
    /\ ppa.max_index < WordBits * ppa.size
    /\ HoldersMarked(ppa.bits, own, held, kept)
    /\ BarredKept(ppa, mmap, own, held, kept)
    /\ Accounted(ppa, own \cup held, phantom)

IInv == TypeOK /\ NothingBeforeBoot /\ Sound

\* Barred depends on the header of the bitmap only, which no call changes.
LEMMA SameBarred ==
  ASSUME NEW s, NEW t, NEW m, t.size = s.size, t.data = s.data, t.max_index = s.max_index
  PROVE  Barred(t, m) = Barred(s, m) /\ Frames(t) = Frames(s)
BY DEF Barred, bitmap_pages, Frames

LEMMA SoundBoot ==
  ASSUME IInv, NEW m \in MemoryMaps, NEW wraps \in BOOLEAN, Boot(m, wraps)
  PROVE  Sound'
<1> DEFINE low == BeforeBitmapLock(ppa, m, wraps)
           store == Pages(low.data, bitmap_pages(low))
<1>1. ~ ppa.initialized /\ own = {} /\ held = {} /\ kept = {} /\ ppa \in State
  BY DEF IInv, NothingBeforeBoot, Boot, TypeOK
<1>2. SUFFICES ASSUME ppa'.initialized PROVE Sound'
  BY DEF Sound
<1>3. ppa' = ppa_init(ppa, m, wraps) /\ mmap' = m /\ held' = {} /\ kept' = {}
  BY <1>1 DEF Boot
<1>4. largest_segment(m) # 0
  <2>1. SUFFICES ASSUME largest_segment(m) = 0 PROVE FALSE
    OBVIOUS
  <2>2. ppa' = Counted(ppa, m)
    BY <1>1, <1>3, <2>1 DEF ppa_init
  <2> QED BY <1>1, <1>2, <2>2 DEF Counted, State
<1>5. /\ own' = ppa'.bits \ low.bits
      /\ phantom' = [used |-> Outside(low, store), rsvd |-> Outside(low, Pages(0, LowPages))]
  BY <1>2 DEF Boot
<1>6. /\ Covering(ppa') /\ ppa'.max_index < WordBits * ppa'.size
      /\ Accounted(ppa', own', phantom')
      /\ 0 \in low.bits /\ low.bits \subseteq ppa'.bits
      /\ Frames(ppa') \cap Pages(0, LowPages) \subseteq ppa'.bits
      /\ Frames(ppa') \cap Pages(ppa'.data, bitmap_pages(ppa')) \subseteq ppa'.bits
      /\ Frames(ppa') \ ppa'.bits \subseteq Released(m, wraps)
  BY <1>1, <1>3, <1>4, <1>5, InitEffect
<1>7. HoldersMarked(ppa'.bits, own', held', kept')
  BY <1>3, <1>5 DEF HoldersMarked
<1>8. BarredKept(ppa', mmap', own', held', kept')
  BY <1>3, <1>5, <1>6, MapsWalked, ReleasedConventional DEF BarredKept, Barred
<1>9. Accounted(ppa', own' \cup held', phantom')
  <2>1. own' \cup held' = own'
    BY <1>3
  <2> QED BY <1>6, <2>1
<1> QED
  BY <1>3, <1>6, <1>7, <1>8, <1>9 DEF Sound

\* Locking, reserving and requesting: a call takes pages a .. a + n - 1, puts the
\* frames newly marked into held or kept and counts the pages outside memory.
LEMMA SoundTake ==
  ASSUME IInv, NEW a \in Nat, NEW n \in 0 .. CounterMod,
         NEW t \in {ppa_lckn(ppa, a, n), ppa_rsvn(ppa, a, n)},
         ppa.initialized
  PROVE  LET in == Pages(a, n) \cap (Memory \ ppa.bits)
         IN  /\ t.bits = ppa.bits \cup in /\ Covering(t) /\ t.initialized
             /\ t.max_index < WordBits * t.size
             /\ HoldersMarked(t.bits, own, held \cup in, kept)
             /\ HoldersMarked(t.bits, own, held, kept \cup in)
             /\ BarredKept(t, mmap, own, held \cup in, kept)
             /\ BarredKept(t, mmap, own, held, kept \cup in)
             /\ t = ppa_lckn(ppa, a, n) =>
                  Accounted(t, own \cup (held \cup in),
                    [phantom EXCEPT !.used = Add(@, Outside(ppa, Pages(a, n)))])
             /\ t = ppa_rsvn(ppa, a, n) =>
                  Accounted(t, own \cup held,
                    [phantom EXCEPT !.rsvd = Add(@, Outside(ppa, Pages(a, n)))])
<1> DEFINE in  == Pages(a, n) \cap (Memory \ ppa.bits)
           o   == Outside(ppa, Pages(a, n))
           U   == own \cup held
<1>1. /\ Covering(ppa) /\ ppa \in State /\ phantom \in Phantom
      /\ ppa.max_index < WordBits * ppa.size
      /\ HoldersMarked(ppa.bits, own, held, kept)
      /\ BarredKept(ppa, mmap, own, held, kept)
      /\ Accounted(ppa, U, phantom)
  BY DEF IInv, Sound, TypeOK, Phantom
<1>2. U \in SUBSET ppa.bits
  BY <1>1 DEF HoldersMarked
<1> HIDE DEF U
<1>3. /\ t.bits = ppa.bits \cup in /\ Covering(t)
      /\ t = ppa_lckn(ppa, a, n) =>
           Accounted(t, U \cup in, [phantom EXCEPT !.used = Add(@, o)])
      /\ t = ppa_rsvn(ppa, a, n) =>
           Accounted(t, U, [phantom EXCEPT !.rsvd = Add(@, o)])
  <2>1. in = Pages(a, n) \cap (Frames(ppa) \ ppa.bits)
    BY DEF Memory
  <2> HIDE DEF in
  <2>2. ASSUME t = ppa_lckn(ppa, a, n)
        PROVE  /\ t.bits = ppa.bits \cup in /\ Covering(t)
               /\ Accounted(t, U \cup in, [phantom EXCEPT !.used = Add(@, o)])
    BY <1>1, <1>2, <2>1, <2>2, LockStep
  <2>3. ASSUME t = ppa_rsvn(ppa, a, n)
        PROVE  /\ t.bits = ppa.bits \cup in /\ Covering(t)
               /\ Accounted(t, U, [phantom EXCEPT !.rsvd = Add(@, o)])
    BY <1>1, <1>2, <2>1, <2>3, ReserveStep
  <2> QED BY <2>2, <2>3
<1>4. /\ t.size = ppa.size /\ t.data = ppa.data /\ t.max_index = ppa.max_index
      /\ t.initialized
  BY <1>1, TakeEffect
<1>5. Barred(t, mmap) = Barred(ppa, mmap) /\ Frames(t) = Frames(ppa)
  BY <1>4, SameBarred
<1>6. /\ HoldersMarked(t.bits, own, held \cup in, kept)
      /\ HoldersMarked(t.bits, own, held, kept \cup in)
  BY <1>1, <1>3 DEF HoldersMarked
<1>7. /\ BarredKept(t, mmap, own, held \cup in, kept)
      /\ BarredKept(t, mmap, own, held, kept \cup in)
  BY <1>1, <1>3, <1>5 DEF BarredKept
<1>8. U \cup in = own \cup (held \cup in)
  BY DEF U
<1> QED
  BY <1>1, <1>3, <1>4, <1>6, <1>7, <1>8 DEF U

LEMMA SoundLock ==
  ASSUME IInv, NEW c \in CallRanges, Lock(c[1], c[2]) \/ Reserve(c[1], c[2])
  PROVE  Sound'
<1> DEFINE a == c[1]
           n == c[2]
           in == Pages(a, n) \cap (Memory \ ppa.bits)
<1>1. a \in Nat /\ n \in 0 .. CounterMod
  BY CallTypes
<1>2. ppa \in State /\ mmap' = mmap /\ own' = own
  BY DEF IInv, TypeOK, Lock, Reserve
<1> HIDE DEF a, n
<1>3. ppa'.initialized = ppa.initialized
  BY <1>2, TakeEffect DEF Lock, Reserve, a, n
<1>4. SUFFICES ASSUME ppa.initialized PROVE Sound'
  BY <1>3 DEF Sound
<1>5. mmap \in MemoryMaps
  BY <1>4 DEF IInv, Sound
<1>6. CASE Lock(a, n)
  <2>1. /\ ppa' = ppa_lckn(ppa, a, n) /\ kept' = kept
        /\ held' = held \cup (ppa'.bits \ ppa.bits)
        /\ phantom' = [phantom EXCEPT !.used = Add(@, Outside(ppa, Pages(a, n)))]
    BY <1>6 DEF Lock
  <2>2. /\ ppa'.bits = ppa.bits \cup in /\ Covering(ppa')
        /\ ppa'.max_index < WordBits * ppa'.size
        /\ HoldersMarked(ppa'.bits, own, held \cup in, kept)
        /\ BarredKept(ppa', mmap, own, held \cup in, kept)
        /\ Accounted(ppa', own \cup (held \cup in), phantom')
    BY <1>1, <1>4, <2>1, SoundTake
  <2>3. held' = held \cup in
    BY <2>1, <2>2
  <2> QED BY <1>2, <1>5, <2>1, <2>2, <2>3 DEF Sound
<1>7. CASE Reserve(a, n)
  <2>1. /\ ppa' = ppa_rsvn(ppa, a, n) /\ held' = held
        /\ kept' = kept \cup (ppa'.bits \ ppa.bits)
        /\ phantom' = [phantom EXCEPT !.rsvd = Add(@, Outside(ppa, Pages(a, n)))]
    BY <1>7 DEF Reserve
  <2>2. /\ ppa'.bits = ppa.bits \cup in /\ Covering(ppa')
        /\ ppa'.max_index < WordBits * ppa'.size
        /\ HoldersMarked(ppa'.bits, own, held, kept \cup in)
        /\ BarredKept(ppa', mmap, own, held, kept \cup in)
        /\ Accounted(ppa', own \cup held, phantom')
    BY <1>1, <1>4, <2>1, SoundTake
  <2>3. kept' = kept \cup in
    BY <2>1, <2>2
  <2> QED BY <1>2, <1>5, <2>1, <2>2, <2>3 DEF Sound
<1> QED
  BY <1>6, <1>7 DEF a, n

LEMMA SoundUnlock ==
  ASSUME IInv, NEW c \in CallRanges, Unlock(c[1], c[2]) \/ Unreserve(c[1], c[2])
  PROVE  Sound'
<1> DEFINE a == c[1]
           R == Pages(c[1], c[2])
           U == own \cup held
<1>1. a \in Nat /\ ppa \in State /\ mmap' = mmap /\ own' = own /\ phantom' = phantom
  BY CallTypes DEF IInv, TypeOK, Unlock, Unreserve
<1>2. /\ Unlock(c[1], c[2]) => /\ ppa' = ppa_ulckn(ppa, R, a) /\ R \subseteq held
                               /\ held' = held \ R /\ kept' = kept
      /\ Unreserve(c[1], c[2]) => /\ ppa' = ppa_ursvn(ppa, R, a) /\ R \subseteq kept
                                  /\ kept' = kept \ R /\ held' = held
  BY DEF Unlock, Unreserve
<1> HIDE DEF a, R
<1>3. /\ ppa'.initialized = ppa.initialized /\ ppa'.size = ppa.size
      /\ ppa'.data = ppa.data /\ ppa'.max_index = ppa.max_index
  <2>1. ppa' = ppa_ulckn(ppa, R, a) \/ ppa' = ppa_ursvn(ppa, R, a)
    BY <1>2
  <2> QED BY <1>1, <2>1 DEF ppa_ulckn, ppa_ursvn, State
<1>4. SUFFICES ASSUME ppa.initialized PROVE Sound'
  BY <1>3 DEF Sound
<1>5. /\ mmap \in MemoryMaps /\ Covering(ppa) /\ phantom \in Phantom
      /\ ppa.max_index < WordBits * ppa.size
      /\ HoldersMarked(ppa.bits, own, held, kept)
      /\ BarredKept(ppa, mmap, own, held, kept)
      /\ Accounted(ppa, U, phantom) /\ U \in SUBSET ppa.bits
  BY <1>4 DEF IInv, Sound, TypeOK, Phantom, HoldersMarked
<1>6. /\ ppa'.bits = ppa.bits \ R /\ Covering(ppa')
      /\ Accounted(ppa', own' \cup held', phantom')
      /\ (held' = held \ R /\ kept' = kept /\ R \subseteq held)
           \/ (kept' = kept \ R /\ held' = held /\ R \subseteq kept)
  <2>1. CASE Unlock(c[1], c[2])
    <3>1. R \subseteq U /\ own \cup (held \ R) = U \ R
      BY <1>2, <1>5, <2>1 DEF HoldersMarked
    <3> HIDE DEF U
    <3>2. /\ ppa'.bits = ppa.bits \ R /\ Covering(ppa') /\ Accounted(ppa', U \ R, phantom)
      <4>1. ppa' = ppa_ulckn(ppa, R, a) /\ a \in Nat
        BY <1>1, <1>2, <2>1
      <4> QED BY <1>5, <3>1, <4>1, UnlockStep
    <3> QED BY <1>1, <1>2, <2>1, <3>1, <3>2
  <2>2. CASE Unreserve(c[1], c[2])
    <3>1. R \cap U = {}
      BY <1>2, <1>5, <2>2 DEF HoldersMarked
    <3> HIDE DEF U
    <3>2. /\ ppa'.bits = ppa.bits \ R /\ Covering(ppa') /\ Accounted(ppa', U, phantom)
      <4>1. ppa' = ppa_ursvn(ppa, R, a) /\ a \in Nat
        BY <1>1, <1>2, <2>2
      <4> QED BY <1>5, <3>1, <4>1, UnreserveStep
    <3> QED BY <1>1, <1>2, <2>2, <3>2 DEF U
  <2> QED BY <2>1, <2>2
<1>7. Barred(ppa', mmap) = Barred(ppa, mmap) /\ Frames(ppa') = Frames(ppa)
  BY <1>3, SameBarred
<1>8. HoldersMarked(ppa'.bits, own', held', kept')
  BY <1>1, <1>5, <1>6 DEF HoldersMarked
<1>9. BarredKept(ppa', mmap', own', held', kept')
  BY <1>1, <1>5, <1>6, <1>7 DEF BarredKept
<1> QED
  BY <1>1, <1>3, <1>5, <1>6, <1>8, <1>9 DEF Sound

LEMMA SoundRequest ==
  ASSUME IInv, Request
  PROVE  Sound'
<1> DEFINE f  == RequestedFrame(ppa)
           l  == ppa_lckn(ppa, f, 1)
           in == Pages(f, 1) \cap (Memory \ ppa.bits)
<1>1. /\ ppa \in State /\ phantom \in Phantom
      /\ mmap' = mmap /\ own' = own /\ kept' = kept
      /\ ppa' = ppa_request(ppa) /\ held' = held \cup (ppa'.bits \ ppa.bits)
  BY DEF IInv, TypeOK, Request, Phantom
<1>2. CASE Candidates(ppa) = {}
  <2>1. ppa' = ppa /\ held' = held /\ phantom' = phantom
    BY <1>1, <1>2 DEF Request, ppa_request
  <2> QED BY <1>1, <2>1 DEF IInv, Sound
<1>3. CASE Candidates(ppa) # {}
  <2>1. /\ f \in Nat /\ ppa' \in State
        /\ ppa'.bits = l.bits /\ ppa'.used = l.used /\ ppa'.rsvd = l.rsvd
        /\ ppa'.free = l.free /\ ppa'.total = l.total /\ ppa'.max_index = l.max_index
        /\ ppa'.size = ppa.size /\ ppa'.data = ppa.data
        /\ ppa'.initialized = ppa.initialized /\ l.max_index = ppa.max_index
    BY <1>1, <1>3, RequestEffect
  <2>2. SUFFICES ASSUME ppa.initialized PROVE Sound'
    BY <2>1 DEF Sound
  <2>3. 1 \in 0 .. CounterMod
    BY SizeAssumption
  <2> HIDE DEF f
  <2>4. /\ l.bits = ppa.bits \cup in /\ Covering(l)
        /\ l.max_index < WordBits * l.size
        /\ HoldersMarked(l.bits, own, held \cup in, kept)
        /\ BarredKept(l, mmap, own, held \cup in, kept)
        /\ Accounted(l, own \cup (held \cup in),
             [phantom EXCEPT !.used = Add(@, Outside(ppa, Pages(f, 1)))])
    BY <2>1, <2>2, <2>3, SoundTake
  <2>5. l.size = ppa.size /\ l.data = ppa.data
    BY <1>1, TakeEffect
  <2>6. Pages(f, 1) = {f} /\ held' = held \cup in
    BY <1>1, <2>1, <2>4 DEF Pages
  <2>7. phantom' = [phantom EXCEPT !.used = Add(@, Outside(ppa, Pages(f, 1)))]
    <3>1. Outside(ppa, Pages(f, 1)) = IF f \in Memory THEN 0 ELSE 1
      <4>1. Cardinality({}) = 0 /\ Cardinality({f}) = 1
        BY FS_EmptySet, FS_Singleton
      <4>2. {f} \ Frames(ppa) = IF f \in Frames(ppa) THEN {} ELSE {f}
        OBVIOUS
      <4> QED BY <2>6, <4>1, <4>2 DEF Outside, Memory
    <3>2. Add(phantom.used, 0) = phantom.used
      BY <1>1, SizeAssumption DEF Add, Phantom, Counter
    <3>3. [phantom EXCEPT !.used = phantom.used] = phantom
      BY <1>1 DEF Phantom
    <3>4. phantom' = IF f \in Memory THEN phantom ELSE [phantom EXCEPT !.used = Add(@, 1)]
      BY <1>3 DEF Request, f
    <3> QED BY <3>1, <3>2, <3>3, <3>4
  <2>8. Covering(ppa') /\ Frames(ppa') = Frames(l)
    BY <2>1, <2>4 DEF Covering, Frames
  <2> HIDE DEF l, in
  <2>9. Accounted(ppa', own' \cup held', phantom')
    BY <1>1, <2>1, <2>4, <2>6, <2>7 DEF Accounted
  <2>10. Barred(ppa', mmap) = Barred(l, mmap)
    BY <2>1, <2>5, SameBarred
  <2>11. /\ HoldersMarked(ppa'.bits, own', held', kept')
         /\ BarredKept(ppa', mmap', own', held', kept')
    BY <1>1, <2>1, <2>4, <2>6, <2>8, <2>10 DEF BarredKept
  <2>12. mmap' \in MemoryMaps /\ ppa'.max_index < WordBits * ppa'.size
    BY <1>1, <2>1, <2>2, <2>4, <2>5 DEF IInv, Sound
  <2> QED BY <2>8, <2>9, <2>11, <2>12 DEF Sound
<1> QED
  BY <1>2, <1>3

LEMMA InvInit == Init => IInv
<1> SUFFICES ASSUME Init
             PROVE  IInv
  OBVIOUS
<1>1. ~ ppa.initialized
  BY DEF Init
<1>2. Sound
  BY <1>1 DEF Sound
<1> QED
  BY <1>2, TypeInit DEF IInv

LEMMA InvStep == IInv /\ [Next]_vars => IInv'
<1> SUFFICES ASSUME IInv, [Next]_vars
             PROVE  IInv'
  OBVIOUS
<1>1. TypeOK' /\ NothingBeforeBoot'
  BY TypeStep, BeforeBootStep DEF IInv
<1>2. ASSUME NEW m \in MemoryMaps, NEW wraps \in BOOLEAN, Boot(m, wraps)
      PROVE  Sound'
  BY <1>2, SoundBoot
<1>3. ASSUME NEW m \in MemoryMaps, NEW wraps \in BOOLEAN, BootAgain(m, wraps)
      PROVE  Sound'
  <2>1. ppa' = ppa
    BY <1>3 DEF BootAgain, ppa_init
  <2> QED BY <1>3, <2>1 DEF BootAgain, IInv, Sound
<1>4. ASSUME NEW c \in CallRanges, Call(c[1], c[2])
      PROVE  Sound'
  BY <1>4, SoundLock, SoundUnlock DEF Call
<1>5. ASSUME Request
      PROVE  Sound'
  BY <1>5, SoundRequest
<1>6. ASSUME UNCHANGED vars
      PROVE  Sound'
  <2>1. ppa' = ppa /\ mmap' = mmap /\ own' = own /\ held' = held /\ kept' = kept
          /\ phantom' = phantom
    BY <1>6 DEF vars
  <2> QED BY <2>1 DEF IInv, Sound
<1>7. Sound'
  BY <1>2, <1>3, <1>4, <1>5, <1>6 DEF Next
<1> QED
  BY <1>1, <1>7 DEF IInv

LEMMA InvHolds == Spec => []IInv
BY InvInit, InvStep, PTL DEF Spec

\* No frame has two holders, and whatever is held has its bit set.
THEOREM TakenMarked == Spec => []TakenFramesMarked
<1>1. IInv => TakenFramesMarked
  BY DEF IInv, Sound, HoldersMarked, Covering, TakenFramesMarked, Memory
<1> QED
  BY <1>1, InvHolds, PTL

\* Only conventional memory above the low megabyte and off the bitmap is free.
THEOREM ClearUsable == Spec => []ClearFramesUsable
<1>1. IInv => ClearFramesUsable
  BY DEF IInv, Sound, BarredKept, Barred, ClearFramesUsable, Memory
<1> QED
  BY <1>1, InvHolds, PTL

\* The counters are the sizes of the bitmap's parts and the pages counted
\* outside memory, modulo 2^64.
THEOREM CountersRight == Spec => []CountersExact
<1>1. IInv => CountersExact
  BY DEF IInv, Sound, CountersExact
<1> QED
  BY <1>1, InvHolds, PTL

-----------------------------------------------------------------------------
(* What requests and releases do.                                          *)

LEMMA FreshAnswer ==
  ASSUME IInv, Request, ppa.initialized
  PROVE  /\ answer' \notin own \cup held \cup kept
         /\ answer' \notin Memory \ {0} =>
              Memory \cap (ppa.last_hit .. ppa.max_index) \subseteq ppa.bits
<1> DEFINE f == RequestedFrame(ppa)
<1>1. /\ ppa \in State /\ answer' = f /\ ppa.bits \subseteq Frames(ppa)
      /\ own \cup held \cup kept \subseteq ppa.bits
      /\ 0 \notin own \cup held \cup kept
      /\ ppa.max_index < WordBits * ppa.size
  BY DEF IInv, Sound, TypeOK, Request, HoldersMarked, BarredKept, Covering
<1>2. /\ \A i \in Nat : (ppa.last_hit <= i /\ i < WordBits * ppa.size
                           /\ i \notin ppa.bits) => i \in Candidates(ppa)
      /\ \A i \in Candidates(ppa) : ~ (i \in ppa.bits /\ i \in Frames(ppa))
  BY <1>1, CandidatesType
<1>3. ppa.max_index \in Nat /\ ppa.last_hit \in Nat /\ WordBits * ppa.size \in Nat
  BY <1>1, SizeAssumption DEF State, Counter
<1> DEFINE hi == WordBits * ppa.size
<1>4. CASE Candidates(ppa) = {}
  <2>1. f = 0
    BY <1>4 DEF RequestedFrame
  <2>2. \A i \in Nat : ppa.last_hit <= i /\ i <= ppa.max_index => i \in ppa.bits
    <3> HIDE DEF hi
    <3>1. ppa.max_index < hi /\ hi \in Nat
      BY <1>1, <1>3 DEF hi
    <3> QED BY <1>2, <1>3, <1>4, <3>1 DEF hi
  <2> QED BY <1>1, <1>3, <2>1, <2>2
<1>5. CASE Candidates(ppa) # {}
  <2>1. f \in Nat /\ f \in Candidates(ppa) /\ \A y \in Candidates(ppa) : f <= y
    BY <1>1, <1>5, RequestEffect
  <2>2. f \notin ppa.bits
    BY <1>1, <1>2, <2>1
  <2>3. ASSUME f \notin Memory \ {0},
               NEW i \in Memory \cap (ppa.last_hit .. ppa.max_index), i \notin ppa.bits
        PROVE  FALSE
    <3>1. i \in Nat /\ i <= ppa.max_index /\ ppa.last_hit <= i
      BY <1>3, <2>3
    <3>2. i \in Candidates(ppa)
      <4> HIDE DEF hi
      <4>1. ppa.max_index < hi /\ hi \in Nat
        BY <1>1, <1>3 DEF hi
      <4> QED BY <1>2, <1>3, <2>3, <3>1, <4>1 DEF hi
    <3>3. f <= ppa.max_index
      BY <1>3, <2>1, <3>1, <3>2
    <3>4. f \in Frames(ppa)
      BY <1>3, <2>1, <3>3 DEF Frames
    <3>5. f = 0
      BY <2>3, <3>4 DEF Memory
    <3>6. 0 \in ppa.bits
      BY DEF IInv, Sound, BarredKept
    <3> QED BY <2>2, <3>5, <3>6
  <2> QED BY <1>1, <2>2, <2>3
<1> QED
  BY <1>4, <1>5

\* ppa_request never gives out a frame somebody has, and answers with the null
\* pointer or an address outside memory only if every frame from the hint on is
\* taken.
THEOREM RequestFresh == Spec => RequestedFrameFresh
<1>1. IInv /\ [Next]_vars =>
        [Request /\ ppa.initialized =>
           /\ answer' \notin own \cup held \cup kept
           /\ answer' \notin Memory \ {0} =>
                Memory \cap (ppa.last_hit .. ppa.max_index) \subseteq ppa.bits]_vars
  BY FreshAnswer
<1> QED
  BY <1>1, InvHolds, PTL DEF Spec, RequestedFrameFresh

LEMMA ReleasedFound ==
  ASSUME IInv, NEW c \in CallRanges, Unlock(c[1], c[2]) \/ Unreserve(c[1], c[2]),
         ppa.initialized
  PROVE  RequestedFrame(ppa') \in Memory \ {0}
<1> DEFINE a == c[1]
           R == Pages(c[1], c[2])
<1>1. /\ ppa \in State /\ a \in Nat /\ Covering(ppa)
      /\ ppa.max_index < WordBits * ppa.size
      /\ 0 \in ppa.bits \ (own \cup held \cup kept)
      /\ held \cup kept \subseteq ppa.bits
  BY CallTypes DEF IInv, Sound, TypeOK, HoldersMarked, BarredKept
<1>2. a \in R /\ R \subseteq held \cup kept
  BY CallTypes, SizeAssumption DEF Unlock, Unreserve, Pages
<1>3. ppa' = ppa_ulckn(ppa, R, a) \/ ppa' = ppa_ursvn(ppa, R, a)
  BY DEF Unlock, Unreserve
<1> HIDE DEF a, R
<1>4. /\ ppa' \in State /\ ppa'.last_hit = a /\ ppa'.size = ppa.size
      /\ ppa'.max_index = ppa.max_index /\ a \notin ppa'.bits
      /\ 0 \in ppa'.bits
  <2> DEFINE old == R \ Unset(ppa, R)
  <2>1. old = R \cap ppa.bits \cap Frames(ppa)
    BY <1>1, ReleasedSet
  <2>2. ppa'.bits = ppa.bits \ old /\ ppa'.last_hit = a /\ ppa'.size = ppa.size
          /\ ppa'.max_index = ppa.max_index
    BY <1>1, <1>3 DEF ppa_ulckn, ppa_ursvn, State
  <2>3. ppa' \in State
    BY <1>1, <1>3, ReleaseState
  <2>4. ppa.bits \subseteq Frames(ppa)
    BY <1>1 DEF Covering
  <2> QED BY <1>1, <1>2, <2>1, <2>2, <2>3, <2>4
<1>5. a \in Frames(ppa) /\ a <= ppa.max_index /\ ppa.max_index \in Nat
  BY <1>1, <1>2, SizeAssumption DEF Covering, Frames, State, Counter
<1> DEFINE hi == WordBits * ppa.size
<1>6. a \in Candidates(ppa')
  <2>1. hi \in Nat /\ a < hi
    <3>1. hi \in Nat /\ ppa.max_index < hi
      BY <1>1, SizeAssumption DEF State
    <3> HIDE DEF hi
    <3> QED BY <1>1, <1>5, <3>1
  <2>2. \A i \in Nat : (ppa'.last_hit <= i /\ i < WordBits * ppa'.size
                          /\ i \notin ppa'.bits) => i \in Candidates(ppa')
    BY <1>4, CandidatesType
  <2>3. WordBits * ppa'.size = hi
    BY <1>4
  <2>4. a <= a
    BY <1>1
  <2> QED BY <1>1, <1>4, <2>1, <2>2, <2>3, <2>4
<1>7. /\ RequestedFrame(ppa') \in Nat /\ RequestedFrame(ppa') \in Candidates(ppa')
      /\ RequestedFrame(ppa') <= a
  BY <1>4, <1>6, RequestEffect
<1>8. RequestedFrame(ppa') \in Frames(ppa)
  BY <1>1, <1>5, <1>7 DEF Frames
<1>9. RequestedFrame(ppa') # 0
  <2>1. Frames(ppa') = Frames(ppa)
    BY <1>4 DEF Frames
  <2>2. \A i \in Candidates(ppa') : ~ (i \in ppa'.bits /\ i \in Frames(ppa'))
    BY <1>4, CandidatesType
  <2> QED BY <1>4, <1>7, <1>8, <2>1, <2>2
<1> QED
  BY <1>8, <1>9 DEF Memory

\* After ppa_ulckn or ppa_ursvn of frames a caller has, the next ppa_request
\* finds a frame of memory.
THEOREM ReleaseFound == Spec => ReleasedFrameFound
<1>1. IInv /\ [Next]_vars =>
        [(\E c \in CallRanges : Unlock(c[1], c[2]) \/ Unreserve(c[1], c[2]))
           /\ ppa.initialized =>
           RequestedFrame(ppa') \in Memory \ {0}]_vars
  BY ReleasedFound
<1> QED
  BY <1>1, InvHolds, PTL DEF Spec, ReleasedFrameFound

-----------------------------------------------------------------------------
(* The allocator implements FrameAllocator.                                *)

Pool == Ready(Memory \ ppa.bits)

Answer == IF ppa.initialized /\ answer \in Memory THEN answer ELSE 0

\* The frames the callers may pass on: frame 0 is not one of them.
AbstractFrame == 1 .. (CounterMod - 1)

LEMMA PoolFrames ==
  ASSUME NEW s, NEW m, NEW o, NEW h, NEW k, Covering(s),
         HoldersMarked(s.bits, o, h, k), BarredKept(s, m, o, h, k)
  PROVE  /\ \A i \in Frames(s) : i # 0 => i \in AbstractFrame
         /\ 0 \in s.bits /\ 0 \notin h \cup k
         /\ s.bits \subseteq Frames(s) /\ h \cup k \subseteq s.bits
         /\ h \cap k = {}
<1>1. s.max_index \in 0 .. (CounterMod - 1)
  BY DEF Covering, State, Counter
<1>2. \A i \in Frames(s) : i # 0 => i \in AbstractFrame
  BY <1>1, SizeAssumption DEF Frames, AbstractFrame
<1> QED
  BY <1>2 DEF Covering, HoldersMarked, BarredKept

LEMMA RefineInit == Init => Abstract!Init
<1> SUFFICES ASSUME Init
             PROVE  Abstract!Init
  OBVIOUS
<1>1. ~ ppa.initialized
  BY DEF Init
<1> QED
  BY <1>1 DEF Abstract!Init, Ready

LEMMA RefineBoot ==
  ASSUME IInv, IInv', NEW m \in MemoryMaps, NEW wraps \in BOOLEAN, Boot(m, wraps)
  PROVE  [Abstract!Next]_(Abstract!vars)
<1>1. /\ ~ ppa.initialized /\ held = {} /\ kept = {} /\ answer = 0
      /\ held' = {} /\ kept' = {} /\ answer' = 0
  BY DEF IInv, NothingBeforeBoot, Boot
<1>2. CASE ~ ppa'.initialized
  BY <1>1, <1>2 DEF Abstract!vars, Ready
<1>3. CASE ppa'.initialized
  <2>1. Pool' \in SUBSET AbstractFrame
    <3>1. /\ Covering(ppa') /\ HoldersMarked(ppa'.bits, own', held', kept')
          /\ BarredKept(ppa', mmap', own', held', kept')
      BY <1>3 DEF IInv, Sound
    <3>2. /\ \A i \in Frames(ppa') : i # 0 => i \in AbstractFrame
          /\ 0 \in ppa'.bits
      BY <3>1, PoolFrames
    <3> QED BY <3>2 DEF Pool, Ready, Memory
  <2>2. Abstract!Start(Pool')
    BY <1>1, <1>3 DEF Abstract!Start, Pool, Ready
  <2> QED BY <2>1, <2>2 DEF Abstract!Next, AbstractFrame
<1> QED
  BY <1>2, <1>3

LEMMA RefineCall ==
  ASSUME IInv, NEW c \in CallRanges, Call(c[1], c[2])
  PROVE  [Abstract!Next]_(Abstract!vars)
<1> DEFINE a == c[1]
           n == c[2]
           R == Pages(a, n)
<1>1. /\ a \in Nat /\ n \in 0 .. CounterMod /\ ppa \in State /\ answer' = answer
  BY CallTypes DEF IInv, TypeOK, Call, Lock, Reserve, Unlock, Unreserve
<1> HIDE DEF a, n
<1>2. /\ \/ Lock(a, n) /\ ppa' = ppa_lckn(ppa, a, n)
         \/ Reserve(a, n) /\ ppa' = ppa_rsvn(ppa, a, n)
         \/ Unlock(a, n) /\ ppa' = ppa_ulckn(ppa, R, a)
         \/ Unreserve(a, n) /\ ppa' = ppa_ursvn(ppa, R, a)
  BY DEF Call, Lock, Reserve, Unlock, Unreserve, a, n
<1>3. ppa'.initialized = ppa.initialized /\ ppa'.max_index = ppa.max_index
  BY <1>1, <1>2 DEF ppa_lckn, ppa_rsvn, ppa_ulckn, ppa_ursvn, State
<1>4. CASE ~ ppa.initialized
  BY <1>1, <1>3, <1>4 DEF Abstract!vars, Ready
<1>5. CASE ppa.initialized
  <2>1. /\ \A i \in Memory : i # 0 => i \in AbstractFrame
        /\ 0 \in ppa.bits /\ 0 \notin held \cup kept
        /\ ppa.bits \subseteq Memory /\ held \cup kept \subseteq ppa.bits
        /\ held \cap kept = {}
    <3>1. /\ Covering(ppa) /\ HoldersMarked(ppa.bits, own, held, kept)
          /\ BarredKept(ppa, mmap, own, held, kept)
      BY <1>5 DEF IInv, Sound
    <3> QED BY <3>1, PoolFrames DEF Memory
  <2>2. Memory' = Memory /\ Answer' = Answer /\ ppa'.initialized
    BY <1>1, <1>3, <1>5 DEF Memory, Frames, Answer
  <2> DEFINE S == R \cap AbstractFrame
  <2>3. CASE Lock(a, n) \/ Reserve(a, n)
    <3>1. ppa'.bits = ppa.bits \cup (R \cap (Memory \ ppa.bits))
      <4>1. ppa' = ppa_lckn(ppa, a, n) \/ ppa' = ppa_rsvn(ppa, a, n)
        BY <2>3 DEF Lock, Reserve
      <4>2. Unset(ppa, R) \cap Frames(ppa) = R \cap (Memory \ ppa.bits)
        BY DEF Unset, ppa_bitmap_get, Memory
      <4> QED BY <1>1, <4>1, <4>2, TakeEffect
    <3> HIDE DEF R
    <3>2. Pool' = Pool \ S /\ R \cap Pool = S \cap Pool /\ S \in SUBSET AbstractFrame
      BY <1>5, <2>1, <2>2, <3>1 DEF Pool, Ready
    <3>3. CASE Lock(a, n)
      <4>1. held' = held \cup (S \cap Pool) /\ kept' = kept
        BY <1>5, <3>1, <3>2, <3>3 DEF Lock, Pool, Ready
      <4>2. Abstract!Lock(S)
        BY <1>5, <2>2, <3>2, <4>1 DEF Abstract!Lock, Pool, Ready, Answer
      <4> QED BY <3>2, <4>2 DEF Abstract!Next, AbstractFrame
    <3>4. CASE Reserve(a, n)
      <4>1. kept' = kept \cup (S \cap Pool) /\ held' = held
        BY <1>5, <3>1, <3>2, <3>4 DEF Reserve, Pool, Ready
      <4>2. Abstract!Reserve(S)
        BY <1>5, <2>2, <3>2, <4>1 DEF Abstract!Reserve, Pool, Ready, Answer
      <4> QED BY <3>2, <4>2 DEF Abstract!Next, AbstractFrame
    <3> QED BY <2>3, <3>3, <3>4
  <2>4. CASE Unlock(a, n) \/ Unreserve(a, n)
    <3>1. ppa'.bits = ppa.bits \ R
      <4>1. ppa' = ppa_ulckn(ppa, R, a) \/ ppa' = ppa_ursvn(ppa, R, a)
        BY <2>4 DEF Unlock, Unreserve
      <4>2. R \ Unset(ppa, R) = R \cap ppa.bits
        BY <2>1 DEF Unset, ppa_bitmap_get, Memory
      <4> HIDE DEF R
      <4>3. ppa'.bits = ppa.bits \ (R \cap ppa.bits)
        BY <1>1, <4>1, <4>2 DEF ppa_ulckn, ppa_ursvn, State
      <4> QED BY <4>3
    <3>2. R \subseteq held \/ R \subseteq kept
      BY <2>4 DEF Unlock, Unreserve
    <3> HIDE DEF R
    <3>3. Pool' = Pool \cup R /\ R \in SUBSET AbstractFrame
      BY <1>5, <2>1, <2>2, <3>1, <3>2 DEF Pool, Ready
    <3>4. CASE Unlock(a, n)
      <4>1. Abstract!Unlock(R)
        BY <1>5, <2>2, <3>3, <3>4 DEF Unlock, Abstract!Unlock, Pool, Ready, Answer, R
      <4> QED BY <3>3, <4>1 DEF Abstract!Next, AbstractFrame
    <3>5. CASE Unreserve(a, n)
      <4>1. Abstract!Unreserve(R)
        BY <1>5, <2>2, <3>3, <3>5 DEF Unreserve, Abstract!Unreserve, Pool, Ready, Answer, R
      <4> QED BY <3>3, <4>1 DEF Abstract!Next, AbstractFrame
    <3> QED BY <2>4, <3>4, <3>5
  <2> QED BY <1>2, <2>3, <2>4
<1> QED
  BY <1>4, <1>5

LEMMA RefineRequest ==
  ASSUME IInv, Request
  PROVE  [Abstract!Next]_(Abstract!vars)
<1> DEFINE f  == RequestedFrame(ppa)
           in == Pages(f, 1) \cap (Memory \ ppa.bits)
<1>1. /\ ppa \in State /\ ppa' = ppa_request(ppa) /\ answer' = f /\ kept' = kept
      /\ held' = held \cup (ppa'.bits \ ppa.bits)
  BY DEF IInv, TypeOK, Request
<1>2. /\ ppa'.initialized = ppa.initialized /\ ppa'.max_index = ppa.max_index
      /\ Candidates(ppa) = {} => ppa'.bits = ppa.bits /\ f = 0
      /\ Candidates(ppa) # {} =>
           /\ f \in Candidates(ppa) /\ f \in Nat
           /\ ppa'.bits = ppa.bits \cup in
  <2>1. CASE Candidates(ppa) = {}
    BY <1>1, <2>1 DEF ppa_request, RequestedFrame
  <2>2. CASE Candidates(ppa) # {}
    <3>1. /\ f \in Nat /\ f \in Candidates(ppa)
          /\ ppa'.bits = ppa_lckn(ppa, f, 1).bits
          /\ ppa'.initialized = ppa.initialized
          /\ ppa'.max_index = ppa.max_index
      BY <1>1, <2>2, RequestEffect
    <3>2. Unset(ppa, Pages(f, 1)) \cap Frames(ppa) = in
      BY DEF Unset, ppa_bitmap_get, Memory
    <3>3. ppa_lckn(ppa, f, 1).bits = ppa.bits \cup in
      BY <1>1, <3>2, TakeEffect
    <3> QED BY <2>2, <3>1, <3>3
  <2> QED BY <2>1, <2>2
<1> HIDE DEF f
<1>3. Pages(f, 1) = {f} \/ Candidates(ppa) = {}
  BY <1>2 DEF Pages
<1>4. CASE ~ ppa.initialized
  BY <1>1, <1>2, <1>4 DEF Abstract!vars, Ready
<1>5. CASE ppa.initialized
  <2>1. /\ \A i \in Memory : i # 0 => i \in AbstractFrame
        /\ 0 \in ppa.bits
    <3>1. /\ Covering(ppa) /\ HoldersMarked(ppa.bits, own, held, kept)
          /\ BarredKept(ppa, mmap, own, held, kept)
      BY <1>5 DEF IInv, Sound
    <3> QED BY <3>1, PoolFrames DEF Memory
  <2>2. Memory' = Memory /\ ppa'.initialized
    BY <1>2, <1>5 DEF Memory, Frames
  <2>3. CASE Candidates(ppa) # {} /\ f \in Memory
    <3>1. f \notin ppa.bits
      BY <1>1, <1>2, <2>3, CandidatesType DEF Memory
    <3>2. f \in Pool /\ f \in AbstractFrame /\ ppa'.bits = ppa.bits \cup {f}
      BY <1>2, <1>3, <1>5, <2>1, <2>3, <3>1 DEF Pool, Ready
    <3>3. Answer' = f /\ Pool' = Pool \ {f} /\ held' = held \cup {f}
      BY <1>1, <1>5, <2>2, <2>3, <3>1, <3>2 DEF Answer, Pool, Ready
    <3>4. Abstract!HandOut(f)
      BY <1>1, <1>5, <2>2, <3>2, <3>3 DEF Abstract!HandOut, Pool, Ready, Answer
    <3> QED BY <3>2, <3>4 DEF Abstract!Next, AbstractFrame
  <2>4. CASE Candidates(ppa) = {} \/ f \notin Memory
    <3>1. ppa'.bits = ppa.bits /\ held' = held
      BY <1>1, <1>2, <1>3, <2>4
    <3>2. Answer' = 0 /\ Pool' = Pool
      BY <1>1, <1>2, <2>2, <2>4, <3>1 DEF Answer, Pool, Ready
    <3>3. Abstract!Refuse
      BY <1>1, <1>5, <2>2, <3>1, <3>2 DEF Abstract!Refuse, Pool, Ready, Answer
    <3> QED BY <3>3 DEF Abstract!Next
  <2> QED BY <2>3, <2>4
<1> QED
  BY <1>4, <1>5

LEMMA RefineStep == IInv /\ IInv' /\ [Next]_vars => [Abstract!Next]_(Abstract!vars)
<1> SUFFICES ASSUME IInv, IInv', [Next]_vars
             PROVE  [Abstract!Next]_(Abstract!vars)
  OBVIOUS
<1>1. ASSUME NEW m \in MemoryMaps, NEW wraps \in BOOLEAN, Boot(m, wraps)
      PROVE  [Abstract!Next]_(Abstract!vars)
  BY <1>1, RefineBoot
<1>2. ASSUME NEW m \in MemoryMaps, NEW wraps \in BOOLEAN, BootAgain(m, wraps)
      PROVE  [Abstract!Next]_(Abstract!vars)
  <2>1. ppa' = ppa
    BY <1>2 DEF BootAgain, ppa_init
  <2> QED BY <1>2, <2>1 DEF BootAgain, Abstract!vars, Ready, Memory, Frames
<1>3. ASSUME NEW c \in CallRanges, Call(c[1], c[2])
      PROVE  [Abstract!Next]_(Abstract!vars)
  BY <1>3, RefineCall
<1>4. ASSUME Request
      PROVE  [Abstract!Next]_(Abstract!vars)
  BY <1>4, RefineRequest
<1>5. ASSUME UNCHANGED vars
      PROVE  [Abstract!Next]_(Abstract!vars)
  BY <1>5 DEF vars, Abstract!vars, Ready, Memory, Frames
<1> QED
  BY <1>1, <1>2, <1>3, <1>4, <1>5 DEF Next

\* Every behaviour of the allocator and its callers is one of FrameAllocator:
\* a frame is in the pool or with one holder, and requests take from the pool.
THEOREM Implementation == Spec => ImplementsFrameAllocator
BY RefineInit, RefineStep, InvHolds, PTL DEF Spec, ImplementsFrameAllocator, Abstract!Spec

-----------------------------------------------------------------------------
(* Loops.                                                                  *)

\* What holds before a loop and is kept by each turn holds after every turn.
LEMMA EveryTurn ==
  ASSUME NEW n \in Nat, NEW T, 0 \in T, \A k \in 1 .. n : k - 1 \in T => k \in T
  PROVE  \A k \in 0 .. n : k \in T
<1> DEFINE U == {k \in 0 .. n : k \notin T}
<1> SUFFICES ASSUME U # {} PROVE FALSE
  OBVIOUS
<1>1. U \in SUBSET Nat OBVIOUS
<1>2. Min(U) \in U /\ \A y \in U : Min(U) <= y BY <1>1, MinExists
<1> DEFINE k == Min(U)
<1> HIDE DEF k
<1>3. k \in 0 .. n /\ k \notin T /\ \A y \in U : k <= y BY <1>2 DEF k
<1>4. k \in 1 .. n /\ k - 1 \in 0 .. n /\ ~ (k <= k - 1) BY <1>3
<1>5. k - 1 \in T BY <1>3, <1>4
<1> QED BY <1>3, <1>4, <1>5

\* A loop whose turns are F, on states of S, has a run of n turns from s.
RunOf(f, s, n, F) == f[0] = s /\ \A k \in 1 .. n : f[k] = F[<<f[k - 1], k - 1>>]
HasRun(S, s, n, F) == \E f \in [0 .. n -> S] : RunOf(f, s, n, F)

\* Such a run exists.
LEMMA LoopRuns ==
  ASSUME NEW S, NEW s \in S, NEW n \in Nat, NEW F \in [S \X Nat -> S]
  PROVE  HasRun(S, s, n, F)
<1> DEFINE T == {j \in Nat : HasRun(S, s, j, F)}
<1>1. 0 \in T
  <2> DEFINE f == [k \in 0 .. 0 |-> s]
  <2>1. f \in [0 .. 0 -> S] /\ f[0] = s OBVIOUS
  <2>2. RunOf(f, s, 0, F) BY <2>1 DEF RunOf
  <2> QED BY <2>1, <2>2 DEF HasRun
<1>2. ASSUME NEW j \in 1 .. n, j - 1 \in T PROVE j \in T
  <2>1. PICK f \in [0 .. (j - 1) -> S] : RunOf(f, s, j - 1, F) BY <1>2 DEF HasRun
  <2> DEFINE x == F[<<f[j - 1], j - 1>>]
             g == [k \in 0 .. j |-> IF k = j THEN x ELSE f[k]]
  <2>2. j - 1 \in 0 .. (j - 1) /\ j - 1 \in Nat /\ j \in Nat OBVIOUS
  <2>3. f[j - 1] \in S BY <2>1, <2>2
  <2>4. x \in S BY <2>2, <2>3
  <2> HIDE DEF x
  <2>5. \A k \in 0 .. j : k # j => k \in 0 .. (j - 1) OBVIOUS
  <2>6. g \in [0 .. j -> S] BY <2>1, <2>4, <2>5
  <2>7. g[j] = x /\ \A k \in 0 .. (j - 1) : g[k] = f[k]
    <3>1. j \in 0 .. j /\ \A k \in 0 .. (j - 1) : k \in 0 .. j /\ k # j BY <2>2
    <3> QED BY <3>1
  <2> HIDE DEF g
  <2>8. ASSUME NEW k \in 1 .. j PROVE g[k] = F[<<g[k - 1], k - 1>>]
    <3>1. k - 1 \in 0 .. (j - 1) BY <2>2
    <3>2. CASE k = j BY <2>7, <3>1, <3>2 DEF x
    <3>3. CASE k # j
      <4>1. k \in 1 .. (j - 1) /\ k \in 0 .. (j - 1) BY <3>3
      <4> QED BY <2>1, <2>7, <3>1, <4>1 DEF RunOf
    <3> QED BY <3>2, <3>3
  <2>9. g[0] = s
    <3>1. 0 \in 0 .. (j - 1) BY <2>2
    <3> QED BY <2>1, <2>7, <3>1 DEF RunOf
  <2>10. RunOf(g, s, j, F) BY <2>8, <2>9 DEF RunOf
  <2> QED BY <2>2, <2>6, <2>10 DEF HasRun
<1> HIDE DEF T
<1>3. n \in T
  <2>1. n \in 0 .. n OBVIOUS
  <2> QED BY <1>1, <1>2, <2>1, EveryTurn
<1> QED BY <1>3 DEF T

-----------------------------------------------------------------------------
(* The calls for one page.                                                 *)

\* What ppa_lck and ppa_rsv do to the globals, field by field.
LEMMA LockOne ==
  ASSUME NEW s \in State, NEW i \in Nat
  PROVE  LET t == ppa_lck(s, i)
         IN  /\ i \in s.bits \cap Frames(s) => t = s
             /\ i \notin s.bits \cap Frames(s) =>
                  /\ t.bits = s.bits \cup ({i} \cap Frames(s))
                  /\ t.used = Add(s.used, 1) /\ t.rsvd = s.rsvd /\ t.free = Sub(s.free, 1)
                  /\ t.size = s.size /\ t.max_index = s.max_index /\ t.data = s.data
                  /\ t.total = s.total /\ t.last_hit = s.last_hit /\ t.initialized = s.initialized
             /\ t \in State
<1>1. 1 \in 0 .. CounterMod BY SizeAssumption
<1>2. Add(s.used, 1) \in Counter /\ Sub(s.free, 1) \in Counter
  BY <1>1, CounterClosed DEF State
<1>4. s.bits \cup ({i} \cap Frames(s)) \subseteq Nat BY DEF State
<1> HIDE DEF Frames, Counter, Add, Sub
<1> QED
  BY <1>2, <1>4 DEF ppa_lck, ppa_bitmap_get, ppa_bitmap_set, State

LEMMA ReserveOne ==
  ASSUME NEW s \in State, NEW i \in Nat
  PROVE  LET t == ppa_rsv(s, i)
         IN  /\ i \in s.bits \cap Frames(s) => t = s
             /\ i \notin s.bits \cap Frames(s) =>
                  /\ t.bits = s.bits \cup ({i} \cap Frames(s))
                  /\ t.rsvd = Add(s.rsvd, 1) /\ t.used = s.used /\ t.free = Sub(s.free, 1)
                  /\ t.size = s.size /\ t.max_index = s.max_index /\ t.data = s.data
                  /\ t.total = s.total /\ t.last_hit = s.last_hit /\ t.initialized = s.initialized
             /\ t \in State
<1>1. 1 \in 0 .. CounterMod BY SizeAssumption
<1>2. Add(s.rsvd, 1) \in Counter /\ Sub(s.free, 1) \in Counter
  BY <1>1, CounterClosed DEF State
<1>4. s.bits \cup ({i} \cap Frames(s)) \subseteq Nat BY DEF State
<1> HIDE DEF Frames, Counter, Add, Sub
<1> QED
  BY <1>2, <1>4 DEF ppa_rsv, ppa_bitmap_get, ppa_bitmap_set, State

\* What ppa_ulck and ppa_ursv do; an index below 0 or past memory is no frame.
LEMMA UnlockOne ==
  ASSUME NEW s \in State, NEW i \in Int
  PROVE  LET t == ppa_ulck(s, i)
         IN  /\ i \notin s.bits \cap Frames(s) => t = s
             /\ i \in s.bits \cap Frames(s) =>
                  /\ t.bits = s.bits \ {i}
                  /\ t.used = Sub(s.used, 1) /\ t.rsvd = s.rsvd /\ t.free = Add(s.free, 1)
                  /\ t.size = s.size /\ t.max_index = s.max_index /\ t.data = s.data
                  /\ t.total = s.total /\ t.last_hit = i /\ t.initialized = s.initialized
             /\ t \in State
<1>1. 1 \in 0 .. CounterMod BY SizeAssumption
<1>2. Sub(s.used, 1) \in Counter /\ Add(s.free, 1) \in Counter
  BY <1>1, CounterClosed DEF State
<1>3. i \in s.bits => i \in Nat BY DEF State
<1>4. s.bits \ ({i} \cap Frames(s)) \subseteq Nat BY DEF State
<1> HIDE DEF Frames, Counter, Add, Sub
<1> QED
  BY <1>2, <1>3, <1>4 DEF ppa_ulck, ppa_bitmap_get, ppa_bitmap_clear, State

LEMMA UnreserveOne ==
  ASSUME NEW s \in State, NEW i \in Int
  PROVE  LET t == ppa_ursv(s, i)
         IN  /\ i \notin s.bits \cap Frames(s) => t = s
             /\ i \in s.bits \cap Frames(s) =>
                  /\ t.bits = s.bits \ {i}
                  /\ t.rsvd = Sub(s.rsvd, 1) /\ t.used = s.used /\ t.free = Add(s.free, 1)
                  /\ t.size = s.size /\ t.max_index = s.max_index /\ t.data = s.data
                  /\ t.total = s.total /\ t.last_hit = i /\ t.initialized = s.initialized
             /\ t \in State
<1>1. 1 \in 0 .. CounterMod BY SizeAssumption
<1>2. Sub(s.rsvd, 1) \in Counter /\ Add(s.free, 1) \in Counter
  BY <1>1, CounterClosed DEF State
<1>3. i \in s.bits => i \in Nat BY DEF State
<1>4. s.bits \ ({i} \cap Frames(s)) \subseteq Nat BY DEF State
<1> HIDE DEF Frames, Counter, Add, Sub
<1> QED
  BY <1>2, <1>3, <1>4 DEF ppa_ursv, ppa_bitmap_get, ppa_bitmap_clear, State

\* The globals are what their fields are.
Alike(s, t) ==
  /\ s.size = t.size /\ s.max_index = t.max_index /\ s.data = t.data /\ s.bits = t.bits
  /\ s.used = t.used /\ s.rsvd = t.rsvd /\ s.free = t.free /\ s.total = t.total
  /\ s.last_hit = t.last_hit /\ s.initialized = t.initialized

\* Globals that agree in every field are the same.
LEMMA SameState ==
  ASSUME NEW s \in State, NEW t \in State, Alike(s, t)
  PROVE  s = t
BY DEF State, Alike

\* Counting on.
LEMMA CountOn ==
  ASSUME NEW x \in Counter, NEW k \in Nat, NEW l \in Nat, k + l <= CounterMod
  PROVE  Add(Add(x, k), l) = Add(x, k + l) /\ Sub(Sub(x, k), l) = Sub(x, k + l)
BY SizeAssumption DEF Counter, Add, Sub

\* Locking or reserving a page after those before it.
LEMMA TakeOneMore ==
  ASSUME NEW s \in State, NEW a \in Nat, NEW k \in 1 .. (CounterMod - 1)
  PROVE  /\ ppa_lck(ppa_lckn(s, a, k - 1), a + (k - 1)) = ppa_lckn(s, a, k)
         /\ ppa_rsv(ppa_rsvn(s, a, k - 1), a + (k - 1)) = ppa_rsvn(s, a, k)
<1> DEFINE j == k - 1
           i == a + j
           P == Pages(a, j)
           Q == Pages(a, k)
           new == Unset(s, P)
           more == Unset(s, Q)
           l == ppa_lckn(s, a, j)
           r == ppa_rsvn(s, a, j)
           lk == ppa_lckn(s, a, k)
           rk == ppa_rsvn(s, a, k)
           l1 == ppa_lck(l, i)
           r1 == ppa_rsv(r, i)
<1>1. /\ j \in Nat /\ k \in Nat /\ j \in 0 .. CounterMod /\ k \in 0 .. CounterMod
      /\ j < CounterMod /\ i \in Nat
  BY SizeAssumption
<1>2. l \in State /\ r \in State /\ lk \in State /\ rk \in State BY <1>1, TakeState
<1>3. /\ l.bits = s.bits \cup (new \cap Frames(s)) /\ r.bits = l.bits
      /\ l.used = Add(s.used, Cardinality(new)) /\ r.used = s.used
      /\ r.rsvd = Add(s.rsvd, Cardinality(new)) /\ l.rsvd = s.rsvd
      /\ l.free = Sub(s.free, Cardinality(new)) /\ r.free = l.free
      /\ \A t \in {l, r} :
           /\ t.size = s.size /\ t.max_index = s.max_index /\ t.data = s.data
           /\ t.total = s.total /\ t.last_hit = s.last_hit
           /\ t.initialized = s.initialized
  BY TakeEffect
<1>4. /\ lk.bits = s.bits \cup (more \cap Frames(s)) /\ rk.bits = lk.bits
      /\ lk.used = Add(s.used, Cardinality(more)) /\ rk.used = s.used
      /\ rk.rsvd = Add(s.rsvd, Cardinality(more)) /\ lk.rsvd = s.rsvd
      /\ lk.free = Sub(s.free, Cardinality(more)) /\ rk.free = lk.free
      /\ \A t \in {lk, rk} :
           /\ t.size = s.size /\ t.max_index = s.max_index /\ t.data = s.data
           /\ t.total = s.total /\ t.last_hit = s.last_hit
           /\ t.initialized = s.initialized
  BY TakeEffect
<1>5. Q = P \cup {i} /\ i \notin P BY <1>1 DEF Pages
<1>6. IsFiniteSet(new) /\ Cardinality(new) \in Nat /\ Cardinality(new) < CounterMod
  <2>1. IsFiniteSet(P) BY <1>1, PagesFinite
  <2>2. new \in SUBSET P BY DEF Unset
  <2>3. IsFiniteSet(new) BY <2>1, <2>2, FS_Subset
  <2>4. Cardinality(new) \in Nat /\ Cardinality(new) <= j BY <1>1, TakenSplit
  <2> QED BY <1>1, <2>3, <2>4, SizeAssumption
<1>7. Frames(l) = Frames(s) /\ Frames(r) = Frames(s) BY <1>3 DEF Frames
<1>8. /\ i \in l.bits \cap Frames(l) <=> i \in s.bits \cap Frames(s)
      /\ i \in r.bits \cap Frames(r) <=> i \in s.bits \cap Frames(s)
  BY <1>3, <1>5, <1>7 DEF Unset
<1>9. /\ i \in l.bits \cap Frames(l) => l1 = l
      /\ i \notin l.bits \cap Frames(l) =>
           /\ l1.bits = l.bits \cup ({i} \cap Frames(l))
           /\ l1.used = Add(l.used, 1) /\ l1.rsvd = l.rsvd /\ l1.free = Sub(l.free, 1)
           /\ l1.size = l.size /\ l1.max_index = l.max_index /\ l1.data = l.data
           /\ l1.total = l.total /\ l1.last_hit = l.last_hit /\ l1.initialized = l.initialized
      /\ l1 \in State
  BY <1>1, <1>2, LockOne
<1>10. /\ i \in r.bits \cap Frames(r) => r1 = r
       /\ i \notin r.bits \cap Frames(r) =>
           /\ r1.bits = r.bits \cup ({i} \cap Frames(r))
           /\ r1.rsvd = Add(r.rsvd, 1) /\ r1.used = r.used /\ r1.free = Sub(r.free, 1)
           /\ r1.size = r.size /\ r1.max_index = r.max_index /\ r1.data = r.data
           /\ r1.total = r.total /\ r1.last_hit = r.last_hit /\ r1.initialized = r.initialized
       /\ r1 \in State
  BY <1>1, <1>2, ReserveOne
<1>11. s.used \in Counter /\ s.rsvd \in Counter /\ s.free \in Counter BY DEF State
<1> HIDE DEF l1, r1, l, r, lk, rk, P, Q, i, j
<1>12. CASE i \in s.bits \cap Frames(s)
  <2>1. more = new BY <1>5, <1>12 DEF Unset, ppa_bitmap_get
  <2>2. l1 = l /\ r1 = r BY <1>8, <1>9, <1>10, <1>12
  <2> HIDE DEF more, new
  <2>3. Alike(l, lk) /\ Alike(r, rk) BY <1>3, <1>4, <2>1 DEF Alike
  <2>4. l = lk /\ r = rk BY <1>2, <2>3, SameState
  <2> QED BY <2>2, <2>4 DEF l1, r1, l, r, lk, rk, i, j
<1>13. CASE i \notin s.bits \cap Frames(s)
  <2>1. more = new \cup {i} /\ i \notin new BY <1>5, <1>13 DEF Unset, ppa_bitmap_get
  <2>2. Cardinality(more) = Cardinality(new) + 1 BY <1>6, <2>1, FS_AddElement
  <2> HIDE DEF more, new
  <2> DEFINE c == Cardinality(new)
             d == Cardinality(more)
  <2>3. c \in Nat /\ 1 \in Nat /\ c + 1 <= CounterMod /\ d = c + 1
    BY <1>6, <2>2, SizeAssumption
  <2> HIDE DEF c, d
  <2>4. Add(Add(s.used, c), 1) = Add(s.used, d) /\ Add(Add(s.rsvd, c), 1) = Add(s.rsvd, d)
    BY <1>11, <2>3, CountOn
  <2>5. Sub(Sub(s.free, c), 1) = Sub(s.free, d) BY <1>11, <2>3, CountOn
  <2>6. s.bits \cup (more \cap Frames(s)) =
          (s.bits \cup (new \cap Frames(s))) \cup ({i} \cap Frames(s))
    BY <2>1
  <2>7. Alike(l1, lk)
    BY <1>3, <1>4, <1>7, <1>8, <1>9, <1>13, <2>4, <2>5, <2>6 DEF Alike, c, d
  <2>8. Alike(r1, rk)
    BY <1>3, <1>4, <1>7, <1>8, <1>10, <1>13, <2>4, <2>5, <2>6 DEF Alike, c, d
  <2>9. l1 = lk /\ r1 = rk BY <1>2, <1>9, <1>10, <2>7, <2>8, SameState
  <2> QED BY <2>9 DEF l1, r1, l, r, lk, rk, i, j
<1> QED BY <1>12, <1>13

\* Two runs that start alike and whose turns agree end alike.
LEMMA SameRun ==
  ASSUME NEW n \in Nat, NEW f, NEW g, f[0] = g[0],
         \A k \in 1 .. n : f[k - 1] = g[k - 1] => f[k] = g[k]
  PROVE  f[n] = g[n]
<1> DEFINE T == {k \in 0 .. n : f[k] = g[k]}
<1>1. 0 \in T OBVIOUS
<1>2. \A k \in 1 .. n : k - 1 \in T => k \in T OBVIOUS
<1> HIDE DEF T
<1>3. n \in T
  <2>1. n \in 0 .. n OBVIOUS
  <2> QED BY <1>1, <1>2, <2>1, EveryTurn
<1> QED BY <1>3 DEF T

-----------------------------------------------------------------------------
(* The block calls for taking pages.                                       *)

\* Taking no page.
LEMMA TakeNone ==
  ASSUME NEW s \in State, NEW a \in Nat
  PROVE  ppa_lckn(s, a, 0) = s /\ ppa_rsvn(s, a, 0) = s
<1> DEFINE new == Unset(s, Pages(a, 0))
<1>1. new = {} BY DEF Unset, Pages
<1>2. Cardinality({}) = 0 BY FS_EmptySet
<1>3. \A x \in Counter : Add(x, 0) = x /\ Sub(x, 0) = x
  BY SizeAssumption DEF Counter, Add, Sub
<1>4. s.used \in Counter /\ s.rsvd \in Counter /\ s.free \in Counter BY DEF State
<1> QED BY <1>1, <1>2, <1>3, <1>4 DEF ppa_lckn, ppa_rsvn, State

\* The loop of ppa_lckn.
LEMMA LockLoopIs ==
  ASSUME NEW s \in State, NEW a \in Nat, NEW n \in 0 .. (CounterMod - 1)
  PROVE  LockLoop(s, a, n) = ppa_lckn(s, a, n)
<1> DEFINE V == [k \in 0 .. n |-> ppa_lckn(s, a, k)]
           g == CHOOSE f : f = [k \in 0 .. n |->
                                  IF k = 0 THEN s ELSE ppa_lck(f[k - 1], a + (k - 1))]
<1>0. n \in Nat BY SizeAssumption
<1>1. V[0] = s /\ \A k \in 1 .. n : V[k] = ppa_lck(V[k - 1], a + (k - 1))
  <2>1. V[0] = s BY <1>0, TakeNone
  <2>2. ASSUME NEW k \in 1 .. n PROVE V[k] = ppa_lck(V[k - 1], a + (k - 1))
    <3>1. k \in 1 .. (CounterMod - 1) /\ k \in 0 .. n /\ k - 1 \in 0 .. n BY SizeAssumption
    <3> QED BY <3>1, TakeOneMore
  <2> QED BY <2>1, <2>2
<1>2. V = [k \in 0 .. n |-> IF k = 0 THEN s ELSE ppa_lck(V[k - 1], a + (k - 1))]
  <2>1. \A k \in 0 .. n : V[k] = IF k = 0 THEN s ELSE ppa_lck(V[k - 1], a + (k - 1))
    <3> TAKE k \in 0 .. n
    <3>1. k = 0 \/ k \in 1 .. n OBVIOUS
    <3> HIDE DEF V
    <3> QED BY <1>1, <3>1
  <2>2. V = [k \in 0 .. n |-> V[k]] OBVIOUS
  <2> HIDE DEF V
  <2> QED BY <2>1, <2>2
<1> HIDE DEF V
<1>3. g = [k \in 0 .. n |-> IF k = 0 THEN s ELSE ppa_lck(g[k - 1], a + (k - 1))]
  BY <1>2
<1> HIDE DEF g
<1>4. g[0] = V[0] /\ \A k \in 1 .. n : g[k - 1] = V[k - 1] => g[k] = V[k]
  <2>1. 0 \in 0 .. n /\ \A k \in 1 .. n : k \in 0 .. n /\ k # 0 BY <1>0
  <2>2. g[0] = s BY <1>3, <2>1
  <2>3. \A k \in 1 .. n : g[k] = ppa_lck(g[k - 1], a + (k - 1)) BY <1>3, <2>1
  <2> QED BY <1>1, <2>2, <2>3
<1>5. g[n] = V[n] BY <1>0, <1>4, SameRun
<1>6. LockLoop(s, a, n) = g[n] BY DEF LockLoop, Loop, g
<1> QED BY <1>0, <1>5, <1>6 DEF V

\* The loop of ppa_rsvn.
LEMMA ReserveLoopIs ==
  ASSUME NEW s \in State, NEW a \in Nat, NEW n \in 0 .. (CounterMod - 1)
  PROVE  ReserveLoop(s, a, n) = ppa_rsvn(s, a, n)
<1> DEFINE V == [k \in 0 .. n |-> ppa_rsvn(s, a, k)]
           g == CHOOSE f : f = [k \in 0 .. n |->
                                  IF k = 0 THEN s ELSE ppa_rsv(f[k - 1], a + (k - 1))]
<1>0. n \in Nat BY SizeAssumption
<1>1. V[0] = s /\ \A k \in 1 .. n : V[k] = ppa_rsv(V[k - 1], a + (k - 1))
  <2>1. V[0] = s BY <1>0, TakeNone
  <2>2. ASSUME NEW k \in 1 .. n PROVE V[k] = ppa_rsv(V[k - 1], a + (k - 1))
    <3>1. k \in 1 .. (CounterMod - 1) /\ k \in 0 .. n /\ k - 1 \in 0 .. n BY SizeAssumption
    <3> QED BY <3>1, TakeOneMore
  <2> QED BY <2>1, <2>2
<1>2. V = [k \in 0 .. n |-> IF k = 0 THEN s ELSE ppa_rsv(V[k - 1], a + (k - 1))]
  <2>1. \A k \in 0 .. n : V[k] = IF k = 0 THEN s ELSE ppa_rsv(V[k - 1], a + (k - 1))
    <3> TAKE k \in 0 .. n
    <3>1. k = 0 \/ k \in 1 .. n OBVIOUS
    <3> HIDE DEF V
    <3> QED BY <1>1, <3>1
  <2>2. V = [k \in 0 .. n |-> V[k]] OBVIOUS
  <2> HIDE DEF V
  <2> QED BY <2>1, <2>2
<1> HIDE DEF V
<1>3. g = [k \in 0 .. n |-> IF k = 0 THEN s ELSE ppa_rsv(g[k - 1], a + (k - 1))]
  BY <1>2
<1> HIDE DEF g
<1>4. g[0] = V[0] /\ \A k \in 1 .. n : g[k - 1] = V[k - 1] => g[k] = V[k]
  <2>1. 0 \in 0 .. n /\ \A k \in 1 .. n : k \in 0 .. n /\ k # 0 BY <1>0
  <2>2. g[0] = s BY <1>3, <2>1
  <2>3. \A k \in 1 .. n : g[k] = ppa_rsv(g[k - 1], a + (k - 1)) BY <1>3, <2>1
  <2> QED BY <1>1, <2>2, <2>3
<1>5. g[n] = V[n] BY <1>0, <1>4, SameRun
<1>6. ReserveLoop(s, a, n) = g[n] BY DEF ReserveLoop, Loop, g
<1> QED BY <1>0, <1>5, <1>6 DEF V

-----------------------------------------------------------------------------
(* The block calls for giving pages back.                                  *)

\* The same globals with another search hint.
Hinted(s, h) == [s EXCEPT !.last_hit = h]

\* The hint is all that differs.
LEMMA HintedAlike ==
  ASSUME NEW s \in State, NEW h \in Nat
  PROVE  /\ Hinted(s, h) \in State /\ Hinted(s, h).last_hit = h
         /\ Alike(Hinted(Hinted(s, h), s.last_hit), s)
         /\ LET t == Hinted(s, h)
            IN  /\ t.size = s.size /\ t.max_index = s.max_index /\ t.data = s.data
                /\ t.bits = s.bits /\ t.used = s.used /\ t.rsvd = s.rsvd /\ t.free = s.free
                /\ t.total = s.total /\ t.initialized = s.initialized
BY DEF Hinted, State, Alike

\* A release after another is one release of both sets, whatever the hints.
LEMMA ReleaseOn ==
  ASSUME NEW s \in State, NEW t \in State, NEW R, NEW Q, NEW g \in Nat, NEW h \in Nat
  PROVE  /\ Hinted(t, g) = ppa_ulckn(s, R, g) => ppa_ulckn(t, Q, h) = ppa_ulckn(s, R \cup Q, h)
         /\ Hinted(t, g) = ppa_ursvn(s, R, g) => ppa_ursvn(t, Q, h) = ppa_ursvn(s, R \cup Q, h)
<1> DEFINE old  == R \ Unset(s, R)
           more == Q \ Unset(t, Q)
           both == (R \cup Q) \ Unset(s, R \cup Q)
           c == Cardinality(old)
           d == Cardinality(more)
           b == Cardinality(both)
           ul == ppa_ulckn(s, R, g)
           tl == ppa_ulckn(t, Q, h)
           bl == ppa_ulckn(s, R \cup Q, h)
           ur == ppa_ursvn(s, R, g)
           tr == ppa_ursvn(t, Q, h)
           br == ppa_ursvn(s, R \cup Q, h)
<1>1. /\ old = R \cap s.bits \cap Frames(s) /\ IsFiniteSet(old) /\ c \in 0 .. CounterMod
      /\ more = Q \cap t.bits \cap Frames(t) /\ IsFiniteSet(more) /\ d \in 0 .. CounterMod
      /\ both = (R \cup Q) \cap s.bits \cap Frames(s) /\ b \in 0 .. CounterMod
  BY ReleasedSet
<1>2. /\ ul \in State /\ tl \in State /\ bl \in State
      /\ ur \in State /\ tr \in State /\ br \in State
  BY ReleaseState
<1>3. /\ ul.bits = s.bits \ old /\ ul.used = Sub(s.used, c) /\ ul.rsvd = s.rsvd
      /\ ul.free = Add(s.free, c) /\ ul.size = s.size /\ ul.max_index = s.max_index
      /\ ul.data = s.data /\ ul.total = s.total /\ ul.initialized = s.initialized
  BY DEF ppa_ulckn, State
<1>4. /\ tl.bits = t.bits \ more /\ tl.used = Sub(t.used, d) /\ tl.rsvd = t.rsvd
      /\ tl.free = Add(t.free, d) /\ tl.size = t.size /\ tl.max_index = t.max_index
      /\ tl.data = t.data /\ tl.total = t.total /\ tl.initialized = t.initialized
      /\ tl.last_hit = h
  BY DEF ppa_ulckn, State
<1>5. /\ bl.bits = s.bits \ both /\ bl.used = Sub(s.used, b) /\ bl.rsvd = s.rsvd
      /\ bl.free = Add(s.free, b) /\ bl.size = s.size /\ bl.max_index = s.max_index
      /\ bl.data = s.data /\ bl.total = s.total /\ bl.initialized = s.initialized
      /\ bl.last_hit = h
  BY DEF ppa_ulckn, State
<1>6. /\ ur.bits = s.bits \ old /\ ur.rsvd = Sub(s.rsvd, c) /\ ur.used = s.used
      /\ ur.free = Add(s.free, c) /\ ur.size = s.size /\ ur.max_index = s.max_index
      /\ ur.data = s.data /\ ur.total = s.total /\ ur.initialized = s.initialized
  BY DEF ppa_ursvn, State
<1>7. /\ tr.bits = t.bits \ more /\ tr.rsvd = Sub(t.rsvd, d) /\ tr.used = t.used
      /\ tr.free = Add(t.free, d) /\ tr.size = t.size /\ tr.max_index = t.max_index
      /\ tr.data = t.data /\ tr.total = t.total /\ tr.initialized = t.initialized
      /\ tr.last_hit = h
  BY DEF ppa_ursvn, State
<1>8. /\ br.bits = s.bits \ both /\ br.rsvd = Sub(s.rsvd, b) /\ br.used = s.used
      /\ br.free = Add(s.free, b) /\ br.size = s.size /\ br.max_index = s.max_index
      /\ br.data = s.data /\ br.total = s.total /\ br.initialized = s.initialized
      /\ br.last_hit = h
  BY DEF ppa_ursvn, State
<1>9. /\ Hinted(t, g).size = t.size /\ Hinted(t, g).max_index = t.max_index
      /\ Hinted(t, g).data = t.data /\ Hinted(t, g).bits = t.bits
      /\ Hinted(t, g).used = t.used /\ Hinted(t, g).rsvd = t.rsvd
      /\ Hinted(t, g).free = t.free /\ Hinted(t, g).total = t.total
      /\ Hinted(t, g).initialized = t.initialized
  BY HintedAlike
<1>10. s.used \in Counter /\ s.rsvd \in Counter /\ s.free \in Counter BY DEF State
<1>11. ASSUME t.bits = s.bits \ old, t.max_index = s.max_index
       PROVE  /\ both = old \cup more /\ t.bits \ more = s.bits \ both
              /\ Sub(Sub(s.used, c), d) = Sub(s.used, b)
              /\ Sub(Sub(s.rsvd, c), d) = Sub(s.rsvd, b)
              /\ Add(Add(s.free, c), d) = Add(s.free, b)
  <2>1. Frames(t) = Frames(s) BY <1>11 DEF Frames
  <2> HIDE DEF old, more, both
  <2>2. both = old \cup more /\ old \cap more = {} BY <1>1, <1>11, <2>1
  <2>3. t.bits \ more = s.bits \ both BY <1>11, <2>2
  <2>4. Cardinality(old \cup more) = c + d - Cardinality(old \cap more)
    BY <1>1, FS_Union
  <2>5. Cardinality({}) = 0 BY FS_EmptySet
  <2>6. b = c + d - 0 BY <2>2, <2>4, <2>5
  <2>7. c \in Nat /\ d \in Nat /\ c + d <= CounterMod /\ b = c + d
    <3> HIDE DEF b, c, d
    <3> QED BY <1>1, <2>6, SizeAssumption
  <2> HIDE DEF b, c, d
  <2>8. /\ Sub(Sub(s.used, c), d) = Sub(s.used, c + d)
        /\ Sub(Sub(s.rsvd, c), d) = Sub(s.rsvd, c + d)
        /\ Add(Add(s.free, c), d) = Add(s.free, c + d)
    BY <1>10, <2>7, CountOn
  <2> QED BY <2>2, <2>3, <2>7, <2>8
<1> HIDE DEF ul, tl, bl, ur, tr, br, old, more, both, b, c, d
<1>12. ASSUME Hinted(t, g) = ul PROVE tl = bl
  <2>1. t.bits = s.bits \ old /\ t.max_index = s.max_index BY <1>3, <1>9, <1>12
  <2>2. Alike(tl, bl) BY <1>3, <1>4, <1>5, <1>9, <1>11, <1>12, <2>1 DEF Alike
  <2> QED BY <1>2, <2>2, SameState
<1>13. ASSUME Hinted(t, g) = ur PROVE tr = br
  <2>1. t.bits = s.bits \ old /\ t.max_index = s.max_index BY <1>6, <1>9, <1>13
  <2>2. Alike(tr, br) BY <1>6, <1>7, <1>8, <1>9, <1>11, <1>13, <2>1 DEF Alike
  <2> QED BY <1>2, <2>2, SameState
<1> QED BY <1>12, <1>13 DEF ul, tl, bl, ur, tr, br

\* The release of one page.
LEMMA ReleaseOne ==
  ASSUME NEW s \in State, NEW i \in Int, NEW h \in Nat
  PROVE  /\ Hinted(ppa_ulck(s, i), h) = ppa_ulckn(s, {i}, h)
         /\ Hinted(ppa_ursv(s, i), h) = ppa_ursvn(s, {i}, h)
<1> DEFINE old == {i} \ Unset(s, {i})
           l == ppa_ulck(s, i)
           r == ppa_ursv(s, i)
           ul == ppa_ulckn(s, {i}, h)
           ur == ppa_ursvn(s, {i}, h)
<1>1. old = {i} \cap s.bits \cap Frames(s) BY ReleasedSet
<1>2. ul \in State /\ ur \in State BY ReleaseState
<1>3. /\ ul.bits = s.bits \ old /\ ul.used = Sub(s.used, Cardinality(old)) /\ ul.rsvd = s.rsvd
      /\ ul.free = Add(s.free, Cardinality(old)) /\ ul.size = s.size
      /\ ul.max_index = s.max_index /\ ul.data = s.data /\ ul.total = s.total
      /\ ul.initialized = s.initialized /\ ul.last_hit = h
  BY ReleaseEffect
<1>4. /\ ur.bits = s.bits \ old /\ ur.rsvd = Sub(s.rsvd, Cardinality(old)) /\ ur.used = s.used
      /\ ur.free = Add(s.free, Cardinality(old)) /\ ur.size = s.size
      /\ ur.max_index = s.max_index /\ ur.data = s.data /\ ur.total = s.total
      /\ ur.initialized = s.initialized /\ ur.last_hit = h
  BY DEF ppa_ursvn, State
<1>5. /\ i \notin s.bits \cap Frames(s) => l = s
      /\ i \in s.bits \cap Frames(s) =>
           /\ l.bits = s.bits \ {i}
           /\ l.used = Sub(s.used, 1) /\ l.rsvd = s.rsvd /\ l.free = Add(s.free, 1)
           /\ l.size = s.size /\ l.max_index = s.max_index /\ l.data = s.data
           /\ l.total = s.total /\ l.last_hit = i /\ l.initialized = s.initialized
      /\ l \in State
  BY UnlockOne
<1>6. /\ i \notin s.bits \cap Frames(s) => r = s
      /\ i \in s.bits \cap Frames(s) =>
           /\ r.bits = s.bits \ {i}
           /\ r.rsvd = Sub(s.rsvd, 1) /\ r.used = s.used /\ r.free = Add(s.free, 1)
           /\ r.size = s.size /\ r.max_index = s.max_index /\ r.data = s.data
           /\ r.total = s.total /\ r.last_hit = i /\ r.initialized = s.initialized
      /\ r \in State
  BY UnreserveOne
<1>7. \A x \in Counter : Add(x, 0) = x /\ Sub(x, 0) = x
  BY SizeAssumption DEF Counter, Add, Sub
<1>8. s.used \in Counter /\ s.rsvd \in Counter /\ s.free \in Counter BY DEF State
<1>9. Cardinality({i}) = 1 /\ Cardinality({}) = 0 BY FS_Singleton, FS_EmptySet
<1> HIDE DEF l, r, ul, ur
<1>10. /\ Hinted(l, h) \in State /\ Hinted(l, h).last_hit = h
       /\ Hinted(l, h).size = l.size /\ Hinted(l, h).max_index = l.max_index
       /\ Hinted(l, h).data = l.data /\ Hinted(l, h).bits = l.bits
       /\ Hinted(l, h).used = l.used /\ Hinted(l, h).rsvd = l.rsvd
       /\ Hinted(l, h).free = l.free /\ Hinted(l, h).total = l.total
       /\ Hinted(l, h).initialized = l.initialized
  BY <1>5, HintedAlike
<1>11. /\ Hinted(r, h) \in State /\ Hinted(r, h).last_hit = h
       /\ Hinted(r, h).size = r.size /\ Hinted(r, h).max_index = r.max_index
       /\ Hinted(r, h).data = r.data /\ Hinted(r, h).bits = r.bits
       /\ Hinted(r, h).used = r.used /\ Hinted(r, h).rsvd = r.rsvd
       /\ Hinted(r, h).free = r.free /\ Hinted(r, h).total = r.total
       /\ Hinted(r, h).initialized = r.initialized
  BY <1>6, HintedAlike
<1>12. CASE i \in s.bits \cap Frames(s)
  <2>1. old = {i} BY <1>1, <1>12
  <2> HIDE DEF old
  <2>2. Alike(Hinted(l, h), ul) BY <1>3, <1>5, <1>9, <1>10, <1>12, <2>1 DEF Alike
  <2>3. Alike(Hinted(r, h), ur) BY <1>4, <1>6, <1>9, <1>11, <1>12, <2>1 DEF Alike
  <2> QED BY <1>2, <1>10, <1>11, <2>2, <2>3, SameState DEF l, r, ul, ur
<1>13. CASE i \notin s.bits \cap Frames(s)
  <2>1. old = {} BY <1>1, <1>13
  <2> HIDE DEF old
  <2>2. Alike(Hinted(l, h), ul) BY <1>3, <1>5, <1>7, <1>8, <1>9, <1>10, <1>13, <2>1 DEF Alike
  <2>3. Alike(Hinted(r, h), ur) BY <1>4, <1>6, <1>7, <1>8, <1>9, <1>11, <1>13, <2>1 DEF Alike
  <2> QED BY <1>2, <1>10, <1>11, <2>2, <2>3, SameState DEF l, r, ul, ur
<1> QED BY <1>12, <1>13

\* The release of no page moves the hint only.
LEMMA ReleaseNone ==
  ASSUME NEW s \in State, NEW h \in Nat
  PROVE  Hinted(s, h) = ppa_ulckn(s, {}, h) /\ Hinted(s, h) = ppa_ursvn(s, {}, h)
<1>1. \A x \in Counter : Add(x, 0) = x /\ Sub(x, 0) = x
  BY SizeAssumption DEF Counter, Add, Sub
<1>2. Cardinality({}) = 0 BY FS_EmptySet
<1>3. {} \ Unset(s, {}) = {} OBVIOUS
<1>4. s.used \in Counter /\ s.rsvd \in Counter /\ s.free \in Counter BY DEF State
<1> QED BY <1>1, <1>2, <1>3, <1>4 DEF Hinted, ppa_ulckn, ppa_ursvn, State

-----------------------------------------------------------------------------
(* The int offset of the release loops.                                    *)

\* A multiple of M by 1 or more is M or more.
LEMMA Times ==
  ASSUME NEW M \in Nat \ {0}, NEW q \in Int, q >= 1
  PROVE  M * q >= M
BY Z3

\* Division and its rest.
LEMMA Division ==
  ASSUME NEW M \in Nat \ {0}, NEW x \in Int
  PROVE  x \div M \in Int /\ x % M \in 0 .. (M - 1) /\ x = M * (x \div M) + (x % M)
BY Z3

\* The rest of a division is the only one.
LEMMA RestUnique ==
  ASSUME NEW M \in Nat \ {0}, NEW q \in Int, NEW r \in 0 .. (M - 1), NEW x \in Int, x = M * q + r
  PROVE  x % M = r /\ x \div M = q
<1> DEFINE p == x \div M
           t == x % M
<1>1. p \in Int /\ t \in 0 .. (M - 1) /\ x = M * p + t
  BY Z3
<1> HIDE DEF p, t
<1>2. M * (q - p) = t - r /\ M * (p - q) = r - t
  BY <1>1, Z3
<1>3. ~ (q - p >= 1)
  <2> SUFFICES ASSUME q - p >= 1 PROVE FALSE OBVIOUS
  <2>1. q - p \in Int BY <1>1
  <2>2. M * (q - p) >= M BY <2>1, Times
  <2> QED BY <1>1, <1>2, <2>2
<1>4. ~ (p - q >= 1)
  <2> SUFFICES ASSUME p - q >= 1 PROVE FALSE OBVIOUS
  <2>1. p - q \in Int BY <1>1
  <2>2. M * (p - q) >= M BY <2>1, Times
  <2> QED BY <1>1, <1>2, <2>2
<1>5. p = q BY <1>1, <1>3, <1>4
<1>6. t = r BY <1>1, <1>5
<1> QED BY <1>5, <1>6 DEF p, t

\* The int offset the loop adds is the one Visited adds.
LEMMA Turned ==
  ASSUME NEW S \in Nat \ {0}, NEW i \in Nat
  PROVE  ((i + S) % (2 * S)) - S =
           IF i % (2 * S) < S THEN i % (2 * S) ELSE (i % (2 * S)) - 2 * S
<1> DEFINE M == 2 * S
           q == i \div M
           low == i % M
<1>1. M \in Nat \ {0} /\ M = S + S OBVIOUS
<1> HIDE DEF M
<1>2. q \in Int /\ low \in 0 .. (M - 1) /\ i = M * q + low
  <2>1. i \in Int OBVIOUS
  <2> QED BY <1>1, <2>1, Division
<1> HIDE DEF q, low
<1>3. CASE low < S
  <2>1. low + S \in 0 .. (M - 1) /\ i + S = M * q + (low + S) /\ i + S \in Int
    <3>1. M * q \in Int BY <1>1, <1>2
    <3> QED BY <1>1, <1>2, <1>3, <3>1
  <2>2. (i + S) % M = low + S BY <1>1, <1>2, <2>1, RestUnique
  <2> QED BY <1>2, <1>3, <2>2 DEF low, M
<1>4. CASE ~ (low < S)
  <2>1. low - S \in 0 .. (M - 1) /\ i + S = M * (q + 1) + (low - S) /\ i + S \in Int /\ q + 1 \in Int
    <3>1. M * q \in Int /\ M * (q + 1) = M * q + M BY <1>1, <1>2
    <3> QED BY <1>1, <1>2, <1>4, <3>1
  <2>2. (i + S) % M = low - S BY <1>1, <1>2, <2>1, RestUnique
  <2>3. low - S - S = low - M BY <1>1, <1>2
  <2> QED BY <1>2, <1>4, <2>2, <2>3 DEF low, M
<1> QED BY <1>3, <1>4

\* So an offset is a number, and Visited says which.
LEMMA OffsetIs ==
  ASSUME NEW i \in Nat, NEW wraps \in BOOLEAN
  PROVE  /\ Offset(i, wraps) \in Int
         /\ Offset(i, wraps) = IF wraps THEN ((i + IntSpan) % (2 * IntSpan)) - IntSpan ELSE i
<1>1. IntSpan \in Nat \ {0} BY SizeAssumption
<1>2. ((i + IntSpan) % (2 * IntSpan)) - IntSpan =
        IF i % (2 * IntSpan) < IntSpan THEN i % (2 * IntSpan)
        ELSE (i % (2 * IntSpan)) - 2 * IntSpan
  BY <1>1, Turned
<1>3. (i + IntSpan) % (2 * IntSpan) \in Int
  <2> DEFINE a == i + IntSpan
             d == 2 * IntSpan
  <2>1. a \in Int /\ d \in Nat \ {0} BY <1>1
  <2> HIDE DEF a, d
  <2>2. a % d \in 0 .. (d - 1) BY <2>1, Division
  <2>3. a % d \in Int BY <2>1, <2>2
  <2> QED BY <2>3 DEF a, d
<1>4. Offset(i, wraps) = IF wraps THEN ((i + IntSpan) % (2 * IntSpan)) - IntSpan ELSE i
  BY <1>2 DEF Offset
<1> QED
  <2> DEFINE x == (i + IntSpan) % (2 * IntSpan)
  <2> HIDE DEF x
  <2>1. x - IntSpan \in Int BY <1>1, <1>3 DEF x
  <2> QED BY <1>4, <2>1 DEF x

\* One more page of a release.
LEMMA VisitOneMore ==
  ASSUME NEW a \in Nat, NEW k \in Nat \ {0}, NEW wraps \in BOOLEAN
  PROVE  Visited(a, k, wraps) = Visited(a, k - 1, wraps) \cup {a + Offset(k - 1, wraps)}
<1>1. k - 1 \in Nat /\ 0 .. (k - 1) = (0 .. (k - 1 - 1)) \cup {k - 1} OBVIOUS
<1>2. CASE wraps
  <2> DEFINE at(i) == a + ((i + IntSpan) % (2 * IntSpan)) - IntSpan
             turn(i) == (i + IntSpan) % (2 * IntSpan)
  <2>1. \A j \in Nat : Visited(a, j, wraps) = {at(i) : i \in 0 .. (j - 1)} BY <1>2 DEF Visited
  <2>2. a + Offset(k - 1, wraps) = at(k - 1)
    <3>1. Offset(k - 1, wraps) = turn(k - 1) - IntSpan /\ IntSpan \in Int
      BY <1>1, <1>2, OffsetIs, SizeAssumption
    <3>2. turn(k - 1) \in Int
      <4> DEFINE b == k - 1 + IntSpan
                 d == 2 * IntSpan
      <4>1. b \in Int /\ d \in Nat \ {0} BY <1>1, SizeAssumption
      <4> HIDE DEF b, d
      <4>2. b % d \in 0 .. (d - 1) BY <4>1, Division
      <4>3. b % d \in Int BY <4>1, <4>2
      <4> QED BY <4>3 DEF b, d
    <3>3. at(k - 1) = a + turn(k - 1) - IntSpan OBVIOUS
    <3> HIDE DEF turn, at
    <3> QED BY <3>1, <3>2, <3>3
  <2> HIDE DEF at
  <2> QED BY <1>1, <2>1, <2>2
<1>3. CASE ~ wraps
  <2>1. a + Offset(k - 1, wraps) = a + (k - 1) BY <1>1, <1>3, OffsetIs
  <2>2. Visited(a, k, wraps) = Pages(a, k) /\ Visited(a, k - 1, wraps) = Pages(a, k - 1)
    BY <1>3 DEF Visited
  <2> QED BY <1>1, <2>1, <2>2 DEF Pages
<1> QED BY <1>2, <1>3

\* A release of no page visits none.
LEMMA VisitNone ==
  ASSUME NEW a \in Nat, NEW wraps \in BOOLEAN
  PROVE  Visited(a, 0, wraps) = {}
BY DEF Visited, Pages

\* The loop of ppa_ulckn, whose int offset may wrap.
LEMMA UnlockLoopIs ==
  ASSUME NEW s \in State, NEW a \in Nat, NEW n \in Nat, NEW wraps \in BOOLEAN
  PROVE  UnlockLoop(s, a, n, wraps) = ppa_ulckn(s, Visited(a, n, wraps), a)
<1> DEFINE F == [p \in State \X Nat |-> ppa_ulck(p[1], a + Offset(p[2], wraps))]
           g == CHOOSE f : f = [k \in 0 .. n |->
                  IF k = 0 THEN s ELSE ppa_ulck(f[k - 1], a + Offset(k - 1, wraps))]
           T == {k \in Nat : /\ g[k] \in State
                             /\ Hinted(g[k], a) = ppa_ulckn(s, Visited(a, k, wraps), a)}
<1>1. \A t \in State, k \in Nat :
        ppa_ulck(t, a + Offset(k, wraps)) \in State /\ a + Offset(k, wraps) \in Int
  <2> TAKE t \in State, k \in Nat
  <2>1. a + Offset(k, wraps) \in Int BY OffsetIs
  <2> QED BY <2>1, UnlockOne
<1>2. F \in [State \X Nat -> State] BY <1>1
<1>3. \A t \in State, k \in Nat : F[<<t, k>>] = ppa_ulck(t, a + Offset(k, wraps)) OBVIOUS
<1> HIDE DEF F
<1>4. PICK f \in [0 .. n -> State] : RunOf(f, s, n, F) BY <1>2, LoopRuns DEF HasRun
<1>5. f = [k \in 0 .. n |-> IF k = 0 THEN s ELSE ppa_ulck(f[k - 1], a + Offset(k - 1, wraps))]
  <2>1. \A k \in 0 .. n :
          f[k] = IF k = 0 THEN s ELSE ppa_ulck(f[k - 1], a + Offset(k - 1, wraps))
    <3> TAKE k \in 0 .. n
    <3>1. CASE k = 0 BY <1>4, <3>1 DEF RunOf
    <3>2. CASE k # 0
      <4>1. k \in 1 .. n /\ k - 1 \in Nat /\ f[k - 1] \in State BY <1>4, <3>2
      <4>2. f[k] = F[<<f[k - 1], k - 1>>] BY <1>4, <4>1 DEF RunOf
      <4> QED BY <1>3, <3>2, <4>1, <4>2
    <3> QED BY <3>1, <3>2
  <2> QED BY <1>4, <2>1
<1>6. g = [k \in 0 .. n |-> IF k = 0 THEN s ELSE ppa_ulck(g[k - 1], a + Offset(k - 1, wraps))]
  BY <1>5
<1> HIDE DEF g
<1>7. 0 \in T
  <2>1. g[0] = s
    <3>1. 0 \in 0 .. n OBVIOUS
    <3> QED BY <1>6, <3>1
  <2>2. Hinted(s, a) = ppa_ulckn(s, {}, a) BY ReleaseNone
  <2>3. Visited(a, 0, wraps) = {} BY VisitNone
  <2> QED BY <2>1, <2>2, <2>3
<1>8. ASSUME NEW k \in 1 .. n, k - 1 \in T PROVE k \in T
  <2> DEFINE t == g[k - 1]
             R == Visited(a, k - 1, wraps)
             i == a + Offset(k - 1, wraps)
  <2>1. k \in 0 .. n /\ k # 0 /\ k \in Nat \ {0} /\ k - 1 \in Nat OBVIOUS
  <2>2. g[k] = ppa_ulck(t, i) BY <1>6, <2>1
  <2>3. t \in State /\ Hinted(t, a) = ppa_ulckn(s, R, a) BY <1>8
  <2>4. i \in Int /\ ppa_ulck(t, i) \in State BY <1>1, <2>1, <2>3
  <2>5. Visited(a, k, wraps) = R \cup {i} BY <2>1, VisitOneMore
  <2> HIDE DEF t, R, i
  <2>6. Hinted(ppa_ulck(t, i), a) = ppa_ulckn(t, {i}, a) BY <2>3, <2>4, ReleaseOne
  <2>7. ppa_ulckn(t, {i}, a) = ppa_ulckn(s, R \cup {i}, a) BY <2>3, ReleaseOn
  <2> QED BY <2>1, <2>2, <2>4, <2>5, <2>6, <2>7
<1> HIDE DEF T
<1>9. n \in T
  <2>1. n \in 0 .. n OBVIOUS
  <2> QED BY <1>7, <1>8, <2>1, EveryTurn
<1>10. UnlockLoop(s, a, n, wraps) = Hinted(g[n], a) BY DEF UnlockLoop, Loop, g, Hinted
<1> QED BY <1>9, <1>10 DEF T

\* The loop of ppa_ursvn, whose int offset may wrap.
LEMMA UnreserveLoopIs ==
  ASSUME NEW s \in State, NEW a \in Nat, NEW n \in Nat, NEW wraps \in BOOLEAN
  PROVE  UnreserveLoop(s, a, n, wraps) = ppa_ursvn(s, Visited(a, n, wraps), a)
<1> DEFINE F == [p \in State \X Nat |-> ppa_ursv(p[1], a + Offset(p[2], wraps))]
           g == CHOOSE f : f = [k \in 0 .. n |->
                  IF k = 0 THEN s ELSE ppa_ursv(f[k - 1], a + Offset(k - 1, wraps))]
           T == {k \in Nat : /\ g[k] \in State
                             /\ Hinted(g[k], a) = ppa_ursvn(s, Visited(a, k, wraps), a)}
<1>1. \A t \in State, k \in Nat :
        ppa_ursv(t, a + Offset(k, wraps)) \in State /\ a + Offset(k, wraps) \in Int
  <2> TAKE t \in State, k \in Nat
  <2>1. a + Offset(k, wraps) \in Int BY OffsetIs
  <2> QED BY <2>1, UnreserveOne
<1>2. F \in [State \X Nat -> State] BY <1>1
<1>3. \A t \in State, k \in Nat : F[<<t, k>>] = ppa_ursv(t, a + Offset(k, wraps)) OBVIOUS
<1> HIDE DEF F
<1>4. PICK f \in [0 .. n -> State] : RunOf(f, s, n, F) BY <1>2, LoopRuns DEF HasRun
<1>5. f = [k \in 0 .. n |-> IF k = 0 THEN s ELSE ppa_ursv(f[k - 1], a + Offset(k - 1, wraps))]
  <2>1. \A k \in 0 .. n :
          f[k] = IF k = 0 THEN s ELSE ppa_ursv(f[k - 1], a + Offset(k - 1, wraps))
    <3> TAKE k \in 0 .. n
    <3>1. CASE k = 0 BY <1>4, <3>1 DEF RunOf
    <3>2. CASE k # 0
      <4>1. k \in 1 .. n /\ k - 1 \in Nat /\ f[k - 1] \in State BY <1>4, <3>2
      <4>2. f[k] = F[<<f[k - 1], k - 1>>] BY <1>4, <4>1 DEF RunOf
      <4> QED BY <1>3, <3>2, <4>1, <4>2
    <3> QED BY <3>1, <3>2
  <2> QED BY <1>4, <2>1
<1>6. g = [k \in 0 .. n |-> IF k = 0 THEN s ELSE ppa_ursv(g[k - 1], a + Offset(k - 1, wraps))]
  BY <1>5
<1> HIDE DEF g
<1>7. 0 \in T
  <2>1. g[0] = s
    <3>1. 0 \in 0 .. n OBVIOUS
    <3> QED BY <1>6, <3>1
  <2>2. Hinted(s, a) = ppa_ursvn(s, {}, a) BY ReleaseNone
  <2>3. Visited(a, 0, wraps) = {} BY VisitNone
  <2> QED BY <2>1, <2>2, <2>3
<1>8. ASSUME NEW k \in 1 .. n, k - 1 \in T PROVE k \in T
  <2> DEFINE t == g[k - 1]
             R == Visited(a, k - 1, wraps)
             i == a + Offset(k - 1, wraps)
  <2>1. k \in 0 .. n /\ k # 0 /\ k \in Nat \ {0} /\ k - 1 \in Nat OBVIOUS
  <2>2. g[k] = ppa_ursv(t, i) BY <1>6, <2>1
  <2>3. t \in State /\ Hinted(t, a) = ppa_ursvn(s, R, a) BY <1>8
  <2>4. i \in Int /\ ppa_ursv(t, i) \in State BY <1>1, <2>1, <2>3
  <2>5. Visited(a, k, wraps) = R \cup {i} BY <2>1, VisitOneMore
  <2> HIDE DEF t, R, i
  <2>6. Hinted(ppa_ursv(t, i), a) = ppa_ursvn(t, {i}, a) BY <2>3, <2>4, ReleaseOne
  <2>7. ppa_ursvn(t, {i}, a) = ppa_ursvn(s, R \cup {i}, a) BY <2>3, ReleaseOn
  <2> QED BY <2>1, <2>2, <2>4, <2>5, <2>6, <2>7
<1> HIDE DEF T
<1>9. n \in T
  <2>1. n \in 0 .. n OBVIOUS
  <2> QED BY <1>7, <1>8, <2>1, EveryTurn
<1>10. UnreserveLoop(s, a, n, wraps) = Hinted(g[n], a) BY DEF UnreserveLoop, Loop, g, Hinted
<1> QED BY <1>9, <1>10 DEF T

-----------------------------------------------------------------------------
(* The word scan of ppa_request.                                           *)

\* What the search finds among the indices of C: the least one, which is taken.
Found(s, C) ==
  IF C = {} THEN [state |-> s, answer |-> 0]
  ELSE [state |-> ppa_lck([s EXCEPT !.last_hit = Min(C)], Min(C)), answer |-> Min(C)]

\* The clear indices of the last n words.
ClearIn(s, n) == Unset(s, (WordBits * (s.size - n)) .. (WordBits * s.size - 1))

\* The least of two sets, the first below the second, is that of the first.
LEMMA MinOfFirst ==
  ASSUME NEW A \in SUBSET Nat, NEW B \in SUBSET Nat, A # {}, \A x \in A, y \in B : x <= y
  PROVE  Min(A \cup B) = Min(A)
<1>1. Min(A) \in A /\ \A y \in A : Min(A) <= y BY MinExists
<1>2. A \cup B # {} /\ A \cup B \in SUBSET Nat OBVIOUS
<1>3. Min(A \cup B) \in A \cup B /\ \A y \in A \cup B : Min(A \cup B) <= y BY <1>2, MinExists
<1>4. Min(A) <= Min(A \cup B) /\ Min(A \cup B) <= Min(A) BY <1>1, <1>3
<1>5. Min(A) \in Nat /\ Min(A \cup B) \in Nat BY <1>1, <1>3
<1> QED BY <1>4, <1>5

\* The words of a bitmap follow one another.
LEMMA WordSteps ==
  ASSUME NEW W \in Nat \ {0}, NEW z \in Nat, NEW n \in 1 .. z
  PROVE  /\ W * (z - n) \in Nat /\ W * (z - n) + W = W * (z - (n - 1))
         /\ (z - n) * W = W * (z - n) /\ W * (z - (n - 1)) <= W * z /\ W * z \in Nat
<1>1. z - n \in Nat /\ n - 1 \in Nat /\ z - (n - 1) \in Nat OBVIOUS
<1>2. W * (z - n) \in Nat /\ W * z \in Nat /\ W * (n - 1) \in Nat BY <1>1
<1>3. W * (z - n) + W = W * (z - (n - 1)) BY Z3
<1>4. (z - n) * W = W * (z - n) BY Z3
<1>5. W * z = W * (z - (n - 1)) + W * (n - 1) BY Z3
<1>6. W * (z - (n - 1)) \in Nat BY <1>1
<1> QED BY <1>2, <1>3, <1>4, <1>5, <1>6

\* The clear indices of n words are those of the first of them and of the rest.
LEMMA ClearOneMore ==
  ASSUME NEW s \in State, NEW n \in 1 .. s.size
  PROVE  LET A == Unset(s, WordIndices(s.size - n))
             B == ClearIn(s, n - 1)
         IN  /\ A \in SUBSET Nat /\ B \in SUBSET Nat
             /\ ClearIn(s, n) = A \cup B
             /\ \A x \in A, y \in B : x <= y
<1> DEFINE lo == WordBits * (s.size - n)
           mid == WordBits * (s.size - (n - 1))
           hi == WordBits * s.size
<1>0. s.size \in Nat /\ WordBits \in Nat \ {0} BY SizeAssumption DEF State
<1>1. /\ lo \in Nat /\ lo + WordBits = mid /\ (s.size - n) * WordBits = lo
      /\ mid <= hi /\ hi \in Nat
  BY <1>0, WordSteps
<1>2. WordIndices(s.size - n) = lo .. (lo + WordBits - 1) BY <1>1 DEF WordIndices
<1>3. ClearIn(s, n) = Unset(s, lo .. (hi - 1)) /\ ClearIn(s, n - 1) = Unset(s, mid .. (hi - 1))
  BY DEF ClearIn
<1> HIDE DEF lo, mid, hi
<1>4. mid \in Nat /\ lo .. (lo + WordBits - 1) = lo .. (mid - 1) BY <1>0, <1>1
<1>5. lo .. (hi - 1) = (lo .. (mid - 1)) \cup (mid .. (hi - 1)) BY <1>0, <1>1, <1>4
<1>6. \A x \in lo .. (mid - 1), y \in mid .. (hi - 1) : x <= y BY <1>1, <1>4
<1>7. lo .. (mid - 1) \subseteq Nat /\ mid .. (hi - 1) \subseteq Nat BY <1>1, <1>4
<1> QED BY <1>2, <1>3, <1>4, <1>5, <1>6, <1>7 DEF Unset

\* The word scan finds the least clear index of the words it looks at.
LEMMA ScanFinds ==
  ASSUME NEW s \in State, s.bits \subseteq Frames(s), NEW w \in Nat
  PROVE  ScanFrom(s, w) = Found(s, ClearIn(s, IF w < s.size THEN s.size - w ELSE 0))
<1> DEFINE word(n) == WordIndices(s.size - n)
           full(n) == word(n) \subseteq s.bits \/ Unset(s, word(n)) = {}
           V == [n \in 0 .. s.size |-> Found(s, ClearIn(s, n))]
           g == CHOOSE f : f = [n \in 0 .. s.size |->
                  IF n = 0 THEN [state |-> s, answer |-> 0]
                  ELSE IF full(n) THEN f[n - 1]
                  ELSE [state |-> ppa_lck([s EXCEPT !.last_hit = Min(Unset(s, word(n)))],
                                          Min(Unset(s, word(n)))),
                        answer |-> Min(Unset(s, word(n)))]]
<1>0. s.size \in Nat BY DEF State
<1>1. V[0] = [state |-> s, answer |-> 0]
  <2>1. ClearIn(s, 0) = {}
    <3> DEFINE hi == WordBits * s.size
    <3>1. hi \in Nat BY <1>0, SizeAssumption
    <3>2. s.size - 0 = s.size BY <1>0
    <3>3. ClearIn(s, 0) = Unset(s, hi .. (hi - 1)) BY <3>2 DEF ClearIn
    <3> HIDE DEF hi
    <3> QED BY <3>1, <3>3 DEF Unset
  <2>2. 0 \in 0 .. s.size BY <1>0
  <2> QED BY <2>1, <2>2 DEF Found
<1>2. ASSUME NEW n \in 1 .. s.size
      PROVE  V[n] = IF full(n) THEN V[n - 1]
                    ELSE [state |-> ppa_lck([s EXCEPT !.last_hit = Min(Unset(s, word(n)))],
                                            Min(Unset(s, word(n)))),
                          answer |-> Min(Unset(s, word(n)))]
  <2> DEFINE A == Unset(s, word(n))
             B == ClearIn(s, n - 1)
  <2>1. /\ A \in SUBSET Nat /\ B \in SUBSET Nat /\ ClearIn(s, n) = A \cup B
        /\ \A x \in A, y \in B : x <= y
    BY ClearOneMore
  <2>2. full(n) <=> A = {} BY DEF Unset, ppa_bitmap_get
  <2>3. n \in 0 .. s.size /\ n - 1 \in 0 .. s.size BY <1>0
  <2>4. V[n] = Found(s, A \cup B) /\ V[n - 1] = Found(s, B) BY <2>1, <2>3
  <2> HIDE DEF V, full
  <2>5. CASE A = {}
    <3>1. A \cup B = B BY <2>5
    <3> QED BY <2>2, <2>4, <2>5, <3>1
  <2>6. CASE A # {}
    <3>1. Min(A \cup B) = Min(A) BY <2>1, <2>6, MinOfFirst
    <3>2. A \cup B # {} BY <2>6
    <3>3. V[n] = [state |-> ppa_lck([s EXCEPT !.last_hit = Min(A)], Min(A)), answer |-> Min(A)]
      BY <2>4, <3>1, <3>2 DEF Found
    <3> QED BY <2>2, <2>6, <3>3
  <2> QED BY <2>5, <2>6
<1>3. V = [n \in 0 .. s.size |->
             IF n = 0 THEN [state |-> s, answer |-> 0]
             ELSE IF full(n) THEN V[n - 1]
             ELSE [state |-> ppa_lck([s EXCEPT !.last_hit = Min(Unset(s, word(n)))],
                                     Min(Unset(s, word(n)))),
                   answer |-> Min(Unset(s, word(n)))]]
  <2>1. V = [n \in 0 .. s.size |-> V[n]] OBVIOUS
  <2>2. \A n \in 0 .. s.size : n = 0 \/ n \in 1 .. s.size BY <1>0
  <2> HIDE DEF V, full, word
  <2> QED BY <1>1, <1>2, <2>1, <2>2
<1> HIDE DEF V
<1>4. g = [n \in 0 .. s.size |->
             IF n = 0 THEN [state |-> s, answer |-> 0]
             ELSE IF full(n) THEN g[n - 1]
             ELSE [state |-> ppa_lck([s EXCEPT !.last_hit = Min(Unset(s, word(n)))],
                                     Min(Unset(s, word(n)))),
                   answer |-> Min(Unset(s, word(n)))]]
  BY <1>3
<1> HIDE DEF g
<1> DEFINE n0 == IF w < s.size THEN s.size - w ELSE 0
<1>5. ScanFrom(s, w) = g[n0] BY DEF ScanFrom, g
<1>6. n0 \in 0 .. s.size /\ n0 \in Nat BY <1>0
<1> HIDE DEF n0, full, word
<1>7. g[0] = V[0] /\ \A n \in 1 .. n0 : g[n - 1] = V[n - 1] => g[n] = V[n]
  <2>1. 0 \in 0 .. s.size BY <1>0
  <2>2. g[0] = V[0] BY <1>1, <1>4, <2>1
  <2>3. ASSUME NEW n \in 1 .. n0, g[n - 1] = V[n - 1] PROVE g[n] = V[n]
    <3>1. n \in 1 .. s.size /\ n \in 0 .. s.size /\ n # 0 BY <1>0, <1>6
    <3> QED BY <1>2, <1>4, <2>3, <3>1
  <2> QED BY <2>2, <2>3
<1>8. g[n0] = V[n0] BY <1>6, <1>7, SameRun
<1> QED BY <1>5, <1>6, <1>8 DEF V, n0

\* The low pages make the modulus more than 1.
LEMMA ModIsMore == CounterMod \in Nat /\ 1 \in 1 .. (CounterMod - 1) /\ 1 \in 0 .. CounterMod
BY SizeAssumption

\* Locking one page is the block call for one page.
LEMMA LockAlone ==
  ASSUME NEW s \in State, NEW i \in Nat
  PROVE  ppa_lck(s, i) = ppa_lckn(s, i, 1)
<1>1. ppa_lck(ppa_lckn(s, i, 1 - 1), i + (1 - 1)) = ppa_lckn(s, i, 1)
  BY ModIsMore, TakeOneMore
<1>2. 1 - 1 = 0 /\ i + (1 - 1) = i OBVIOUS
<1>3. ppa_lckn(s, i, 0) = s BY TakeNone
<1> QED BY <1>1, <1>2, <1>3

\* Locking does not look at the hint.
LEMMA LockKeepsHint ==
  ASSUME NEW s \in State, NEW i \in Nat
  PROVE  ppa_lckn(Hinted(s, i), i, 1) = Hinted(ppa_lckn(s, i, 1), i)
<1> DEFINE h == Hinted(s, i)
           l == ppa_lckn(s, i, 1)
           new == Unset(s, Pages(i, 1))
<1>1. h \in State BY HintedAlike
<1>2. Unset(h, Pages(i, 1)) = new /\ Frames(h) = Frames(s)
  <2>1. h.bits = s.bits /\ h.max_index = s.max_index BY HintedAlike
  <2> HIDE DEF h
  <2> QED BY <2>1 DEF Unset, ppa_bitmap_get, Frames
<1> HIDE DEF new
<1>3. ppa_lckn(h, i, 1) = [h EXCEPT !.bits = @ \cup (new \cap Frames(s)),
                                   !.used = Add(@, Cardinality(new)),
                                   !.free = Sub(@, Cardinality(new))]
  BY <1>2 DEF ppa_lckn
<1>4. l = [s EXCEPT !.bits = @ \cup (new \cap Frames(s)),
                    !.used = Add(@, Cardinality(new)),
                    !.free = Sub(@, Cardinality(new))]
  BY DEF ppa_lckn, new
<1> QED BY <1>3, <1>4 DEF Hinted, State

\* The word scan from the hint's word is ppa_request.
LEMMA ScanIs ==
  ASSUME NEW s \in State, s.bits \subseteq Frames(s)
  PROVE  Scan(s) = [state |-> ppa_request(s), answer |-> RequestedFrame(s)]
<1> DEFINE w == s.last_hit \div WordBits
           n == IF w < s.size THEN s.size - w ELSE 0
           C == Candidates(s)
<1>1. w \in Nat /\ s.size \in Nat /\ s.last_hit \in Nat
  <2>1. s.size \in Nat /\ s.last_hit \in Nat BY DEF State
  <2> QED BY <2>1, SizeAssumption, WordDivision
<1>2. ClearIn(s, n) = C
  <2>1. C = Unset(s, (WordBits * w) .. (WordBits * s.size - 1)) BY DEF Candidates
  <2> HIDE DEF w, C
  <2>2. CASE w < s.size
    <3>1. s.size - n = w BY <1>1, <2>2
    <3> QED BY <2>1, <3>1 DEF ClearIn
  <2>3. CASE ~ (w < s.size)
    <3> DEFINE hi == WordBits * s.size
               lo == WordBits * w
    <3>1. hi \in Nat /\ lo \in Nat /\ hi <= lo
      <4> DEFINE e == w - s.size
      <4>1. e \in Nat /\ w = s.size + e BY <1>1, <2>3
      <4> HIDE DEF e
      <4>2. WordBits * e \in Nat /\ WordBits * (s.size + e) = WordBits * s.size + WordBits * e
        BY <1>1, <4>1, SizeAssumption
      <4>3. hi \in Nat BY <1>1, SizeAssumption
      <4>4. lo = hi + WordBits * e BY <4>1, <4>2
      <4> HIDE DEF hi, lo
      <4> QED BY <4>2, <4>3, <4>4
    <3>2. s.size - n = s.size BY <1>1, <2>3
    <3>3. ClearIn(s, n) = Unset(s, hi .. (hi - 1)) /\ C = Unset(s, lo .. (hi - 1))
      BY <2>1, <3>2 DEF ClearIn
    <3> HIDE DEF hi, lo
    <3> QED BY <3>1, <3>3 DEF Unset
  <2> QED BY <2>2, <2>3
<1>3. Scan(s) = Found(s, C) BY <1>1, <1>2, ScanFinds DEF Scan
<1>4. CASE C = {} BY <1>3, <1>4 DEF Found, ppa_request, RequestedFrame
<1>5. CASE C # {}
  <2> DEFINE f == Min(C)
  <2>1. C \in SUBSET Nat BY CandidatesType
  <2>2. f \in Nat BY <1>5, <2>1, MinExists
  <2>3. RequestedFrame(s) = f BY <1>5 DEF RequestedFrame
  <2>4. ppa_request(s) = Hinted(ppa_lckn(s, f, 1), f) BY <1>5, <2>3 DEF ppa_request, Hinted
  <2>5. Found(s, C) = [state |-> ppa_lck(Hinted(s, f), f), answer |-> f]
    BY <1>5 DEF Found, Hinted
  <2> HIDE DEF f, C
  <2>6. Hinted(s, f) \in State BY <2>2, HintedAlike
  <2>7. ppa_lck(Hinted(s, f), f) = ppa_lckn(Hinted(s, f), f, 1) BY <2>2, <2>6, LockAlone
  <2>8. ppa_lckn(Hinted(s, f), f, 1) = Hinted(ppa_lckn(s, f, 1), f) BY <2>2, LockKeepsHint
  <2> QED BY <1>3, <2>3, <2>4, <2>5, <2>7, <2>8
<1> QED BY <1>4, <1>5

-----------------------------------------------------------------------------
(* The two passes of ppa_init over the memory map.                         *)

\* What the first pass of ppa_init knows after the first k descriptors.
ConventionalTo(m, k) == ConventionalIn(m) \cap (1 .. k)

PagesTo(m, k) == Cardinality(UNION {{d} \X Pages(0, m[d].pages) : d \in 1 .. k})

LargestTo(m, k) ==
  {d \in ConventionalTo(m, k) :
     /\ m[d].pages > 0
     /\ \A e \in ConventionalTo(m, k) :
          m[e].pages < m[d].pages \/ (m[e].pages = m[d].pages /\ d <= e)}

SurveyState == [total : Nat, segment : Nat, size : Nat]

Surveyed(t, m, k) ==
  /\ t \in SurveyState
  /\ t.total = PagesTo(m, k)
  /\ t.size = 0 => t.segment = 0 /\ \A e \in ConventionalTo(m, k) : m[e].pages = 0
  /\ t.size # 0 => \E d \in LargestTo(m, k) : t.segment = m[d].start /\ t.size = m[d].pages

SurveyTurn(t, d) ==
  LET summed == [t EXCEPT !.total = @ + d.pages]
  IN  IF d.type = Conventional /\ d.pages > t.size
        THEN [summed EXCEPT !.segment = d.start, !.size = d.pages]
        ELSE summed

\* One turn of the first pass.
LEMMA SurveyTurnEffect ==
  ASSUME NEW t \in SurveyState, NEW d, d.pages \in Nat, d.start \in Nat
  PROVE  LET u == SurveyTurn(t, d)
         IN  /\ u.total = t.total + d.pages
             /\ d.type = Conventional /\ d.pages > t.size =>
                  u.segment = d.start /\ u.size = d.pages
             /\ ~ (d.type = Conventional /\ d.pages > t.size) =>
                  u.segment = t.segment /\ u.size = t.size
             /\ u \in SurveyState
<1> DEFINE summed == [t EXCEPT !.total = @ + d.pages]
           first  == [summed EXCEPT !.segment = d.start, !.size = d.pages]
<1>1. t.total + d.pages \in Nat BY DEF SurveyState
<1>2. /\ summed \in SurveyState /\ summed.total = t.total + d.pages
      /\ summed.segment = t.segment /\ summed.size = t.size
  BY <1>1 DEF SurveyState
<1> HIDE DEF summed
<1>3. /\ first \in SurveyState /\ first.total = summed.total
      /\ first.segment = d.start /\ first.size = d.pages
  BY <1>2 DEF SurveyState
<1>4. SurveyTurn(t, d) = IF d.type = Conventional /\ d.pages > t.size THEN first ELSE summed
  BY DEF SurveyTurn, summed
<1> HIDE DEF first
<1> QED BY <1>2, <1>3, <1>4

\* A descriptor adds its pages to the sum.
LEMMA PagesOneMore ==
  ASSUME NEW m, WalkedMap(m), NEW k \in 1 .. Len(m)
  PROVE  PagesTo(m, k) = PagesTo(m, k - 1) + m[k].pages /\ PagesTo(m, k - 1) \in Nat
<1> DEFINE pages(d) == {d} \X Pages(0, m[d].pages)
           A == UNION {pages(d) : d \in 1 .. (k - 1)}
           B == pages(k)
           C == UNION {pages(d) : d \in 1 .. k}
           all == UNION {pages(d) : d \in DOMAIN m}
<1>1. DOMAIN m = 1 .. Len(m) /\ Len(m) \in Nat /\ m[k].pages \in Nat BY MapTypes
<1>2. IsFiniteSet(all) BY MapFinite
<1>3. 1 .. k = (1 .. (k - 1)) \cup {k} /\ 1 .. k \subseteq DOMAIN m /\ k \notin 1 .. (k - 1)
  BY <1>1
<1>4. C = A \cup B BY <1>3
<1>5. A \cap B = {} BY <1>3
<1>6. IsFiniteSet(A) /\ IsFiniteSet(B)
  <2>1. A \in SUBSET all /\ B \in SUBSET all BY <1>3
  <2> HIDE DEF A, B, all
  <2> QED BY <1>2, <2>1, FS_Subset
<1>7. Cardinality(B) = m[k].pages
  <2>1. IsFiniteSet({k}) /\ Cardinality({k}) = 1 BY FS_Singleton
  <2>2. IsFiniteSet(Pages(0, m[k].pages)) /\ Cardinality(Pages(0, m[k].pages)) = m[k].pages
    BY <1>1, PagesFinite
  <2>3. Cardinality(B) = Cardinality({k}) * Cardinality(Pages(0, m[k].pages))
    BY <2>1, <2>2, FS_Product
  <2> QED BY <1>1, <2>1, <2>2, <2>3
<1> HIDE DEF A, B, C, all, pages
<1>8. Cardinality(A \cup B) = Cardinality(A) + Cardinality(B) - Cardinality(A \cap B)
  BY <1>6, FS_Union
<1>9. Cardinality(A) \in Nat /\ Cardinality({}) = 0 BY <1>6, FS_CardinalityType, FS_EmptySet
<1>10. Cardinality(C) = Cardinality(A) + m[k].pages
  <2>1. Cardinality(A \cap B) = 0 BY <1>5, <1>9
  <2>2. Cardinality(C) = Cardinality(A) + m[k].pages - 0 BY <1>4, <1>7, <1>8, <2>1
  <2> QED BY <1>1, <1>9, <2>2
<1>11. PagesTo(m, k) = Cardinality(C) /\ PagesTo(m, k - 1) = Cardinality(A)
  BY DEF PagesTo, A, C, pages
<1> QED BY <1>9, <1>10, <1>11

\* A descriptor is among the conventional ones when its type says so.
LEMMA ConventionalOneMore ==
  ASSUME NEW m, WalkedMap(m), NEW k \in 1 .. Len(m)
  PROVE  /\ m[k].type = Conventional =>
              ConventionalTo(m, k) = ConventionalTo(m, k - 1) \cup {k}
         /\ m[k].type # Conventional => ConventionalTo(m, k) = ConventionalTo(m, k - 1)
         /\ \A d \in ConventionalTo(m, k - 1) : d \in DOMAIN m /\ d \in Nat /\ d < k
         /\ k \in DOMAIN m /\ m[k].pages \in Nat /\ m[k].start \in Nat
<1>1. DOMAIN m = 1 .. Len(m) /\ Len(m) \in Nat BY MapTypes
<1>2. 1 .. k = (1 .. (k - 1)) \cup {k} /\ 1 .. k \subseteq DOMAIN m BY <1>1
<1>3. m[k].pages \in Nat /\ m[k].start \in Nat BY <1>2, MapTypes
<1> QED BY <1>1, <1>2, <1>3 DEF ConventionalTo, ConventionalIn

\* A turn of the first pass keeps the first of the largest segments.
LEMMA SurveyStep ==
  ASSUME NEW m, WalkedMap(m), NEW k \in 1 .. Len(m), NEW t, Surveyed(t, m, k - 1)
  PROVE  Surveyed(SurveyTurn(t, m[k]), m, k)
<1> DEFINE u == SurveyTurn(t, m[k])
           C == ConventionalTo(m, k - 1)
           D == ConventionalTo(m, k)
<1>1. PagesTo(m, k) = PagesTo(m, k - 1) + m[k].pages /\ PagesTo(m, k - 1) \in Nat
  BY PagesOneMore
<1>2. /\ m[k].type = Conventional => D = C \cup {k}
      /\ m[k].type # Conventional => D = C
      /\ \A d \in C : d \in DOMAIN m /\ d \in Nat /\ d < k
      /\ k \in DOMAIN m /\ m[k].pages \in Nat /\ m[k].start \in Nat
  BY ConventionalOneMore
<1>3. \A d \in DOMAIN m : m[d].pages \in Nat /\ m[d].start \in Nat BY MapTypes
<1>4. /\ t.total \in Nat /\ t.segment \in Nat /\ t.size \in Nat
      /\ t.total = PagesTo(m, k - 1)
      /\ t.size = 0 => t.segment = 0 /\ \A e \in C : m[e].pages = 0
      /\ t.size # 0 => \E d \in LargestTo(m, k - 1) : t.segment = m[d].start /\ t.size = m[d].pages
  BY DEF Surveyed, SurveyState
<1>5. /\ u.total = t.total + m[k].pages
      /\ m[k].type = Conventional /\ m[k].pages > t.size =>
           u.segment = m[k].start /\ u.size = m[k].pages
      /\ ~ (m[k].type = Conventional /\ m[k].pages > t.size) =>
           u.segment = t.segment /\ u.size = t.size
      /\ u \in SurveyState
  <2>1. t \in SurveyState BY DEF Surveyed
  <2>2. m[k].pages \in Nat /\ m[k].start \in Nat BY <1>2
  <2> QED BY <2>1, <2>2, SurveyTurnEffect
<1>6. u.total = PagesTo(m, k) BY <1>1, <1>4, <1>5
<1> HIDE DEF u, C, D
<1>7. CASE m[k].type = Conventional /\ m[k].pages > t.size
  <2>1. \A e \in C : m[e].pages <= t.size
    <3>1. CASE t.size = 0 BY <1>4, <3>1
    <3>2. CASE t.size # 0
      <4>1. PICK d \in LargestTo(m, k - 1) : t.size = m[d].pages BY <1>4, <3>2
      <4>2. \A e \in C : m[e].pages < m[d].pages \/ m[e].pages = m[d].pages
        BY DEF LargestTo, C
      <4> QED BY <1>2, <1>3, <1>4, <4>1, <4>2
    <3> QED BY <3>1, <3>2
  <2>2. D = C \cup {k} BY <1>2, <1>7
  <2>3. \A e \in D : m[e].pages < m[k].pages \/ (m[e].pages = m[k].pages /\ k <= e)
    <3> TAKE e \in D
    <3>1. CASE e \in C
      <4>1. m[e].pages \in Nat BY <1>2, <1>3, <3>1
      <4> QED BY <1>2, <1>4, <1>7, <2>1, <3>1, <4>1
    <3>2. CASE e = k BY <3>2
    <3> QED BY <2>2, <3>1, <3>2
  <2>4. m[k].pages > 0 BY <1>2, <1>4, <1>7
  <2>5. k \in LargestTo(m, k) BY <2>2, <2>3, <2>4 DEF LargestTo, D
  <2> QED BY <1>2, <1>5, <1>6, <1>7, <2>4, <2>5 DEF Surveyed, u
<1>8. CASE ~ (m[k].type = Conventional /\ m[k].pages > t.size)
  <2>1. u.segment = t.segment /\ u.size = t.size BY <1>5, <1>8
  <2>2. D = C \/ (D = C \cup {k} /\ m[k].pages <= t.size)
    BY <1>2, <1>4, <1>8
  <2>3. CASE t.size = 0
    <3>1. \A e \in D : m[e].pages = 0 BY <1>2, <1>4, <2>2, <2>3
    <3> QED BY <1>4, <1>5, <1>6, <2>1, <2>3, <3>1 DEF Surveyed, u, D
  <2>4. CASE t.size # 0
    <3>1. PICK d \in LargestTo(m, k - 1) : t.segment = m[d].start /\ t.size = m[d].pages
      BY <1>4, <2>4
    <3>2. /\ d \in C /\ m[d].pages > 0
          /\ \A e \in C : m[e].pages < m[d].pages \/ (m[e].pages = m[d].pages /\ d <= e)
      BY DEF LargestTo, C
    <3>3. \A e \in D : m[e].pages < m[d].pages \/ (m[e].pages = m[d].pages /\ d <= e)
      <4> TAKE e \in D
      <4>1. CASE e \in C BY <3>2, <4>1
      <4>2. CASE e = k /\ m[k].pages <= t.size
        <5>1. d < k /\ d \in Nat BY <1>2, <3>2
        <5> QED BY <1>2, <1>4, <3>1, <4>2, <5>1
      <4> QED BY <2>2, <4>1, <4>2
    <3>4. d \in LargestTo(m, k)
      <4>1. d \in D BY <2>2, <3>2
      <4> QED BY <3>2, <3>3, <4>1 DEF LargestTo, D
    <3> QED BY <1>5, <1>6, <2>1, <2>4, <3>1, <3>4 DEF Surveyed, u
  <2> QED BY <2>3, <2>4
<1> QED BY <1>7, <1>8

\* The first pass counts the pages and finds the largest segment.
LEMMA SurveyIs ==
  ASSUME NEW m, WalkedMap(m)
  PROVE  Survey(m).total = MapPages(m) /\ Survey(m).segment = largest_segment(m)
<1> DEFINE n == Len(m)
           s == [total |-> 0, segment |-> 0, size |-> 0]
           F == [p \in SurveyState \X Nat |->
                   IF p[2] < n THEN SurveyTurn(p[1], m[p[2] + 1]) ELSE p[1]]
           g == CHOOSE f : f = [k \in 0 .. n |->
                  IF k = 0 THEN s ELSE SurveyTurn(f[k - 1], m[(k - 1) + 1])]
           T == {k \in 0 .. n : Surveyed(g[k], m, k)}
<1>0. n \in Nat /\ DOMAIN m = 1 .. n BY MapTypes
<1>1. s \in SurveyState BY DEF SurveyState
<1>2. \A t \in SurveyState, k \in Nat :
        /\ F[<<t, k>>] = IF k < n THEN SurveyTurn(t, m[k + 1]) ELSE t
        /\ F[<<t, k>>] \in SurveyState
  <2> TAKE t \in SurveyState, k \in Nat
  <2>1. F[<<t, k>>] = IF k < n THEN SurveyTurn(t, m[k + 1]) ELSE t OBVIOUS
  <2>2. CASE k < n
    <3>1. m[k + 1].pages \in Nat /\ m[k + 1].start \in Nat
      <4>1. k + 1 \in DOMAIN m BY <1>0, <2>2
      <4> QED BY <4>1, MapTypes
    <3>2. SurveyTurn(t, m[k + 1]) \in SurveyState BY <3>1, SurveyTurnEffect
    <3> QED BY <2>1, <2>2, <3>2
  <2> QED BY <2>1, <2>2
<1>3. F \in [SurveyState \X Nat -> SurveyState]
  <2>1. \A p \in SurveyState \X Nat : F[p] \in SurveyState
    <3> TAKE p \in SurveyState \X Nat
    <3>1. p = <<p[1], p[2]>> /\ p[1] \in SurveyState /\ p[2] \in Nat OBVIOUS
    <3> HIDE DEF F
    <3> QED BY <1>2, <3>1
  <2>2. F = [p \in SurveyState \X Nat |-> F[p]] OBVIOUS
  <2> HIDE DEF F
  <2> QED BY <2>1, <2>2
<1> HIDE DEF F, s
<1>4. PICK f \in [0 .. n -> SurveyState] : RunOf(f, s, n, F)
  BY <1>0, <1>1, <1>3, LoopRuns DEF HasRun
<1> HIDE DEF n
<1>5. f = [k \in 0 .. n |-> IF k = 0 THEN s ELSE SurveyTurn(f[k - 1], m[(k - 1) + 1])]
  <2>1. \A k \in 0 .. n : f[k] = IF k = 0 THEN s ELSE SurveyTurn(f[k - 1], m[(k - 1) + 1])
    <3> TAKE k \in 0 .. n
    <3>1. CASE k = 0 BY <1>4, <3>1 DEF RunOf
    <3>2. CASE k # 0
      <4>1. k \in 1 .. n /\ k - 1 \in Nat /\ k - 1 < n /\ k - 1 \in 0 .. n BY <1>0, <3>2
      <4>2. f[k] = F[<<f[k - 1], k - 1>>] BY <1>4, <4>1 DEF RunOf
      <4>3. f[k - 1] \in SurveyState BY <1>4, <4>1
      <4> QED BY <1>2, <3>2, <4>1, <4>2, <4>3
    <3> QED BY <3>1, <3>2
  <2> QED BY <1>4, <2>1
<1>6. g = [k \in 0 .. n |-> IF k = 0 THEN s ELSE SurveyTurn(g[k - 1], m[(k - 1) + 1])]
  BY <1>5
<1> HIDE DEF g
<1>7. 0 \in T
  <2>1. 0 \in 0 .. n BY <1>0
  <2>2. g[0] = s BY <1>6, <2>1
  <2>3. PagesTo(m, 0) = 0
    <3>1. UNION {{d} \X Pages(0, m[d].pages) : d \in 1 .. 0} = {} OBVIOUS
    <3> QED BY <3>1, FS_EmptySet DEF PagesTo
  <2>4. ConventionalTo(m, 0) = {} BY DEF ConventionalTo
  <2>5. s.total = 0 /\ s.segment = 0 /\ s.size = 0 BY DEF s
  <2>6. Surveyed(s, m, 0) BY <1>1, <2>3, <2>4, <2>5 DEF Surveyed
  <2> QED BY <2>1, <2>2, <2>6
<1>8. ASSUME NEW k \in 1 .. n, k - 1 \in T PROVE k \in T
  <2>1. k \in 0 .. n /\ k # 0 /\ (k - 1) + 1 = k BY <1>0
  <2>2. g[k] = SurveyTurn(g[k - 1], m[k]) BY <1>6, <2>1
  <2>3. Surveyed(g[k - 1], m, k - 1) BY <1>8
  <2>4. Surveyed(g[k], m, k) BY <2>2, <2>3, SurveyStep DEF n
  <2> QED BY <2>1, <2>4
<1> HIDE DEF T
<1>9. n \in T
  <2>1. n \in 0 .. n BY <1>0
  <2> QED BY <1>0, <1>7, <1>8, <2>1, EveryTurn
<1>10. Survey(m) = g[n] BY DEF Survey, Loop, g, s, n, SurveyTurn
<1>11. Surveyed(Survey(m), m, n) BY <1>9, <1>10 DEF T
<1>12. PagesTo(m, n) = MapPages(m) BY <1>0 DEF PagesTo, MapPages
<1>13. ConventionalTo(m, n) = ConventionalIn(m)
  BY <1>0 DEF ConventionalTo, ConventionalIn
<1>14. LargestTo(m, n) = Largest(m) BY <1>13 DEF LargestTo, Largest
<1> HIDE DEF n
<1> DEFINE v == Survey(m)
<1> HIDE DEF v
<1>15. /\ v.total = MapPages(m) /\ v.size \in Nat
       /\ v.size = 0 => v.segment = 0 /\ \A e \in ConventionalIn(m) : m[e].pages = 0
       /\ v.size # 0 => \E d \in Largest(m) : v.segment = m[d].start
  BY <1>11, <1>12, <1>13, <1>14 DEF Surveyed, SurveyState, v
<1>16. v.segment = largest_segment(m)
  <2>1. CASE v.size = 0
    <3>1. Largest(m) = {} BY <1>15, <2>1 DEF Largest
    <3> QED BY <1>15, <2>1, <3>1 DEF largest_segment
  <2>2. CASE v.size # 0
    <3>1. PICK d \in Largest(m) : v.segment = m[d].start BY <1>15, <2>2
    <3>2. \A e \in Largest(m) : e = d
      <4> TAKE e \in Largest(m)
      <4>1. /\ d \in ConventionalIn(m) /\ e \in ConventionalIn(m)
            /\ m[e].pages < m[d].pages \/ (m[e].pages = m[d].pages /\ d <= e)
            /\ m[d].pages < m[e].pages \/ (m[d].pages = m[e].pages /\ e <= d)
        BY DEF Largest
      <4>2. d \in Nat /\ e \in Nat /\ m[d].pages \in Nat /\ m[e].pages \in Nat
        BY <1>0, <4>1, MapTypes DEF ConventionalIn
      <4> QED BY <4>1, <4>2
    <3>3. (CHOOSE e \in Largest(m) : TRUE) = d BY <3>2
    <3> QED BY <3>1, <3>3 DEF largest_segment
  <2> QED BY <2>1, <2>2
<1> QED BY <1>15, <1>16 DEF v

\* The frames the release loop of ppa_init has visited after k descriptors.
ReleasedTo(m, k, wraps) ==
  UNION {Visited(m[d].start, m[d].pages, wraps) : d \in ConventionalTo(m, k)}

\* The globals then.
ReleasedState(s, m, k, wraps) ==
  IF ConventionalTo(m, k) = {} THEN s
  ELSE ppa_ursvn(s, ReleasedTo(m, k, wraps), m[Max(ConventionalTo(m, k))].start)

\* The last descriptor so far is the greatest index.
LEMMA MaxOfLast ==
  ASSUME NEW k \in Nat, NEW C, \A d \in C : d \in Nat /\ d < k
  PROVE  Max(C \cup {k}) = k
<1>1. k \in C \cup {k} /\ \A y \in C \cup {k} : k >= y OBVIOUS
<1>2. \A x \in C \cup {k} : (\A y \in C \cup {k} : x >= y) => x = k OBVIOUS
<1> QED BY <1>1, <1>2 DEF Max

\* A release leaves the hint it is given.
LEMMA HintedAgain ==
  ASSUME NEW s \in State, NEW R, NEW h \in Nat
  PROVE  Hinted(ppa_ursvn(s, R, h), h) = ppa_ursvn(s, R, h)
BY DEF Hinted, ppa_ursvn, State

\* A turn of the second pass.
LEMMA ReleaseDescriptor ==
  ASSUME NEW s \in State, NEW m, WalkedMap(m), NEW k \in 1 .. Len(m), NEW wraps \in BOOLEAN
  PROVE  /\ ReleasedState(s, m, k - 1, wraps) \in State
         /\ ReleasedState(s, m, k, wraps) =
              IF m[k].type = Conventional
                THEN UnreserveLoop(ReleasedState(s, m, k - 1, wraps), m[k].start, m[k].pages, wraps)
                ELSE ReleasedState(s, m, k - 1, wraps)
<1> DEFINE C == ConventionalTo(m, k - 1)
           D == ConventionalTo(m, k)
           t == ReleasedState(s, m, k - 1, wraps)
           R == ReleasedTo(m, k - 1, wraps)
           Q == Visited(m[k].start, m[k].pages, wraps)
           h == m[Max(C)].start
<1>1. /\ m[k].type = Conventional => D = C \cup {k}
      /\ m[k].type # Conventional => D = C
      /\ \A d \in C : d \in DOMAIN m /\ d \in Nat /\ d < k
      /\ k \in DOMAIN m /\ m[k].pages \in Nat /\ m[k].start \in Nat
  BY ConventionalOneMore
<1>2. C # {} => h \in Nat /\ t = ppa_ursvn(s, R, h)
  <2> SUFFICES ASSUME C # {} PROVE h \in Nat /\ t = ppa_ursvn(s, R, h)
    OBVIOUS
  <2>1. Len(m) \in Nat /\ C \in SUBSET (1 .. Len(m))
    BY MapTypes DEF ConventionalTo
  <2>2. Max(C) \in C BY <2>1, MaxExists
  <2>3. Max(C) \in DOMAIN m BY <1>1, <2>2
  <2>4. h \in Nat BY <2>3, MapTypes
  <2> QED BY <2>4 DEF ReleasedState
<1>3. C = {} => t = s BY DEF ReleasedState
<1>4. t \in State
  <2>1. CASE C = {} BY <1>3, <2>1
  <2>2. CASE C # {}
    <3>1. h \in Nat /\ t = ppa_ursvn(s, R, h) BY <1>2, <2>2
    <3> HIDE DEF t, h, R
    <3> QED BY <3>1, ReleaseState
  <2> QED BY <2>1, <2>2
<1>5. CASE m[k].type # Conventional
  <2>1. D = C BY <1>1, <1>5
  <2>2. ReleasedState(s, m, k, wraps) = t BY <2>1 DEF ReleasedState, ReleasedTo
  <2> QED BY <1>4, <1>5, <2>2
<1>6. CASE m[k].type = Conventional
  <2>1. D = C \cup {k} /\ D # {} BY <1>1, <1>6
  <2>2. Max(D) = k
    <3>1. k \in Nat BY <1>1
    <3> QED BY <1>1, <2>1, <3>1, MaxOfLast
  <2>3. ReleasedTo(m, k, wraps) = R \cup Q BY <2>1 DEF ReleasedTo
  <2>4. ReleasedState(s, m, k, wraps) = ppa_ursvn(s, R \cup Q, m[k].start)
    BY <2>1, <2>2, <2>3 DEF ReleasedState
  <2>5. UnreserveLoop(t, m[k].start, m[k].pages, wraps) = ppa_ursvn(t, Q, m[k].start)
    BY <1>1, <1>4, UnreserveLoopIs
  <2>6. ppa_ursvn(t, Q, m[k].start) = ppa_ursvn(s, R \cup Q, m[k].start)
    <3>1. CASE C = {}
      <4>1. R = {} BY <3>1 DEF ReleasedTo
      <4>2. R \cup Q = Q BY <4>1
      <4> QED BY <1>3, <3>1, <4>2
    <3>2. CASE C # {}
      <4>1. h \in Nat /\ t = ppa_ursvn(s, R, h) BY <1>2, <3>2
      <4>2. Hinted(t, h) = ppa_ursvn(s, R, h)
        <5> HIDE DEF t, h, R
        <5> QED BY <4>1, HintedAgain
      <4> DEFINE next == m[k].start
      <4>3. next \in Nat BY <1>1
      <4> HIDE DEF t, h, R, Q, next
      <4>4. ppa_ursvn(t, Q, next) = ppa_ursvn(s, R \cup Q, next)
        BY <1>4, <4>1, <4>2, <4>3, ReleaseOn
      <4> QED BY <4>4 DEF next
    <3> QED BY <3>1, <3>2
  <2> QED BY <1>4, <1>6, <2>4, <2>5, <2>6
<1> QED BY <1>5, <1>6

\* The second pass of ppa_init releases what Released says, in the end with
\* the hint of the last conventional descriptor.
LEMMA ReleaseLoopIs ==
  ASSUME NEW s \in State, NEW m, WalkedMap(m), NEW wraps \in BOOLEAN
  PROVE  ReleaseLoop(s, m, wraps) =
           IF ConventionalIn(m) = {} THEN s
           ELSE ppa_ursvn(s, Released(m, wraps), m[LastConventional(m)].start)
<1> DEFINE n == Len(m)
           turn(t, d) == IF d.type = Conventional
                           THEN UnreserveLoop(t, d.start, d.pages, wraps) ELSE t
           V == [k \in 0 .. n |-> ReleasedState(s, m, k, wraps)]
           g == CHOOSE f : f = [k \in 0 .. n |->
                                  IF k = 0 THEN s ELSE turn(f[k - 1], m[(k - 1) + 1])]
<1>0. n \in Nat /\ DOMAIN m = 1 .. n BY MapTypes
<1>1. V[0] = s /\ \A k \in 1 .. n : V[k] = turn(V[k - 1], m[(k - 1) + 1])
  <2>1. V[0] = s
    <3>1. ConventionalTo(m, 0) = {} BY DEF ConventionalTo
    <3>2. 0 \in 0 .. n BY <1>0
    <3> QED BY <3>1, <3>2 DEF ReleasedState
  <2>2. ASSUME NEW k \in 1 .. n PROVE V[k] = turn(V[k - 1], m[(k - 1) + 1])
    <3>1. k \in 0 .. n /\ k - 1 \in 0 .. n /\ (k - 1) + 1 = k BY <1>0
    <3>2. V[k] = ReleasedState(s, m, k, wraps) /\ V[k - 1] = ReleasedState(s, m, k - 1, wraps)
      BY <3>1
    <3>3. ReleasedState(s, m, k, wraps) = turn(ReleasedState(s, m, k - 1, wraps), m[k])
      BY ReleaseDescriptor
    <3> HIDE DEF V, turn
    <3> QED BY <3>1, <3>2, <3>3
  <2> QED BY <2>1, <2>2
<1>2. V = [k \in 0 .. n |-> IF k = 0 THEN s ELSE turn(V[k - 1], m[(k - 1) + 1])]
  <2>1. V = [k \in 0 .. n |-> V[k]] OBVIOUS
  <2>2. \A k \in 0 .. n : k = 0 \/ k \in 1 .. n BY <1>0
  <2> HIDE DEF V, turn
  <2> QED BY <1>1, <2>1, <2>2
<1> HIDE DEF V
<1>3. g = [k \in 0 .. n |-> IF k = 0 THEN s ELSE turn(g[k - 1], m[(k - 1) + 1])]
  BY <1>2
<1>4. ReleaseLoop(s, m, wraps) = g[n] BY DEF ReleaseLoop, Loop
<1> HIDE DEF g, turn
<1>5. g[0] = V[0] /\ \A k \in 1 .. n : g[k - 1] = V[k - 1] => g[k] = V[k]
  <2>1. 0 \in 0 .. n /\ \A k \in 1 .. n : k \in 0 .. n /\ k # 0 BY <1>0
  <2>2. g[0] = s BY <1>3, <2>1
  <2>3. \A k \in 1 .. n : g[k] = turn(g[k - 1], m[(k - 1) + 1]) BY <1>3, <2>1
  <2> QED BY <1>1, <2>2, <2>3
<1>6. g[n] = V[n]
  <2> HIDE DEF n
  <2> QED BY <1>0, <1>5, SameRun
<1>7. ConventionalTo(m, n) = ConventionalIn(m)
  BY <1>0 DEF ConventionalTo, ConventionalIn
<1>8. V[n] = ReleasedState(s, m, n, wraps)
  <2>1. n \in 0 .. n BY <1>0
  <2> HIDE DEF n
  <2> QED BY <2>1 DEF V
<1>9. ReleasedTo(m, n, wraps) = Released(m, wraps) BY <1>7 DEF ReleasedTo, Released
<1> HIDE DEF n
<1> QED BY <1>4, <1>6, <1>7, <1>8, <1>9 DEF ReleasedState, LastConventional

\* Reserving and releasing leave the bitmap where it is.
LEMMA BitmapStays ==
  ASSUME NEW s \in State, NEW a, NEW n, NEW R, NEW h
  PROVE  /\ ppa_rsvn(s, a, n).size = s.size /\ ppa_rsvn(s, a, n).data = s.data
         /\ ppa_ursvn(s, R, h).size = s.size /\ ppa_ursvn(s, R, h).data = s.data
BY DEF ppa_rsvn, ppa_ursvn, State

\* ppa_init, run descriptor by descriptor and page by page.
LEMMA InitLoopsIs ==
  ASSUME NEW s \in State, NEW m, WalkedMap(m), NEW wraps \in BOOLEAN
  PROVE  ppa_init(s, m, wraps) = InitLoops(s, m, wraps)
<1> DEFINE T      == MapPages(m)
           a      == largest_segment(m)
           c      == Counted(s, m)
           blank  == ppa_init_bitmap(c, a, T)
           all    == ppa_rsvn(blank, 0, T)
           hint   == m[LastConventional(m)].start
           usable == ppa_ursvn(all, Released(m, wraps), hint)
           low    == ppa_rsvn(usable, 0, LowPages)
           n      == bitmap_pages(low)
<1>1. Survey(m).total = T /\ Survey(m).segment = a BY SurveyIs
<1>2. [s EXCEPT !.used = 0, !.rsvd = 0, !.free = Survey(m).total, !.total = Survey(m).total] = c
  BY <1>1 DEF Counted
<1>3. CASE s.initialized BY <1>3 DEF ppa_init, InitLoops
<1>4. CASE ~ s.initialized /\ a = 0
  BY <1>1, <1>2, <1>4 DEF ppa_init, InitLoops
<1>5. CASE ~ s.initialized /\ a # 0
  <2>1. /\ T \in Nat /\ T > 0 /\ T < CounterMod /\ T \in Counter /\ a \in Nat /\ hint \in Nat
        /\ ConventionalIn(m) # {}
    BY <1>5, SegmentFound, MapPagesType, SizeAssumption DEF Counter
  <2>2. blank \in State /\ blank.size = T \div WordBits + 1 /\ blank.data = a
    <3>1. T \div WordBits + 1 \in Nat
      <4> HIDE DEF T
      <4>1. T \div WordBits \in Nat BY <2>1, SizeAssumption, WordDivision
      <4> QED BY <4>1
    <3>2. 0 \in Counter /\ T - 1 \in Counter BY <2>1, SizeAssumption DEF Counter
    <3>3. c = [s EXCEPT !.used = 0, !.rsvd = 0, !.free = T, !.total = T] BY DEF Counted
    <3> HIDE DEF T, a
    <3>4. c \in State BY <2>1, <3>2, <3>3 DEF State
    <3> HIDE DEF c
    <3> QED BY <2>1, <3>1, <3>2, <3>4 DEF ppa_init_bitmap, State
  <2> HIDE DEF T, a, c, blank, hint
  <2>3. ReserveLoop(blank, 0, T) = all /\ all \in State
        /\ all.size = blank.size /\ all.data = blank.data
    <3>1. T \in 0 .. (CounterMod - 1) /\ T \in 0 .. CounterMod /\ 0 \in Nat
      BY <2>1, SizeAssumption
    <3>2. ReserveLoop(blank, 0, T) = ppa_rsvn(blank, 0, T) BY <2>2, <3>1, ReserveLoopIs
    <3>3. ppa_rsvn(blank, 0, T) \in State BY <2>2, <3>1, TakeState
    <3>4. /\ ppa_rsvn(blank, 0, T).size = blank.size
          /\ ppa_rsvn(blank, 0, T).data = blank.data
      BY <2>2, BitmapStays
    <3> QED BY <3>2, <3>3, <3>4
  <2> HIDE DEF all
  <2>4. ReleaseLoop(all, m, wraps) = usable BY <2>1, <2>3, ReleaseLoopIs DEF hint
  <2>5. usable \in State /\ usable.size = all.size /\ usable.data = all.data
    BY <2>1, <2>3, ReleaseState, BitmapStays
  <2> HIDE DEF usable
  <2>6. ReserveLoop(usable, 0, LowPages) = low /\ low \in State
        /\ low.size = usable.size /\ low.data = usable.data
    <3>1. LowPages \in 0 .. (CounterMod - 1) /\ LowPages \in 0 .. CounterMod /\ 0 \in Nat
      BY SizeAssumption
    <3>2. ReserveLoop(usable, 0, LowPages) = ppa_rsvn(usable, 0, LowPages)
      BY <2>5, <3>1, ReserveLoopIs
    <3>3. ppa_rsvn(usable, 0, LowPages) \in State BY <2>5, <3>1, TakeState
    <3>4. /\ ppa_rsvn(usable, 0, LowPages).size = usable.size
          /\ ppa_rsvn(usable, 0, LowPages).data = usable.data
      BY <2>5, BitmapStays
    <3> QED BY <3>2, <3>3, <3>4
  <2> HIDE DEF low
  <2>7. LockLoop(low, low.data, n) = ppa_lckn(low, low.data, n)
    <3>1. low.size = T \div WordBits + 1 BY <2>2, <2>3, <2>5, <2>6
    <3>2. n \in Nat /\ n < CounterMod BY <2>1, <3>1, BitmapSize
    <3>3. n \in 0 .. (CounterMod - 1) BY <3>2, SizeAssumption
    <3>4. low.data \in Nat BY <2>1, <2>2, <2>3, <2>5, <2>6
    <3> HIDE DEF n
    <3> QED BY <2>6, <3>3, <3>4, LockLoopIs
  <2>8. ppa_init(s, m, wraps) = [ppa_lckn(low, low.data, n) EXCEPT !.initialized = TRUE]
    BY <1>5 DEF ppa_init, BeforeBitmapLock, low, usable, all, blank, T, a, c, hint
  <2>9. InitLoops(s, m, wraps) = [LockLoop(low, low.data, n) EXCEPT !.initialized = TRUE]
    <3>1. ~ s.initialized /\ Survey(m).segment # 0 BY <1>1, <1>5 DEF a
    <3>2. ppa_init_bitmap(c, Survey(m).segment, Survey(m).total) = blank
      BY <1>1 DEF blank, T, a
    <3>3. ReserveLoop(ReleaseLoop(ReserveLoop(blank, 0, Survey(m).total), m, wraps), 0, LowPages)
            = low
      BY <1>1, <2>3, <2>4, <2>6 DEF T
    <3> QED BY <1>2, <3>1, <3>2, <3>3 DEF InitLoops, c
  <2> QED BY <2>7, <2>8, <2>9
<1> QED BY <1>3, <1>4, <1>5

-----------------------------------------------------------------------------
(* The calls are the loops the code runs.                                  *)

\* At any time, before ppa_init and when it finds no segment too, the bits that
\* are set are bits of frames that ppa_bitmap_set accepts.
BitsInMemory == ppa.bits \subseteq Memory

LEMMA BitsInit == Init => BitsInMemory
BY DEF Init, BitsInMemory, Memory, Frames

LEMMA BitsStep == IInv /\ IInv' /\ BitsInMemory /\ [Next]_vars => BitsInMemory'
<1> SUFFICES ASSUME IInv, IInv', BitsInMemory, [Next]_vars
             PROVE  BitsInMemory'
  OBVIOUS
<1>1. ppa \in State BY DEF IInv, TypeOK
<1>2. ASSUME ppa'.bits \subseteq ppa.bits \cup Frames(ppa), ppa'.max_index = ppa.max_index
      PROVE  BitsInMemory'
  BY <1>2 DEF BitsInMemory, Memory, Frames
<1>3. ASSUME NEW m \in MemoryMaps, NEW wraps \in BOOLEAN, Boot(m, wraps) \/ BootAgain(m, wraps)
      PROVE  BitsInMemory'
  <2>1. ppa' = ppa_init(ppa, m, wraps) BY <1>3 DEF Boot, BootAgain
  <2>2. CASE ppa'.initialized BY <2>2 DEF IInv, Sound, Covering, BitsInMemory, Memory
  <2>3. CASE ~ ppa'.initialized
    <3>1. ppa.initialized \/ largest_segment(m) = 0
      <4> SUFFICES ASSUME ~ ppa.initialized, largest_segment(m) # 0 PROVE FALSE
        OBVIOUS
      <4>1. WalkedMap(m) BY MapsWalked
      <4>2. ppa_init(ppa, m, wraps).initialized BY <1>1, <4>1, InitBits
      <4> QED BY <2>1, <2>3, <4>2
    <3>2. ppa' = ppa \/ ppa' = Counted(ppa, m) BY <2>1, <3>1 DEF ppa_init
    <3>3. ppa'.bits = ppa.bits /\ ppa'.max_index = ppa.max_index
      BY <1>1, <3>2 DEF Counted, State
    <3> QED BY <1>2, <3>3
  <2> QED BY <2>2, <2>3
<1>4. ASSUME NEW c \in CallRanges, Call(c[1], c[2])
      PROVE  BitsInMemory'
  <2> DEFINE a == c[1]
             n == c[2]
  <2>1. \/ ppa' = ppa_lckn(ppa, a, n) \/ ppa' = ppa_rsvn(ppa, a, n)
        \/ ppa' = ppa_ulckn(ppa, Pages(a, n), a) \/ ppa' = ppa_ursvn(ppa, Pages(a, n), a)
    BY <1>4 DEF Call, Lock, Reserve, Unlock, Unreserve
  <2> HIDE DEF a, n
  <2>2. ppa'.bits \subseteq ppa.bits \cup Frames(ppa) /\ ppa'.max_index = ppa.max_index
    BY <1>1, <2>1 DEF ppa_lckn, ppa_rsvn, ppa_ulckn, ppa_ursvn, State
  <2> QED BY <1>2, <2>2
<1>5. ASSUME Request
      PROVE  BitsInMemory'
  <2>1. ppa' = ppa_request(ppa) BY <1>5 DEF Request
  <2>2. CASE Candidates(ppa) = {}
    <3>1. ppa' = ppa BY <2>1, <2>2 DEF ppa_request
    <3> QED BY <1>2, <3>1
  <2>3. CASE Candidates(ppa) # {}
    <3> DEFINE f == RequestedFrame(ppa)
    <3>1. ppa' = [ppa_lckn(ppa, f, 1) EXCEPT !.last_hit = f]
      BY <2>1, <2>3 DEF ppa_request
    <3> HIDE DEF f
    <3>2. ppa'.bits \subseteq ppa.bits \cup Frames(ppa) /\ ppa'.max_index = ppa.max_index
      BY <1>1, <3>1 DEF ppa_lckn, State
    <3> QED BY <1>2, <3>2
  <2> QED BY <2>2, <2>3
<1>6. ASSUME UNCHANGED vars
      PROVE  BitsInMemory'
  BY <1>2, <1>6 DEF vars
<1> QED
  BY <1>3, <1>4, <1>5, <1>6 DEF Next

LEMMA CallsAreLoops == IInv /\ BitsInMemory => CallsMatchLoops
<1> SUFFICES ASSUME IInv, BitsInMemory
             PROVE  CallsMatchLoops
  OBVIOUS
<1>1. ppa \in State /\ ppa.bits \subseteq Frames(ppa)
  BY DEF IInv, TypeOK, BitsInMemory, Memory
<1>2. \A m \in MemoryMaps, wraps \in BOOLEAN : ppa_init(ppa, m, wraps) = InitLoops(ppa, m, wraps)
  <2> TAKE m \in MemoryMaps, wraps \in BOOLEAN
  <2>1. WalkedMap(m) BY MapsWalked
  <2> QED BY <1>1, <2>1, InitLoopsIs
<1>3. Scan(ppa) = [state |-> ppa_request(ppa), answer |-> RequestedFrame(ppa)]
  BY <1>1, ScanIs
<1>4. ASSUME NEW c \in CallRanges
      PROVE  /\ ppa_lckn(ppa, c[1], c[2]) = LockLoop(ppa, c[1], c[2])
             /\ ppa_rsvn(ppa, c[1], c[2]) = ReserveLoop(ppa, c[1], c[2])
             /\ \A wraps \in BOOLEAN :
                  LET visited == Visited(c[1], c[2], wraps)
                  IN  /\ ppa_ulckn(ppa, visited, c[1]) = UnlockLoop(ppa, c[1], c[2], wraps)
                      /\ ppa_ursvn(ppa, visited, c[1]) = UnreserveLoop(ppa, c[1], c[2], wraps)
  <2> DEFINE a == c[1]
             n == c[2]
  <2>1. a \in Nat /\ n \in Nat /\ n < CounterMod BY CallAssumption
  <2> HIDE DEF a, n
  <2>2. n \in 0 .. (CounterMod - 1) BY <2>1, SizeAssumption
  <2>3. ppa_lckn(ppa, a, n) = LockLoop(ppa, a, n) BY <1>1, <2>1, <2>2, LockLoopIs
  <2>4. ppa_rsvn(ppa, a, n) = ReserveLoop(ppa, a, n) BY <1>1, <2>1, <2>2, ReserveLoopIs
  <2>5. \A wraps \in BOOLEAN :
          ppa_ulckn(ppa, Visited(a, n, wraps), a) = UnlockLoop(ppa, a, n, wraps)
    BY <1>1, <2>1, UnlockLoopIs
  <2>6. \A wraps \in BOOLEAN :
          ppa_ursvn(ppa, Visited(a, n, wraps), a) = UnreserveLoop(ppa, a, n, wraps)
    BY <1>1, <2>1, UnreserveLoopIs
  <2> QED BY <2>3, <2>4, <2>5, <2>6 DEF a, n
<1> QED
  BY <1>2, <1>3, <1>4 DEF CallsMatchLoops

\* In every state the allocator can reach, every call of page_frames.c, run one
\* page, word and descriptor at a time, does what the set operations say.
THEOREM LoopsMatch == Spec => []CallsMatchLoops
<1>1. Init => IInv /\ BitsInMemory
  BY InvInit, BitsInit
<1>2. IInv /\ BitsInMemory /\ [Next]_vars => (IInv /\ BitsInMemory)'
  BY InvStep, BitsStep
<1>3. Spec => [](IInv /\ BitsInMemory)
  BY <1>1, <1>2, PTL DEF Spec
<1> QED
  BY <1>3, CallsAreLoops, PTL

=============================================================================
