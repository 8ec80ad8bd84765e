------------------------------ MODULE PageLoops ------------------------------
(***************************************************************************)
(* The loops of page_frames.c as the code runs them: one page, one         *)
(* descriptor, one bitmap word at a time.  PageFrames states the same      *)
(* calls as set operations, which shorten the proofs; here the two are     *)
(* compared in every state the allocator reaches.                          *)
(***************************************************************************)
EXTENDS PageAllocator

\* A loop: Step(t, k) for k = 0 .. n - 1, from state s.
Loop(s, n, Step(_, _)) ==
  LET after[k \in 0 .. n] == IF k = 0 THEN s ELSE Step(after[k - 1], k - 1)
  IN  after[n]

\* ppa_bitmap_set refuses an index beyond max_index.
ppa_bitmap_set(s, i) == [s EXCEPT !.bits = @ \cup ({i} \cap Frames(s))]

ppa_bitmap_clear(s, i) == [s EXCEPT !.bits = @ \ ({i} \cap Frames(s))]

ppa_lck(s, i) ==
  IF ppa_bitmap_get(s, i) THEN s
  ELSE [ppa_bitmap_set(s, i) EXCEPT !.used = Add(@, 1), !.free = Sub(@, 1)]

ppa_rsv(s, i) ==
  IF ppa_bitmap_get(s, i) THEN s
  ELSE [ppa_bitmap_set(s, i) EXCEPT !.rsvd = Add(@, 1), !.free = Sub(@, 1)]

ppa_ulck(s, i) ==
  IF ~ ppa_bitmap_get(s, i) THEN s
  ELSE [ppa_bitmap_clear(s, i) EXCEPT
          !.used = Sub(@, 1), !.free = Add(@, 1), !.last_hit = i]

ppa_ursv(s, i) ==
  IF ~ ppa_bitmap_get(s, i) THEN s
  ELSE [ppa_bitmap_clear(s, i) EXCEPT
          !.rsvd = Sub(@, 1), !.free = Add(@, 1), !.last_hit = i]

\* 4096 * i in an int: from IntSpan pages on it may come back negative.
Offset(i, wraps) ==
  LET low == i % (2 * IntSpan)
  IN  IF ~ wraps THEN i ELSE IF low < IntSpan THEN low ELSE low - 2 * IntSpan

LockLoop(s, a, n) == Loop(s, n, LAMBDA t, k : ppa_lck(t, a + k))

ReserveLoop(s, a, n) == Loop(s, n, LAMBDA t, k : ppa_rsv(t, a + k))

UnlockLoop(s, a, n, wraps) ==
  [Loop(s, n, LAMBDA t, k : ppa_ulck(t, a + Offset(k, wraps))) EXCEPT !.last_hit = a]

UnreserveLoop(s, a, n, wraps) ==
  [Loop(s, n, LAMBDA t, k : ppa_ursv(t, a + Offset(k, wraps))) EXCEPT !.last_hit = a]

-----------------------------------------------------------------------------
\* The first pass of ppa_init: the sum of the sizes and the largest segment.
Survey(m) ==
  Loop([total |-> 0, segment |-> 0, size |-> 0], Len(m),
       LAMBDA t, k :
         LET d == m[k + 1]
             summed == [t EXCEPT !.total = @ + d.pages]
         IN  IF d.type = Conventional /\ d.pages > t.size
               THEN [summed EXCEPT !.segment = d.start, !.size = d.pages]
               ELSE summed)

\* The second pass: the conventional descriptors are released in their order.
ReleaseLoop(s, m, wraps) ==
  Loop(s, Len(m),
       LAMBDA t, k :
         LET d == m[k + 1]
         IN  IF d.type = Conventional THEN UnreserveLoop(t, d.start, d.pages, wraps)
             ELSE t)

InitLoops(s, m, wraps) ==
  LET survey == Survey(m)
      zeroed == [s EXCEPT !.used = 0, !.rsvd = 0,
                          !.free = survey.total, !.total = survey.total]
      blank  == ppa_init_bitmap(zeroed, survey.segment, survey.total)
      usable == ReleaseLoop(ReserveLoop(blank, 0, survey.total), m, wraps)
      low    == ReserveLoop(usable, 0, LowPages)
  IN  IF s.initialized THEN s
      ELSE IF survey.segment = 0 THEN zeroed
      ELSE [LockLoop(low, low.data, bitmap_pages(low)) EXCEPT !.initialized = TRUE]

-----------------------------------------------------------------------------
\* A mutation: the last bit of a word is not looked at.
WordIndices_short(w) == (w * WordBits) .. (w * WordBits + WordBits - 2)

\* ppa_request: the first word with a zero bit, and the first index of that
\* word for which ppa_bitmap_get answers 0.
WordIndices(w) == (w * WordBits) .. (w * WordBits + WordBits - 1)

\* scan[n] is what the search finds in the last n words.
ScanFrom(s, w) ==
  LET scan[n \in 0 .. s.size] ==
        LET indices == WordIndices(s.size - n)
            index   == Min(Unset(s, indices))
        IN  IF n = 0 THEN [state |-> s, answer |-> 0]
            ELSE IF indices \subseteq s.bits \/ Unset(s, indices) = {} THEN scan[n - 1]
            ELSE [state |-> ppa_lck([s EXCEPT !.last_hit = index], index), answer |-> index]
  IN  scan[IF w < s.size THEN s.size - w ELSE 0]

Scan(s) == ScanFrom(s, s.last_hit \div WordBits)

-----------------------------------------------------------------------------
(***************************************************************************)
(* The block calls, which visit the pages one by one, do what the set      *)
(* operations of PageFrames say: also over taken pages, pages outside      *)
(* memory and, for releases, more pages than the int offset can count.     *)
(* The word scan of ppa_request finds the least clear index from the       *)
(* hint's word, and the two passes of ppa_init over the descriptors, in    *)
(* their order, give the bitmap, counters and hint of PageFrames.          *)
(***************************************************************************)
CallsMatchLoops ==
  /\ \A m \in MemoryMaps, wraps \in BOOLEAN : ppa_init(ppa, m, wraps) = InitLoops(ppa, m, wraps)
  /\ Scan(ppa) = [state |-> ppa_request(ppa), answer |-> RequestedFrame(ppa)]
  /\ \A c \in CallRanges :
       /\ ppa_lckn(ppa, c[1], c[2]) = LockLoop(ppa, c[1], c[2])
       /\ ppa_rsvn(ppa, c[1], c[2]) = ReserveLoop(ppa, c[1], c[2])
       /\ \A wraps \in BOOLEAN :
            LET visited == Visited(c[1], c[2], wraps)
            IN  /\ ppa_ulckn(ppa, visited, c[1]) = UnlockLoop(ppa, c[1], c[2], wraps)
                /\ ppa_ursvn(ppa, visited, c[1]) = UnreserveLoop(ppa, c[1], c[2], wraps)

=============================================================================
