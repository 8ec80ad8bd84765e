------------------------- MODULE KernelMemoryProofs -------------------------
(***************************************************************************)
(* The kernel's memory set-up, for every memory map, image, frame buffer   *)
(* and size of tables: what it asks the allocator for is apart from what   *)
(* it has, and its tables map memory and the frame buffer to themselves.   *)
(***************************************************************************)
EXTENDS KernelMemory, PageMapProofs

-----------------------------------------------------------------------------
(* Page numbers.                                                           *)

LEMMA ProductOrder ==
  ASSUME NEW d \in Nat, NEW x \in Nat, NEW y \in Nat, x <= y
  PROVE  d * x \in Nat /\ d * y \in Nat /\ d * x <= d * y
<1>1. PICK k \in Nat : y = x + k
  <2>1. y - x \in Nat /\ y = x + (y - x) OBVIOUS
  <2> QED BY <2>1
<1>2. d * k \in Nat /\ d * y = d * x + d * k BY <1>1
<1> QED BY <1>2

LEMMA Division ==
  ASSUME NEW a \in Nat, NEW d \in Nat \ {0}
  PROVE  /\ a \div d \in Nat /\ a % d \in 0 .. (d - 1)
         /\ d * (a \div d) \in Nat /\ a = d * (a \div d) + (a % d)
<1>1. a \div d \in Nat OBVIOUS
<1>2. a % d \in 0 .. (d - 1) OBVIOUS
<1>3. d * (a \div d) \in Nat BY <1>1
<1>4. a - d * (a \div d) = a % d BY Z3
<1> QED BY <1>1, <1>2, <1>3, <1>4

LEMMA QuotientUnique ==
  ASSUME NEW d \in Nat \ {0}, NEW q \in Nat, NEW r \in 0 .. (d - 1),
         NEW p \in Nat, NEW s \in 0 .. (d - 1), d * q + r = d * p + s
  PROVE  q = p /\ r = s
<1>1. ASSUME NEW x \in Nat, NEW y \in Nat, NEW m \in 0 .. (d - 1), NEW n \in 0 .. (d - 1),
             d * x + m = d * y + n, x < y
      PROVE  FALSE
  <2>1. x + 1 \in Nat /\ x + 1 <= y BY <1>1
  <2>2. d * (x + 1) <= d * y BY <2>1, ProductOrder
  <2>3. d * (x + 1) = d * x + d OBVIOUS
  <2>4. d * x \in Nat /\ d * y \in Nat OBVIOUS
  <2> QED BY <1>1, <2>2, <2>3, <2>4
<1>2. q = p
  <2>1. ~ (q < p) /\ ~ (p < q) BY <1>1
  <2> QED BY <2>1
<1> QED BY <1>2

\* Dividing twice.
LEMMA DivisionTwice ==
  ASSUME NEW a \in Nat, NEW d \in Nat \ {0}, NEW e \in Nat \ {0}
  PROVE  a \div (d * e) = (a \div d) \div e
<1> DEFINE q == a \div d
           r == a % d
           p == q \div e
           s == q % e
           D == d * e
<1>1. q \in Nat /\ r \in 0 .. (d - 1) /\ a = d * q + r BY Division
<1>2. p \in Nat /\ s \in 0 .. (e - 1) /\ q = e * p + s BY <1>1, Division
<1>3. D \in Nat \ {0} OBVIOUS
<1>4. a \div D \in Nat /\ a % D \in 0 .. (D - 1) /\ a = D * (a \div D) + (a % D)
  BY <1>3, Division
<1> HIDE DEF q, r, p, s, D
<1>5. a = D * p + (d * s + r)
  <2>1. d * q = d * (e * p) + d * s BY <1>1, <1>2
  <2>2. D * p = d * (e * p) BY <1>2 DEF D
  <2>3. d * q \in Nat /\ d * (e * p) \in Nat /\ d * s \in Nat BY <1>1, <1>2
  <2> QED BY <1>1, <2>1, <2>2, <2>3
<1>6. d * s + r \in 0 .. (D - 1)
  <2>1. d * s \in Nat /\ d * s <= d * (e - 1) BY <1>2, ProductOrder
  <2>2. d * (e - 1) = D - d BY DEF D
  <2> QED BY <1>1, <1>3, <2>1, <2>2
<1>7. a \div D = p BY <1>2, <1>3, <1>4, <1>5, <1>6, QuotientUnique
<1> QED BY <1>7 DEF D, p, q

LEMMA DivisionLess ==
  ASSUME NEW a \in Nat, NEW d \in Nat \ {0}, NEW e \in Nat, a < d * e
  PROVE  a \div d < e
<1>1. a \div d \in Nat /\ d * (a \div d) \in Nat /\ d * (a \div d) <= a BY Division
<1>2. SUFFICES ASSUME e <= a \div d PROVE FALSE BY <1>1
<1>3. d * e \in Nat /\ d * e <= d * (a \div d) BY <1>1, <1>2, ProductOrder
<1> QED BY <1>1, <1>3

AddressLimit == Fanout * (Fanout * (Fanout * Fanout))

\* A page number is its digits.
LEMMA Digits ==
  ASSUME NEW a \in Nat, a < AddressLimit
  PROVE  LET a1 == a \div Fanout
             a2 == a1 \div Fanout
             a3 == a2 \div Fanout
         IN  /\ PageOf(a) \in Page
             /\ PageOf(a) = <<a3, a2 % Fanout, a1 % Fanout, a % Fanout>>
             /\ a = Fanout * a1 + (a % Fanout) /\ a1 = Fanout * a2 + (a1 % Fanout)
             /\ a2 = Fanout * a3 + (a2 % Fanout)
<1> DEFINE F  == Fanout
           a1 == a \div F
           a2 == a1 \div F
           a3 == a2 \div F
<1>1. F \in Nat \ {0} /\ F * F \in Nat \ {0} /\ F * (F * F) \in Nat
      /\ F * F * F = F * (F * F)
  BY FanoutAssumption
<1>2. a1 \in Nat /\ a % F \in Index /\ a = F * a1 + (a % F) BY <1>1, Division DEF Index
<1>3. a2 \in Nat /\ a1 % F \in Index /\ a1 = F * a2 + (a1 % F) BY <1>1, <1>2, Division DEF Index
<1>4. a3 \in Nat /\ a2 % F \in Index /\ a2 = F * a3 + (a2 % F) BY <1>1, <1>3, Division DEF Index
<1>5. a1 < F * (F * F) BY <1>1, DivisionLess DEF AddressLimit
<1>6. a2 < F * F BY <1>1, <1>2, <1>5, DivisionLess
<1>7. a3 < F BY <1>1, <1>3, <1>6, DivisionLess
<1>8. a \div (F * F) = a2 BY <1>1, DivisionTwice
<1>9. a \div (F * F * F) = a3
  <2>1. a \div ((F * F) * F) = (a \div (F * F)) \div F BY <1>1, DivisionTwice
  <2> QED BY <1>8, <2>1
<1>10. a3 % F = a3
  <2>1. a3 \div F \in Nat /\ a3 % F \in 0 .. (F - 1) /\ a3 = F * (a3 \div F) + (a3 % F)
    BY <1>1, <1>4, Division
  <2>2. a3 = F * 0 + a3 /\ a3 \in 0 .. (F - 1) BY <1>1, <1>4, <1>7
  <2> HIDE DEF a3, F
  <2> QED BY <1>1, <2>1, <2>2, QuotientUnique
<1>11. PageOf(a) = <<a3, a2 % F, a1 % F, a % F>>
  BY <1>8, <1>9, <1>10 DEF PageOf
<1>12. a3 \in Index BY <1>1, <1>4, <1>7 DEF Index
<1> HIDE DEF a1, a2, a3
<1>13. PageOf(a) \in Page BY <1>2, <1>3, <1>4, <1>11, <1>12 DEF Page
<1> QED BY <1>2, <1>3, <1>4, <1>11, <1>13 DEF a1, a2, a3

\* No two addresses have the same page number.
LEMMA PageOfInjective ==
  ASSUME NEW a \in Nat, a < AddressLimit, NEW b \in Nat, b < AddressLimit, PageOf(a) = PageOf(b)
  PROVE  a = b
<1> DEFINE a1 == a \div Fanout
           a2 == a1 \div Fanout
           a3 == a2 \div Fanout
           b1 == b \div Fanout
           b2 == b1 \div Fanout
           b3 == b2 \div Fanout
<1>1. PageOf(a) = <<a3, a2 % Fanout, a1 % Fanout, a % Fanout>> BY Digits
<1>2. PageOf(b) = <<b3, b2 % Fanout, b1 % Fanout, b % Fanout>> BY Digits
<1>3. /\ a = Fanout * a1 + (a % Fanout) /\ a1 = Fanout * a2 + (a1 % Fanout)
      /\ a2 = Fanout * a3 + (a2 % Fanout)
  BY Digits
<1>4. /\ b = Fanout * b1 + (b % Fanout) /\ b1 = Fanout * b2 + (b1 % Fanout)
      /\ b2 = Fanout * b3 + (b2 % Fanout)
  BY Digits
<1> HIDE DEF a1, a2, a3, b1, b2, b3
<1>5. a3 = b3 /\ a2 % Fanout = b2 % Fanout /\ a1 % Fanout = b1 % Fanout /\ a % Fanout = b % Fanout
  <2>1. ASSUME NEW w, NEW x, NEW y, NEW z, NEW p, NEW q, NEW r, NEW s,
               <<w, x, y, z>> = <<p, q, r, s>>
        PROVE  w = p /\ x = q /\ y = r /\ z = s
    BY <2>1
  <2>2. <<a3, a2 % Fanout, a1 % Fanout, a % Fanout>> = <<b3, b2 % Fanout, b1 % Fanout, b % Fanout>>
    BY <1>1, <1>2
  <2> QED BY <2>1, <2>2
<1>6. a2 = b2 BY <1>3, <1>4, <1>5
<1>7. a1 = b1 BY <1>3, <1>4, <1>5, <1>6
<1> QED BY <1>3, <1>4, <1>5, <1>7

-----------------------------------------------------------------------------
(* The allocator between ppa_init and the root table.                      *)

\* Without a root there are no tables to keep apart from anything.
LEMMA NoRootKept ==
  ASSUME NEW s, SoundBitmap(s), NEW M \in [Frames(s) -> Table], NEW H, H \cap Frames(s) \subseteq s.bits
  PROVE  Kept(s, M, FALSE, {}, H)
<1> DEFINE K == [k \in 1 .. 4 |-> {}]
           w == [ppa |-> s, mem |-> M, lost |-> FALSE, at |-> 0]
<1>1. Walking(w) /\ w.ppa = s /\ w.mem = M /\ w.lost = FALSE BY DEF Walking
<1>2. Tree(M, K) /\ \A k \in 1 .. 4 : K[k] = {} BY NoTree
<1> HIDE DEF K, w
<1>3. Sound(w, K, H) BY <1>1, <1>2 DEF Sound
<1>4. Kept(w.ppa, w.mem, w.lost, {}, H) BY <1>2, <1>3, Settled
<1> QED BY <1>1, <1>4

\* ppa_lckn of the image and of the frame buffer adds them to what is kept off.
LEMMA LockKept ==
  ASSUME NEW s, NEW M, NEW H, Kept(s, M, FALSE, {}, H), NEW a \in Nat, NEW n \in 0 .. CounterMod
  PROVE  LET t == ppa_lckn(s, a, n)
         IN  Kept(t, M, FALSE, {}, H \cup Pages(a, n)) /\ SameHeader(t, s)
<1> DEFINE t == ppa_lckn(s, a, n)
<1>1. SoundBitmap(s) /\ M \in [Frames(s) -> Table] /\ H \cap Frames(s) \subseteq s.bits
  BY KeptFacts
<1>2. /\ SoundBitmap(t) /\ SameHeader(t, s)
      /\ t.bits = s.bits \cup (Pages(a, n) \cap Frames(s))
  BY <1>1, LockBits
<1>3. Frames(t) = Frames(s) BY <1>2, SameFixed
<1> HIDE DEF t
<1>4. (H \cup Pages(a, n)) \cap Frames(t) \subseteq t.bits BY <1>1, <1>2, <1>3
<1>5. Kept(t, M, FALSE, {}, H \cup Pages(a, n)) BY <1>1, <1>2, <1>3, <1>4, NoRootKept
<1> QED BY <1>2, <1>5 DEF t

\* An allocator without a bitmap, which has no frame to give.
Bitless(s) == s \in State /\ s.size = 0 /\ s.last_hit = 0

LEMMA BitlessAnswers ==
  ASSUME NEW s, Bitless(s)
  PROVE  RequestedFrame(s) \notin Usable(s) /\ ppa_request(s) = s
<1>1. (WordBits * (s.last_hit \div WordBits)) .. (WordBits * s.size - 1) = {}
  <2>1. 0 \div WordBits = 0 /\ WordBits * 0 = 0 /\ WordBits * 0 - 1 = -1 BY SizeAssumption
  <2> QED BY <2>1 DEF Bitless
<1>2. Candidates(s) = {} BY <1>1 DEF Candidates, Unset
<1> QED BY <1>2 DEF RequestedFrame, Usable, ppa_request

LEMMA BitlessLocks ==
  ASSUME NEW s, Bitless(s), NEW a \in Nat, NEW n \in 0 .. CounterMod
  PROVE  Bitless(ppa_lckn(s, a, n))
<1>1. ppa_lckn(s, a, n) \in State BY TakeState DEF Bitless
<1>2. ppa_lckn(s, a, n).size = s.size /\ ppa_lckn(s, a, n).last_hit = s.last_hit
  BY TakeEffect DEF Bitless
<1> QED BY <1>1, <1>2 DEF Bitless

\* ppa_init finds a segment for the bitmap, or leaves the allocator without one.
LEMMA InitAnswer ==
  ASSUME NEW s, Bitless(s), NEW m, WalkedMap(m), MapPages(m) <= AddressLimit, NEW wraps
  PROVE  LET t == ppa_init(s, m, wraps)
         IN  \/ Bitless(t)
             \/ /\ SoundBitmap(t) /\ t.initialized
                /\ t.total = t.max_index + 1 /\ t.total <= AddressLimit
                /\ bitmap_pages(t) \in Nat /\ bitmap_pages(t) <= MapPages(m)
                /\ largest_segment(m) # 0 /\ t.data = largest_segment(m)
                /\ Frames(t) \ t.bits \subseteq Released(m, wraps)
<1>1. s \in State /\ MapPages(m) \in Counter BY MapPagesType DEF Bitless
<1>2. CASE s.initialized
  <2>1. ppa_init(s, m, wraps) = s BY <1>2 DEF ppa_init
  <2> QED BY <2>1
<1>3. CASE ~ s.initialized /\ largest_segment(m) = 0
  <2>1. ppa_init(s, m, wraps) = Counted(s, m) BY <1>3 DEF ppa_init
  <2>2. /\ Counted(s, m) \in State
        /\ Counted(s, m).size = s.size /\ Counted(s, m).last_hit = s.last_hit
    <3>1. 0 \in Counter BY SizeAssumption DEF Counter
    <3> QED BY <1>1, <3>1 DEF Counted, State
  <2> QED BY <2>1, <2>2 DEF Bitless
<1>4. CASE ~ s.initialized /\ largest_segment(m) # 0
  <2> DEFINE t == ppa_init(s, m, wraps)
  <2>1. /\ SoundBitmap(t) /\ t.initialized
        /\ t.max_index = MapPages(m) - 1 /\ t.total = MapPages(m)
        /\ bitmap_pages(t) \in Nat /\ bitmap_pages(t) <= MapPages(m)
        /\ t.data = largest_segment(m) /\ Frames(t) \ t.bits \subseteq Released(m, wraps)
    BY <1>1, <1>4, InitBits
  <2> HIDE DEF t
  <2>2. t.total = t.max_index + 1 BY <1>1, <2>1 DEF Counter
  <2> QED BY <1>4, <2>1, <2>2 DEF t
<1> QED BY <1>2, <1>3, <1>4

-----------------------------------------------------------------------------
(***************************************************************************)
(* The inductive invariant.  As long as no request has failed, either      *)
(* there is no bitmap and nothing has been asked for, or each step up to   *)
(* pc has been taken: what is locked is taken and apart from the tables    *)
(* and the others, and the tables map exactly the addresses gone through.  *)
(***************************************************************************)
Address == 0 .. (AddressLimit - 1)

\* The tables at R map the addresses S to themselves, and no others.
Maps(M, R, S) == \A a \in Address : Found(M, R, PageOf(a)) = IF a \in S THEN {a} ELSE {}

FbEnd(b) == b[1] + (b[2] + 1 + b[3])

\* What is mapped in the end, but for the test page.
InUse(s, b) == Frames(s) \cup (b[1] .. (FbEnd(b) - 1))

\* What the tables and the others keep off.
Apart(s, b) == Fixed(s) \cup KernelImage \cup Pages(b[1], b[2] + 1)

Untouched == PML4 = {} /\ others = {} /\ cr3 = {} /\ addr = 0

Bare ==
  /\ pc \in {"ppa_init", "lock_kernel", "lock_fb", "pml4"}
  /\ Untouched /\ Bitless(ppa)

Locking ==
  /\ Untouched
  /\ \/ pc = "lock_kernel" /\ Kept(ppa, mem, FALSE, {}, Fixed(ppa))
     \/ pc = "lock_fb" /\ Kept(ppa, mem, FALSE, {}, Fixed(ppa) \cup KernelImage)

Ready ==
  /\ Kept(ppa, mem, lost, PML4, others \cup Apart(ppa, fb))
  /\ others \cap Apart(ppa, fb) = {}

Progress ==
  \/ pc = "pml4" /\ Untouched
  \/ /\ pc = "identity" /\ cr3 = {} /\ addr \in 0 .. ppa.total
     /\ Maps(mem, PML4, 0 .. (addr - 1))
  \/ /\ pc = "map_fb" /\ cr3 = {} /\ addr \in fb[1] .. FbEnd(fb)
     /\ Maps(mem, PML4, Frames(ppa) \cup (fb[1] .. (addr - 1)))
  \/ /\ pc \in {"init_idt", "test"} /\ cr3 = PML4
     /\ Maps(mem, PML4, InUse(ppa, fb))
  \/ /\ pc = "done" /\ cr3 = PML4
     /\ Found(mem, PML4, PageOf(TestPage)) = {TestFrame}
     /\ \A a \in Address \ {TestPage} :
          Found(mem, PML4, PageOf(a)) = IF a \in InUse(ppa, fb) THEN {a} ELSE {}

Sized ==
  ppa.initialized /\ ppa.total = ppa.max_index + 1 /\ ppa.total <= AddressLimit

SetUp == Sized /\ (Locking \/ (Ready /\ Progress))

BootInv ==
  /\ lost \in BOOLEAN /\ fb \in FrameBuffers
  /\ ~ lost => Bare \/ SetUp

LEMMA LimitType == AddressLimit \in Nat
<1>1. Fanout \in Nat BY FanoutAssumption
<1>2. Fanout * Fanout \in Nat BY <1>1
<1>3. Fanout * (Fanout * Fanout) \in Nat BY <1>1, <1>2
<1> QED BY <1>1, <1>3 DEF AddressLimit

LEMMA FrameBufferFacts ==
  ASSUME NEW b \in FrameBuffers
  PROVE  /\ b[1] \in Nat /\ b[2] + 1 \in 0 .. CounterMod /\ b[2] + 1 + b[3] \in Nat
         /\ FbEnd(b) \in Nat /\ b[1] <= FbEnd(b) /\ FbEnd(b) <= AddressLimit
<1>1. b \in Nat \X Nat \X {0, 1} /\ b[2] + 1 < CounterMod
  <2>1. \A f \in FrameBuffers : f[2] + 1 < CounterMod BY KernelAssumption
  <2>2. FrameBuffers \subseteq Nat \X Nat \X {0, 1} BY KernelAssumption
  <2> QED BY <2>1, <2>2
<1>2. b[1] \in Nat /\ b[2] \in Nat /\ b[3] \in {0, 1} BY <1>1
<1>3. b[1] + b[2] + 1 + b[3] <= AddressLimit BY AddressAssumption DEF AddressLimit
<1>4. AddressLimit \in Nat BY LimitType
<1> QED BY <1>1, <1>2, <1>3, <1>4, SizeAssumption DEF FbEnd

\* Mapping one address leaves the others as they were.
LEMMA MapAddress ==
  ASSUME NEW H, Kept(ppa, mem, lost, PML4, H), NEW b \in Address, NEW p \in Nat,
         Map(PageOf(b), p), ~ lost'
  PROVE  /\ Kept(ppa', mem', lost', PML4', H) /\ SameHeader(ppa', ppa)
         /\ Found(mem', PML4', PageOf(b)) = {p}
         /\ \A a \in Address \ {b} :
              Found(mem', PML4', PageOf(a)) = Found(mem, PML4, PageOf(a))
<1>1. \A a \in Address : a \in Nat /\ a < AddressLimit BY LimitType DEF Address
<1>2. \A a \in Address : PageOf(a) \in Page BY <1>1, Digits
<1>3. \A a \in Address : PageOf(a) = PageOf(b) => a = b BY <1>1, PageOfInjective
<1>4. /\ Kept(ppa', mem', lost', PML4', H) /\ SameHeader(ppa', ppa)
      /\ Found(mem', PML4', PageOf(b)) = {p}
      /\ \A u \in Page : u # PageOf(b) => Found(mem', PML4', u) = Found(mem, PML4, u)
  BY <1>2, MapStep
<1> QED BY <1>2, <1>3, <1>4

-----------------------------------------------------------------------------
(* The steps.                                                              *)

LEMMA InitBootInv == BootInit => BootInv
<1> SUFFICES ASSUME BootInit PROVE BootInv OBVIOUS
<1>1. Bitless(ppa) BY UnbootedState DEF BootInit, Bitless, Unbooted
<1> QED BY <1>1 DEF BootInit, BootInv, Bare, Untouched

LEMMA StepInitAllocator ==
  ASSUME BootInv, NEW m, WalkedMap(m), MapPages(m) <= AddressLimit, NEW wraps,
         InitAllocator(m, wraps)
  PROVE  BootInv'
<1>1. /\ pc = "ppa_init" /\ ~ lost /\ lost' = lost /\ fb' = fb /\ pc' = "lock_kernel"
      /\ UNCHANGED <<PML4, others, cr3, addr>>
      /\ ppa' = ppa_init(ppa, m, wraps) /\ mem' = [f \in Frames(ppa') |-> Junk]
  BY DEF InitAllocator, At
<1>2. Bitless(ppa) /\ Untouched /\ lost = FALSE
  BY <1>1 DEF BootInv, Bare, SetUp, Locking, Progress
<1>3. CASE Bitless(ppa')
  <2>1. Bare' BY <1>1, <1>2, <1>3 DEF Bare, Untouched, Bitless
  <2> QED BY <1>1, <2>1 DEF BootInv
<1>4. CASE /\ SoundBitmap(ppa') /\ ppa'.initialized
           /\ ppa'.total = ppa'.max_index + 1 /\ ppa'.total <= AddressLimit
  <2>1. mem' \in [Frames(ppa') -> Table]
    <3>1. Junk \in Table BY DEF Junk, Table, Entry
    <3> QED BY <1>1, <3>1
  <2>2. Fixed(ppa') \cap Frames(ppa') \subseteq ppa'.bits BY <1>4 DEF SoundBitmap
  <2>3. Kept(ppa', mem', FALSE, {}, Fixed(ppa')) BY <1>4, <2>1, <2>2, NoRootKept
  <2>4. Fixed(ppa)' = Fixed(ppa') BY DEF Fixed, bitmap_pages
  <2>5. Locking' BY <1>1, <1>2, <2>3, <2>4 DEF Locking, Untouched
  <2>6. SetUp' BY <1>4, <2>5 DEF SetUp, Sized
  <2> QED BY <1>1, <2>6 DEF BootInv
<1> QED BY <1>1, <1>2, <1>3, <1>4, InitAnswer

LEMMA StepLockKernel ==
  ASSUME BootInv, LockKernel
  PROVE  BootInv'
<1>1. /\ pc = "lock_kernel" /\ ~ lost /\ lost' = lost /\ fb' = fb /\ pc' = "lock_fb"
      /\ UNCHANGED <<mem, PML4, others, cr3, addr>>
      /\ ppa' = ppa_lckn(ppa, 0, KernelPages)
  BY DEF LockKernel, At
<1>2. 0 \in Nat /\ KernelPages \in 0 .. CounterMod BY KernelAssumption, SizeAssumption
<1>3. CASE Bare
  <2>1. Bitless(ppa') BY <1>1, <1>2, <1>3, BitlessLocks DEF Bare
  <2>2. Bare' BY <1>1, <1>3, <2>1 DEF Bare, Untouched, Bitless
  <2> QED BY <1>1, <2>2 DEF BootInv
<1>4. CASE SetUp
  <2>1. Sized /\ Untouched /\ Kept(ppa, mem, FALSE, {}, Fixed(ppa))
    BY <1>1, <1>4 DEF SetUp, Locking, Progress
  <2>2. Kept(ppa', mem, FALSE, {}, Fixed(ppa) \cup KernelImage) /\ SameHeader(ppa', ppa)
    BY <1>1, <1>2, <2>1, LockKept DEF KernelImage
  <2>3. Fixed(ppa') = Fixed(ppa) /\ Fixed(ppa)' = Fixed(ppa')
    BY <2>2, SameFixed DEF Fixed, bitmap_pages
  <2>4. Locking' BY <1>1, <2>1, <2>2, <2>3 DEF Locking, Untouched
  <2>5. SetUp' BY <2>1, <2>2, <2>4 DEF SetUp, Sized, SameHeader
  <2> QED BY <1>1, <2>5 DEF BootInv
<1> QED BY <1>1, <1>3, <1>4 DEF BootInv

LEMMA StepLockFrameBuffer ==
  ASSUME BootInv, LockFrameBuffer
  PROVE  BootInv'
<1>1. /\ pc = "lock_fb" /\ ~ lost /\ lost' = lost /\ fb' = fb /\ pc' = "pml4"
      /\ UNCHANGED <<mem, PML4, others, cr3, addr>>
      /\ ppa' = ppa_lckn(ppa, fb[1], fb[2] + 1)
  BY DEF LockFrameBuffer, At, fbsize_div
<1>2. fb[1] \in Nat /\ fb[2] + 1 \in 0 .. CounterMod BY FrameBufferFacts DEF BootInv
<1>3. CASE Bare
  <2>1. Bitless(ppa') BY <1>1, <1>2, <1>3, BitlessLocks DEF Bare
  <2>2. Bare' BY <1>1, <1>3, <2>1 DEF Bare, Untouched, Bitless
  <2> QED BY <1>1, <2>2 DEF BootInv
<1>4. CASE SetUp
  <2>1. Sized /\ Untouched /\ Kept(ppa, mem, FALSE, {}, Fixed(ppa) \cup KernelImage)
    BY <1>1, <1>4 DEF SetUp, Locking, Progress
  <2>2. Kept(ppa', mem, FALSE, {}, Apart(ppa, fb)) /\ SameHeader(ppa', ppa)
    BY <1>1, <1>2, <2>1, LockKept DEF Apart
  <2>3. Apart(ppa', fb') = Apart(ppa, fb) BY <1>1, <2>2, SameFixed DEF Apart
  <2>4. Apart(ppa, fb)' = Apart(ppa', fb')
    BY DEF Apart, Fixed, bitmap_pages
  <2>5. others' \cup Apart(ppa', fb') = Apart(ppa, fb) /\ others' = {} /\ lost' = FALSE /\ PML4' = {}
    BY <1>1, <2>1, <2>3 DEF Untouched, BootInv
  <2>6. Ready' BY <1>1, <2>2, <2>4, <2>5 DEF Ready
  <2>7. Progress' BY <1>1, <2>1 DEF Progress, Untouched
  <2>8. SetUp' BY <2>1, <2>2, <2>6, <2>7 DEF SetUp, Sized, SameHeader
  <2> QED BY <1>1, <2>8 DEF BootInv
<1> QED BY <1>1, <1>3, <1>4 DEF BootInv

\* What a later step must keep.
LEMMA StillReady ==
  ASSUME lost' \in BOOLEAN, fb' \in FrameBuffers,
         ~ lost' => /\ Sized /\ fb' = fb /\ SameHeader(ppa', ppa)
                    /\ Kept(ppa', mem', lost', PML4', others' \cup Apart(ppa, fb))
                    /\ others' \cap Apart(ppa, fb) = {}
                    /\ Progress'
  PROVE  BootInv'
<1> SUFFICES ASSUME ~ lost' PROVE SetUp' BY DEF BootInv
<1>1. Apart(ppa', fb') = Apart(ppa, fb) BY SameFixed DEF Apart
<1>2. Apart(ppa, fb)' = Apart(ppa', fb') BY DEF Apart, Fixed, bitmap_pages
<1>3. Kept(ppa', mem', lost', PML4', others' \cup Apart(ppa', fb')) BY <1>1
<1>4. Kept(ppa, mem, lost, PML4, others \cup Apart(ppa, fb))' BY <1>2, <1>3
<1>5. Ready' BY <1>1, <1>2, <1>4 DEF Ready
<1>6. Sized' BY DEF Sized, SameHeader
<1> QED BY <1>5, <1>6 DEF SetUp

\* What an action finds when it comes to its label.
LEMMA Working ==
  ASSUME BootInv, ~ lost, pc \notin {"ppa_init", "lock_kernel", "lock_fb", "pml4"}
  PROVE  /\ Sized /\ Ready /\ Progress
         /\ fb \in FrameBuffers /\ lost = FALSE
         /\ ppa.total \in Nat /\ ppa.max_index \in Nat
<1>1. Sized /\ Ready /\ Progress /\ fb \in FrameBuffers /\ lost = FALSE
  BY DEF BootInv, Bare, SetUp, Locking
<1>2. ppa.total \in Nat /\ ppa.max_index \in Nat
  <2>1. ppa \in State BY <1>1, KeptFacts DEF Ready
  <2> QED BY <2>1 DEF State, Counter
<1> QED BY <1>1, <1>2

LEMMA StepRequestPml4 ==
  ASSUME BootInv, RequestPml4
  PROVE  BootInv'
<1>1. /\ pc = "pml4" /\ lost = FALSE /\ fb' = fb /\ pc' = "identity" /\ addr' = addr
      /\ cr3' = cr3 /\ InitPml4 /\ others' = others /\ fb \in FrameBuffers
  BY DEF RequestPml4, At, InitPml4, BootInv
<1>2. CASE Bare
  <2>1. RequestedFrame(ppa) \notin Usable(ppa) BY <1>2, BitlessAnswers DEF Bare
  <2>2. lost' = TRUE BY <1>1, <2>1 DEF InitPml4, Becomes, NewTable, Walk
  <2> QED BY <1>1, <2>2 DEF BootInv
<1>3. CASE SetUp
  <2> DEFINE H == others \cup Apart(ppa, fb)
  <2>1. Sized /\ Untouched /\ Kept(ppa, mem, lost, PML4, H) /\ others \cap Apart(ppa, fb) = {}
    BY <1>1, <1>3 DEF SetUp, Locking, Ready, Progress
  <2>2. /\ Kept(ppa', mem', lost', PML4', H) /\ SameHeader(ppa', ppa)
        /\ \A u \in Page : Found(mem', PML4', u) = Found(mem, PML4, u)
    BY <1>1, <2>1, InitPml4Step
  <2>3. lost' \in BOOLEAN BY <2>2, KeptFacts
  <2>4. Maps(mem', PML4', 0 .. (addr' - 1))
    <3>1. \A a \in Address : PageOf(a) \in Page BY LimitType, Digits DEF Address
    <3>2. \A u \in Page : Found(mem', PML4', u) = {}
      BY <2>1, <2>2 DEF Found, Untouched
    <3>3. 0 .. (addr' - 1) = {} BY <1>1, <2>1 DEF Untouched
    <3> QED BY <3>1, <3>2, <3>3 DEF Maps
  <2>5. Progress'
    <3>1. ppa.total \in Nat /\ ppa'.total = ppa.total
      <4>1. ppa \in State BY <2>1, KeptFacts
      <4> QED BY <2>2, <4>1 DEF State, Counter, SameHeader
    <3> QED BY <1>1, <2>1, <2>4, <3>1 DEF Progress, Untouched
  <2> QED BY <1>1, <2>1, <2>2, <2>3, <2>5, StillReady
<1> QED BY <1>1, <1>2, <1>3 DEF BootInv

\* Both loops of init_pmm: one more address.
LEMMA LoopStep ==
  ASSUME BootInv, ~ lost, pc \notin {"ppa_init", "lock_kernel", "lock_fb", "pml4"},
         NEW S, Maps(mem, PML4, S), addr \in Address, Map(PageOf(addr), addr)
  PROVE  /\ lost' \in BOOLEAN
         /\ ~ lost' =>
              /\ Kept(ppa', mem', lost', PML4', others' \cup Apart(ppa, fb))
              /\ SameHeader(ppa', ppa) /\ others' \cap Apart(ppa, fb) = {}
              /\ Maps(mem', PML4', S \cup {addr})
<1> DEFINE H == others \cup Apart(ppa, fb)
<1>1. Kept(ppa, mem, lost, PML4, H) /\ others \cap Apart(ppa, fb) = {} /\ others' = others
  BY Working DEF Ready, Map
<1>2. addr \in Nat /\ PageOf(addr) \in Page BY LimitType, Digits DEF Address
<1> HIDE DEF H
<1>3. lost' \in BOOLEAN
  <2>1. Kept(ppa', mem', lost', PML4', H) BY <1>1, <1>2, MapStep
  <2> QED BY <2>1, KeptFacts
<1>4. ASSUME ~ lost'
      PROVE  /\ Kept(ppa', mem', lost', PML4', H) /\ SameHeader(ppa', ppa)
             /\ Maps(mem', PML4', S \cup {addr})
  <2>1. /\ Kept(ppa', mem', lost', PML4', H) /\ SameHeader(ppa', ppa)
        /\ Found(mem', PML4', PageOf(addr)) = {addr}
        /\ \A a \in Address \ {addr} :
             Found(mem', PML4', PageOf(a)) = Found(mem, PML4, PageOf(a))
    BY <1>1, <1>2, <1>4, MapAddress
  <2>2. Maps(mem', PML4', S \cup {addr})
    <3> SUFFICES ASSUME NEW a \in Address
                 PROVE  Found(mem', PML4', PageOf(a)) = IF a \in S \cup {addr} THEN {a} ELSE {}
      BY DEF Maps
    <3>1. Found(mem, PML4, PageOf(a)) = IF a \in S THEN {a} ELSE {} BY DEF Maps
    <3>2. CASE a = addr BY <2>1, <3>2
    <3>3. CASE a # addr BY <2>1, <3>1, <3>3
    <3> QED BY <3>2, <3>3
  <2> QED BY <2>1, <2>2
<1> QED BY <1>1, <1>3, <1>4 DEF H

LEMMA StepMapMemory ==
  ASSUME BootInv, MapMemory
  PROVE  BootInv'
<1>1. pc = "identity" /\ ~ lost /\ fb' = fb /\ cr3' = cr3 BY DEF MapMemory, At
<1>2. Sized /\ Ready /\ Progress /\ fb \in FrameBuffers /\ ppa.total \in Nat /\ ppa.max_index \in Nat
      /\ lost = FALSE
  BY <1>1, Working
<1>3. cr3 = {} /\ addr \in 0 .. ppa.total /\ Maps(mem, PML4, 0 .. (addr - 1))
  BY <1>1, <1>2 DEF Progress
<1>4. CASE addr < ppa.total
  <2>1. Map(PageOf(addr), addr) /\ addr' = addr + 1 /\ pc' = pc BY <1>4 DEF MapMemory
  <2>2. addr \in Address BY <1>2, <1>3, <1>4, LimitType DEF Address, Sized
  <2>3. /\ lost' \in BOOLEAN
        /\ ~ lost' =>
             /\ Kept(ppa', mem', lost', PML4', others' \cup Apart(ppa, fb))
             /\ SameHeader(ppa', ppa) /\ others' \cap Apart(ppa, fb) = {}
             /\ Maps(mem', PML4', (0 .. (addr - 1)) \cup {addr})
    BY <1>1, <1>3, <2>1, <2>2, LoopStep
  <2>4. (0 .. (addr - 1)) \cup {addr} = 0 .. (addr' - 1) /\ addr' \in 0 .. ppa.total
    BY <1>2, <1>3, <1>4, <2>1
  <2>5. ~ lost' => Progress' BY <1>1, <1>3, <2>1, <2>3, <2>4 DEF Progress, SameHeader
  <2> QED BY <1>1, <1>2, <2>3, <2>5, StillReady
<1>5. CASE ~ (addr < ppa.total)
  <2>1. addr' = fb[1] /\ pc' = "map_fb" /\ UNCHANGED vars BY <1>5 DEF MapMemory
  <2>2. 0 .. (addr - 1) = Frames(ppa) BY <1>2, <1>3, <1>5 DEF Frames, Sized
  <2>3. fb[1] \in Nat /\ fb[1] \in fb[1] .. FbEnd(fb) /\ fb[1] .. (fb[1] - 1) = {}
    BY <1>2, FrameBufferFacts
  <2>4. Maps(mem, PML4, Frames(ppa) \cup (fb[1] .. (fb[1] - 1))) BY <1>3, <2>2, <2>3
  <2>5. UNCHANGED <<ppa, mem, PML4>> BY <2>1 DEF vars
  <2>6. Maps(mem', PML4', Frames(ppa') \cup (fb'[1] .. (addr' - 1))) BY <1>1, <2>1, <2>4, <2>5
  <2>7. Frames(ppa)' = Frames(ppa') BY DEF Frames
  <2>8. Progress' BY <1>1, <1>3, <2>1, <2>3, <2>6, <2>7 DEF Progress
  <2> QED BY <1>1, <1>2, <2>1, <2>8, StillReady DEF Ready, vars, SameHeader
<1> QED BY <1>4, <1>5

LEMMA StepMapFrameBuffer ==
  ASSUME BootInv, MapFrameBuffer
  PROVE  BootInv'
<1>1. pc = "map_fb" /\ ~ lost /\ fb' = fb BY DEF MapFrameBuffer, At
<1>2. Sized /\ Ready /\ Progress /\ fb \in FrameBuffers /\ lost = FALSE BY <1>1, Working
<1>3. /\ cr3 = {} /\ addr \in fb[1] .. FbEnd(fb)
      /\ Maps(mem, PML4, Frames(ppa) \cup (fb[1] .. (addr - 1)))
  BY <1>1, <1>2 DEF Progress
<1>4. fb[1] \in Nat /\ FbEnd(fb) \in Nat /\ FbEnd(fb) <= AddressLimit
  BY <1>2, FrameBufferFacts
<1>5. FbEnd(fb) = fb[1] + fbsize_up BY DEF FbEnd, fbsize_up
<1>6. CASE addr < FbEnd(fb)
  <2>1. Map(PageOf(addr), addr) /\ addr' = addr + 1 /\ pc' = pc /\ cr3' = cr3
    BY <1>5, <1>6 DEF MapFrameBuffer
  <2>2. addr \in Address BY <1>3, <1>4, <1>6, LimitType DEF Address
  <2>3. /\ lost' \in BOOLEAN
        /\ ~ lost' =>
             /\ Kept(ppa', mem', lost', PML4', others' \cup Apart(ppa, fb))
             /\ SameHeader(ppa', ppa) /\ others' \cap Apart(ppa, fb) = {}
             /\ Maps(mem', PML4', (Frames(ppa) \cup (fb[1] .. (addr - 1))) \cup {addr})
    BY <1>1, <1>3, <2>1, <2>2, LoopStep
  <2>4. (fb[1] .. (addr - 1)) \cup {addr} = fb[1] .. (addr' - 1) /\ addr' \in fb[1] .. FbEnd(fb)
    BY <1>3, <1>4, <1>6, <2>1
  <2>5. (Frames(ppa) \cup (fb[1] .. (addr - 1))) \cup {addr} = Frames(ppa) \cup (fb[1] .. (addr' - 1))
    BY <2>4
  <2>6. ASSUME ~ lost' PROVE Progress'
    <3>1. Frames(ppa') = Frames(ppa) /\ Frames(ppa)' = Frames(ppa')
      BY <2>3, <2>6, SameFixed DEF Frames
    <3>2. Maps(mem', PML4', Frames(ppa') \cup (fb'[1] .. (addr' - 1)))
      BY <1>1, <2>3, <2>5, <2>6, <3>1
    <3>3. FbEnd(fb)' = FbEnd(fb) BY <1>1 DEF FbEnd
    <3> QED BY <1>1, <1>3, <2>1, <2>4, <3>1, <3>2, <3>3 DEF Progress
  <2> QED BY <1>1, <1>2, <2>3, <2>6, StillReady
<1>7. CASE ~ (addr < FbEnd(fb))
  <2>1. cr3' = PML4 /\ pc' = "init_idt" /\ UNCHANGED vars /\ addr' = addr
    BY <1>5, <1>7 DEF MapFrameBuffer
  <2>2. addr = FbEnd(fb) BY <1>3, <1>4, <1>7
  <2>3. Maps(mem, PML4, InUse(ppa, fb)) BY <1>3, <2>2 DEF InUse
  <2>4. UNCHANGED <<ppa, mem, PML4>> BY <2>1 DEF vars
  <2>5. InUse(ppa, fb)' = InUse(ppa, fb) BY <1>1, <2>4 DEF InUse, Frames, FbEnd
  <2>6. Maps(mem, PML4, InUse(ppa, fb))' BY <2>3, <2>4, <2>5 DEF Maps
  <2>7. Progress' BY <1>1, <2>1, <2>4, <2>6 DEF Progress
  <2> QED BY <1>1, <1>2, <2>1, <2>7, StillReady DEF Ready, vars, SameHeader
<1> QED BY <1>6, <1>7

LEMMA StepRequestIdt ==
  ASSUME BootInv, RequestIdt
  PROVE  BootInv'
<1>1. /\ pc = "init_idt" /\ ~ lost /\ fb' = fb /\ pc' = "test" /\ addr' = addr /\ cr3' = cr3
  BY DEF RequestIdt, At
<1>2. Sized /\ Ready /\ Progress /\ fb \in FrameBuffers /\ lost = FALSE BY <1>1, Working
<1>3. cr3 = PML4 /\ Maps(mem, PML4, InUse(ppa, fb)) BY <1>1, <1>2 DEF Progress
<1>4. CASE TakeFrame
  <2> DEFINE f == RequestedFrame(ppa)
             H == others \cup Apart(ppa, fb)
  <2>1. /\ Kept(ppa', mem', lost', PML4', H \cup {f}) /\ SameHeader(ppa', ppa)
        /\ f \notin H
        /\ \A u \in Page : Found(mem', PML4', u) = Found(mem, PML4, u)
    BY <1>2, <1>4, TakeStep DEF Ready
  <2>2. others' = others \cup {f} /\ lost' = lost /\ PML4' = PML4 BY <1>4 DEF TakeFrame
  <2> HIDE DEF f
  <2>3. H \cup {f} = others' \cup Apart(ppa, fb) /\ others' \cap Apart(ppa, fb) = {}
    BY <1>2, <2>1, <2>2 DEF Ready
  <2>4. InUse(ppa, fb)' = InUse(ppa, fb)
    BY <1>1, <2>1 DEF InUse, Frames, FbEnd, SameHeader
  <2>5. Maps(mem, PML4, InUse(ppa, fb))'
    <3>1. \A a \in Address : PageOf(a) \in Page BY LimitType, Digits DEF Address
    <3>2. \A a \in Address : Found(mem', PML4', PageOf(a)) = IF a \in InUse(ppa, fb) THEN {a} ELSE {}
      BY <1>3, <2>1, <3>1 DEF Maps
    <3>3. Maps(mem', PML4', InUse(ppa, fb)) BY <3>2 DEF Maps
    <3> QED BY <2>4, <3>3
  <2>6. Progress' BY <1>1, <1>3, <2>2, <2>5 DEF Progress
  <2> QED BY <1>1, <1>2, <2>1, <2>2, <2>3, <2>6, StillReady
<1>5. CASE ~ TakeFrame
  <2>1. lost' = TRUE BY <1>5 DEF RequestIdt
  <2> QED BY <1>1, <1>2, <2>1, StillReady
<1> QED BY <1>4, <1>5

LEMMA TestFacts == TestPage \in Address /\ TestPage \in Nat /\ TestFrame \in Nat
BY KernelAssumption, AddressAssumption, LimitType DEF Address, AddressLimit

LEMMA StepTestMapping ==
  ASSUME BootInv, TestMapping
  PROVE  BootInv'
<1>1. /\ pc = "test" /\ ~ lost /\ fb' = fb /\ pc' = "done" /\ cr3' = cr3
      /\ Map(PageOf(TestPage), TestFrame)
  BY DEF TestMapping, At
<1>2. Sized /\ Ready /\ Progress /\ fb \in FrameBuffers /\ lost = FALSE BY <1>1, Working
<1>3. cr3 = PML4 /\ Maps(mem, PML4, InUse(ppa, fb)) BY <1>1, <1>2 DEF Progress
<1> DEFINE H == others \cup Apart(ppa, fb)
<1>4. Kept(ppa, mem, lost, PML4, H) /\ others \cap Apart(ppa, fb) = {}
      /\ others' = others /\ PML4' = PML4
  BY <1>1, <1>2 DEF Ready, Map
<1>5. lost' \in BOOLEAN
  <2>1. PageOf(TestPage) \in Page BY TestFacts, LimitType, Digits DEF Address
  <2>2. Kept(ppa', mem', lost', PML4', H) BY <1>1, <1>4, <2>1, TestFacts, MapStep
  <2> QED BY <2>2, KeptFacts
<1>6. ASSUME ~ lost'
      PROVE  Kept(ppa', mem', lost', PML4', H) /\ SameHeader(ppa', ppa) /\ Progress'
  <2>1. /\ Kept(ppa', mem', lost', PML4', H) /\ SameHeader(ppa', ppa)
        /\ Found(mem', PML4', PageOf(TestPage)) = {TestFrame}
        /\ \A a \in Address \ {TestPage} :
             Found(mem', PML4', PageOf(a)) = Found(mem, PML4, PageOf(a))
    BY <1>1, <1>4, <1>6, TestFacts, MapAddress
  <2>2. InUse(ppa, fb)' = InUse(ppa, fb)
    BY <1>1, <2>1 DEF InUse, Frames, FbEnd, SameHeader
  <2>3. \A a \in Address \ {TestPage} :
          Found(mem', PML4', PageOf(a)) = IF a \in InUse(ppa, fb) THEN {a} ELSE {}
    BY <1>3, <2>1 DEF Maps
  <2>4. \A a \in Address \ {TestPage} :
          (Found(mem, PML4, PageOf(a)) = IF a \in InUse(ppa, fb) THEN {a} ELSE {})'
    BY <2>2, <2>3
  <2>5. Progress' BY <1>1, <1>3, <1>4, <2>1, <2>4 DEF Progress
  <2> QED BY <2>1, <2>5
<1> QED BY <1>1, <1>2, <1>4, <1>5, <1>6, StillReady

LEMMA NextBootInv == BootInv /\ [BootNext]_kernel_vars => BootInv'
<1> SUFFICES ASSUME BootInv, [BootNext]_kernel_vars PROVE BootInv' OBVIOUS
<1>1. ASSUME NEW m \in MemoryMaps, NEW wraps \in BOOLEAN, InitAllocator(m, wraps) PROVE BootInv'
  <2>1. WalkedMap(m) BY PageMapAssumption DEF WalkedMap
  <2>2. MapPages(m) <= AddressLimit BY AddressAssumption DEF AddressLimit
  <2> QED BY <1>1, <2>1, <2>2, StepInitAllocator
<1>2. CASE LockKernel BY <1>2, StepLockKernel
<1>3. CASE LockFrameBuffer BY <1>3, StepLockFrameBuffer
<1>4. CASE RequestPml4 BY <1>4, StepRequestPml4
<1>5. CASE MapMemory BY <1>5, StepMapMemory
<1>6. CASE MapFrameBuffer BY <1>6, StepMapFrameBuffer
<1>7. CASE RequestIdt BY <1>7, StepRequestIdt
<1>8. CASE TestMapping BY <1>8, StepTestMapping
<1>9. CASE UNCHANGED kernel_vars
  <2>1. UNCHANGED <<ppa, mem, lost, PML4, others, pc, fb, addr, cr3>>
    BY <1>9 DEF kernel_vars, vars
  <2> QED BY <2>1 DEF BootInv, Bare, SetUp, Sized, Locking, Ready, Progress, Untouched, Bitless,
                      Apart, InUse, Fixed, Frames, bitmap_pages, FbEnd, Maps
<1> QED BY <1>1, <1>2, <1>3, <1>4, <1>5, <1>6, <1>7, <1>8, <1>9 DEF BootNext

LEMMA BootInvHolds == BootSpec => []BootInv
BY InitBootInv, NextBootInv, PTL DEF BootSpec

-----------------------------------------------------------------------------
(* The theorems.                                                           *)

\* The tables of a kernel whose requests were all answered.
LEMMA TablesApart ==
  ASSUME Ready
  PROVE  Tables \cap (others \cup Apart(ppa, fb)) = {}
<1>1. Level = LevelsOf(mem, PML4) BY DEF Level, LevelsOf
<1>2. \A k \in 1 .. 4 : Level[k] \cap (others \cup Apart(ppa, fb)) = {}
  BY <1>1, KeptFacts DEF Ready
<1> QED BY <1>2 DEF Tables

LEMMA NoTables == PML4 = {} => Tables = {}
<1> SUFFICES ASSUME PML4 = {} PROVE Tables = {} OBVIOUS
<1>1. Children(mem, {}) = {} BY ChildrenIff
<1>2. Level = <<{}, {}, {}, {}>> BY <1>1 DEF Level
<1>3. \A k \in 1 .. 4 : Level[k] = {} BY <1>2
<1> QED BY <1>3 DEF Tables

\* What the kernel asks for is apart from what it and the loader use.
THEOREM FramesApart == BootSpec => []NewFramesApart
<1>1. ASSUME BootInv PROVE NewFramesApart
  <2> SUFFICES ASSUME ~ lost, pc \notin {"ppa_init", "lock_kernel", "lock_fb"}
               PROVE  /\ (Tables \cup others) \cap
                           (KernelImage \cup LockedFb \cup Pages(0, LowPages)
                              \cup Pages(ppa.data, bitmap_pages(ppa))) = {}
                      /\ Tables \cap others = {}
    BY DEF NewFramesApart, Booted
  <2>1. CASE Bare
    <3>1. Tables = {} /\ others = {} BY <2>1, NoTables DEF Bare, Untouched
    <3> QED BY <3>1
  <2>2. CASE SetUp
    <3>1. Ready BY <2>2 DEF SetUp, Locking
    <3>2. Tables \cap (others \cup Apart(ppa, fb)) = {} /\ others \cap Apart(ppa, fb) = {}
      BY <3>1, TablesApart DEF Ready
    <3> QED BY <3>2 DEF Apart, Fixed, LockedFb, fbsize_div
  <2> QED BY <1>1, <2>1, <2>2 DEF BootInv
<1> QED BY <1>1, BootInvHolds, PTL

\* Memory and the frame buffer are found at their own addresses.
THEOREM Identity == BootSpec => []IdentityMapped
<1>1. ASSUME BootInv PROVE IdentityMapped
  <2> SUFFICES ASSUME cr3 # {}, ~ lost,
                      NEW a \in (Frames(ppa) \cup Pages(fb[1], fbsize_up)) \ {TestPage}
               PROVE  Translated(a) = {a}
    BY DEF IdentityMapped, Booted
  <2>1. Sized /\ Ready /\ Progress /\ pc \in {"init_idt", "test", "done"}
    BY <1>1 DEF BootInv, Bare, SetUp, Locking, Progress, Untouched
  <2>2. fb \in FrameBuffers /\ ppa \in State BY <1>1, <2>1, KeptFacts DEF BootInv, Ready
  <2>3. fb[1] \in Nat /\ FbEnd(fb) \in Nat /\ FbEnd(fb) <= AddressLimit
        /\ FbEnd(fb) = fb[1] + fbsize_up /\ fbsize_up \in Nat
    BY <2>2, FrameBufferFacts DEF FbEnd, fbsize_up
  <2>4. a \in InUse(ppa, fb) /\ a \in Address
    <3>1. a \in Frames(ppa) \/ a \in fb[1] .. (FbEnd(fb) - 1)
      <4>1. Pages(fb[1], fbsize_up) = fb[1] .. (FbEnd(fb) - 1) BY <2>3 DEF Pages
      <4> QED BY <4>1
    <3>2. ppa.max_index \in Nat BY <2>2 DEF State, Counter
    <3>3. a \in Frames(ppa) => a \in Address
      BY <2>1, <3>2, LimitType DEF Sized, Frames, Address
    <3>4. a \in fb[1] .. (FbEnd(fb) - 1) => a \in Address
      BY <2>3, LimitType DEF Address
    <3> QED BY <3>1, <3>3, <3>4 DEF InUse
  <2>5. cr3 = PML4 /\ Found(mem, PML4, PageOf(a)) = {a}
    BY <2>1, <2>4 DEF Progress, Maps
  <2> QED BY <2>5 DEF Translated, Found
<1> QED BY <1>1, BootInvHolds, PTL

\* The mapping test writes where it means to, and harms nothing.
THEOREM TestWrite == BootSpec => []TestWriteHarmless
<1>1. ASSUME BootInv PROVE TestWriteHarmless
  <2> SUFFICES ASSUME pc = "done", ~ lost
               PROVE  /\ Translated(TestPage) = {TestFrame}
                      /\ KernelPages <= TestFrame /\ TestFrame < LowPages =>
                           TestFrame \notin KernelImage \cup Tables \cup others
    BY DEF TestWriteHarmless
  <2>1. Ready /\ Progress BY <1>1, Working
  <2>2. cr3 = PML4 /\ Found(mem, PML4, PageOf(TestPage)) = {TestFrame}
    BY <2>1 DEF Progress
  <2>3. ASSUME KernelPages <= TestFrame, TestFrame < LowPages
        PROVE  TestFrame \notin KernelImage \cup Tables \cup others
    <3>1. TestFrame \in Pages(0, LowPages) /\ TestFrame \notin KernelImage
      BY <2>3, KernelAssumption, SizeAssumption DEF Pages, KernelImage
    <3>2. TestFrame \in Apart(ppa, fb) BY <3>1 DEF Apart, Fixed
    <3>3. Tables \cap Apart(ppa, fb) = {} /\ others \cap Apart(ppa, fb) = {}
      BY <2>1, TablesApart DEF Ready
    <3> QED BY <3>1, <3>2, <3>3
  <2> QED BY <2>2, <2>3 DEF Translated, Found
<1> QED BY <1>1, BootInvHolds, PTL

=============================================================================
