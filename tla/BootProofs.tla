----------------------------- MODULE BootProofs -----------------------------
(***************************************************************************)
(* Loader and kernel together, for every memory, image, stack, pool and    *)
(* frame buffer: the kernel takes no frame that was in use when the memory *)
(* map was fetched, its tables map what it goes on with, and it gets       *)
(* through exactly when memory suffices.                                   *)
(***************************************************************************)
EXTENDS Boot, KernelMemoryProofs

\* The loader has the map.
Fetched == lpc \in {"open", "headers", "load", "kernel"}

\* The map in the buffer lists every frame of memory, and neither the buffer nor
\* the stack as free.
LoaderInv ==
  /\ \E m \in Memories : DOMAIN frames = DOMAIN m
  /\ \A f \in Stack : f \in DOMAIN frames /\ frames[f] # Conventional
  /\ Fetched =>
       /\ DOMAIN handed.frames = DOMAIN frames /\ buffer \subseteq DOMAIN frames
       /\ \A f \in Stack \cup buffer : handed.frames[f] # Conventional
       /\ \E f \in DOMAIN frames : handed.frames[f] # "hole"

LEMMA LoaderInit == Loader!Init => LoaderInv
<1> SUFFICES ASSUME Loader!Init PROVE LoaderInv OBVIOUS
<1>1. frames \in Memories /\ lpc = "gop" BY DEF Loader!Init
<1> QED BY <1>1, ImageAssumption DEF LoaderInv, Fetched

\* Frames go to the loader or to the firmware; the others stay as they were.
Given ==
  /\ DOMAIN frames' = DOMAIN frames
  /\ \A f \in DOMAIN frames : frames'[f] \in {frames[f], Loader!LoaderData, "other"}

LEMMA TakeFrames ==
  ASSUME NEW F, NEW G, Loader!Take(F, G)
  PROVE  Given /\ \A f \in F : f \in DOMAIN frames /\ frames'[f] = Loader!LoaderData
BY DEF Given, Loader!Take, Loader!FreeFrames

LEMMA PoolFrames ==
  ASSUME NEW g \in DOMAIN frames, NEW G, Loader!AllocatePool(g, G)
  PROVE  Given /\ frames'[g] = Loader!LoaderData
<1>1. CASE Loader!Take({g}, G) BY <1>1, TakeFrames
<1>2. CASE frames[g] = Loader!LoaderData /\ Loader!Take({}, G)
  <2>1. frames'[g] = frames[g]
    BY <1>2 DEF Loader!Take, Loader!FreeFrames, Loader!LoaderData, Loader!Conventional
  <2> QED BY <1>2, <2>1, TakeFrames
<1> QED BY <1>1, <1>2 DEF Loader!AllocatePool

\* Such a step keeps the invariant as long as the map in the buffer stays.
LEMMA StillListed ==
  ASSUME LoaderInv, Given, handed' = handed, buffer' = buffer, Fetched' => Fetched
  PROVE  LoaderInv'
<1>1. Loader!LoaderData # Conventional /\ "other" # Conventional
  BY DEF Loader!LoaderData, Conventional
<1> QED BY <1>1 DEF LoaderInv, Given

LEMMA MapFetched ==
  ASSUME LoaderInv, Loader!GetMemoryMap
  PROVE  LoaderInv'
<1>1. PICK g \in Pool : Loader!AllocatePool(g, {}) /\ buffer' = {g} BY DEF Loader!GetMemoryMap
<1>2. g \in DOMAIN frames BY <1>1, ImageAssumption DEF LoaderInv
<1>3. Given /\ frames'[g] = Loader!LoaderData BY <1>1, <1>2, PoolFrames
<1>4. /\ lpc = "map"
      /\ \/ handed' = [frames |-> frames', key |-> key'] /\ lpc' = "open"
         \/ lpc' = lpc
  BY DEF Loader!GetMemoryMap, Loader!At
<1>5. /\ Loader!LoaderData # Conventional /\ Loader!LoaderData # "hole" /\ "other" # Conventional
  BY DEF Loader!LoaderData, Conventional
<1>6. \A f \in Stack : f \in DOMAIN frames' /\ frames'[f] # Conventional
  BY <1>3, <1>5 DEF LoaderInv, Given
<1>7. Fetched' => handed'.frames = frames' BY <1>4 DEF Fetched
<1>8. \E m \in Memories : DOMAIN frames' = DOMAIN m BY <1>3 DEF LoaderInv, Given
<1>9. DOMAIN frames' = DOMAIN frames BY <1>3 DEF Given
<1> QED BY <1>1, <1>2, <1>3, <1>5, <1>6, <1>7, <1>8, <1>9 DEF LoaderInv

LEMMA LoaderNext ==
  ASSUME LoaderInv, Loader!Next
  PROVE  LoaderInv'
<1>1. CASE Loader!GetMemoryMap BY <1>1, MapFetched
<1>2. CASE Loader!InitializeGop \/ Loader!NoMemoryMap \/ Loader!ExitBootServices
  <2>1. Given /\ handed' = handed /\ buffer' = buffer
    BY <1>2 DEF Given, Loader!InitializeGop, Loader!NoMemoryMap, Loader!ExitBootServices
  <2>2. Fetched' => Fetched
    BY <1>2 DEF Loader!InitializeGop, Loader!NoMemoryMap, Loader!ExitBootServices, Loader!At,
                Fetched
  <2> QED BY <2>1, <2>2, StillListed
<1>3. CASE Loader!ReadHeader
  <2>1. lpc = "open" /\ handed' = handed /\ buffer' = buffer
    BY <1>3 DEF Loader!ReadHeader, Loader!At
  <2>2. PICK G \in Growth : Loader!Take({}, G) BY <1>3 DEF Loader!ReadHeader
  <2> QED BY <2>1, <2>2, TakeFrames, StillListed DEF Fetched
<1>4. CASE Loader!ReadProgramHeaders
  <2>1. lpc = "headers" /\ handed' = handed /\ buffer' = buffer
    BY <1>4 DEF Loader!ReadProgramHeaders, Loader!At
  <2>2. CASE UNCHANGED frames BY <2>1, <2>2, StillListed DEF Fetched, Given
  <2>3. ASSUME NEW g \in Pool, NEW G \in Growth, Loader!AllocatePool(g, G) PROVE LoaderInv'
    <3>1. g \in DOMAIN frames BY ImageAssumption DEF LoaderInv
    <3>2. Given BY <2>3, <3>1, PoolFrames
    <3> QED BY <2>1, <3>2, StillListed DEF Fetched
  <2> QED BY <1>4, <2>2, <2>3 DEF Loader!ReadProgramHeaders
<1>5. CASE Loader!LoadSegment
  <2>1. lpc = "load" /\ handed' = handed /\ buffer' = buffer
    BY <1>5 DEF Loader!LoadSegment, Loader!At
  <2> DEFINE F == Loader!Pages(Segments[segment][1], Segments[segment][2])
  <2>2. (\E G \in Growth : Loader!Take(F, G)) \/ (\E G \in Growth : Loader!Take({}, G))
    BY <1>5 DEF Loader!LoadSegment
  <2>3. Given BY <2>2, TakeFrames
  <2> QED BY <2>1, <2>3, StillListed DEF Fetched
<1> QED BY <1>1, <1>2, <1>3, <1>4, <1>5 DEF Loader!Next, Loader!Progress

-----------------------------------------------------------------------------
(* The map as ppa_init walks it.                                           *)

\* Each place in the order of a finite set of numbers is taken.
LEMMA Ranked ==
  ASSUME NEW S \in SUBSET Nat, IsFiniteSet(S), NEW d \in 1 .. Cardinality(S)
  PROVE  \E a \in S : Cardinality({b \in S : b <= a}) = d
<1> DEFINE c == Cardinality(S)
           below(a) == {b \in S : b <= a}
           rank == [a \in S |-> Cardinality(below(a))]
<1>1. c \in Nat BY FS_CardinalityType
<1>2. \A a \in S : /\ IsFiniteSet(below(a)) /\ Cardinality(below(a)) \in Nat
                    /\ Cardinality(below(a)) <= c
  BY FS_Subset, FS_CardinalityType
<1>3. \A a \in S : Cardinality(below(a)) # 0 BY <1>2, FS_EmptySet
<1>4. ASSUME NEW a \in S, NEW b \in S, a < b PROVE Cardinality(below(a)) # Cardinality(below(b))
  <2>1. a \in Nat /\ b \in Nat /\ \A y \in S : y \in Nat OBVIOUS
  <2>2. \A y \in S : y <= a => y <= b BY <1>4, <2>1
  <2>3. ~ b <= a /\ b <= b BY <1>4, <2>1
  <2>4. below(a) \subseteq below(b) /\ b \in below(b) /\ b \notin below(a)
    BY <2>2, <2>3
  <2> HIDE DEF below
  <2>5. below(a) # below(b) BY <2>4
  <2>6. IsFiniteSet(below(b)) /\ below(a) \in SUBSET below(b) BY <1>2, <2>4
  <2>7. Cardinality(below(b)) = Cardinality(below(a)) => below(b) = below(a)
    BY <2>6, FS_Subset
  <2> QED BY <2>5, <2>7
<1>5. rank \in [S -> 1 .. c]
  <2> HIDE DEF below, c
  <2> QED BY <1>1, <1>2, <1>3
<1>6. \A a, b \in S : rank[a] = rank[b] => a = b
  <2> HIDE DEF below
  <2> QED BY <1>4
<1>7. rank \in Injection(S, 1 .. c) BY <1>5, <1>6 DEF Injection, IsInjective
<1>8. IsFiniteSet(1 .. c) /\ Cardinality(1 .. c) = c
  <2> HIDE DEF c
  <2> QED BY <1>1, FS_Interval
<1>9. rank \in Surjection(S, 1 .. c)
  <2> HIDE DEF rank
  <2>1. Cardinality(S) = Cardinality(1 .. c) BY <1>8
  <2> HIDE DEF c
  <2> QED BY <1>7, <1>8, <2>1, FS_Injection
<1>10. \E a \in S : rank[a] = d
  <2> HIDE DEF rank
  <2> QED BY <1>9 DEF Surjection
<1> QED BY <1>10

\* A run of frames has no gap.
LEMMA RunInterval ==
  ASSUME NEW fr, NEW n \in Nat, DOMAIN fr = 0 .. (n - 1), NEW a \in 0 .. (n - 1)
  PROVE  \E x \in 1 .. n : a < x /\ RunFrom(fr, a) = a .. (x - 1)
<1> DEFINE R == RunFrom(fr, a)
           T == {y \in Nat : y >= a /\ y \notin R}
<1>1. n \in T /\ a \in R BY DEF RunFrom
<1>2. Min(T) \in T /\ \A y \in T : Min(T) <= y
  <2>1. T \in SUBSET Nat OBVIOUS
  <2> HIDE DEF T
  <2> QED BY <1>1, <2>1, MinExists
<1> DEFINE x == Min(T)
<1>3. x \in Nat /\ x >= a /\ x \notin R BY <1>2
<1>4. x # a /\ x <= n BY <1>1, <1>2
<1>5. \A f \in Nat : f >= a /\ f \notin R => x <= f BY <1>2
<1> HIDE DEF x, T
<1>6. \A f \in a .. (x - 1) : f \in R BY <1>3, <1>5
<1>7. ASSUME NEW f \in R PROVE f \in a .. (x - 1)
  <2>1. f \in 0 .. (n - 1) /\ f >= a /\ \A g \in a .. f : fr[g] = fr[a] BY DEF RunFrom
  <2>2. ASSUME f >= x PROVE FALSE
    <3>1. x \in 0 .. (n - 1) /\ \A g \in a .. x : g \in a .. f BY <1>3, <2>1, <2>2
    <3>2. x \in R BY <1>3, <2>1, <3>1 DEF RunFrom
    <3> QED BY <1>3, <3>2
  <2> QED BY <1>3, <2>1, <2>2
<1>8. R = a .. (x - 1) BY <1>6, <1>7
<1> QED BY <1>3, <1>4, <1>8

\* A frame is in the run of one start.
LEMMA RunsApart ==
  ASSUME NEW fr, NEW n \in Nat, DOMAIN fr = 0 .. (n - 1),
         NEW a \in Loader!Runs(fr), NEW b \in Loader!Runs(fr),
         NEW f \in RunFrom(fr, a), f \in RunFrom(fr, b)
  PROVE  a = b
<1>1. ASSUME NEW i \in Loader!Runs(fr), NEW j \in Loader!Runs(fr), i < j,
             f \in RunFrom(fr, i), f \in RunFrom(fr, j)
      PROVE  FALSE
  <2>1. /\ i \in Nat /\ j \in Nat /\ f \in Nat /\ j <= f
        /\ \A g \in i .. f : fr[g] = fr[i]
    BY <1>1 DEF RunFrom, Loader!Runs
  <2>2. j \in i .. f /\ j - 1 \in i .. f /\ j # 0 BY <1>1, <2>1
  <2>3. fr[j] = fr[j - 1] BY <2>1, <2>2
  <2> QED BY <1>1, <2>2, <2>3 DEF Loader!Runs
<1>2. a \in Nat /\ b \in Nat BY DEF Loader!Runs
<1> QED BY <1>1, <1>2

\* Some frame is listed, so some run starts.
LEMMA SomeRun ==
  ASSUME NEW fr, NEW n \in Nat, DOMAIN fr = 0 .. (n - 1), NEW f \in 0 .. (n - 1), fr[f] # "hole"
  PROVE  Loader!Runs(fr) # {}
<1> DEFINE T == {y \in Nat : y <= f /\ fr[y] # "hole"}
<1>1. f \in T OBVIOUS
<1>2. Min(T) \in T /\ \A y \in T : Min(T) <= y
  <2>1. T \in SUBSET Nat OBVIOUS
  <2> HIDE DEF T
  <2> QED BY <1>1, <2>1, MinExists
<1> DEFINE x == Min(T)
<1>3. x \in Nat /\ x <= f /\ fr[x] # "hole" BY <1>2
<1>4. \A y \in Nat : y <= f /\ fr[y] # "hole" => x <= y BY <1>2
<1> HIDE DEF x, T
<1>5. x \in DOMAIN fr BY <1>3
<1>6. x = 0 \/ fr[x] # fr[x - 1]
  <2> SUFFICES ASSUME x # 0, fr[x] = fr[x - 1] PROVE FALSE OBVIOUS
  <2>1. x - 1 \in Nat /\ x - 1 <= f /\ ~ x <= x - 1 BY <1>3
  <2> QED BY <1>3, <1>4, <2>1
<1> QED BY <1>3, <1>5, <1>6 DEF Loader!Runs

\* The first frame of descriptor d of MapOf(fr).
First(fr, d) ==
  CHOOSE a \in Loader!Runs(fr) : Cardinality({b \in Loader!Runs(fr) : b <= a}) = d

\* The descriptors are the runs, each once.
LEMMA MapOfRuns ==
  ASSUME NEW fr, NEW n \in Nat, DOMAIN fr = 0 .. (n - 1)
  PROVE  /\ MapOf(fr) \in Seq(Descriptor)
         /\ DOMAIN MapOf(fr) = 1 .. Cardinality(Loader!Runs(fr))
         /\ Cardinality(Loader!Runs(fr)) \in Nat /\ IsFiniteSet(Loader!Runs(fr))
         /\ \A d \in DOMAIN MapOf(fr) :
              /\ MapOf(fr)[d].start \in Loader!Runs(fr)
              /\ MapOf(fr)[d].type = Conventional <=> fr[MapOf(fr)[d].start] = Conventional
              /\ Pages(MapOf(fr)[d].start, MapOf(fr)[d].pages) = RunFrom(fr, MapOf(fr)[d].start)
         /\ \A c, d \in DOMAIN MapOf(fr) : MapOf(fr)[c].start = MapOf(fr)[d].start => c = d
<1> DEFINE S == Loader!Runs(fr)
           k == Cardinality(S)
           m == MapOf(fr)
<1>1. S \in SUBSET Nat /\ S \subseteq 0 .. (n - 1) BY DEF Loader!Runs
<1>2. IsFiniteSet(S) /\ k \in Nat
  <2>1. IsFiniteSet(0 .. (n - 1)) BY FS_Interval
  <2> HIDE DEF S
  <2> QED BY <1>1, <2>1, FS_Subset, FS_CardinalityType
<1>3. ASSUME NEW d \in 1 .. k
      PROVE  First(fr, d) \in S /\ Cardinality({b \in S : b <= First(fr, d)}) = d
  <2>1. \E a \in S : Cardinality({b \in S : b <= a}) = d BY <1>1, <1>2, Ranked
  <2> QED BY <2>1 DEF First
<1>4. m = [d \in 1 .. k |->
             [type |-> IF fr[First(fr, d)] = Conventional THEN Conventional ELSE "other",
              start |-> First(fr, d),
              pages |-> Cardinality(RunFrom(fr, First(fr, d)))]]
  BY DEF MapOf, First
<1> HIDE DEF m
<1>5. ASSUME NEW d \in 1 .. k
      PROVE  /\ First(fr, d) \in Nat
             /\ Cardinality(RunFrom(fr, First(fr, d))) \in Nat
             /\ Pages(First(fr, d), Cardinality(RunFrom(fr, First(fr, d))))
                  = RunFrom(fr, First(fr, d))
  <2> DEFINE a == First(fr, d)
  <2>1. a \in 0 .. (n - 1) BY <1>1, <1>3
  <2> HIDE DEF a
  <2>2. PICK x \in 1 .. n : a < x /\ RunFrom(fr, a) = a .. (x - 1) BY <2>1, RunInterval
  <2>3. Cardinality(a .. (x - 1)) = x - a BY <2>1, <2>2, FS_Interval
  <2>4. Pages(a, x - a) = a .. (x - 1) BY <2>1, <2>2 DEF Pages
  <2> QED BY <2>1, <2>2, <2>3, <2>4 DEF a
<1>6. DOMAIN m = 1 .. k BY <1>4
<1>7. \A d \in 1 .. k :
        /\ m[d].start = First(fr, d) /\ m[d].pages = Cardinality(RunFrom(fr, First(fr, d)))
        /\ m[d].type = IF fr[First(fr, d)] = Conventional THEN Conventional ELSE "other"
  BY <1>4
<1>8. \A d \in 1 .. k : m[d] \in Descriptor
  BY <1>4, <1>5 DEF Descriptor
<1>9. m \in Seq(Descriptor)
  <2> HIDE DEF k
  <2>1. m \in [1 .. k -> Descriptor] BY <1>4, <1>8
  <2> QED BY <1>2, <2>1
<1>10. ASSUME NEW d \in 1 .. k
       PROVE  /\ m[d].start \in S
              /\ m[d].type = Conventional <=> fr[m[d].start] = Conventional
              /\ Pages(m[d].start, m[d].pages) = RunFrom(fr, m[d].start)
  <2>1. Conventional # "other" BY DEF Conventional
  <2> QED BY <1>3, <1>5, <1>7, <2>1
<1>11. ASSUME NEW c \in 1 .. k, NEW d \in 1 .. k, m[c].start = m[d].start PROVE c = d
  BY <1>3, <1>7, <1>11
<1> HIDE DEF S, k
<1>12. /\ \A d \in DOMAIN m :
            /\ m[d].start \in S
            /\ m[d].type = Conventional <=> fr[m[d].start] = Conventional
            /\ Pages(m[d].start, m[d].pages) = RunFrom(fr, m[d].start)
       /\ \A c, d \in DOMAIN m : m[c].start = m[d].start => c = d
  BY <1>6, <1>10, <1>11
<1> QED BY <1>2, <1>6, <1>9, <1>12 DEF S, k, m

\* No page is listed twice.
LEMMA MapOfPages ==
  ASSUME NEW fr, NEW n \in Nat, DOMAIN fr = 0 .. (n - 1)
  PROVE  MapPages(MapOf(fr)) \in Nat /\ MapPages(MapOf(fr)) <= n
<1> DEFINE m == MapOf(fr)
           U == UNION {{d} \X Pages(0, m[d].pages) : d \in DOMAIN m}
           g == [u \in U |-> m[u[1]].start + u[2]]
<1>1. \A d \in DOMAIN m : /\ m[d].start \in Loader!Runs(fr) /\ m[d].start \in Nat
                           /\ m[d].pages \in Nat
                           /\ Pages(m[d].start, m[d].pages) = RunFrom(fr, m[d].start)
  <2>1. m \in Seq(Descriptor) BY MapOfRuns
  <2>2. \A d \in DOMAIN m : m[d] \in Descriptor
    <3> HIDE DEF m
    <3> QED BY <2>1
  <2> QED BY <2>2, MapOfRuns DEF Descriptor
<1>2. \A c, d \in DOMAIN m : m[c].start = m[d].start => c = d BY MapOfRuns
<1> HIDE DEF m
<1>3. ASSUME NEW u \in U
      PROVE  /\ u[1] \in DOMAIN m /\ u = <<u[1], u[2]>> /\ u[2] \in Nat
             /\ g[u] \in RunFrom(fr, m[u[1]].start) /\ g[u] = m[u[1]].start + u[2]
  <2>1. PICK d \in DOMAIN m : u \in {d} \X Pages(0, m[d].pages) OBVIOUS
  <2>2. u[1] = d /\ u = <<u[1], u[2]>> /\ u[2] \in Pages(0, m[d].pages) BY <2>1
  <2>3. u[2] \in Nat /\ m[d].start + u[2] \in Pages(m[d].start, m[d].pages)
    BY <1>1, <2>2 DEF Pages
  <2>4. g[u] = m[u[1]].start + u[2] OBVIOUS
  <2> HIDE DEF g, U
  <2> QED BY <1>1, <2>2, <2>3, <2>4
<1>4. g \in [U -> 0 .. (n - 1)]
  <2>1. \A a : RunFrom(fr, a) \subseteq 0 .. (n - 1) BY DEF RunFrom
  <2>2. \A u \in U : m[u[1]].start + u[2] \in 0 .. (n - 1) BY <1>3, <2>1
  <2> HIDE DEF U
  <2> QED BY <2>2
<1>5. ASSUME NEW u \in U, NEW v \in U, g[u] = g[v] PROVE u = v
  <2> HIDE DEF g, U
  <2>1. /\ u[1] \in DOMAIN m /\ v[1] \in DOMAIN m /\ u[2] \in Nat /\ v[2] \in Nat
        /\ g[u] \in RunFrom(fr, m[u[1]].start) /\ g[u] \in RunFrom(fr, m[v[1]].start)
        /\ u = <<u[1], u[2]>> /\ v = <<v[1], v[2]>>
        /\ m[u[1]].start + u[2] = m[v[1]].start + v[2]
    BY <1>3, <1>5
  <2>2. m[u[1]].start = m[v[1]].start BY <1>1, <2>1, RunsApart
  <2>3. u[1] = v[1] BY <1>2, <2>1, <2>2
  <2>4. m[u[1]].start \in Nat BY <1>1, <2>1
  <2>5. u[2] = v[2] BY <2>1, <2>2, <2>4
  <2> QED BY <2>1, <2>3, <2>5
<1>6. g \in Injection(U, 0 .. (n - 1))
  <2> HIDE DEF g, U
  <2>1. \A u, v \in DOMAIN g : g[u] = g[v] => u = v BY <1>4, <1>5
  <2> QED BY <1>4, <2>1 DEF Injection, IsInjective
<1> HIDE DEF g, U
<1>7. IsFiniteSet(0 .. (n - 1)) /\ Cardinality(0 .. (n - 1)) = n BY FS_Interval
<1>8. IsFiniteSet(U) /\ Cardinality(U) <= Cardinality(0 .. (n - 1)) BY <1>6, <1>7, FS_Injection
<1>9. Cardinality(U) \in Nat BY <1>8, FS_CardinalityType
<1> QED BY <1>7, <1>8, <1>9 DEF MapPages, U, m

LEMMA MapOfConventional ==
  ASSUME NEW fr, NEW n \in Nat, DOMAIN fr = 0 .. (n - 1)
  PROVE  /\ ConventionalFrames(MapOf(fr)) \subseteq {f \in DOMAIN fr : fr[f] = Conventional}
         /\ largest_segment(MapOf(fr)) # 0 =>
              /\ largest_segment(MapOf(fr)) \in DOMAIN fr
              /\ fr[largest_segment(MapOf(fr))] = Conventional
<1> DEFINE m == MapOf(fr)
<1>1. \A d \in DOMAIN m :
        /\ m[d].start \in Loader!Runs(fr)
        /\ m[d].type = Conventional <=> fr[m[d].start] = Conventional
        /\ Pages(m[d].start, m[d].pages) = RunFrom(fr, m[d].start)
  BY MapOfRuns
<1> HIDE DEF m
<1>2. ASSUME NEW f \in ConventionalFrames(m) PROVE f \in DOMAIN fr /\ fr[f] = Conventional
  <2>1. PICK d \in ConventionalIn(m) : f \in Pages(m[d].start, m[d].pages)
    BY DEF ConventionalFrames
  <2>2. d \in DOMAIN m /\ m[d].type = Conventional BY DEF ConventionalIn
  <2>3. f \in RunFrom(fr, m[d].start) /\ m[d].start \in 0 .. (n - 1)
    BY <1>1, <2>1, <2>2 DEF Loader!Runs
  <2>4. f \in 0 .. (n - 1) /\ f \in m[d].start .. f BY <2>3 DEF RunFrom
  <2>5. fr[f] = fr[m[d].start] BY <2>3, <2>4 DEF RunFrom
  <2> QED BY <1>1, <2>2, <2>4, <2>5
<1>3. ASSUME largest_segment(m) # 0
      PROVE  largest_segment(m) \in DOMAIN fr /\ fr[largest_segment(m)] = Conventional
  <2>1. PICK d \in Largest(m) : largest_segment(m) = m[d].start BY <1>3 DEF largest_segment
  <2>2. d \in DOMAIN m /\ m[d].type = Conventional BY DEF Largest, ConventionalIn
  <2> QED BY <1>1, <2>1, <2>2 DEF Loader!Runs
<1> QED BY <1>2, <1>3 DEF m

-----------------------------------------------------------------------------
(***************************************************************************)
(* The inductive invariant about the kernel's frames, for all its steps,   *)
(* the one that finds no frame included: what the map does not call free,  *)
(* unless the loops of ppa_init went below a range, is taken, and apart    *)
(* from the tables and the others.                                         *)
(***************************************************************************)
NotFree ==
  Nat \ ({f \in DOMAIN handed.frames : handed.frames[f] = Conventional}
           \cup Overshot(MapOf(handed.frames)))

Off(s) == Apart(s, fb) \cup NotFree

\* The bitmap begins in free memory and is no longer than memory.
Based(s) ==
  /\ s.data \in DOMAIN handed.frames /\ handed.frames[s.data] = Conventional
  /\ bitmap_pages(s) \in Nat /\ bitmap_pages(s) <= Cardinality(DOMAIN handed.frames)

Empty == PML4 = {} /\ others = {} /\ Bitless(ppa)

Filling ==
  /\ PML4 = {} /\ others = {} /\ ~ lost
  /\ \/ pc = "lock_kernel" /\ Kept(ppa, mem, FALSE, {}, Fixed(ppa) \cup NotFree)
     \/ pc = "lock_fb" /\ Kept(ppa, mem, FALSE, {}, Fixed(ppa) \cup NotFree \cup KernelImage)

Serving ==
  /\ pc \notin {"ppa_init", "lock_kernel", "lock_fb"}
  /\ Kept(ppa, mem, lost, PML4, others \cup Off(ppa))
  /\ others \cap Off(ppa) = {}

FrameInv ==
  \/ Empty /\ (lpc = "kernel" \/ pc = "ppa_init")
  \/ lpc = "kernel" /\ Based(ppa) /\ (Filling \/ Serving)

SystemInv == LoaderInv /\ BootInv /\ FrameInv

LEMMA SystemStart == SystemInit => SystemInv
<1> SUFFICES ASSUME SystemInit PROVE SystemInv OBVIOUS
<1>1. LoaderInv BY LoaderInit DEF SystemInit
<1>2. Bitless(ppa)
  <2>1. Unbooted \in State BY UnbootedState
  <2>2. ppa = Unbooted \/ ppa = [Unbooted EXCEPT !.initialized = TRUE] BY DEF SystemInit
  <2>3. ppa \in State BY <2>1, <2>2 DEF State
  <2>4. ppa.size = 0 /\ ppa.last_hit = 0 BY <2>2 DEF Unbooted
  <2> QED BY <2>3, <2>4 DEF Bitless
<1>3. BootInv BY <1>2 DEF SystemInit, BootInv, Bare, Untouched
<1>4. FrameInv BY <1>2 DEF SystemInit, FrameInv, Empty
<1> QED BY <1>1, <1>3, <1>4 DEF SystemInv

\* The loader runs before the kernel has done anything.
LEMMA LoadStep == SystemInv /\ Load => SystemInv'
<1> SUFFICES ASSUME SystemInv, Load PROVE SystemInv' OBVIOUS
<1>1. LoaderInv' BY LoaderNext DEF SystemInv, Load
<1>2. UNCHANGED <<ppa, mem, lost, PML4, others, pc, fb, addr, cr3>>
  BY DEF Load, kernel_vars, vars
<1>3. BootInv' BY <1>2, NextBootInv DEF SystemInv, kernel_vars, vars
<1>4. lpc # "kernel"
  BY DEF Load, Loader!Next, Loader!Progress, Loader!InitializeGop, Loader!GetMemoryMap,
         Loader!ReadHeader, Loader!ReadProgramHeaders, Loader!LoadSegment,
         Loader!ExitBootServices, Loader!NoMemoryMap, Loader!At
<1>5. FrameInv' BY <1>2, <1>4 DEF SystemInv, FrameInv, Empty, Bitless
<1> QED BY <1>1, <1>3, <1>5 DEF SystemInv

-----------------------------------------------------------------------------
(* The kernel's steps.                                                     *)

\* ppa_init can walk the map that is handed over.
LEMMA HandedMap ==
  ASSUME LoaderInv, Fetched
  PROVE  LET n == Cardinality(DOMAIN handed.frames)
         IN  /\ n \in Nat /\ DOMAIN handed.frames = 0 .. (n - 1) /\ 2 * n <= AddressLimit
             /\ WalkedMap(MapOf(handed.frames)) /\ MapPages(MapOf(handed.frames)) <= n
             /\ MapPages(MapOf(handed.frames)) <= AddressLimit
<1> DEFINE fr == handed.frames
           n == Cardinality(DOMAIN fr)
<1>1. PICK m \in Memories : DOMAIN frames = DOMAIN m BY DEF LoaderInv
<1>2. DOMAIN fr = DOMAIN frames /\ \E f \in DOMAIN frames : fr[f] # "hole" BY DEF LoaderInv
<1>3. n \in Nat /\ DOMAIN fr = 0 .. (n - 1) /\ n < CounterMod /\ 2 * n <= AddressLimit
  BY <1>1, <1>2, MemoryAssumption DEF AddressLimit
<1>4. PICK f \in DOMAIN fr : fr[f] # "hole" BY <1>2
<1> HIDE DEF fr, n
<1>5. MapPages(MapOf(fr)) \in Nat /\ MapPages(MapOf(fr)) <= n BY <1>3, MapOfPages
<1>6. /\ MapOf(fr) \in Seq(Descriptor)
      /\ DOMAIN MapOf(fr) = 1 .. Cardinality(Loader!Runs(fr))
      /\ Cardinality(Loader!Runs(fr)) \in Nat /\ IsFiniteSet(Loader!Runs(fr))
  BY <1>3, MapOfRuns
<1>7. Loader!Runs(fr) # {} BY <1>3, <1>4, SomeRun
<1>8. Cardinality(Loader!Runs(fr)) # 0 BY <1>6, <1>7, FS_EmptySet
<1>9. MapOf(fr) # <<>>
  <2>1. 1 \in DOMAIN MapOf(fr) BY <1>6, <1>8
  <2> QED BY <2>1
<1> QED BY <1>3, <1>5, <1>6, <1>9, LimitType, SizeAssumption DEF WalkedMap, fr, n

\* What does not change with the bitmap and the hint.
LEMMA SameOff ==
  ASSUME SameHeader(ppa', ppa), fb' = fb, handed' = handed
  PROVE  /\ Fixed(ppa)' = Fixed(ppa) /\ NotFree' = NotFree /\ Off(ppa)' = Off(ppa)
         /\ Based(ppa) => Based(ppa)'
<1>1. Fixed(ppa)' = Fixed(ppa) BY DEF Fixed, bitmap_pages, SameHeader
<1>2. NotFree' = NotFree BY DEF NotFree
<1>3. Off(ppa)' = Off(ppa) BY <1>1, <1>2 DEF Off, Apart
<1>4. Based(ppa) => Based(ppa)' BY DEF Based, bitmap_pages, SameHeader
<1> QED BY <1>1, <1>2, <1>3, <1>4

LEMMA StillEmpty ==
  ASSUME lpc' = "kernel", PML4' = {}, others' = {}, Bitless(ppa')
  PROVE  FrameInv'
BY DEF FrameInv, Empty, Bitless

LEMMA StillServing ==
  ASSUME lpc' = "kernel", fb' = fb, handed' = handed, Based(ppa), SameHeader(ppa', ppa),
         pc' \notin {"ppa_init", "lock_kernel", "lock_fb"},
         Kept(ppa', mem', lost', PML4', others' \cup Off(ppa)),
         others' \cap Off(ppa) = {}
  PROVE  FrameInv'
<1>1. Off(ppa)' = Off(ppa) /\ Based(ppa)' BY SameOff
<1>2. Serving' BY <1>1 DEF Serving
<1> QED BY <1>1, <1>2 DEF FrameInv

\* ppa_init leaves free only what the map calls free and what its loops visit
\* below a range.
LEMMA FrameInitAllocator ==
  ASSUME SystemInv, lpc = "kernel", lpc' = lpc, handed' = handed, NEW wraps \in BOOLEAN,
         InitAllocator(MapOf(handed.frames), wraps)
  PROVE  FrameInv'
<1> DEFINE fr == handed.frames
           m == MapOf(fr)
           n == Cardinality(DOMAIN fr)
<1>1. /\ pc = "ppa_init" /\ ~ lost /\ lost' = lost /\ pc' = "lock_kernel"
      /\ UNCHANGED <<PML4, others, cr3, addr>>
      /\ ppa' = ppa_init(ppa, m, wraps) /\ mem' = [f \in Frames(ppa') |-> Junk]
  BY DEF InitAllocator, At
<1>2. Bitless(ppa) /\ PML4 = {} /\ others = {} /\ lost = FALSE
  BY <1>1 DEF SystemInv, BootInv, Bare, SetUp, Locking, Progress, Untouched
<1>3. /\ n \in Nat /\ DOMAIN fr = 0 .. (n - 1) /\ WalkedMap(m)
      /\ MapPages(m) <= n /\ MapPages(m) <= AddressLimit
  BY HandedMap DEF SystemInv, Fetched
<1>4. /\ ConventionalFrames(m) \subseteq {f \in DOMAIN fr : fr[f] = Conventional}
      /\ largest_segment(m) # 0 =>
           largest_segment(m) \in DOMAIN fr /\ fr[largest_segment(m)] = Conventional
  BY <1>3, MapOfConventional
<1>5. NotFree = Nat \ ({f \in DOMAIN fr : fr[f] = Conventional} \cup Overshot(m))
  BY DEF NotFree
<1> HIDE DEF fr, m, n
<1>6. CASE Bitless(ppa') BY <1>1, <1>2, <1>6, StillEmpty
<1>7. CASE ~ Bitless(ppa')
  <2>1. /\ SoundBitmap(ppa') /\ bitmap_pages(ppa') \in Nat /\ bitmap_pages(ppa') <= MapPages(m)
        /\ largest_segment(m) # 0 /\ ppa'.data = largest_segment(m)
        /\ Frames(ppa') \ ppa'.bits \subseteq Released(m, wraps)
    BY <1>1, <1>2, <1>3, <1>7, InitAnswer
  <2>2. NotFree \cap Frames(ppa') \subseteq ppa'.bits
    <3>1. Released(m, wraps) \subseteq ConventionalFrames(m) \cup Overshot(m)
      BY <1>3, ReleasedConventional
    <3> QED BY <1>4, <1>5, <2>1, <3>1
  <2>3. mem' \in [Frames(ppa') -> Table]
    <3>1. Junk \in Table BY DEF Junk, Table, Entry
    <3> QED BY <1>1, <3>1
  <2>4. (Fixed(ppa') \cup NotFree) \cap Frames(ppa') \subseteq ppa'.bits
    BY <2>1, <2>2 DEF SoundBitmap
  <2>5. Kept(ppa', mem', FALSE, {}, Fixed(ppa') \cup NotFree) BY <2>1, <2>3, <2>4, NoRootKept
  <2>6. NotFree' = NotFree BY DEF NotFree
  <2>7. Fixed(ppa)' = Fixed(ppa') BY DEF Fixed, bitmap_pages
  <2>8. Filling' BY <1>1, <1>2, <2>5, <2>6, <2>7 DEF Filling
  <2>9. bitmap_pages(ppa') <= n
    <3>1. MapPages(m) \in Nat BY <1>3, MapPagesType DEF Counter
    <3> QED BY <1>3, <2>1, <3>1
  <2>10. Based(ppa)' BY <1>4, <2>1, <2>9 DEF Based, bitmap_pages, fr, n
  <2> QED BY <2>8, <2>10 DEF FrameInv
<1> QED BY <1>6, <1>7

LEMMA FrameLockKernel ==
  ASSUME SystemInv, lpc = "kernel", lpc' = lpc, handed' = handed, LockKernel
  PROVE  FrameInv'
<1>1. /\ pc = "lock_kernel" /\ ~ lost /\ lost' = lost /\ fb' = fb /\ pc' = "lock_fb"
      /\ UNCHANGED <<mem, PML4, others, cr3, addr>>
      /\ ppa' = ppa_lckn(ppa, 0, KernelPages)
  BY DEF LockKernel, At
<1>2. 0 \in Nat /\ KernelPages \in 0 .. CounterMod BY KernelAssumption, SizeAssumption
<1>3. CASE Empty
  <2>1. Bitless(ppa') BY <1>1, <1>2, <1>3, BitlessLocks DEF Empty
  <2> QED BY <1>1, <1>3, <2>1, StillEmpty DEF Empty
<1>4. CASE Based(ppa) /\ Filling
  <2>1. Kept(ppa, mem, FALSE, {}, Fixed(ppa) \cup NotFree) /\ PML4 = {} /\ others = {}
    BY <1>1, <1>4 DEF Filling
  <2>2. /\ Kept(ppa', mem, FALSE, {}, (Fixed(ppa) \cup NotFree) \cup KernelImage)
        /\ SameHeader(ppa', ppa)
    BY <1>1, <1>2, <2>1, LockKept DEF KernelImage
  <2>3. Fixed(ppa)' = Fixed(ppa) /\ NotFree' = NotFree /\ Based(ppa)'
    BY <1>1, <1>4, <2>2, SameOff
  <2>4. Filling' BY <1>1, <2>1, <2>2, <2>3 DEF Filling
  <2> QED BY <2>3, <2>4 DEF FrameInv
<1> QED BY <1>1, <1>3, <1>4 DEF SystemInv, FrameInv, Serving

LEMMA FrameLockFrameBuffer ==
  ASSUME SystemInv, lpc = "kernel", lpc' = lpc, handed' = handed, LockFrameBuffer
  PROVE  FrameInv'
<1>1. /\ pc = "lock_fb" /\ ~ lost /\ lost' = lost /\ fb' = fb /\ pc' = "pml4"
      /\ UNCHANGED <<mem, PML4, others, cr3, addr>>
      /\ ppa' = ppa_lckn(ppa, fb[1], fb[2] + 1)
  BY DEF LockFrameBuffer, At, fbsize_div
<1>2. fb[1] \in Nat /\ fb[2] + 1 \in 0 .. CounterMod
  BY FrameBufferFacts DEF SystemInv, BootInv
<1>3. CASE Empty
  <2>1. Bitless(ppa') BY <1>1, <1>2, <1>3, BitlessLocks DEF Empty
  <2> QED BY <1>1, <1>3, <2>1, StillEmpty DEF Empty
<1>4. CASE Based(ppa) /\ Filling
  <2>1. /\ Kept(ppa, mem, FALSE, {}, Fixed(ppa) \cup NotFree \cup KernelImage)
        /\ PML4 = {} /\ others = {} /\ lost = FALSE
    BY <1>1, <1>4 DEF Filling, SystemInv, BootInv
  <2>2. /\ Kept(ppa', mem, FALSE, {},
                (Fixed(ppa) \cup NotFree \cup KernelImage) \cup Pages(fb[1], fb[2] + 1))
        /\ SameHeader(ppa', ppa)
    BY <1>1, <1>2, <2>1, LockKept
  <2>3. (Fixed(ppa) \cup NotFree \cup KernelImage) \cup Pages(fb[1], fb[2] + 1)
          = others' \cup Off(ppa)
    BY <1>1, <2>1 DEF Off, Apart
  <2> QED BY <1>1, <1>4, <2>1, <2>2, <2>3, StillServing
<1> QED BY <1>1, <1>3, <1>4 DEF SystemInv, FrameInv, Serving

\* A request that finds no frame changes nothing but that it is lost.
LEMMA RefusedStep ==
  ASSUME NEW H, Kept(ppa, mem, lost, PML4, H), RequestedFrame(ppa) \notin Usable(ppa),
         ppa' = ppa_request(ppa), lost' = TRUE, mem' = mem, PML4' = PML4
  PROVE  Kept(ppa', mem', lost', PML4', H) /\ SameHeader(ppa', ppa)
<1> DEFINE L == LevelsOf(mem, PML4)
           w == [ppa |-> ppa', mem |-> mem, lost |-> TRUE, at |-> 0]
<1>1. /\ SoundBitmap(ppa) /\ mem \in [Frames(ppa) -> Table]
      /\ Tree(mem, L) /\ L[1] = PML4
      /\ \A k \in 1 .. 4 : L[k] \subseteq ppa.bits \cap Usable(ppa) /\ L[k] \cap H = {}
      /\ H \cap Frames(ppa) \subseteq ppa.bits
  BY KeptFacts
<1>2. RequestedFrame(ppa) \notin Frames(ppa) \ {0} BY DEF Usable
<1>3. SoundBitmap(ppa') /\ SameHeader(ppa', ppa) /\ ppa'.bits = ppa.bits
  BY <1>1, <1>2, RequestBits
<1>4. Frames(ppa') = Frames(ppa) /\ Usable(ppa') = Usable(ppa)
  BY <1>3, SameFixed DEF Usable
<1>5. Walking(w) /\ w.ppa = ppa' /\ w.mem = mem /\ w.lost = TRUE BY DEF Walking
<1> HIDE DEF L, w
<1>6. Sound(w, L, H) BY <1>1, <1>3, <1>4, <1>5 DEF Sound
<1>7. Kept(w.ppa, w.mem, w.lost, PML4, H) BY <1>1, <1>6, Settled
<1> QED BY <1>3, <1>5, <1>7

Setting == pc \in {"ppa_init", "lock_kernel", "lock_fb"}

\* What a step finds once the allocator is set up and locked.
LEMMA Served ==
  ASSUME SystemInv, lpc = "kernel", ~ Setting
  PROVE  \/ Empty
         \/ /\ Based(ppa) /\ Kept(ppa, mem, lost, PML4, others \cup Off(ppa))
            /\ others \cap Off(ppa) = {}
BY DEF SystemInv, FrameInv, Filling, Serving, Empty, Setting

LEMMA FrameRequestPml4 ==
  ASSUME SystemInv, lpc = "kernel", lpc' = lpc, handed' = handed, RequestPml4
  PROVE  FrameInv'
<1>1. pc = "pml4" /\ fb' = fb /\ pc' = "identity" /\ InitPml4 /\ others' = others
  BY DEF RequestPml4, At, InitPml4
<1>2. CASE Empty
  <2>1. RequestedFrame(ppa) \notin Usable(ppa) /\ ppa_request(ppa) = ppa
    BY <1>2, BitlessAnswers DEF Empty
  <2>2. ppa' = ppa /\ PML4' = {} BY <1>1, <2>1 DEF InitPml4, Becomes, NewTable, Walk
  <2> QED BY <1>1, <1>2, <2>2, StillEmpty DEF Empty
<1>3. CASE Based(ppa) /\ Kept(ppa, mem, lost, PML4, others \cup Off(ppa)) /\ others \cap Off(ppa) = {}
  <2> DEFINE H == others \cup Off(ppa)
  <2>1. Kept(ppa', mem', lost', PML4', H) /\ SameHeader(ppa', ppa) BY <1>1, <1>3, InitPml4Step
  <2> QED BY <1>1, <1>3, <2>1, StillServing
<1> QED BY <1>1, <1>2, <1>3, Served DEF Setting

LEMMA FrameMap ==
  ASSUME SystemInv, lpc = "kernel", lpc' = lpc, handed' = handed, fb' = fb,
         ~ Setting, ~ Setting', NEW v \in Page, NEW p \in Nat, Map(v, p)
  PROVE  FrameInv'
<1>1. PML4 # {} /\ others' = others BY DEF Map
<1>2. Based(ppa) /\ Kept(ppa, mem, lost, PML4, others \cup Off(ppa)) /\ others \cap Off(ppa) = {}
  BY <1>1, Served DEF Empty
<1> DEFINE H == others \cup Off(ppa)
<1>3. Kept(ppa', mem', lost', PML4', H) /\ SameHeader(ppa', ppa) BY <1>2, MapStep
<1> QED BY <1>1, <1>2, <1>3, StillServing DEF Setting

LEMMA FrameIdle ==
  ASSUME SystemInv, lpc = "kernel", lpc' = lpc, handed' = handed, fb' = fb,
         ~ Setting, ~ Setting', UNCHANGED vars
  PROVE  FrameInv'
<1>1. UNCHANGED <<ppa, mem, lost, PML4, others>> BY DEF vars
<1>2. CASE Empty BY <1>1, <1>2, StillEmpty DEF Empty
<1>3. CASE Based(ppa) /\ Kept(ppa, mem, lost, PML4, others \cup Off(ppa)) /\ others \cap Off(ppa) = {}
  BY <1>1, <1>3, StillServing DEF Setting, SameHeader
<1> QED BY <1>2, <1>3, Served

LEMMA FrameMapMemory ==
  ASSUME SystemInv, lpc = "kernel", lpc' = lpc, handed' = handed, MapMemory
  PROVE  FrameInv'
<1>1. pc = "identity" /\ ~ lost /\ fb' = fb BY DEF MapMemory, At
<1>2. BootInv /\ Sized /\ Progress /\ ppa.total \in Nat BY <1>1, Working DEF SystemInv
<1>3. addr \in 0 .. ppa.total BY <1>1, <1>2 DEF Progress
<1>4. CASE addr < ppa.total
  <2>1. Map(PageOf(addr), addr) /\ pc' = pc BY <1>4 DEF MapMemory
  <2>2. addr \in Nat /\ addr < AddressLimit BY <1>2, <1>3, <1>4, LimitType DEF Sized
  <2>3. PageOf(addr) \in Page BY <2>2, Digits
  <2> QED BY <1>1, <2>1, <2>2, <2>3, FrameMap DEF Setting
<1>5. CASE ~ (addr < ppa.total)
  <2>1. pc' = "map_fb" /\ UNCHANGED vars BY <1>5 DEF MapMemory
  <2> QED BY <1>1, <2>1, FrameIdle DEF Setting
<1> QED BY <1>4, <1>5

LEMMA FrameMapFrameBuffer ==
  ASSUME SystemInv, lpc = "kernel", lpc' = lpc, handed' = handed, MapFrameBuffer
  PROVE  FrameInv'
<1>1. pc = "map_fb" /\ ~ lost /\ fb' = fb BY DEF MapFrameBuffer, At
<1>2. BootInv /\ Progress /\ fb \in FrameBuffers BY <1>1, Working DEF SystemInv
<1>3. addr \in fb[1] .. FbEnd(fb) BY <1>1, <1>2 DEF Progress
<1>4. fb[1] \in Nat /\ FbEnd(fb) \in Nat /\ FbEnd(fb) <= AddressLimit
  BY <1>2, FrameBufferFacts
<1>5. FbEnd(fb) = fb[1] + fbsize_up BY DEF FbEnd, fbsize_up
<1>6. CASE addr < FbEnd(fb)
  <2>1. Map(PageOf(addr), addr) /\ pc' = pc BY <1>5, <1>6 DEF MapFrameBuffer
  <2>2. addr \in Nat /\ addr < AddressLimit BY <1>3, <1>4, <1>6, LimitType
  <2>3. PageOf(addr) \in Page BY <2>2, Digits
  <2> QED BY <1>1, <2>1, <2>2, <2>3, FrameMap DEF Setting
<1>7. CASE ~ (addr < FbEnd(fb))
  <2>1. pc' = "init_idt" /\ UNCHANGED vars BY <1>5, <1>7 DEF MapFrameBuffer
  <2> QED BY <1>1, <2>1, FrameIdle DEF Setting
<1> QED BY <1>6, <1>7

LEMMA FrameRequestIdt ==
  ASSUME SystemInv, lpc = "kernel", lpc' = lpc, handed' = handed, RequestIdt
  PROVE  FrameInv'
<1>1. pc = "init_idt" /\ fb' = fb /\ pc' = "test" BY DEF RequestIdt, At
<1>2. CASE Empty
  <2>1. RequestedFrame(ppa) \notin Usable(ppa) /\ ppa_request(ppa) = ppa
    BY <1>2, BitlessAnswers DEF Empty
  <2>2. ppa' = ppa /\ PML4' = PML4 /\ others' = others BY <2>1 DEF RequestIdt, TakeFrame
  <2> QED BY <1>2, <2>2, StillEmpty DEF Empty
<1>3. CASE Based(ppa) /\ Kept(ppa, mem, lost, PML4, others \cup Off(ppa)) /\ others \cap Off(ppa) = {}
  <2> DEFINE H == others \cup Off(ppa)
             f == RequestedFrame(ppa)
  <2>1. CASE TakeFrame
    <3>1. Kept(ppa', mem', lost', PML4', H \cup {f}) /\ SameHeader(ppa', ppa) /\ f \notin H
      BY <1>3, <2>1, TakeStep
    <3>2. others' = others \cup {f} BY <2>1 DEF TakeFrame
    <3> HIDE DEF f
    <3>3. H \cup {f} = others' \cup Off(ppa) /\ others' \cap Off(ppa) = {}
      BY <1>3, <3>1, <3>2
    <3> QED BY <1>1, <1>3, <3>1, <3>3, StillServing
  <2>2. CASE ~ TakeFrame
    <3>1. /\ f \notin Usable(ppa) /\ ppa' = ppa_request(ppa) /\ lost' = TRUE
          /\ UNCHANGED <<mem, PML4, others>>
      BY <2>2 DEF RequestIdt
    <3>2. Kept(ppa', mem', lost', PML4', H) /\ SameHeader(ppa', ppa)
      BY <1>3, <3>1, RefusedStep
    <3> QED BY <1>1, <1>3, <3>1, <3>2, StillServing
  <2> QED BY <2>1, <2>2
<1> QED BY <1>1, <1>2, <1>3, Served DEF Setting

LEMMA FrameTestMapping ==
  ASSUME SystemInv, lpc = "kernel", lpc' = lpc, handed' = handed, TestMapping
  PROVE  FrameInv'
<1>1. pc = "test" /\ fb' = fb /\ pc' = "done" /\ Map(PageOf(TestPage), TestFrame)
  BY DEF TestMapping, At
<1>2. PageOf(TestPage) \in Page BY TestFacts, LimitType, Digits DEF Address
<1> QED BY <1>1, <1>2, TestFacts, FrameMap DEF Setting

LEMMA RunStep == SystemInv /\ Run => SystemInv'
<1> SUFFICES ASSUME SystemInv, Run PROVE SystemInv' OBVIOUS
<1>1. /\ lpc = "kernel" /\ lpc' = lpc /\ handed' = handed /\ frames' = frames
      /\ buffer' = buffer
  BY DEF Run, loader_vars
<1>0. BootInv BY DEF SystemInv
<1>2. LoaderInv' BY <1>1 DEF SystemInv, LoaderInv, Fetched
<1>3. ASSUME NEW wraps \in BOOLEAN, InitAllocator(MapOf(handed.frames), wraps)
      PROVE  BootInv' /\ FrameInv'
  <2>1. WalkedMap(MapOf(handed.frames)) /\ MapPages(MapOf(handed.frames)) <= AddressLimit
    BY <1>1, HandedMap DEF SystemInv, Fetched
  <2> QED BY <1>0, <1>1, <1>3, <2>1, StepInitAllocator, FrameInitAllocator
<1>4. ASSUME LockKernel PROVE BootInv' /\ FrameInv'
  BY <1>0, <1>1, <1>4, StepLockKernel, FrameLockKernel
<1>5. ASSUME LockFrameBuffer PROVE BootInv' /\ FrameInv'
  BY <1>0, <1>1, <1>5, StepLockFrameBuffer, FrameLockFrameBuffer
<1>6. ASSUME RequestPml4 PROVE BootInv' /\ FrameInv'
  BY <1>0, <1>1, <1>6, StepRequestPml4, FrameRequestPml4
<1>7. ASSUME MapMemory PROVE BootInv' /\ FrameInv'
  BY <1>0, <1>1, <1>7, StepMapMemory, FrameMapMemory
<1>8. ASSUME MapFrameBuffer PROVE BootInv' /\ FrameInv'
  BY <1>0, <1>1, <1>8, StepMapFrameBuffer, FrameMapFrameBuffer
<1>9. ASSUME RequestIdt PROVE BootInv' /\ FrameInv'
  BY <1>0, <1>1, <1>9, StepRequestIdt, FrameRequestIdt
<1>10. ASSUME TestMapping PROVE BootInv' /\ FrameInv'
  BY <1>0, <1>1, <1>10, StepTestMapping, FrameTestMapping
<1> QED BY <1>2, <1>3, <1>4, <1>5, <1>6, <1>7, <1>8, <1>9, <1>10 DEF Run, SystemInv

LEMMA SystemStep == SystemInv /\ [SystemNext]_system_vars => SystemInv'
<1> SUFFICES ASSUME SystemInv, [SystemNext]_system_vars PROVE SystemInv' OBVIOUS
<1>1. CASE UNCHANGED system_vars
  <2>1. UNCHANGED kernel_vars /\ UNCHANGED <<ppa, mem, lost, PML4, others, pc, fb>>
    BY <1>1 DEF system_vars, kernel_vars, vars
  <2>2. UNCHANGED <<lpc, frames, buffer, handed>> BY <1>1 DEF system_vars, loader_vars
  <2>3. BootInv' BY <2>1, NextBootInv DEF SystemInv
  <2>4. LoaderInv' BY <2>2 DEF SystemInv, LoaderInv, Fetched
  <2>5. FrameInv'
    BY <2>1, <2>2 DEF SystemInv, FrameInv, Empty, Bitless, Filling, Serving, Based, Off, Apart,
                      Fixed, NotFree, bitmap_pages
  <2> QED BY <2>3, <2>4, <2>5 DEF SystemInv
<1> QED BY <1>1, LoadStep, RunStep DEF SystemNext

LEMMA SystemInvHolds == SystemSpec => []SystemInv
BY SystemStart, SystemStep, PTL DEF SystemSpec

-----------------------------------------------------------------------------
(* The theorems.                                                           *)

\* Who has a bitmap has one that ppa_init placed, and its tables and other frames
\* are apart from all that is taken.
LEMMA StartedFacts ==
  ASSUME SystemInv, Started
  PROVE  /\ lpc = "kernel" /\ Based(ppa)
         /\ Tables \cap Off(ppa) = {} /\ others \cap Off(ppa) = {}
<1>1. ~ Bitless(ppa) BY DEF Started, Bitless
<1>2. lpc = "kernel" /\ Based(ppa) /\ (Filling \/ Serving)
  BY <1>1 DEF SystemInv, FrameInv, Empty
<1>3. CASE Filling BY <1>2, <1>3, NoTables DEF Filling
<1>4. CASE Serving
  <2>1. Level = LevelsOf(mem, PML4) BY DEF Level, LevelsOf
  <2>2. \A k \in 1 .. 4 : Level[k] \cap (others \cup Off(ppa)) = {}
    BY <1>4, <2>1, KeptFacts DEF Serving
  <2> QED BY <1>2, <1>4, <2>2 DEF Tables, Serving
<1> QED BY <1>2, <1>3, <1>4

\* What the loader leaves in use is not free in the map, unless it was taken
\* after the map was fetched.
LEMMA OccupiedListed ==
  ASSUME LoaderInv, Fetched, NEW f \in Stack \cup buffer \cup (Occupied \ Unlisted)
  PROVE  f \in Nat /\ f \in DOMAIN handed.frames /\ handed.frames[f] # Conventional
<1>1. f \in DOMAIN handed.frames /\ handed.frames[f] # Conventional
  BY DEF LoaderInv, Occupied, Unlisted
<1>2. DOMAIN handed.frames \subseteq Nat BY HandedMap
<1> QED BY <1>1, <1>2

(***************************************************************************)
(* Whatever the firmware and the loader take after the map was fetched,    *)
(* the kernel's tables and its descriptor table keep off the image, the    *)
(* stack, the map, and all that was in use when the map was fetched, but   *)
(* for what the loops of ppa_init release below a range that is too long   *)
(* for their int.  What was taken later they may take.                     *)
(***************************************************************************)
THEOREM TakesOnlyListedFree == SystemSpec => []KernelTakesOnlyListedFree
<1>1. ASSUME SystemInv PROVE KernelTakesOnlyListedFree
  <2> DEFINE listed == Stack \cup buffer \cup (Occupied \ Unlisted)
             fr == handed.frames
             taken == Tables \cup others
  <2> SUFFICES ASSUME Started
               PROVE  /\ taken \cap Loader!Image = {}
                      /\ taken \cap listed \subseteq Overshot(MapOf(fr))
                      /\ ppa.data >= KernelPages => Bitmap \cap Loader!Image = {}
                      /\ Bitmap \subseteq RunFrom(fr, ppa.data) => Bitmap \cap listed = {}
    <3> HIDE DEF taken
    <3> QED BY DEF KernelTakesOnlyListedFree, taken
  <2>1. lpc = "kernel" /\ Based(ppa) /\ Tables \cap Off(ppa) = {} /\ others \cap Off(ppa) = {}
    BY <1>1, StartedFacts
  <2>2. LoaderInv /\ Fetched BY <1>1, <2>1 DEF SystemInv, Fetched
  <2>3. \A f \in listed : f \in Nat /\ f \in DOMAIN fr /\ fr[f] # Conventional
    BY <2>2, OccupiedListed
  <2>4. Loader!Image \subseteq KernelImage BY ImageAssumption
  <2>5. ppa.data \in Nat /\ fr[ppa.data] = Conventional /\ bitmap_pages(ppa) \in Nat
    <3>1. DOMAIN fr \subseteq Nat BY <2>2, HandedMap
    <3> QED BY <2>1, <3>1 DEF Based
  <2> HIDE DEF listed
  <2>6. taken \cap Loader!Image = {} BY <2>1, <2>4 DEF Off, Apart
  <2>7. taken \cap listed \subseteq Overshot(MapOf(fr))
    <3>1. listed \subseteq NotFree \cup Overshot(MapOf(fr)) BY <2>3 DEF NotFree
    <3> QED BY <2>1, <3>1 DEF Off
  <2>8. ASSUME ppa.data >= KernelPages PROVE Bitmap \cap Loader!Image = {}
    <3>1. KernelPages \in Nat BY KernelAssumption
    <3> QED BY <2>4, <2>5, <2>8, <3>1 DEF Bitmap, KernelImage, Pages
  <2>9. ASSUME Bitmap \subseteq RunFrom(fr, ppa.data) PROVE Bitmap \cap listed = {}
    <3> SUFFICES ASSUME NEW f \in Bitmap, f \in listed PROVE FALSE OBVIOUS
    <3>1. f \in Nat /\ fr[f] # Conventional BY <2>3
    <3>2. f >= ppa.data /\ \A g \in ppa.data .. f : fr[g] = fr[ppa.data]
      BY <2>9 DEF RunFrom
    <3>3. f \in ppa.data .. f BY <2>5, <3>1, <3>2
    <3> QED BY <2>5, <3>1, <3>2, <3>3
  <2> QED BY <2>6, <2>7, <2>8, <2>9
<1> QED BY <1>1, SystemInvHolds, PTL

\* Stack, image and bitmap are mapped where they are, below what the map adds up to.
THEOREM GoesOn == SystemSpec => []InUseMapped
<1>1. ASSUME SystemInv PROVE InUseMapped
  <2> SUFFICES ASSUME cr3 # {}, Started, ~ lost,
                      NEW a \in (Stack \cup Loader!Image \cup Bitmap)
                                  \ (Pages(fb[1], fbsize_up) \cup {TestPage})
               PROVE  Translated(a) = IF a < ppa.total THEN {a} ELSE {}
    BY DEF InUseMapped
  <2>1. Sized /\ Ready /\ Progress /\ pc \in {"init_idt", "test", "done"} /\ fb \in FrameBuffers
    BY <1>1 DEF SystemInv, BootInv, Bare, SetUp, Locking, Progress, Untouched
  <2>2. lpc = "kernel" /\ Based(ppa) BY <1>1, StartedFacts
  <2>3. LoaderInv /\ Fetched BY <1>1, <2>2 DEF SystemInv, Fetched
  <2> DEFINE n == Cardinality(DOMAIN handed.frames)
  <2>4. n \in Nat /\ DOMAIN handed.frames = 0 .. (n - 1) /\ 2 * n <= AddressLimit
    BY <2>3, HandedMap
  <2>5. AddressLimit \in Nat /\ KernelPages \in Nat /\ KernelPages <= AddressLimit
    BY LimitType, KernelAssumption, MemoryAssumption DEF AddressLimit
  <2> HIDE DEF n
  <2>6. a \in Address
    <3>1. CASE a \in Stack
      <4>1. a \in DOMAIN handed.frames BY <2>3, <3>1, OccupiedListed
      <4> QED BY <2>4, <2>5, <4>1 DEF Address
    <3>2. CASE a \in Loader!Image
      <4>1. a \in KernelImage BY <3>2, ImageAssumption
      <4> QED BY <2>5, <4>1 DEF KernelImage, Pages, Address
    <3>3. CASE a \in Bitmap
      <4>1. ppa.data \in 0 .. (n - 1) /\ bitmap_pages(ppa) \in Nat /\ bitmap_pages(ppa) <= n
        BY <2>2, <2>4 DEF Based, n
      <4> QED BY <2>4, <2>5, <3>3, <4>1 DEF Bitmap, Pages, Address
    <3> QED BY <3>1, <3>2, <3>3
  <2>7. a \in InUse(ppa, fb) <=> a < ppa.total
    <3>1. ppa.max_index \in Nat BY <2>1, KeptFacts DEF Ready, State, Counter
    <3>2. /\ fb[1] \in Nat /\ FbEnd(fb) \in Nat /\ FbEnd(fb) = fb[1] + fbsize_up
          /\ fbsize_up \in Nat
      BY <2>1, FrameBufferFacts DEF FbEnd, fbsize_up
    <3>3. a \notin fb[1] .. (FbEnd(fb) - 1)
      <4>1. Pages(fb[1], fbsize_up) = fb[1] .. (FbEnd(fb) - 1) BY <3>2 DEF Pages
      <4> QED BY <4>1
    <3>4. a \in Nat BY <2>5, <2>6 DEF Address
    <3>5. a \in Frames(ppa) <=> a < ppa.total BY <2>1, <3>1, <3>4 DEF Sized, Frames
    <3> QED BY <3>3, <3>5 DEF InUse
  <2>8. cr3 = PML4 /\ Found(mem, PML4, PageOf(a)) = IF a \in InUse(ppa, fb) THEN {a} ELSE {}
    BY <2>1, <2>6 DEF Progress, Maps
  <2> QED BY <2>7, <2>8 DEF Translated, Found
<1> QED BY <1>1, SystemInvHolds, PTL

-----------------------------------------------------------------------------
(* What the allocator has left.                                            *)

\* A request takes one of the frames that are left, or there was none.
LEMMA RequestRoom ==
  ASSUME NEW s, SoundBitmap(s)
  PROVE  /\ Room(s) \in Nat /\ Room(ppa_request(s)) \in Nat
         /\ RequestedFrame(s) \in Usable(s) => Room(s) = Room(ppa_request(s)) + 1
         /\ RequestedFrame(s) \notin Usable(s) => Room(s) = 0
<1> DEFINE f == RequestedFrame(s)
           q == ppa_request(s)
           A == Candidates(s) \cap Usable(s)
           B == Candidates(q) \cap Usable(q)
<1>1. /\ s \in State /\ SoundBitmap(q) /\ SameHeader(q, s) /\ q \in State
      /\ f \in Usable(s) => q.bits = s.bits \cup {f} /\ q.last_hit = f
  BY RequestBits DEF SoundBitmap, Usable
<1>2. Frames(q) = Frames(s) /\ Usable(q) = Usable(s) /\ q.size = s.size
  BY <1>1, SameFixed DEF Usable, SameHeader
<1>3. IsFiniteSet(A) /\ IsFiniteSet(B)
  <2>1. IsFiniteSet(Frames(s)) BY <1>1, FramesFinite
  <2>2. A \subseteq Frames(s) /\ B \subseteq Frames(s) BY <1>2 DEF Usable
  <2> QED BY <2>1, <2>2, FS_Subset
<1>4. Room(s) = Cardinality(A) /\ Room(q) = Cardinality(B) BY DEF Room
<1>5. Cardinality(A) \in Nat /\ Cardinality(B) \in Nat BY <1>3, FS_CardinalityType
<1>6. Candidates(s) # {} =>
        f \in Nat /\ f \in Candidates(s) /\ \A y \in Candidates(s) : f <= y
  BY <1>1, RequestEffect
<1>7. Candidates(s) = {} => f = 0 BY DEF RequestedFrame
<1>8. Frames(s) \subseteq Nat /\ s.max_index \in Nat
  BY SizeAssumption, <1>1 DEF Frames, State, Counter
<1>9. ASSUME f \in Usable(s) PROVE Cardinality(A) = Cardinality(B) + 1
  <2> DEFINE W == WordBits
             h == s.last_hit
  <2>1. W \in Nat /\ W > 1 /\ h \in Nat /\ s.size \in Nat
    BY <1>1, SizeAssumption DEF State
  <2>2. f \in Candidates(s) /\ f \in Nat /\ \A y \in Candidates(s) : f <= y
    BY <1>6, <1>7, <1>9 DEF Usable
  <2>3. /\ Candidates(s) = Unset(s, (W * (h \div W)) .. (W * s.size - 1))
        /\ Candidates(q) = Unset(q, (W * (f \div W)) .. (W * s.size - 1))
    BY <1>1, <1>2, <1>9 DEF Candidates
  <2> DEFINE lo == W * (h \div W)
             mi == W * (f \div W)
             hi == W * s.size - 1
  <2>4. lo \in Nat /\ mi \in Nat /\ mi <= f /\ hi \in Int
    <3>1. W * (h \div W) \in Nat BY <2>1, WordDivision
    <3>2. W * (f \div W) \in Nat /\ W * (f \div W) <= f BY <2>1, <2>2, WordDivision
    <3>3. W * s.size - 1 \in Int BY <2>1
    <3> QED BY <3>1, <3>2, <3>3
  <2>5. lo <= mi
    <3>1. lo <= f BY <2>2, <2>3, <2>4 DEF Unset
    <3>2. h \div W \in Nat /\ f \div W \in Nat /\ f < W * (f \div W + 1)
      BY <2>1, <2>2, WordDivision
    <3>3. h \div W <= f \div W
      <4> SUFFICES ASSUME f \div W + 1 <= h \div W PROVE FALSE BY <3>2
      <4>1. W * (f \div W + 1) <= lo BY <2>1, <3>2, ProductOrder
      <4>2. W * (f \div W + 1) \in Nat BY <2>1, <3>2
      <4> QED BY <2>2, <2>4, <3>1, <3>2, <4>1, <4>2
    <3> QED BY <2>1, <3>2, <3>3, ProductOrder
  <2> HIDE DEF lo, mi, hi
  <2>6. \A i : i \in Candidates(s) <=> i \in lo .. hi /\ ~ (i \in s.bits /\ i \in Frames(s))
    BY <2>3 DEF Unset, ppa_bitmap_get, lo, hi
  <2>7. \A i : i \in Candidates(q) <=>
                 i \in mi .. hi /\ ~ ((i \in s.bits \/ i = f) /\ i \in Frames(s))
    BY <1>1, <1>2, <1>9, <2>3 DEF Unset, ppa_bitmap_get, mi, hi
  <2>8. \A i : i \in A <=> i \in Candidates(s) /\ i \in Frames(s) /\ i # 0 BY DEF Usable
  <2>9. \A i : i \in B <=> i \in Candidates(q) /\ i \in Frames(s) /\ i # 0
    BY <1>2 DEF Usable
  <2>10. f \in Frames(s) BY <1>9 DEF Usable
  <2> HIDE DEF A, B, f
  <2>11. ASSUME NEW i \in Nat PROVE i \in B <=> i \in A /\ i # f
    <3>1. i \in mi .. hi => i \in lo .. hi BY <2>4, <2>5
    <3>2. i \in lo .. hi /\ f <= i => i \in mi .. hi BY <2>2, <2>4
    <3> QED BY <2>2, <2>6, <2>7, <2>8, <2>9, <2>10, <3>1, <3>2
  <2>12. A \subseteq Nat /\ B \subseteq Nat BY <1>8, <2>8, <2>9
  <2>13. B = A \ {f} BY <2>11, <2>12
  <2>14. f \in A BY <1>9, <2>2 DEF A
  <2>15. Cardinality(A \ {f}) = Cardinality(A) - 1 BY <1>3, <2>14, FS_RemoveElement
  <2> QED BY <1>5, <2>13, <2>15
<1>10. ASSUME f \notin Usable(s) PROVE Cardinality(A) = 0
  <2>1. A = {}
    <3> SUFFICES ASSUME NEW i \in A PROVE FALSE OBVIOUS
    <3>1. i \in Candidates(s) /\ i \in Frames(s) BY DEF Usable
    <3>2. f \in Nat /\ f \in Candidates(s) /\ f <= i BY <1>6, <3>1
    <3>3. f \in Frames(s) BY <1>8, <3>1, <3>2 DEF Frames
    <3>4. f = 0 BY <1>10, <3>3 DEF Usable
    <3>5. 0 \in s.bits /\ 0 \in Frames(s) BY FrameZeroTaken
    <3> QED BY <1>1, <3>2, <3>4, <3>5, CandidatesType
  <2> QED BY <2>1, FS_EmptySet
<1> QED BY <1>4, <1>5, <1>9, <1>10

-----------------------------------------------------------------------------
(* What a mapping costs.                                                   *)

(***************************************************************************)
(* The walk w is at the end of v's way to level k, and the tables below    *)
(* the root are those of the prefixes P: with what the allocator has left  *)
(* they are c.  A lost walk would have needed more than there was.         *)
(***************************************************************************)
Reckoned(w, root, v, k, P, c) ==
  /\ w.lost => Cardinality(P) > c
  /\ ~ w.lost => /\ w.at \in Way(w.mem, root, v, k) /\ Covers(w.mem, root, P)
                 /\ Room(w.ppa) + Cardinality(P) = c

LEMMA EnterCount ==
  ASSUME NEW w, NEW L, NEW H, Sound(w, L, H), NEW root \in L[1], NEW v \in Page,
         NEW k \in 1 .. 3, NEW P, IsFiniteSet(P), NEW c \in Nat,
         Reckoned(w, root, v, k - 1, P, c)
  PROVE  Reckoned(Enter(w, v[k]), root, v, k, P \cup {SubSeq(v, 1, k)}, c)
<1> DEFINE x == Enter(w, v[k])
           p == SubSeq(v, 1, k)
           Q == P \cup {p}
           found == w.mem[w.at][v[k]]
           f == RequestedFrame(w.ppa)
<1>1. /\ w.lost \in BOOLEAN /\ Walking(w) /\ SoundBitmap(w.ppa) /\ Tree(w.mem, L)
      /\ w.mem \in [Frames(w.ppa) -> Table]
  BY DEF Sound
<1>2. v[k] \in Index
  <2>1. v[1] \in Index /\ v[2] \in Index /\ v[3] \in Index BY DEF Page
  <2> QED BY <2>1
<1>3. /\ Cardinality(P) \in Nat /\ Cardinality(Q) \in Nat
      /\ Cardinality(Q) = IF p \in P THEN Cardinality(P) ELSE Cardinality(P) + 1
  BY FS_AddElement, FS_CardinalityType
<1>4. CASE w.lost
  <2>1. x = w BY <1>4 DEF Enter
  <2>2. Cardinality(Q) > c BY <1>3, <1>4 DEF Reckoned
  <2> HIDE DEF x, Q
  <2> QED BY <1>4, <2>1, <2>2 DEF Reckoned, x, Q
<1>5. ASSUME ~ w.lost
      PROVE  /\ w.at \in Way(w.mem, root, v, k - 1) /\ w.at \in L[k]
             /\ Covers(w.mem, root, P) /\ Room(w.ppa) + Cardinality(P) = c
             /\ Way(w.mem, root, v, k) = Follow(w.mem, Way(w.mem, root, v, k - 1), v[k])
             /\ p \in P <=> Way(w.mem, root, v, k) # {}
  <2>1. k - 1 \in 0 .. 3 /\ (k - 1) + 1 = k OBVIOUS
  <2>2. Way(w.mem, root, v, k - 1) \subseteq L[(k - 1) + 1] BY <1>1, <2>1, WayLevel
  <2>3. Way(w.mem, root, v, k) = Follow(w.mem, Way(w.mem, root, v, k - 1), v[k]) BY WayOn
  <2>4. w.at \in Way(w.mem, root, v, k - 1) /\ Covers(w.mem, root, P)
        /\ Room(w.ppa) + Cardinality(P) = c
    BY <1>5 DEF Reckoned
  <2> QED BY <2>1, <2>2, <2>3, <2>4 DEF Covers
<1>6. CASE ~ w.lost /\ found # {}
  <2>1. PICK g \in found : x = [w EXCEPT !.at = g] BY <1>6 DEF Enter
  <2>2. x.ppa = w.ppa /\ x.mem = w.mem /\ x.lost = w.lost /\ x.at = g
    BY <1>1, <2>1 DEF Walking
  <2>3. g \in Way(w.mem, root, v, k) BY <1>5, <1>6, <2>1 DEF Follow
  <2>4. Q = P BY <1>5, <1>6, <2>3
  <2> HIDE DEF x, Q
  <2>5. Reckoned(x, root, v, k, Q, c) BY <1>5, <1>6, <2>2, <2>3, <2>4 DEF Reckoned
  <2> QED BY <2>5 DEF x, Q
<1>7. ASSUME ~ w.lost, found = {} PROVE p \notin P
  <2>1. \A t \in Way(w.mem, root, v, k - 1) : t = w.at
    <3>1. k - 1 \in 0 .. 3 OBVIOUS
    <3>2. \A t \in Inner(L), i \in Index : w.mem[t][i] \in Entry
      BY <1>1 DEF Sound, Inner, Usable, Table
    <3> QED BY <1>1, <1>5, <1>7, <3>1, <3>2, WayOnly
  <2> QED BY <1>5, <1>7, <2>1 DEF Follow
<1>8. CASE ~ w.lost /\ found = {} /\ f \notin Usable(w.ppa)
  <2>1. x.lost = TRUE
    <3>1. NewTable(w).lost = TRUE BY <1>1, <1>8, NewTableEffect
    <3> QED BY <1>8, <3>1 DEF Enter
  <2>2. Room(w.ppa) = 0 BY <1>1, <1>8, RequestRoom
  <2>3. Cardinality(Q) > c BY <1>3, <1>5, <1>7, <1>8, <2>2
  <2> HIDE DEF x, Q
  <2>4. Reckoned(x, root, v, k, Q, c) BY <2>1, <2>3 DEF Reckoned
  <2> QED BY <2>4 DEF x, Q
<1>9. CASE ~ w.lost /\ found = {} /\ f \in Usable(w.ppa)
  <2>1. Hangs(x, w, v[k]) BY <1>2, <1>5, <1>9, EnterHangs
  <2>2. /\ x.lost = w.lost /\ x.at = f /\ x.ppa = ppa_request(w.ppa)
        /\ f \notin w.ppa.bits /\ Hung(x.mem, w.mem, w.at, v[k], f)
    BY <2>1 DEF Hangs
  <2>3. /\ f \in Frames(w.ppa)
        /\ \A j \in 1 .. 4 : f \notin L[j] /\ L[j] \subseteq Frames(w.ppa)
    BY <1>9, <2>2, FreshFrame
  <2> HIDE DEF x, f
  <2>4. Extended(x.mem, w.mem, L, root, v, k, f)
    BY <1>1, <1>5, <1>9, <2>2, <2>3 DEF Extended
  <2>5. Covers(x.mem, root, Q) /\ f \in Way(x.mem, root, v, k)
    BY <1>5, <1>9, <2>4, HungCovers
  <2>6. Room(w.ppa) = Room(x.ppa) + 1 /\ Room(x.ppa) \in Nat
    BY <1>1, <1>9, <2>2, RequestRoom DEF f
  <2>7. Room(x.ppa) + Cardinality(Q) = c
    BY <1>3, <1>5, <1>7, <1>9, <2>6
  <2> HIDE DEF Q
  <2>8. Reckoned(x, root, v, k, Q, c) BY <1>9, <2>2, <2>5, <2>7 DEF Reckoned
  <2> QED BY <2>8 DEF x, Q
<1> QED BY <1>1, <1>4, <1>6, <1>8, <1>9

\* A walk down to the leaf table and the entry written there.
LEMMA WalkCount ==
  ASSUME NEW w, NEW L, NEW H, NEW s \in State, NEW tr, Reached(w, L, H, s, tr), ~ w.lost,
         NEW root \in L[1], NEW v \in Page, NEW p \in Nat,
         NEW P, IsFiniteSet(P), Covers(w.mem, root, P),
         NEW x, x = pmm_map_memory(w, root, v, p),
         NEW c, c = Room(w.ppa) + Cardinality(P)
  PROVE  /\ x.lost => Cardinality(P \cup Prefix(v)) > c
         /\ ~ x.lost => /\ Covers(x.mem, root, P \cup Prefix(v))
                        /\ Room(x.ppa) + Cardinality(P \cup Prefix(v)) = c
<1> DEFINE w1 == [w EXCEPT !.at = root]
           w2 == Enter(w1, v[1])
           w3 == Enter(w2, v[2])
           w4 == Enter(w3, v[3])
           P2 == P \cup {SubSeq(v, 1, 1)}
           P3 == P2 \cup {SubSeq(v, 1, 2)}
           P4 == P3 \cup {SubSeq(v, 1, 3)}
<1>1. v[1] \in Index /\ v[2] \in Index /\ v[3] \in Index /\ v[4] \in Index BY DEF Page
<1>2. Walking(w1) /\ w1.ppa = w.ppa /\ w1.mem = w.mem /\ w1.lost = w.lost /\ w1.at = root
  BY DEF Reached, Sound, Walking
<1>3. x = IF w4.lost THEN w4 ELSE [w4 EXCEPT !.mem = [@ EXCEPT ![w4.at][v[4]] = {p}]]
  BY DEF pmm_map_memory
<1>4. IsFiniteSet(P2) /\ IsFiniteSet(P3) /\ IsFiniteSet(P4) BY FS_AddElement
<1>5. P4 = P \cup Prefix(v)
  <2>1. \A n \in 1 .. 3 : n = 1 \/ n = 2 \/ n = 3 OBVIOUS
  <2>2. 1 \in 1 .. 3 /\ 2 \in 1 .. 3 /\ 3 \in 1 .. 3 OBVIOUS
  <2>3. Prefix(v) = {SubSeq(v, 1, 1), SubSeq(v, 1, 2), SubSeq(v, 1, 3)}
    BY <2>1, <2>2 DEF Prefix
  <2> QED BY <2>3
<1>6. c \in Nat
  <2>1. Room(w.ppa) \in Nat BY RequestRoom DEF Reached, Sound
  <2> QED BY <2>1, FS_CardinalityType
<1> HIDE DEF w1, P2, P3, P4
<1>7. 1 \in 1 .. 3 /\ 2 \in 1 .. 3 /\ 3 \in 1 .. 3 /\ 1 - 1 = 0 /\ 2 - 1 = 1 /\ 3 - 1 = 2
  OBVIOUS
<1>8. Reached(w1, L, H, s, tr) BY <1>2 DEF Reached, Sound
<1>9. Reckoned(w1, root, v, 0, P, c) BY <1>2, WayOn DEF Reckoned
<1>10. PICK L2 : Reached(w2, L2, H, s, tr) /\ L2[1] = L[1] /\ (~ w2.lost => w2.at \in L2[1 + 1])
  <2>1. Down(w2, w1, 1, v[1], L, H, s, tr) BY <1>1, <1>2, <1>7, <1>8, EnterEffect
  <2> QED BY <2>1 DEF Down
<1>11. Reckoned(w2, root, v, 1, P2, c)
  <2>1. Sound(w1, L, H) BY <1>8 DEF Reached
  <2> QED BY <1>6, <1>7, <1>9, <2>1, EnterCount DEF P2
<1> HIDE DEF w2
<1>12. PICK L3 : Reached(w3, L3, H, s, tr) /\ L3[1] = L[1] /\ (~ w3.lost => w3.at \in L3[2 + 1])
  <2>1. ~ w2.lost => w2.at \in L2[2] BY <1>10
  <2>2. Down(w3, w2, 2, v[2], L2, H, s, tr) BY <1>1, <1>7, <1>10, <2>1, EnterEffect
  <2> QED BY <1>10, <2>2 DEF Down
<1>13. Reckoned(w3, root, v, 2, P3, c)
  <2>1. Sound(w2, L2, H) /\ root \in L2[1] BY <1>10 DEF Reached
  <2> QED BY <1>4, <1>6, <1>7, <1>11, <2>1, EnterCount DEF P3
<1> HIDE DEF w3
<1>14. PICK L4 : Reached(w4, L4, H, s, tr) /\ L4[1] = L[1]
  <2>1. ~ w3.lost => w3.at \in L3[3] BY <1>12
  <2>2. Down(w4, w3, 3, v[3], L3, H, s, tr) BY <1>1, <1>7, <1>12, <2>1, EnterEffect
  <2> QED BY <1>12, <2>2 DEF Down
<1>15. Reckoned(w4, root, v, 3, P4, c)
  <2>1. Sound(w3, L3, H) /\ root \in L3[1] BY <1>12 DEF Reached
  <2> QED BY <1>4, <1>6, <1>7, <1>13, <2>1, EnterCount DEF P4
<1> HIDE DEF w4
<1>16. CASE w4.lost
  <2>1. x.lost /\ Cardinality(P4) > c BY <1>3, <1>15, <1>16 DEF Reckoned
  <2> QED BY <1>5, <2>1
<1>17. CASE ~ w4.lost
  <2> DEFINE M == w4.mem
             l == w4.at
  <2>1. Sound(w4, L4, H) /\ Tree(M, L4) /\ root \in L4[1] BY <1>14 DEF Reached, Sound
  <2>2. /\ l \in Way(M, root, v, 3) /\ Covers(M, root, P4)
        /\ Room(w4.ppa) + Cardinality(P4) = c
    BY <1>15, <1>17 DEF Reckoned
  <2>3. l \notin Inner(L4)
    <3>1. l \in L4[4]
      <4>1. l \in Leaf(M, root, v) BY <2>2, WayOn
      <4> QED BY <2>1, <4>1, WayDown
    <3>2. l \notin L4[1] /\ l \notin L4[2] /\ l \notin L4[3] BY <2>1, <3>1 DEF Tree
    <3> QED BY <3>2 DEF Inner
  <2>4. x.ppa = w4.ppa /\ x.lost = w4.lost /\ x.mem = [M EXCEPT ![l][v[4]] = {p}]
    BY <1>3, <1>17, <2>1 DEF Sound, Walking
  <2>5. M \in [Frames(w4.ppa) -> Table] /\ Inner(L4) \subseteq Frames(w4.ppa)
    BY <2>1 DEF Sound, Inner, Usable
  <2> HIDE DEF M, l
  <2>6. \A t \in Inner(L4), i \in Index : x.mem[t][i] = M[t][i] BY <2>3, <2>4, <2>5
  <2>7. Covers(x.mem, root, P4) BY <2>1, <2>2, <2>6, CoversSame
  <2> QED BY <1>5, <1>17, <2>2, <2>4, <2>7
<1> QED BY <1>16, <1>17

\* A call of pmm_map_memory pays for the tables the page lacks.
LEMMA MapCount ==
  ASSUME NEW H, Kept(ppa, mem, lost, PML4, H), NEW v \in Page, NEW p \in Nat, Map(v, p),
         NEW P, IsFiniteSet(P), \A root \in PML4 : Covers(mem, root, P)
  PROVE  /\ lost' => Cardinality(P \cup Prefix(v)) > Room(ppa) + Cardinality(P)
         /\ ~ lost' =>
              /\ \A root \in PML4' : Covers(mem', root, P \cup Prefix(v))
              /\ Room(ppa') + Cardinality(P \cup Prefix(v)) = Room(ppa) + Cardinality(P)
<1> DEFINE L == LevelsOf(mem, PML4)
<1>1. PICK root \in PML4 : Becomes(pmm_map_memory(Walk(root), root, v, p)) BY DEF Map
<1>2. ~ lost /\ PML4' = PML4 BY DEF Map
<1> DEFINE w  == Walk(root)
           x  == pmm_map_memory(w, root, v, p)
           tr == [u \in Page |-> Translation(mem, root, u)]
           c  == Room(ppa) + Cardinality(P)
<1>3. Walking(w) /\ w.ppa = ppa /\ w.mem = mem /\ w.lost = lost BY DEF Walk, Walking
<1>4. ppa' = x.ppa /\ mem' = x.mem /\ lost' = x.lost BY <1>1 DEF Becomes
<1>5. /\ ppa \in State /\ L[1] = PML4 /\ root \in L[1] /\ \A q, r \in PML4 : q = r
  BY KeptFacts
<1>6. Reached(w, L, H, ppa, tr) BY <1>2, <1>5, WalkReached
<1> HIDE DEF w, L, tr
<1>7. c = Room(w.ppa) + Cardinality(P) /\ Covers(w.mem, root, P) /\ ~ w.lost BY <1>2, <1>3
<1> HIDE DEF c, x
<1>8. /\ x.lost => Cardinality(P \cup Prefix(v)) > c
      /\ ~ x.lost => /\ Covers(x.mem, root, P \cup Prefix(v))
                     /\ Room(x.ppa) + Cardinality(P \cup Prefix(v)) = c
  BY <1>5, <1>6, <1>7, WalkCount DEF x
<1> QED BY <1>2, <1>4, <1>5, <1>8 DEF c

-----------------------------------------------------------------------------
(* Frames asked for and frames that were there.                            *)

\* The tables the addresses S need below the root, by the indices they lie under.
Prefixes(S) == UNION {Prefix(PageOf(a)) : a \in S}

LEMMA PrefixesMore ==
  ASSUME NEW S, NEW a
  PROVE  Prefixes(S \cup {a}) = Prefixes(S) \cup Prefix(PageOf(a))
<1> DEFINE F(T) == {Prefix(PageOf(b)) : b \in T}
<1>1. F(S \cup {a}) = F(S) \cup {Prefix(PageOf(a))} OBVIOUS
<1>2. \A X, Y : UNION (X \cup {Y}) = (UNION X) \cup Y OBVIOUS
<1>3. \A T : Prefixes(T) = UNION F(T) BY DEF Prefixes
<1> HIDE DEF F
<1> QED BY <1>1, <1>2, <1>3

LEMMA PrefixesFinite ==
  ASSUME NEW S, IsFiniteSet(S)
  PROVE  IsFiniteSet(Prefixes(S)) /\ Cardinality(Prefixes(S)) \in Nat
<1> DEFINE A == S \X (1 .. 3)
           f == [x \in A |-> SubSeq(PageOf(x[1]), 1, x[2])]
<1>1. IsFiniteSet(1 .. 3)
  <2>1. 1 \in Int /\ 3 \in Int OBVIOUS
  <2> QED BY <2>1, FS_Interval
<1>2. IsFiniteSet(A) BY <1>1, FS_Product
<1>3. \A q : q \in Prefixes(S) <=> \E a \in S, n \in 1 .. 3 : q = SubSeq(PageOf(a), 1, n)
  BY DEF Prefixes, Prefix
<1>4. \A x \in A : x[1] \in S /\ x[2] \in 1 .. 3 OBVIOUS
<1>5. f \in [A -> Prefixes(S)] BY <1>3, <1>4
<1>6. ASSUME NEW q \in Prefixes(S) PROVE \E x \in A : f[x] = q
  <2>1. PICK a \in S, n \in 1 .. 3 : q = SubSeq(PageOf(a), 1, n) BY <1>3
  <2>2. <<a, n>> \in A /\ f[<<a, n>>] = q BY <2>1
  <2> QED BY <2>2
<1> HIDE DEF A, f
<1>7. f \in Surjection(A, Prefixes(S)) BY <1>5, <1>6 DEF Surjection
<1>8. IsFiniteSet(Prefixes(S)) BY <1>2, <1>7, FS_Surjection
<1> QED BY <1>8, FS_CardinalityType

LEMMA PrefixesWithin ==
  ASSUME NEW S, IsFiniteSet(S), NEW T \in SUBSET S
  PROVE  /\ IsFiniteSet(Prefixes(T)) /\ Cardinality(Prefixes(T)) \in Nat
         /\ Cardinality(Prefixes(S)) \in Nat
         /\ Cardinality(Prefixes(T)) <= Cardinality(Prefixes(S))
<1>1. IsFiniteSet(T) BY FS_Subset
<1>2. Prefixes(T) \subseteq Prefixes(S) BY DEF Prefixes
<1>3. /\ IsFiniteSet(Prefixes(S)) /\ Cardinality(Prefixes(S)) \in Nat
      /\ IsFiniteSet(Prefixes(T)) /\ Cardinality(Prefixes(T)) \in Nat
  BY <1>1, PrefixesFinite
<1>4. Cardinality(Prefixes(T)) <= Cardinality(Prefixes(S)) BY <1>2, <1>3, FS_Subset
<1> QED BY <1>3, <1>4

(***************************************************************************)
(* The tables at R are those the addresses S need, and with k frames taken *)
(* besides, of which the root is one, they are what is missing from r.     *)
(***************************************************************************)
Paid(s, M, R, S, k, r) ==
  /\ \A root \in R : Covers(M, root, Prefixes(S))
  /\ Room(s) + Cardinality(Prefixes(S)) + k = r

\* All that is mapped in the end.
AllMapped == InUse(ppa, fb) \cup {TestPage}

(***************************************************************************)
(* The inductive invariant.  Until a request fails every frame that was    *)
(* there at first is still there or holds one of the tables that the       *)
(* addresses gone through need; and a request fails when more are needed.  *)
(***************************************************************************)
Accounts ==
  \/ Setting
  \/ pc = "pml4" /\ Room(ppa) = room
  \/ pc = "identity" /\ Paid(ppa, mem, PML4, 0 .. (addr - 1), 1, room)
  \/ pc = "map_fb" /\ Paid(ppa, mem, PML4, Frames(ppa) \cup (fb[1] .. (addr - 1)), 1, room)
  \/ pc = "init_idt" /\ Paid(ppa, mem, PML4, InUse(ppa, fb), 1, room)
  \/ pc = "test" /\ Paid(ppa, mem, PML4, InUse(ppa, fb), 2, room)
  \/ pc = "done" /\ Paid(ppa, mem, PML4, AllMapped, 2, room)

CountInv ==
  /\ lost => Bitless(ppa) \/ room < NeededFrames
  /\ ~ lost => Bitless(ppa) \/ Accounts

\* What is needed depends on the sizes of memory and frame buffer only.
LEMMA NeededSame ==
  ASSUME fb' = fb, ppa'.total = ppa.total
  PROVE  NeededFrames' = NeededFrames
BY DEF NeededFrames, MappedAtBoot, fbsize_up

LEMMA NeededFacts ==
  ASSUME Sized, ppa.max_index \in Nat, fb \in FrameBuffers
  PROVE  /\ AllMapped \subseteq Address /\ IsFiniteSet(AllMapped)
         /\ Cardinality(Prefixes(AllMapped)) \in Nat
         /\ NeededFrames = 2 + Cardinality(Prefixes(AllMapped))
<1>1. /\ fb[1] \in Nat /\ FbEnd(fb) \in Nat /\ FbEnd(fb) <= AddressLimit
      /\ FbEnd(fb) = fb[1] + fbsize_up /\ fbsize_up \in Nat
  BY FrameBufferFacts DEF FbEnd, fbsize_up
<1>2. ppa.total = ppa.max_index + 1 /\ ppa.total <= AddressLimit BY DEF Sized
<1>3. Pages(0, ppa.total) = Frames(ppa) BY <1>2 DEF Pages, Frames
<1>4. Pages(fb[1], fbsize_up) = fb[1] .. (FbEnd(fb) - 1) BY <1>1 DEF Pages
<1>5. AllMapped = MappedAtBoot BY <1>3, <1>4 DEF AllMapped, InUse, MappedAtBoot
<1>6. AllMapped \subseteq Address
  BY <1>1, <1>2, TestFacts, LimitType DEF AllMapped, InUse, Frames, Address
<1>7. IsFiniteSet(Address) BY LimitType, FS_Interval DEF Address
<1>8. IsFiniteSet(AllMapped) BY <1>6, <1>7, FS_Subset
<1>9. NeededFrames = 2 + Cardinality(Prefixes(AllMapped))
  BY <1>5 DEF NeededFrames, Prefixes, Prefix
<1> QED BY <1>6, <1>8, <1>9, PrefixesFinite

LEMMA SoundNotBitless ==
  ASSUME NEW s, SoundBitmap(s)
  PROVE  ~ Bitless(s)
<1>1. s.max_index \in Nat /\ s.max_index < WordBits * s.size
  BY SizeAssumption DEF SoundBitmap, State, Counter
<1>2. s.size # 0 BY <1>1, SizeAssumption
<1> QED BY <1>2 DEF Bitless

LEMMA CountInit == SystemInit => CountInv
BY DEF SystemInit, CountInv, Accounts, Setting

\* Once the root is there nothing but the kernel's own steps takes a frame.
LEMMA WorkingCount ==
  ASSUME SystemInv, CountInv, ~ lost, pc \notin {"ppa_init", "lock_kernel", "lock_fb", "pml4"}
  PROVE  /\ Sized /\ Ready /\ Progress /\ fb \in FrameBuffers
         /\ ppa.total \in Nat /\ ppa.max_index \in Nat
         /\ Accounts
<1>1. BootInv BY DEF SystemInv
<1>2. /\ Sized /\ Ready /\ Progress /\ fb \in FrameBuffers
      /\ ppa.total \in Nat /\ ppa.max_index \in Nat
  BY <1>1, Working
<1>3. ~ Bitless(ppa) BY <1>2, KeptFacts, SoundNotBitless DEF Ready
<1> QED BY <1>2, <1>3 DEF CountInv

\* One more address.
LEMMA CountMap ==
  ASSUME SystemInv, CountInv, ~ lost, pc \notin {"ppa_init", "lock_kernel", "lock_fb", "pml4"},
         fb' = fb, NEW S \in SUBSET AllMapped, NEW k \in 1 .. 2,
         Paid(ppa, mem, PML4, S, k, room),
         NEW a \in AllMapped, NEW p \in Nat, Map(PageOf(a), p)
  PROVE  /\ lost' => room < NeededFrames'
         /\ ~ lost' => /\ SameHeader(ppa', ppa)
                       /\ Paid(ppa', mem', PML4', S \cup {a}, k, room)
<1> DEFINE H == others \cup Apart(ppa, fb)
           P == Prefixes(S)
           Q == Prefixes(S \cup {a})
<1>1. /\ Sized /\ fb \in FrameBuffers /\ ppa.max_index \in Nat
      /\ Kept(ppa, mem, lost, PML4, H)
  BY WorkingCount DEF Ready
<1>2. /\ AllMapped \subseteq Address /\ IsFiniteSet(AllMapped)
      /\ NeededFrames = 2 + Cardinality(Prefixes(AllMapped))
  BY <1>1, NeededFacts
<1>3. PageOf(a) \in Page BY <1>2, LimitType, Digits DEF Address
<1>4. Q = P \cup Prefix(PageOf(a)) BY PrefixesMore
<1>5. S \cup {a} \subseteq AllMapped OBVIOUS
<1>6. /\ IsFiniteSet(P) /\ Cardinality(P) \in Nat
      /\ Cardinality(Q) \in Nat /\ Cardinality(Prefixes(AllMapped)) \in Nat
      /\ Cardinality(Q) <= Cardinality(Prefixes(AllMapped))
  BY <1>2, <1>5, PrefixesWithin
<1>7. SameHeader(ppa', ppa) BY <1>1, <1>3, MapStep
<1>8. /\ \A root \in PML4 : Covers(mem, root, P)
      /\ Room(ppa) + Cardinality(P) + k = room
  BY DEF Paid
<1> HIDE DEF H, P, Q
<1>9. /\ lost' => Cardinality(Q) > Room(ppa) + Cardinality(P)
      /\ ~ lost' =>
           /\ \A root \in PML4' : Covers(mem', root, Q)
           /\ Room(ppa') + Cardinality(Q) = Room(ppa) + Cardinality(P)
  BY <1>1, <1>3, <1>4, <1>6, <1>8, MapCount
<1>10. NeededFrames' = NeededFrames BY <1>7, NeededSame DEF SameHeader
<1>11. Room(ppa) \in Nat BY <1>1, KeptFacts, RequestRoom
<1>12. lost' => room < NeededFrames'
  BY <1>2, <1>6, <1>8, <1>9, <1>10, <1>11
<1>13. ASSUME ~ lost' PROVE Paid(ppa', mem', PML4', S \cup {a}, k, room)
  <2>1. Room(ppa') + Cardinality(Q) + k = room BY <1>8, <1>9, <1>13
  <2> QED BY <1>9, <1>13, <2>1 DEF Paid, Q
<1> QED BY <1>7, <1>12, <1>13

LEMMA CountSetting ==
  ASSUME SystemInv, CountInv, ~ lost, lost' = lost, Setting'
  PROVE  CountInv'
BY DEF CountInv, Accounts

LEMMA CountLockFrameBuffer ==
  ASSUME SystemInv, CountInv, LockFrameBuffer, room' = Room(ppa')
  PROVE  CountInv'
<1>1. pc' = "pml4" /\ ~ lost /\ lost' = lost BY DEF LockFrameBuffer, At
<1>2. Room(ppa)' = Room(ppa') BY DEF Room, Candidates, Unset, ppa_bitmap_get, Usable, Frames
<1> QED BY <1>1, <1>2 DEF CountInv, Accounts

LEMMA CountRequestPml4 ==
  ASSUME SystemInv, CountInv, RequestPml4, room' = room
  PROVE  CountInv'
<1>1. /\ pc = "pml4" /\ lost = FALSE /\ fb' = fb /\ pc' = "identity" /\ addr' = addr
      /\ InitPml4 /\ fb \in FrameBuffers /\ BootInv
  BY DEF RequestPml4, At, InitPml4, SystemInv, BootInv
<1> DEFINE w == Walk(0)
           x == NewTable(w)
           f == RequestedFrame(ppa)
<1>2. /\ ppa' = x.ppa /\ mem' = x.mem /\ lost' = x.lost
      /\ PML4' = IF x.lost THEN {} ELSE {x.at}
  BY <1>1 DEF InitPml4, Becomes
<1>3. Walking(w) /\ w.ppa = ppa /\ w.mem = mem /\ w.lost = FALSE BY <1>1 DEF Walk, Walking
<1>4. CASE Bitless(ppa)
  <2>1. f \notin Usable(ppa) /\ ppa_request(ppa) = ppa BY <1>4, BitlessAnswers
  <2>2. ppa' = ppa /\ lost' = TRUE BY <1>2, <1>3, <2>1 DEF NewTable, Walk
  <2>3. Bitless(ppa)' BY <1>4, <2>2 DEF Bitless
  <2> QED BY <2>2, <2>3 DEF CountInv
<1>5. CASE ~ Bitless(ppa)
  <2>1. /\ Sized /\ Untouched /\ Kept(ppa, mem, lost, PML4, others \cup Apart(ppa, fb))
    BY <1>1, <1>5 DEF BootInv, Bare, SetUp, Locking, Ready, Progress
  <2>2. Room(ppa) = room BY <1>1, <1>5 DEF CountInv, Accounts, Setting
  <2>3. /\ SoundBitmap(ppa) /\ mem \in [Frames(ppa) -> Table] /\ ppa.max_index \in Nat
    <3>1. SoundBitmap(ppa) /\ mem \in [Frames(ppa) -> Table] BY <2>1, KeptFacts
    <3> QED BY <3>1, FrameZeroTaken
  <2>4. /\ SameHeader(x.ppa, ppa)
        /\ f \in Usable(ppa) => x.lost = FALSE /\ x.at = f /\ x.mem = [mem EXCEPT ![f] = Blank]
        /\ f \notin Usable(ppa) => x.lost = TRUE
    BY <1>3, <2>3, NewTableEffect
  <2>5. x.ppa = ppa_request(ppa) BY <1>3 DEF NewTable, Walking
  <2>6. NeededFrames' = NeededFrames /\ NeededFrames \in Nat /\ NeededFrames >= 2
    <3>1. NeededFrames' = NeededFrames BY <1>1, <1>2, <2>4, NeededSame DEF SameHeader
    <3>2. /\ Cardinality(Prefixes(AllMapped)) \in Nat
          /\ NeededFrames = 2 + Cardinality(Prefixes(AllMapped))
      BY <1>1, <2>1, <2>3, NeededFacts
    <3> QED BY <3>1, <3>2
  <2> HIDE DEF x, w
  <2>7. CASE f \notin Usable(ppa)
    <3>1. room = 0 BY <2>2, <2>3, <2>7, RequestRoom
    <3>2. lost' = TRUE BY <1>2, <2>4, <2>7
    <3> QED BY <2>6, <3>1, <3>2 DEF CountInv
  <2>8. CASE f \in Usable(ppa)
    <3>1. Room(ppa') + 1 = room /\ Room(ppa') \in Nat
      BY <1>2, <2>2, <2>3, <2>5, <2>8, RequestRoom
    <3>2. lost' = FALSE /\ PML4' = {f} /\ mem' = [mem EXCEPT ![f] = Blank]
      BY <1>2, <2>4, <2>8
    <3>3. Covers(mem', f, {})
      <4>1. mem'[f] = Blank BY <2>3, <2>8, <3>2 DEF Usable
      <4>2. \A i \in Index : mem'[f][i] = {} BY <4>1 DEF Blank
      <4> QED BY <4>2, BlankCovers
    <3>4. addr' = 0 BY <1>1, <2>1 DEF Untouched
    <3>5. Prefixes(0 .. (addr' - 1)) = {} /\ Cardinality(Prefixes(0 .. (addr' - 1))) = 0
      <4>1. 0 .. (addr' - 1) = {} BY <3>4
      <4>2. Prefixes({}) = {} BY DEF Prefixes
      <4> QED BY <4>1, <4>2, FS_EmptySet
    <3>6. Paid(ppa', mem', PML4', 0 .. (addr' - 1), 1, room')
      <4>1. \A root \in PML4' : Covers(mem', root, Prefixes(0 .. (addr' - 1)))
        BY <3>2, <3>3, <3>5
      <4>2. Room(ppa') + Cardinality(Prefixes(0 .. (addr' - 1))) + 1 = room'
        BY <3>1, <3>5
      <4> QED BY <4>1, <4>2 DEF Paid
    <3>7. Accounts' BY <1>1, <3>6 DEF Accounts
    <3> QED BY <3>2, <3>7 DEF CountInv
  <2> QED BY <2>7, <2>8
<1> QED BY <1>4, <1>5

\* The sets the loops have gone through, as far as the allocator's size tells.
LEMMA SameUse ==
  ASSUME fb' = fb, SameHeader(ppa', ppa)
  PROVE  /\ Frames(ppa)' = Frames(ppa) /\ InUse(ppa, fb)' = InUse(ppa, fb)
         /\ AllMapped' = AllMapped
<1>1. ppa'.max_index = ppa.max_index BY DEF SameHeader
<1>2. Frames(ppa)' = Frames(ppa) BY <1>1 DEF Frames
<1>3. InUse(ppa, fb)' = InUse(ppa, fb) BY <1>2 DEF InUse, FbEnd
<1> QED BY <1>2, <1>3 DEF AllMapped

LEMMA CountMapMemory ==
  ASSUME SystemInv, CountInv, MapMemory, room' = room
  PROVE  CountInv'
<1>1. pc = "identity" /\ ~ lost /\ fb' = fb BY DEF MapMemory, At
<1>2. /\ Sized /\ Progress /\ fb \in FrameBuffers /\ Accounts
      /\ ppa.total \in Nat /\ ppa.max_index \in Nat
  BY <1>1, WorkingCount
<1>3. /\ addr \in 0 .. ppa.total
      /\ Paid(ppa, mem, PML4, 0 .. (addr - 1), 1, room)
  BY <1>1, <1>2 DEF Progress, Accounts, Setting
<1>4. CASE addr < ppa.total
  <2>1. Map(PageOf(addr), addr) /\ addr' = addr + 1 /\ pc' = pc BY <1>4 DEF MapMemory
  <2> DEFINE S == 0 .. (addr - 1)
  <2>2. S \in SUBSET AllMapped /\ addr \in AllMapped /\ addr \in Nat /\ 1 \in 1 .. 2
    BY <1>2, <1>3, <1>4 DEF AllMapped, InUse, Frames, Sized
  <2>3. /\ lost' => room < NeededFrames'
        /\ ~ lost' => Paid(ppa', mem', PML4', S \cup {addr}, 1, room)
    <3>1. Paid(ppa, mem, PML4, S, 1, room) BY <1>3
    <3>2. pc \notin {"ppa_init", "lock_kernel", "lock_fb", "pml4"} BY <1>1
    <3> HIDE DEF S
    <3> QED BY <1>1, <2>1, <2>2, <3>1, <3>2, CountMap
  <2>4. S \cup {addr} = 0 .. (addr' - 1) BY <2>1, <2>2
  <2>5. ~ lost' => Accounts' BY <1>1, <2>1, <2>3, <2>4 DEF Accounts
  <2> QED BY <2>3, <2>5 DEF CountInv
<1>5. CASE ~ (addr < ppa.total)
  <2>1. addr' = fb[1] /\ pc' = "map_fb" /\ UNCHANGED <<ppa, mem, lost, PML4>>
    BY <1>5 DEF MapMemory, vars
  <2>2. 0 .. (addr - 1) = Frames(ppa) BY <1>2, <1>3, <1>5 DEF Frames, Sized
  <2>3. fb[1] .. (fb[1] - 1) = {} BY <1>2, FrameBufferFacts
  <2>4. Paid(ppa', mem', PML4', Frames(ppa) \cup (fb'[1] .. (addr' - 1)), 1, room')
    BY <1>1, <1>3, <2>1, <2>2, <2>3
  <2>5. Frames(ppa)' = Frames(ppa) BY <2>1 DEF Frames
  <2>6. Accounts' BY <2>1, <2>4, <2>5 DEF Accounts
  <2> QED BY <1>1, <2>1, <2>6 DEF CountInv
<1> QED BY <1>4, <1>5

LEMMA CountMapFrameBuffer ==
  ASSUME SystemInv, CountInv, MapFrameBuffer, room' = room
  PROVE  CountInv'
<1>1. pc = "map_fb" /\ ~ lost /\ fb' = fb BY DEF MapFrameBuffer, At
<1>2. Sized /\ Progress /\ fb \in FrameBuffers /\ Accounts /\ ppa.max_index \in Nat
  BY <1>1, WorkingCount
<1>3. /\ addr \in fb[1] .. FbEnd(fb)
      /\ Paid(ppa, mem, PML4, Frames(ppa) \cup (fb[1] .. (addr - 1)), 1, room)
  BY <1>1, <1>2 DEF Progress, Accounts, Setting
<1>4. fb[1] \in Nat /\ FbEnd(fb) \in Nat /\ FbEnd(fb) = fb[1] + fbsize_up
  BY <1>2, FrameBufferFacts DEF FbEnd, fbsize_up
<1>5. CASE addr < FbEnd(fb)
  <2> DEFINE S == Frames(ppa) \cup (fb[1] .. (addr - 1))
  <2>1. Map(PageOf(addr), addr) /\ addr' = addr + 1 /\ pc' = pc
    BY <1>4, <1>5 DEF MapFrameBuffer
  <2>2. S \in SUBSET AllMapped /\ addr \in AllMapped /\ addr \in Nat /\ 1 \in 1 .. 2
    BY <1>3, <1>4, <1>5 DEF AllMapped, InUse
  <2>3. /\ lost' => room < NeededFrames'
        /\ ~ lost' => /\ SameHeader(ppa', ppa)
                      /\ Paid(ppa', mem', PML4', S \cup {addr}, 1, room)
    <3>1. Paid(ppa, mem, PML4, S, 1, room) BY <1>3
    <3>2. pc \notin {"ppa_init", "lock_kernel", "lock_fb", "pml4"} BY <1>1
    <3> HIDE DEF S
    <3> QED BY <1>1, <2>1, <2>2, <3>1, <3>2, CountMap
  <2>4. (fb[1] .. (addr - 1)) \cup {addr} = fb[1] .. (addr' - 1) BY <1>3, <1>4, <2>1
  <2>5. S \cup {addr} = Frames(ppa) \cup (fb[1] .. (addr' - 1)) BY <2>4
  <2>6. ASSUME ~ lost' PROVE Accounts'
    <3>1. Frames(ppa)' = Frames(ppa) BY <1>1, <2>3, <2>6, SameUse
    <3>2. Paid(ppa', mem', PML4', Frames(ppa) \cup (fb'[1] .. (addr' - 1)), 1, room')
      BY <1>1, <2>3, <2>5, <2>6
    <3> QED BY <1>1, <2>1, <3>1, <3>2 DEF Accounts
  <2> QED BY <2>3, <2>6 DEF CountInv
<1>6. CASE ~ (addr < FbEnd(fb))
  <2>1. pc' = "init_idt" /\ UNCHANGED <<ppa, mem, lost, PML4>>
    BY <1>4, <1>6 DEF MapFrameBuffer, vars
  <2>2. addr = FbEnd(fb) BY <1>3, <1>4, <1>6
  <2>3. Paid(ppa', mem', PML4', InUse(ppa, fb), 1, room') BY <1>3, <2>1, <2>2 DEF InUse
  <2>4. InUse(ppa, fb)' = InUse(ppa, fb) BY <1>1, <2>1, SameUse DEF SameHeader
  <2>5. Accounts' BY <2>1, <2>3, <2>4 DEF Accounts
  <2> QED BY <1>1, <2>1, <2>5 DEF CountInv
<1> QED BY <1>5, <1>6

LEMMA CountRequestIdt ==
  ASSUME SystemInv, CountInv, RequestIdt, room' = room
  PROVE  CountInv'
<1>1. pc = "init_idt" /\ ~ lost /\ fb' = fb /\ pc' = "test" BY DEF RequestIdt, At
<1>2. Sized /\ Ready /\ Progress /\ fb \in FrameBuffers /\ Accounts /\ ppa.max_index \in Nat
  BY <1>1, WorkingCount
<1> DEFINE H == others \cup Apart(ppa, fb)
           f == RequestedFrame(ppa)
           S == InUse(ppa, fb)
           L == LevelsOf(mem, PML4)
<1>3. Paid(ppa, mem, PML4, S, 1, room) BY <1>1, <1>2 DEF Accounts, Setting
<1>4. /\ Kept(ppa, mem, lost, PML4, H) /\ SoundBitmap(ppa) /\ mem \in [Frames(ppa) -> Table]
      /\ Tree(mem, L) /\ L[1] = PML4 /\ \A k \in 1 .. 4 : L[k] \subseteq ppa.bits
  BY <1>2, KeptFacts DEF Ready
<1>5. /\ AllMapped \subseteq Address /\ IsFiniteSet(AllMapped)
      /\ NeededFrames = 2 + Cardinality(Prefixes(AllMapped))
  BY <1>2, NeededFacts
<1>6. /\ Cardinality(Prefixes(S)) \in Nat /\ Cardinality(Prefixes(AllMapped)) \in Nat
      /\ Cardinality(Prefixes(S)) <= Cardinality(Prefixes(AllMapped))
  <2>1. S \in SUBSET AllMapped BY DEF AllMapped
  <2> HIDE DEF S
  <2> QED BY <1>5, <2>1, PrefixesWithin
<1>7. ppa' = ppa_request(ppa) /\ PML4' = PML4 BY DEF RequestIdt, TakeFrame
<1>8. SameHeader(ppa', ppa) BY <1>4, <1>7, RequestBits
<1>9. NeededFrames' = NeededFrames BY <1>1, <1>8, NeededSame DEF SameHeader
<1>10. CASE TakeFrame
  <2>1. f \in Usable(ppa) /\ lost' = lost /\ mem' = [mem EXCEPT ![f] = Junk]
    BY <1>10 DEF TakeFrame
  <2>2. f \notin ppa.bits BY <1>4, <2>1, RequestBits DEF Usable
  <2>3. \A root \in PML4' : Covers(mem', root, Prefixes(S))
    <3>1. \A k \in 1 .. 4 : f \notin L[k] BY <1>4, <2>2
    <3>2. f \notin Inner(L) BY <3>1 DEF Inner
    <3>3. \A t : t # f => mem'[t] = mem[t] \/ t \notin Frames(ppa) BY <1>4, <2>1
    <3>4. Inner(L) \subseteq Frames(ppa) BY <1>4 DEF Inner, SoundBitmap
    <3> HIDE DEF L, S, f
    <3>5. \A t \in Inner(L), i \in Index : mem'[t][i] = mem[t][i] BY <3>2, <3>3, <3>4
    <3>6. \A root \in PML4 : Covers(mem, root, Prefixes(S)) BY <1>3 DEF Paid
    <3> QED BY <1>4, <1>7, <3>5, <3>6, CoversSame
  <2>4. Room(ppa) = Room(ppa') + 1 /\ Room(ppa') \in Nat BY <1>4, <1>7, <2>1, RequestRoom
  <2>5. Room(ppa') + Cardinality(Prefixes(S)) + 2 = room
    BY <1>3, <1>6, <2>4 DEF Paid
  <2>6. S' = S BY <1>1, <1>8, SameUse
  <2> HIDE DEF S
  <2>7. Paid(ppa', mem', PML4', S, 2, room') BY <2>3, <2>5 DEF Paid
  <2>8. Accounts' BY <1>1, <2>6, <2>7 DEF Accounts, S
  <2> QED BY <1>1, <2>1, <2>8 DEF CountInv
<1>11. CASE ~ TakeFrame
  <2>1. f \notin Usable(ppa) /\ lost' = TRUE BY <1>11 DEF RequestIdt
  <2>2. Room(ppa) = 0 BY <1>4, <2>1, RequestRoom
  <2>3. room < NeededFrames' BY <1>3, <1>5, <1>6, <1>9, <2>2 DEF Paid
  <2> QED BY <2>1, <2>3 DEF CountInv
<1> QED BY <1>10, <1>11

LEMMA CountTestMapping ==
  ASSUME SystemInv, CountInv, TestMapping, room' = room
  PROVE  CountInv'
<1>1. pc = "test" /\ ~ lost /\ fb' = fb /\ pc' = "done" /\ Map(PageOf(TestPage), TestFrame)
  BY DEF TestMapping, At
<1>2. Accounts BY <1>1, WorkingCount
<1>3. Paid(ppa, mem, PML4, InUse(ppa, fb), 2, room) BY <1>1, <1>2 DEF Accounts, Setting
<1>4. InUse(ppa, fb) \subseteq AllMapped /\ TestPage \in AllMapped BY DEF AllMapped
<1>5. /\ lost' => room < NeededFrames'
      /\ ~ lost' => /\ SameHeader(ppa', ppa)
                    /\ Paid(ppa', mem', PML4', InUse(ppa, fb) \cup {TestPage}, 2, room)
  BY <1>1, <1>3, <1>4, TestFacts, CountMap
<1>6. ASSUME ~ lost' PROVE Accounts'
  <2>1. AllMapped' = AllMapped BY <1>1, <1>5, <1>6, SameUse
  <2>2. Paid(ppa', mem', PML4', AllMapped, 2, room') BY <1>5, <1>6 DEF AllMapped
  <2> QED BY <1>1, <2>1, <2>2 DEF Accounts
<1> QED BY <1>5, <1>6 DEF CountInv

\* The loader's steps take nothing of the kernel's.
LEMMA CountStay ==
  ASSUME CountInv, UNCHANGED <<ppa, mem, lost, PML4, pc, fb, addr, room>>
  PROVE  CountInv'
<1>1. SameHeader(ppa', ppa) BY DEF SameHeader
<1>2. /\ NeededFrames' = NeededFrames /\ Bitless(ppa)' = Bitless(ppa)
      /\ Room(ppa)' = Room(ppa) /\ InUse(ppa, fb)' = InUse(ppa, fb)
      /\ Frames(ppa)' = Frames(ppa) /\ AllMapped' = AllMapped
  BY <1>1, NeededSame, SameUse DEF Bitless, Room, Candidates, Unset, ppa_bitmap_get, Usable, Frames
<1>3. Accounts => Accounts'
  BY <1>2 DEF Accounts, Setting, Paid
<1> QED BY <1>2, <1>3 DEF CountInv

LEMMA CountRun ==
  ASSUME SystemInv, CountInv, Run
  PROVE  CountInv'
<1>1. lost' \in BOOLEAN /\ room' = (IF pc = "lock_fb" THEN Room(ppa') ELSE room)
  BY RunStep DEF Run, SystemInv, BootInv
<1>2. ASSUME NEW wraps \in BOOLEAN, InitAllocator(MapOf(handed.frames), wraps) PROVE CountInv'
  BY <1>2, CountSetting DEF InitAllocator, At, Setting
<1>3. CASE LockKernel BY <1>3, CountSetting DEF LockKernel, At, Setting
<1>4. CASE LockFrameBuffer
  <2>1. pc = "lock_fb" BY <1>4 DEF LockFrameBuffer, At
  <2> QED BY <1>1, <1>4, <2>1, CountLockFrameBuffer
<1>5. CASE RequestPml4
  <2>1. pc = "pml4" BY <1>5 DEF RequestPml4, At
  <2> QED BY <1>1, <1>5, <2>1, CountRequestPml4
<1>6. CASE MapMemory
  <2>1. pc = "identity" BY <1>6 DEF MapMemory, At
  <2> QED BY <1>1, <1>6, <2>1, CountMapMemory
<1>7. CASE MapFrameBuffer
  <2>1. pc = "map_fb" BY <1>7 DEF MapFrameBuffer, At
  <2> QED BY <1>1, <1>7, <2>1, CountMapFrameBuffer
<1>8. CASE RequestIdt
  <2>1. pc = "init_idt" BY <1>8 DEF RequestIdt, At
  <2> QED BY <1>1, <1>8, <2>1, CountRequestIdt
<1>9. CASE TestMapping
  <2>1. pc = "test" BY <1>9 DEF TestMapping, At
  <2> QED BY <1>1, <1>9, <2>1, CountTestMapping
<1> QED BY <1>2, <1>3, <1>4, <1>5, <1>6, <1>7, <1>8, <1>9 DEF Run

LEMMA CountStep ==
  SystemInv /\ CountInv /\ [SystemNext]_system_vars => CountInv'
<1> SUFFICES ASSUME SystemInv, CountInv, [SystemNext]_system_vars PROVE CountInv' OBVIOUS
<1>1. CASE Run BY <1>1, CountRun
<1>2. CASE Load BY <1>2, CountStay DEF Load, kernel_vars, vars
<1>3. CASE UNCHANGED system_vars BY <1>3, CountStay DEF system_vars, kernel_vars, vars
<1> QED BY <1>1, <1>2, <1>3 DEF SystemNext

LEMMA CountInvHolds == SystemSpec => []CountInv
BY CountInit, CountStep, SystemInvHolds, PTL DEF SystemSpec

\* init_pmm, init_idt and the mapping test get through exactly when ppa_init did
\* its work and had a frame for each table, the root and the descriptor table.
THEOREM FitsExactly == SystemSpec => []BootFitsExactly
<1>1. ASSUME SystemInv, CountInv PROVE BootFitsExactly
  <2>1. Bitless(ppa) => ~ Started BY DEF Bitless, Started
  <2>2. lost => ~ Started \/ room < NeededFrames BY <1>1, <2>1 DEF CountInv
  <2>3. ASSUME pc = "done", ~ lost PROVE Started /\ room >= NeededFrames
    <3>1. /\ Sized /\ Ready /\ fb \in FrameBuffers /\ ppa.max_index \in Nat
          /\ Paid(ppa, mem, PML4, AllMapped, 2, room)
      BY <1>1, <2>3, WorkingCount DEF Accounts, Setting
    <3>2. SoundBitmap(ppa) /\ ppa \in State BY <3>1, KeptFacts DEF Ready
    <3>3. Started
      <4>1. ppa.size # 0 /\ ppa.size \in Nat
        BY <3>2, SizeAssumption DEF SoundBitmap, State, Counter
      <4> QED BY <3>1, <4>1 DEF Started, Sized
    <3>4. Room(ppa) \in Nat BY <3>2, RequestRoom
    <3>5. /\ Cardinality(Prefixes(AllMapped)) \in Nat
          /\ NeededFrames = 2 + Cardinality(Prefixes(AllMapped))
      BY <3>1, NeededFacts
    <3>6. Room(ppa) + Cardinality(Prefixes(AllMapped)) + 2 = room BY <3>1 DEF Paid
    <3> QED BY <3>3, <3>4, <3>5, <3>6
  <2> QED BY <2>2, <2>3 DEF BootFitsExactly
<1> QED BY <1>1, SystemInvHolds, CountInvHolds, PTL

=============================================================================
