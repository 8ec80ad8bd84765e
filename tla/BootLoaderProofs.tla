-------------------------- MODULE BootLoaderProofs --------------------------
(***************************************************************************)
(* What holds when the kernel is entered, for every memory, every image    *)
(* and every place of the loader's stack and the firmware's pool.          *)
(***************************************************************************)
EXTENDS BootLoader, TLAPS, FiniteSetTheorems

\* The loader has the map.
Fetched == pc \in {"open", "headers", "load", "kernel"}

\* Frames the map calls free that have gone to the loader since, the image apart.
Late == {f \in DOMAIN frames : frames[f] = LoaderData /\ handed.frames[f] = Conventional} \ Image

(***************************************************************************)
(* The inductive invariant.  The pool lies in memory and the stack in      *)
(* memory that is never free, ...                                          *)
(***************************************************************************)
StackTaken ==
  /\ Pool \subseteq DOMAIN frames
  /\ \A f \in Stack : f \in DOMAIN frames /\ frames[f] # Conventional

\* ... the map in the buffer is as old as its key says and lists the buffer, ...
MapInv ==
  Fetched =>
    /\ DOMAIN handed.frames = DOMAIN frames
    /\ \A f \in Stack \cup buffer : handed.frames[f] # Conventional

KeyInv == key \in Nat /\ (Fetched => handed.key \in Nat /\ handed.key <= key)

\* ... what has gone to the loader since is the frame of the program headers, ...
LateInv ==
  /\ pc \in {"open", "headers"} => Late = {}
  /\ pc \in {"load", "kernel"} => \E h : Late \subseteq {h}

\* ... and as long as the key is still the map's, every segment that has been
\* loaded was refused its frames.
SegmentsInv ==
  /\ segment \in Nat \ {0}
  /\ pc \notin {"load", "kernel", "astray"} => segment = 1
  /\ pc \in {"load", "kernel"} /\ key = handed.key =>
       \A i \in DOMAIN Segments :
         i < segment => Pages(Segments[i][1], Segments[i][2]) \subseteq overwritten
  /\ pc = "kernel" => segment > Len(Segments)
  /\ pc = "kernel" /\ exited => handed.key = key

Inv == StackTaken /\ MapInv /\ KeyInv /\ LateInv /\ SegmentsInv

-----------------------------------------------------------------------------
\* Frames go to the loader or the firmware, each keeps its holder or was free,
\* and they change the key.
LEMMA TakeFacts ==
  ASSUME NEW F, NEW G, Take(F, G), key \in Nat
  PROVE  /\ DOMAIN frames' = DOMAIN frames
         /\ \A f \in DOMAIN frames : frames'[f] = IF f \in F THEN LoaderData
                                                ELSE IF f \in G THEN "other" ELSE frames[f]
         /\ F \subseteq DOMAIN frames
         /\ key' \in Nat /\ key' >= key /\ (F # {} => key' > key)
BY DEF Take, FreeFrames

\* A pool buffer is a frame of the loader's, and the only one it gets.
LEMMA PoolFacts ==
  ASSUME NEW g \in DOMAIN frames, NEW G, AllocatePool(g, G), key \in Nat
  PROVE  /\ DOMAIN frames' = DOMAIN frames
         /\ \A f \in DOMAIN frames : f # g => frames'[f] = frames[f] \/ frames'[f] = "other"
         /\ frames'[g] = LoaderData
         /\ key' \in Nat /\ key' >= key
<1> "other" # LoaderData /\ LoaderData # Conventional BY DEF LoaderData, Conventional
<1>1. CASE Take({g}, G)
  BY <1>1, TakeFacts
<1>2. CASE frames[g] = LoaderData /\ Take({}, G)
  <2>1. g \notin G BY <1>2 DEF Take, FreeFrames
  <2> QED BY <1>2, <2>1, TakeFacts
<1> QED BY <1>1, <1>2 DEF AllocatePool

\* The stack stays taken whoever gets frames.
LEMMA StackStays ==
  ASSUME StackTaken, DOMAIN frames' = DOMAIN frames,
         \A f \in DOMAIN frames : frames'[f] \in {frames[f], LoaderData, "other"}
  PROVE  StackTaken'
BY DEF StackTaken, LoaderData, Conventional

LEMMA PoolKeepsStack ==
  ASSUME NEW g \in Pool, NEW G, AllocatePool(g, G), key \in Nat, StackTaken
  PROVE  StackTaken'
<1>1. /\ DOMAIN frames' = DOMAIN frames
      /\ \A f \in DOMAIN frames : f # g => frames'[f] = frames[f] \/ frames'[f] = "other"
      /\ frames'[g] = LoaderData
  BY PoolFacts DEF StackTaken
<1> QED BY <1>1, StackStays

-----------------------------------------------------------------------------
LEMMA InitInv == Init => Inv
<1> SUFFICES ASSUME Init PROVE Inv
  OBVIOUS
<1>1. StackTaken BY BootAssumption DEF Init, StackTaken
<1>2. pc = "gop" /\ key = 0 /\ segment = 1 BY DEF Init
<1> QED BY <1>1, <1>2 DEF Inv, MapInv, KeyInv, LateInv, SegmentsInv, Fetched

LEMMA GetMemoryMapKeepsInv == Inv /\ GetMemoryMap => Inv'
<1> SUFFICES ASSUME Inv, GetMemoryMap PROVE Inv'
  OBVIOUS
<1>1. PICK g \in Pool : AllocatePool(g, {}) /\ buffer' = {g}
  BY DEF GetMemoryMap
<1>2. key \in Nat BY DEF Inv, KeyInv
<1>3. StackTaken' BY <1>1, <1>2, PoolKeepsStack DEF Inv
<1>4. frames'[g] = LoaderData /\ key' \in Nat BY <1>1, <1>2, PoolFacts DEF Inv, StackTaken
<1>5. segment' = 1 BY DEF GetMemoryMap, At, Inv, SegmentsInv
<1>6. CASE Descriptors' <= MapSize
  <2>1. handed' = [frames |-> frames', key |-> key'] /\ pc' = "open"
    BY <1>6 DEF GetMemoryMap
  <2>2. MapInv'
    <3>1. \A f \in Stack \cup {g} : frames'[f] # Conventional
      BY <1>3, <1>4 DEF StackTaken, LoaderData, Conventional
    <3> QED BY <2>1, <3>1, <1>1 DEF MapInv
  <2>3. Late' = {} BY <2>1 DEF Late, LoaderData, Conventional
  <2>4. KeyInv' /\ LateInv' /\ SegmentsInv'
    BY <2>1, <2>3, <1>4, <1>5 DEF KeyInv, LateInv, SegmentsInv
  <2> QED BY <2>2, <2>4, <1>3 DEF Inv
<1>7. CASE ~ Descriptors' <= MapSize
  <2>1. pc' = "map" BY <1>7 DEF GetMemoryMap, At
  <2>2. MapInv' /\ KeyInv' BY <2>1, <1>4 DEF MapInv, KeyInv, Fetched
  <2>3. LateInv' /\ SegmentsInv' BY <2>1, <1>5 DEF LateInv, SegmentsInv
  <2> QED BY <2>2, <2>3, <1>3 DEF Inv
<1> QED BY <1>6, <1>7

\* What the firmware takes for itself while it serves the loader.
LEMMA GrowthKeeps ==
  ASSUME Inv, NEW G, Take({}, G), handed' = handed, buffer' = buffer, Fetched' => Fetched
  PROVE  /\ StackTaken' /\ MapInv' /\ KeyInv' /\ Late' \subseteq Late
         /\ Fetched => (key' = handed'.key => key = handed.key)
<1>1. key \in Nat BY DEF Inv, KeyInv
<1>2. /\ DOMAIN frames' = DOMAIN frames
      /\ \A f \in DOMAIN frames : frames'[f] = frames[f] \/ frames'[f] = "other"
      /\ key' \in Nat /\ key' >= key
  BY <1>1, TakeFacts
<1>3. StackTaken' BY <1>2, StackStays DEF Inv
<1>4. MapInv' BY <1>2 DEF Inv, MapInv
<1>5. KeyInv' BY <1>1, <1>2 DEF Inv, KeyInv
<1>6. Late' \subseteq Late BY <1>2 DEF Late, LoaderData
<1>7. Fetched => (key' = handed'.key => key = handed.key)
  BY <1>1, <1>2 DEF Inv, KeyInv
<1> QED BY <1>3, <1>4, <1>5, <1>6, <1>7

LEMMA ReadHeaderKeepsInv == Inv /\ ReadHeader => Inv'
<1> SUFFICES ASSUME Inv, ReadHeader PROVE Inv'
  OBVIOUS
<1>1. /\ pc = "open" /\ pc' \in {"headers", "END", "astray"} /\ segment' = segment
      /\ handed' = handed /\ buffer' = buffer
  BY DEF ReadHeader, At
<1>2. PICK G \in Growth : Take({}, G) BY DEF ReadHeader
<1>3. Fetched' => Fetched BY <1>1 DEF Fetched
<1>4. StackTaken' /\ MapInv' /\ KeyInv' /\ Late' \subseteq Late
  BY <1>1, <1>2, <1>3, GrowthKeeps
<1>5. LateInv' BY <1>1, <1>4 DEF Inv, LateInv
<1>6. SegmentsInv' BY <1>1 DEF Inv, SegmentsInv
<1> QED BY <1>4, <1>5, <1>6 DEF Inv

LEMMA ReadProgramHeadersKeepsInv == Inv /\ ReadProgramHeaders => Inv'
<1> SUFFICES ASSUME Inv, ReadProgramHeaders PROVE Inv'
  OBVIOUS
<1>1. pc = "headers" /\ segment' = segment /\ handed' = handed /\ buffer' = buffer
  BY DEF ReadProgramHeaders, At
<1>2. key \in Nat BY DEF Inv, KeyInv
<1>3. CASE pc' = "astray" /\ UNCHANGED <<frames, key>>
  BY <1>1, <1>3 DEF Inv, StackTaken, MapInv, KeyInv, LateInv, SegmentsInv, Fetched
<1>4. ASSUME NEW g \in Pool, NEW G \in Growth, AllocatePool(g, G), pc' = "load"
      PROVE  Inv'
  <2>1. StackTaken' BY <1>4, <1>2, PoolKeepsStack DEF Inv
  <2>2. /\ DOMAIN frames' = DOMAIN frames
        /\ \A f \in DOMAIN frames : f # g => frames'[f] = frames[f] \/ frames'[f] = "other"
        /\ key' \in Nat /\ key' >= key
    BY <1>4, <1>2, PoolFacts DEF Inv, StackTaken
  <2>3. MapInv' BY <1>1, <2>2 DEF Inv, MapInv, Fetched
  <2>4. KeyInv' BY <1>1, <2>2 DEF Inv, KeyInv, Fetched
  <2>5. Late' \subseteq {g} BY <1>1, <2>2 DEF Inv, LateInv, Late, LoaderData
  <2>6. SegmentsInv'
    <3>1. segment = 1 BY <1>1 DEF Inv, SegmentsInv
    <3>2. \A i \in DOMAIN Segments : ~ i < 1 BY BootAssumption
    <3> QED BY <1>1, <1>4, <3>1, <3>2 DEF SegmentsInv
  <2> QED BY <1>4, <2>1, <2>3, <2>4, <2>5, <2>6 DEF Inv, LateInv
<1> QED BY <1>3, <1>4 DEF ReadProgramHeaders

LEMMA LoadSegmentKeepsInv == Inv /\ LoadSegment => Inv'
<1> SUFFICES ASSUME Inv, LoadSegment PROVE Inv'
  OBVIOUS
<1> DEFINE F == Pages(Segments[segment][1], Segments[segment][2])
<1>1. /\ pc = "load" /\ segment <= Len(Segments) /\ segment' = segment + 1
      /\ handed' = handed /\ buffer' = buffer
  BY DEF LoadSegment, At
<1>2. key \in Nat /\ handed.key \in Nat /\ handed.key <= key /\ segment \in Nat \ {0}
  BY <1>1 DEF Inv, KeyInv, SegmentsInv, Fetched
<1>3. segment \in DOMAIN Segments /\ Segments[segment] \in Nat \X (Nat \ {0})
        /\ DOMAIN Segments \subseteq Nat
  BY <1>1, <1>2, BootAssumption
<1>4. F \subseteq Image BY <1>3 DEF Image
<1>5. ASSUME NEW G \in Growth, Take(F, G), UNCHANGED <<pc, overwritten>>
      PROVE  Inv'
  <2>1. Segments[segment][1] \in F BY <1>3 DEF Pages
  <2>2. /\ DOMAIN frames' = DOMAIN frames
        /\ \A f \in DOMAIN frames : frames'[f] = IF f \in F THEN LoaderData
                                               ELSE IF f \in G THEN "other" ELSE frames[f]
        /\ key' \in Nat /\ key' > key
    BY <1>2, <1>5, <2>1, TakeFacts
  <2>3. StackTaken' BY <2>2, StackStays DEF Inv
  <2>4. MapInv' BY <1>1, <1>5, <2>2 DEF Inv, MapInv, Fetched
  <2>5. KeyInv' BY <1>1, <1>2, <1>5, <2>2 DEF KeyInv
  <2>6. Late' \subseteq Late BY <1>1, <1>4, <2>2 DEF Late, LoaderData
  <2>7. LateInv' BY <1>1, <1>5, <2>6 DEF Inv, LateInv
  <2>8. SegmentsInv' BY <1>1, <1>2, <1>5, <2>2 DEF SegmentsInv
  <2> QED BY <2>3, <2>4, <2>5, <2>7, <2>8 DEF Inv
<1>6. ASSUME NEW G \in Growth, Take({}, G), pc' \in {"load", "astray"},
             overwritten' = overwritten \cup F
      PROVE  Inv'
  <2>1. Fetched /\ (Fetched' => Fetched) BY <1>1 DEF Fetched
  <2>2. /\ StackTaken' /\ MapInv' /\ KeyInv' /\ Late' \subseteq Late
        /\ key' = handed'.key => key = handed.key
    BY <1>1, <1>6, <2>1, GrowthKeeps
  <2>3. LateInv' BY <1>1, <1>6, <2>2 DEF Inv, LateInv
  <2>4. SegmentsInv'
    <3>1. ASSUME key' = handed'.key, NEW i \in DOMAIN Segments, i < segment + 1
          PROVE  Pages(Segments[i][1], Segments[i][2]) \subseteq overwritten \cup F
      <4>1. i < segment \/ i = segment BY <1>2, <1>3, <3>1
      <4> QED BY <1>1, <2>2, <3>1, <4>1 DEF Inv, SegmentsInv
    <3> QED BY <1>1, <1>2, <1>6, <3>1 DEF SegmentsInv
  <2> QED BY <2>2, <2>3, <2>4 DEF Inv
<1>7. CASE \E G \in Growth : Take(F, G) /\ UNCHANGED <<pc, overwritten>> BY <1>5, <1>7
<1>8. CASE \E G \in Growth : /\ Take({}, G) /\ pc' \in {"load", "astray"}
                            /\ overwritten' = overwritten \cup F
  BY <1>6, <1>8
<1> QED BY <1>1, <1>7, <1>8 DEF LoadSegment

LEMMA ExitBootServicesKeepsInv == Inv /\ ExitBootServices => Inv'
<1> SUFFICES ASSUME Inv, ExitBootServices PROVE Inv'
  OBVIOUS
<1>1. /\ pc = "load" /\ pc' = "kernel" /\ segment > Len(Segments)
      /\ exited' = (handed.key = key)
      /\ UNCHANGED <<frames, key, MapSize, buffer, handed, segment, overwritten>>
  BY DEF ExitBootServices, At
<1>2. StackTaken' /\ MapInv' /\ KeyInv'
  BY <1>1 DEF Inv, StackTaken, MapInv, KeyInv, Fetched
<1>3. Late' = Late BY <1>1 DEF Late
<1>4. LateInv' BY <1>1, <1>3 DEF Inv, LateInv
<1>5. SegmentsInv' BY <1>1 DEF Inv, SegmentsInv
<1> QED BY <1>2, <1>4, <1>5 DEF Inv

\* The other steps touch nothing but the loader's place in efi_main.
LEMMA OthersKeepInv ==
  Inv /\ (InitializeGop \/ NoMemoryMap \/ UNCHANGED vars) => Inv'
<1> SUFFICES ASSUME Inv, InitializeGop \/ NoMemoryMap \/ UNCHANGED vars
             PROVE  Inv'
  OBVIOUS
<1>1. UNCHANGED <<frames, key, exited, MapSize, buffer, handed, segment, overwritten>>
  BY DEF InitializeGop, NoMemoryMap, vars
<1>2. Late' = Late BY <1>1 DEF Late
<1>3. CASE InitializeGop
  BY <1>1, <1>3 DEF InitializeGop, At, Inv, StackTaken, MapInv, KeyInv, LateInv, SegmentsInv,
                    Fetched
<1>4. CASE NoMemoryMap
  BY <1>1, <1>4 DEF NoMemoryMap, At, Inv, StackTaken, MapInv, KeyInv, LateInv, SegmentsInv,
                    Fetched
<1>5. CASE UNCHANGED vars
  BY <1>2, <1>5 DEF vars, Inv, StackTaken, MapInv, KeyInv, LateInv, SegmentsInv, Fetched
<1> QED BY <1>3, <1>4, <1>5

LEMMA InvHolds == Spec => []Inv
<1>1. Inv /\ [Next]_vars => Inv'
  BY GetMemoryMapKeepsInv, ReadHeaderKeepsInv, ReadProgramHeadersKeepsInv, LoadSegmentKeepsInv,
     ExitBootServicesKeepsInv, OthersKeepInv DEF Next, Progress
<1> QED BY InitInv, <1>1, PTL DEF Spec

-----------------------------------------------------------------------------
(***************************************************************************)
(* In the map the kernel is entered with, the stack and the map itself are *)
(* not free, and of the loader's other frames, the image apart, one at     *)
(* most is: GetMemoryMap's last buffer is allocated before the call, and   *)
(* only the program headers and the image come after it.                   *)
(***************************************************************************)
THEOREM NeededListed == Spec => []NeededFramesListed
<1>1. Inv => NeededFramesListed
  <2> SUFFICES ASSUME Inv, pc = "kernel" PROVE NeededFramesListed
    BY DEF NeededFramesListed
  <2>1. \A f \in Stack \cup buffer : handed.frames[f] # Conventional
    BY DEF Inv, MapInv, Fetched
  <2>2. PICK h : Late \subseteq {h} BY DEF Inv, LateInv
  <2>3. IsFiniteSet({h}) /\ Cardinality({h}) = 1 BY FS_Singleton
  <2>4. Cardinality(Late) <= 1 BY <2>2, <2>3, FS_Subset
  <2> QED BY <2>1, <2>4 DEF NeededFramesListed, Late
<1> QED BY InvHolds, <1>1, PTL

(***************************************************************************)
(* ExitBootServices gets the key of a map that is older than every         *)
(* allocation for the image: boot services end only if each of those was   *)
(* refused and the image written over memory the loader does not own.      *)
(***************************************************************************)
THEOREM BootServicesRemain == Spec => []EnteredWithBootServices
<1>1. Inv => EnteredWithBootServices
  <2> SUFFICES ASSUME Inv, pc = "kernel", exited, NEW f \in Image PROVE f \in overwritten
    BY DEF EnteredWithBootServices
  <2>1. PICK i \in DOMAIN Segments : f \in Pages(Segments[i][1], Segments[i][2])
    BY DEF Image
  <2>2. i < segment /\ handed.key = key BY BootAssumption DEF Inv, SegmentsInv
  <2> QED BY <2>1, <2>2 DEF Inv, SegmentsInv
<1> QED BY InvHolds, <1>1, PTL

=============================================================================
