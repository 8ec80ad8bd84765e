---------------------------- MODULE LeavesProofs ----------------------------
(***************************************************************************)
(* The code that calls nothing else: an entry of a page table reads back   *)
(* as it was written, the gates of the IDT enter their handlers, strtok    *)
(* splits texts into words, ssfn_utf8 decodes what was encoded.  For every *)
(* width of the fields, every set of flags and addresses, all places of    *)
(* the handlers, all texts and delimiters.                                 *)
(***************************************************************************)
EXTENDS Leaves, TLAPS, SequenceTheorems, WellFoundedInduction

-----------------------------------------------------------------------------
(***************************************************************************)
(* The inductive invariant, bit by bit: which bits are flags that were     *)
(* set, and which are the bits of the address.  EntryReadsBack states the  *)
(* address as a set of shifted positions.                                  *)
(***************************************************************************)
TypeInv ==
  /\ entry \subseteq 0 .. WordBits - 1
  /\ set \subseteq Flags
  /\ addr \subseteq 0 .. AddrBits - 1
  /\ clipped \in BOOLEAN

FlagBits == entry \cap Flags = set

AddressBits ==
  \A k \in 0 .. AddrBits - 1 :
    k + First \in entry <=> k \in addr /\ (clipped => k < LowBits - First)

Inv == TypeInv /\ FlagBits /\ AddressBits

-----------------------------------------------------------------------------
\* pmm_addr_get answers with the bits of the field, at their distance from it.
LEMMA GetBits ==
  ASSUME NEW e \in SUBSET Int
  PROVE  pmm_addr_get(e) = {k \in 0 .. AddrBits - 1 : k + First \in e}
<1> USE EntryAssumption
<1>1. ASSUME NEW k \in pmm_addr_get(e)
      PROVE  k \in 0 .. AddrBits - 1 /\ k + First \in e
  <2>1. PICK b \in e \cap Field : k = b + (-First)
    BY <1>1 DEF pmm_addr_get, Shifted
  <2> QED BY <2>1 DEF Field
<1>2. ASSUME NEW k \in 0 .. AddrBits - 1, k + First \in e
      PROVE  k \in pmm_addr_get(e)
  <2>1. k + First \in e \cap Field BY <1>2 DEF Field
  <2>2. k = (k + First) + (-First) OBVIOUS
  <2> QED BY <2>1, <2>2 DEF pmm_addr_get, Shifted
<1> QED BY <1>1, <1>2

\* What pmm_addr_set leaves and puts, bit by bit.
LEMMA SetBits ==
  ASSUME NEW e \in SUBSET Int, NEW a \in SUBSET Int, NEW b \in Int
  PROVE  b \in pmm_addr_set(e, a) <=>
           IF b \in Field THEN b - First \in a ELSE b \in e
<1> USE EntryAssumption
<1>1. b \in Shifted(a \cap (0 .. AddrBits - 1), First) <=> b \in Field /\ b - First \in a
  <2>1. ASSUME NEW k \in a \cap (0 .. AddrBits - 1), b = k + First
        PROVE  b \in Field /\ b - First \in a
    <3>1. b - First = k BY <2>1
    <3> QED BY <2>1, <3>1 DEF Field
  <2>2. ASSUME b \in Field, b - First \in a
        PROVE  b - First \in a \cap (0 .. AddrBits - 1) /\ b = (b - First) + First
    BY <2>2 DEF Field
  <2> QED BY <2>1, <2>2 DEF Shifted
<1> QED BY <1>1 DEF pmm_addr_set

-----------------------------------------------------------------------------
LEMMA InitInv == Init => Inv
<1> SUFFICES ASSUME Init PROVE Inv
  OBVIOUS
<1> USE EntryAssumption
<1>1. entry \subseteq 0 .. WordBits - 1 /\ entry \in SUBSET Int BY DEF Init
<1>2. addr = {k \in 0 .. AddrBits - 1 : k + First \in entry} BY <1>1, GetBits DEF Init
<1> QED BY <1>1, <1>2 DEF Init, Inv, TypeInv, FlagBits, AddressBits

LEMMA FlagsKeepInv ==
  ASSUME Inv, NEW mask \in Masks, NEW val \in BOOLEAN, SetFlags(mask, val)
  PROVE  Inv'
<1> USE EntryAssumption
<1>1. mask \subseteq Flags /\ mask \subseteq 0 .. WordBits - 1 OBVIOUS
<1>2. \A k \in 0 .. AddrBits - 1 : k + First \notin mask BY <1>1
<1>3. CASE val
  <2>1. entry' = entry \cup mask /\ set' = set \cup mask /\ clipped' = clipped /\ addr' = addr
    BY <1>3 DEF SetFlags, pmm_flag_set, Inv, TypeInv
  <2> QED BY <2>1, <1>1, <1>2 DEF Inv, TypeInv, FlagBits, AddressBits
<1>4. CASE ~ val
  <2>1. entry' = entry \cap ((0 .. LowBits - 1) \ mask) /\ set' = set \ mask
          /\ clipped' /\ clipped' \in BOOLEAN /\ addr' = addr
    BY <1>4 DEF SetFlags, pmm_flag_set
  <2>2. TypeInv' BY <2>1 DEF Inv, TypeInv
  <2>3. FlagBits'
    <3>1. Flags \subseteq 0 .. LowBits - 1 OBVIOUS
    <3> QED BY <2>1, <3>1 DEF Inv, FlagBits
  <2>4. AddressBits'
    <3> SUFFICES ASSUME NEW k \in 0 .. AddrBits - 1
                 PROVE  k + First \in entry' <=> k \in addr' /\ k < LowBits - First
      BY <2>1 DEF AddressBits
    <3>1. k + First \in 0 .. LowBits - 1 <=> k < LowBits - First OBVIOUS
    <3> QED BY <2>1, <1>2, <3>1 DEF Inv, AddressBits
  <2> QED BY <2>2, <2>3, <2>4 DEF Inv
<1> QED BY <1>3, <1>4

LEMMA AddressKeepsInv ==
  ASSUME Inv, NEW a \in Addresses, SetAddress(a)
  PROVE  Inv'
<1> USE EntryAssumption
<1>1. entry \in SUBSET Int /\ a \in SUBSET Int BY DEF Inv, TypeInv
<1>2. entry' = pmm_addr_set(entry, a) /\ addr' = a \cap (0 .. AddrBits - 1)
        /\ clipped' = FALSE /\ set' = set
  BY DEF SetAddress
<1>3. \A b \in Int : b \in entry' <=> IF b \in Field THEN b - First \in a ELSE b \in entry
  BY <1>1, <1>2, SetBits
<1>4. entry' \in SUBSET Int
  <2>1. Shifted(a \cap (0 .. AddrBits - 1), First) \subseteq Int BY DEF Shifted
  <2> QED BY <1>1, <1>2, <2>1 DEF pmm_addr_set
<1>5. Field \subseteq 0 .. WordBits - 1 /\ Flags \cap Field = {} BY DEF Field
<1>6. TypeInv'
  <2>1. entry' \subseteq 0 .. WordBits - 1 BY <1>3, <1>4, <1>5 DEF Inv, TypeInv
  <2> QED BY <2>1, <1>2 DEF Inv, TypeInv
<1>7. FlagBits'
  <2>1. \A b \in Flags : b \in Int /\ b \notin Field BY <1>5
  <2>2. \A b \in Flags : b \in entry' <=> b \in entry BY <1>3, <2>1
  <2> QED BY <2>2, <1>2 DEF Inv, FlagBits
<1>8. AddressBits'
  <2> SUFFICES ASSUME NEW k \in 0 .. AddrBits - 1
               PROVE  k + First \in entry' <=> k \in addr'
    BY <1>2 DEF AddressBits
  <2>1. k + First \in Field /\ k + First \in Int /\ (k + First) - First = k BY DEF Field
  <2> QED BY <2>1, <1>2, <1>3
<1> QED BY <1>6, <1>7, <1>8 DEF Inv

LEMMA InvReadsBack == Inv => EntryReadsBack
<1> SUFFICES ASSUME Inv PROVE EntryReadsBack
  OBVIOUS
<1> USE EntryAssumption
<1>1. entry \in SUBSET Int BY DEF Inv, TypeInv
<1>2. \A mask \in SUBSET Flags : pmm_flag_get(entry, mask) <=> mask \subseteq set
  BY DEF Inv, FlagBits, pmm_flag_get
<1>3. pmm_addr_get(entry) = {k \in 0 .. AddrBits - 1 : k + First \in entry} BY <1>1, GetBits
<1>4. CASE clipped
  <2>1. \A k : k \in pmm_addr_get(entry) <=> k \in addr \cap (0 .. LowBits - First - 1)
    BY <1>3, <1>4 DEF Inv, TypeInv, AddressBits
  <2> QED BY <1>2, <1>4, <2>1 DEF EntryReadsBack
<1>5. CASE ~ clipped
  <2>1. \A k : k \in pmm_addr_get(entry) <=> k \in addr \cap (0 .. AddrBits - 1)
    BY <1>3, <1>5 DEF Inv, TypeInv, AddressBits
  <2> QED BY <1>2, <1>5, <2>1 DEF EntryReadsBack
<1> QED BY <1>4, <1>5

(***************************************************************************)
(* In any order of pmm_flag_set and pmm_addr_set, pmm_flag_get and         *)
(* pmm_addr_get answer with what was last written; only the address bits   *)
(* above an enumerator's width are lost when a flag is cleared.            *)
(***************************************************************************)
THEOREM ReadsBack == Spec => []EntryReadsBack
<1>1. Init => Inv BY InitInv
<1>2. Inv /\ [Next]_vars => Inv'
  <2> SUFFICES ASSUME Inv, [Next]_vars PROVE Inv'
    OBVIOUS
  <2>1. ASSUME NEW mask \in Masks, NEW val \in BOOLEAN, SetFlags(mask, val) PROVE Inv'
    BY <2>1, FlagsKeepInv
  <2>2. ASSUME NEW a \in Addresses, SetAddress(a) PROVE Inv'
    BY <2>2, AddressKeepsInv
  <2>3. CASE UNCHANGED vars
    BY <2>3 DEF vars, Inv, TypeInv, FlagBits, AddressBits
  <2> QED BY <2>1, <2>2, <2>3 DEF Next
<1>3. Inv => EntryReadsBack BY InvReadsBack
<1> QED BY <1>1, <1>2, <1>3, PTL DEF Spec

-----------------------------------------------------------------------------
\* The descriptor tables.
\* A bit of a number, as BitsOf finds it.
Bit(v, k) == (v \div 2 ^ k) % 2 = 1

\* A number with the bits in S and no others.
Ones(v, S) == \A k \in 0 .. 15 : Bit(v, k) <=> k \in S

\* BitsOf, bit by bit.
LEMMA BitsAt ==
  ASSUME NEW v, NEW S \in SUBSET (0 .. 15), Ones(v, S), NEW n \in Int
  PROVE  Table!BitsOf(v, n) = {n + k : k \in S}
BY DEF Table!BitsOf, Ones, Bit

\* The same, one bit after the other.
EachBit(v, S) ==
  /\ Bit(v, 0) <=> 0 \in S
  /\ Bit(v, 1) <=> 1 \in S
  /\ Bit(v, 2) <=> 2 \in S
  /\ Bit(v, 3) <=> 3 \in S
  /\ Bit(v, 4) <=> 4 \in S
  /\ Bit(v, 5) <=> 5 \in S
  /\ Bit(v, 6) <=> 6 \in S
  /\ Bit(v, 7) <=> 7 \in S
  /\ Bit(v, 8) <=> 8 \in S
  /\ Bit(v, 9) <=> 9 \in S
  /\ Bit(v, 10) <=> 10 \in S
  /\ Bit(v, 11) <=> 11 \in S
  /\ Bit(v, 12) <=> 12 \in S
  /\ Bit(v, 13) <=> 13 \in S
  /\ Bit(v, 14) <=> 14 \in S
  /\ Bit(v, 15) <=> 15 \in S

\* The two say the same.
LEMMA EachBitOnes == ASSUME NEW v, NEW S, EachBit(v, S) PROVE Ones(v, S)
<1> SUFFICES ASSUME NEW k \in 0 .. 15 PROVE Bit(v, k) <=> k \in S
  BY DEF Ones
<1>1. \/ k = 0 \/ k = 1 \/ k = 2 \/ k = 3 \/ k = 4 \/ k = 5 \/ k = 6 \/ k = 7
      \/ k = 8 \/ k = 9 \/ k = 10 \/ k = 11 \/ k = 12 \/ k = 13 \/ k = 14 \/ k = 15
  OBVIOUS
<1> QED BY <1>1 DEF EachBit

\* The numbers that descriptors and selectors are made of.
LEMMA NumberBits ==
  /\ Ones(0, {}) /\ Ones(8, {3}) /\ Ones(16, {4}) /\ Ones(24, {3, 4})
  /\ Ones(32, {5}) /\ Ones(40, {3, 5})
  /\ Ones(142, {1, 2, 3, 7}) /\ Ones(146, {1, 4, 7})
  /\ Ones(154, {1, 3, 4, 7}) /\ Ones(160, {5, 7})
<1>1. EachBit(0, {}) BY DEF EachBit, Bit
<1>2. EachBit(8, {3}) BY DEF EachBit, Bit
<1>3. EachBit(16, {4}) BY DEF EachBit, Bit
<1>4. EachBit(24, {3, 4}) BY DEF EachBit, Bit
<1>5. EachBit(32, {5}) BY DEF EachBit, Bit
<1>6. EachBit(40, {3, 5}) BY DEF EachBit, Bit
<1>7. EachBit(142, {1, 2, 3, 7}) BY DEF EachBit, Bit
<1>8. EachBit(146, {1, 4, 7}) BY DEF EachBit, Bit
<1>9. EachBit(154, {1, 3, 4, 7}) BY DEF EachBit, Bit
<1>10. EachBit(160, {5, 7}) BY DEF EachBit, Bit
<1> QED
  BY <1>1, <1>2, <1>3, <1>4, <1>5, <1>6, <1>7, <1>8, <1>9, <1>10, EachBitOnes

\* Those numbers, in their field.
LEMMA NumberAt ==
  ASSUME NEW n \in Int
  PROVE  /\ Table!BitsOf(0, n) = {}
         /\ Table!BitsOf(8, n) = {n + 3}
         /\ Table!BitsOf(16, n) = {n + 4}
         /\ Table!BitsOf(24, n) = {n + 3, n + 4}
         /\ Table!BitsOf(32, n) = {n + 5}
         /\ Table!BitsOf(40, n) = {n + 3, n + 5}
         /\ Table!BitsOf(142, n) = {n + 1, n + 2, n + 3, n + 7}
         /\ Table!BitsOf(146, n) = {n + 1, n + 4, n + 7}
         /\ Table!BitsOf(154, n) = {n + 1, n + 3, n + 4, n + 7}
         /\ Table!BitsOf(160, n) = {n + 5, n + 7}
<1> USE NumberBits
<1>1. Table!BitsOf(0, n) = {n + k : k \in {}} BY BitsAt
<1>2. Table!BitsOf(8, n) = {n + k : k \in {3}} BY BitsAt
<1>3. Table!BitsOf(16, n) = {n + k : k \in {4}} BY BitsAt
<1>4. Table!BitsOf(24, n) = {n + k : k \in {3, 4}} BY BitsAt
<1>5. Table!BitsOf(32, n) = {n + k : k \in {5}} BY BitsAt
<1>6. Table!BitsOf(40, n) = {n + k : k \in {3, 5}} BY BitsAt
<1>7. Table!BitsOf(142, n) = {n + k : k \in {1, 2, 3, 7}} BY BitsAt
<1>8. Table!BitsOf(146, n) = {n + k : k \in {1, 4, 7}} BY BitsAt
<1>9. Table!BitsOf(154, n) = {n + k : k \in {1, 3, 4, 7}} BY BitsAt
<1>10. Table!BitsOf(160, n) = {n + k : k \in {5, 7}} BY BitsAt
<1> QED BY <1>1, <1>2, <1>3, <1>4, <1>5, <1>6, <1>7, <1>8, <1>9, <1>10

-----------------------------------------------------------------------------
\* The segments the kernel loads are what it takes them for.
LEMMA SegmentKinds ==
  ASSUME gdt = Table!DEFAULT_GDT
  PROVE  /\ Table!Selectors = {0, 8, 16, 24, 32, 40}
         /\ Table!IsCode(8) /\ Table!IsData(16)
<1>1. Len(gdt) = 6 /\ gdt[2] = Table!Code /\ gdt[3] = Table!Data
  BY DEF Table!DEFAULT_GDT
<1>2. Table!Selectors = {8 * k : k \in {0, 1, 2, 3, 4, 5}}
  BY <1>1 DEF Table!Selectors
<1>3. Table!Selectors = {0, 8, 16, 24, 32, 40} BY <1>2
<1>4. Table!Segment(8) = Table!Code /\ Table!Segment(16) = Table!Data
  BY <1>1 DEF Table!Segment
<1>5. Table!Code = {41, 43, 44, 47, 53, 55} BY NumberAt DEF Table!Code, Table!GDTEntry
<1>6. Table!Data = {41, 44, 47, 53, 55} BY NumberAt DEF Table!Data, Table!GDTEntry
<1> QED BY <1>3, <1>4, <1>5, <1>6 DEF Table!IsCode, Table!IsData

\* An address shifted by a number of bits.
LEMMA ShiftedBit ==
  ASSUME NEW w \in SUBSET Int, NEW n \in Int, NEW b \in Int
  PROVE  b \in Table!Shifted(w, n) <=> b - n \in w
<1>1. ASSUME b - n \in w PROVE b = (b - n) + n OBVIOUS
<1>2. ASSUME NEW c \in w, b = c + n PROVE b - n = c BY <1>2
<1> QED BY <1>1, <1>2 DEF Table!Shifted

\* What init_idt writes into a gate.
Gate(offset) == Table!IDT_CREATE_ENTRY(offset, 8, 0, Table!IDT_INTERRUPT_GATE)

\* Its bits.
LEMMA GateBits ==
  ASSUME NEW offset \in SUBSET (0 .. 63)
  PROVE  /\ Gate(offset) \subseteq Int
         /\ \A b \in Int : b \in Gate(offset) <=>
              \/ b \in 0 .. 15 /\ b \in offset
              \/ b \in {19, 41, 42, 43, 47}
              \/ b \in 48 .. 95 /\ b - 32 \in offset
<1> DEFINE low == offset \cap (0 .. 15)
           mid == Table!Shifted(offset, -16) \cap (0 .. 15)
           high == Table!Shifted(offset, -32) \cap (0 .. 31)
<1>1. offset \in SUBSET Int OBVIOUS
<1>2. mid \in SUBSET Int /\ high \in SUBSET Int OBVIOUS
<1>3. Gate(offset) = low \cup {19} \cup {41, 42, 43, 47}
                       \cup Table!Shifted(mid, 48) \cup Table!Shifted(high, 64)
  <2>1. Table!IDT_INTERRUPT_GATE \in {Table!IDT_INTERRUPT_GATE, Table!IDT_TRAP_GATE}
    OBVIOUS
  <2>2. Table!IDT_INTERRUPT_GATE = 142 BY DEF Table!IDT_INTERRUPT_GATE
  <2>3. Gate(offset) = low \cup Table!BitsOf(8, 16) \cup Table!BitsOf(0, 32) \cup Table!BitsOf(142, 40)
                         \cup Table!Shifted(mid, 48) \cup Table!Shifted(high, 64)
    BY <2>1, <2>2 DEF Gate, Table!IDT_CREATE_ENTRY
  <2>4. Table!BitsOf(8, 16) = {19} /\ Table!BitsOf(0, 32) = {} /\ Table!BitsOf(142, 40) = {41, 42, 43, 47}
    BY NumberAt
  <2> QED BY <2>3, <2>4
<1>4. \A b \in Int : b \in Table!Shifted(mid, 48) <=> b \in 48 .. 63 /\ b - 32 \in offset
  <2> TAKE b \in Int
  <2>1. b \in Table!Shifted(mid, 48) <=> b - 48 \in mid BY <1>2, ShiftedBit
  <2>2. b - 48 \in Table!Shifted(offset, -16) <=> (b - 48) - (-16) \in offset BY <1>1, ShiftedBit
  <2>3. (b - 48) - (-16) = b - 32 OBVIOUS
  <2> QED BY <2>1, <2>2, <2>3
<1>5. \A b \in Int : b \in Table!Shifted(high, 64) <=> b \in 64 .. 95 /\ b - 32 \in offset
  <2> TAKE b \in Int
  <2>1. b \in Table!Shifted(high, 64) <=> b - 64 \in high BY <1>2, ShiftedBit
  <2>2. b - 64 \in Table!Shifted(offset, -32) <=> (b - 64) - (-32) \in offset BY <1>1, ShiftedBit
  <2>3. (b - 64) - (-32) = b - 32 OBVIOUS
  <2> QED BY <2>1, <2>2, <2>3
<1>6. Table!Shifted(mid, 48) \subseteq Int /\ Table!Shifted(high, 64) \subseteq Int
  BY <1>2 DEF Table!Shifted
<1> HIDE DEF mid, high
<1>7. Gate(offset) \subseteq Int BY <1>1, <1>3, <1>6
<1> QED BY <1>3, <1>4, <1>5, <1>7

\* The processor finds in such a gate what the handlers take for granted.
Enters(g, offset) ==
  /\ Table!IsInterruptGate(g)
  /\ \E sel \in Table!Selectors : Table!BitsOf(sel, 16) = g \cap (16 .. 31)
  /\ Table!IsCode(Table!GateSelector(g))
  /\ Table!GateOffset(g) = offset
  /\ g \cap (32 .. 34) = {}

\* init_idt writes such gates.
LEMMA GateEnters ==
  ASSUME gdt = Table!DEFAULT_GDT, NEW offset \in SUBSET (0 .. 63)
  PROVE  Enters(Gate(offset), offset)
<1> DEFINE g == Gate(offset)
<1>1. g \subseteq Int BY GateBits
<1>2. \A b \in Int : b \in g <=>
              \/ b \in 0 .. 15 /\ b \in offset
              \/ b \in {19, 41, 42, 43, 47}
              \/ b \in 48 .. 95 /\ b - 32 \in offset
  BY GateBits
<1> HIDE DEF g
<1>3. Table!IsInterruptGate(g) BY <1>1, <1>2 DEF Table!IsInterruptGate
<1>4. g \cap (16 .. 31) = {19} BY <1>1, <1>2
<1>5. Table!GateSelector(g) = 8 /\ 8 \in Table!Selectors /\ Table!BitsOf(8, 16) = {19}
  <2>1. Table!Selectors = {0, 8, 16, 24, 32, 40} BY SegmentKinds
  <2>2. /\ Table!BitsOf(0, 16) = {} /\ Table!BitsOf(8, 16) = {19} /\ Table!BitsOf(16, 16) = {20}
        /\ Table!BitsOf(24, 16) = {19, 20} /\ Table!BitsOf(32, 16) = {21}
        /\ Table!BitsOf(40, 16) = {19, 21}
    BY NumberAt
  <2>3. \A sel \in Table!Selectors : Table!BitsOf(sel, 16) = {19} <=> sel = 8
    <3>1. /\ {} # {19} /\ {20} # {19} /\ {19, 20} # {19} /\ {21} # {19} /\ {19, 21} # {19}
      OBVIOUS
    <3> QED BY <2>1, <2>2, <3>1
  <2> QED BY <1>4, <2>1, <2>2, <2>3 DEF Table!GateSelector
<1>6. Table!IsCode(Table!GateSelector(g)) BY <1>5, SegmentKinds
<1>7. Table!GateOffset(g) = offset
  <2>1. \A b \in Int : b \in Table!Shifted(g \cap (48 .. 63), -32) <=> b + 32 \in g \cap (48 .. 63)
    <3> TAKE b \in Int
    <3>1. b - (-32) = b + 32 OBVIOUS
    <3> QED BY <1>1, <3>1, ShiftedBit
  <2>2. \A b \in Int : b \in Table!Shifted(g \cap (64 .. 95), -32) <=> b + 32 \in g \cap (64 .. 95)
    <3> TAKE b \in Int
    <3>1. b - (-32) = b + 32 OBVIOUS
    <3> QED BY <1>1, <3>1, ShiftedBit
  <2>3. Table!GateOffset(g) \subseteq Int BY <1>1 DEF Table!GateOffset, Table!Shifted
  <2>4. \A b \in Int : (b + 32) - 32 = b OBVIOUS
  <2>5. \A b \in Int : b \in Table!GateOffset(g) <=>
          b \in g \cap (0 .. 15) \/ b + 32 \in g \cap (48 .. 63) \/ b + 32 \in g \cap (64 .. 95)
    BY <2>1, <2>2 DEF Table!GateOffset
  <2>6. \A b \in Int : b \in Table!GateOffset(g) <=>
          \/ b \in 0 .. 15 /\ b \in offset
          \/ b + 32 \in 48 .. 63 /\ b \in offset
          \/ b + 32 \in 64 .. 95 /\ b \in offset
    BY <1>2, <2>4, <2>5
  <2>7. \A b \in Int : b \in Table!GateOffset(g) <=> b \in offset
    BY <2>6
  <2>8. offset \subseteq Int OBVIOUS
  <2> QED BY <2>3, <2>7, <2>8
<1>8. g \cap (32 .. 34) = {} BY <1>1, <1>2
<1> QED BY <1>3, <1>4, <1>5, <1>6, <1>7, <1>8 DEF Enters, g

-----------------------------------------------------------------------------
\* The table is loaded when its five gates are written; the handlers stay where
\* they are.
GatesWritten ==
  \A k \in 1 .. 5 : k < gate => idt[Table!Installed[k]] = Gate(handler[Table!Installed[k]])

TableInv ==
  /\ handler \in [Table!Vectors -> SUBSET (0 .. 63)] /\ DOMAIN idt = Table!Vectors
  /\ gate \in 1 .. 6 /\ GatesWritten
  /\ pc \in {"gdt", "gates", "done"}
  /\ loaded => gate = 6 /\ pc = "done"
  /\ pc # "gdt" => gdt = Table!DEFAULT_GDT /\ cs = 8 /\ ds = 16

\* Five gates with five numbers.
LEMMA FiveGates ==
  /\ Len(Table!Installed) = 5
  /\ \A v \in Table!Vectors : \E k \in 1 .. 5 : v = Table!Installed[k]
  /\ \A k \in 1 .. 5 : Table!Installed[k] \in Table!Vectors
  /\ \A k, l \in 1 .. 5 : Table!Installed[k] = Table!Installed[l] => k = l
<1>1. /\ Len(Table!Installed) = 5 /\ DOMAIN Table!Installed = 1 .. 5
      /\ Table!Installed[1] = 14 /\ Table!Installed[2] = 8 /\ Table!Installed[3] = 13
      /\ Table!Installed[4] = 32 /\ Table!Installed[5] = 33
  BY DEF Table!Installed
<1>2. \A k \in 1 .. 5 : k = 1 \/ k = 2 \/ k = 3 \/ k = 4 \/ k = 5 OBVIOUS
<1>3. \A k, l \in 1 .. 5 : Table!Installed[k] = Table!Installed[l] => k = l
  BY <1>1, <1>2
<1> QED BY <1>1, <1>3 DEF Table!Vectors

\* Before set_gdt nothing is loaded and no gate counts as written.
LEMMA TableInit == Table!ConstantsFit /\ Table!Init => TableInv
<1> SUFFICES ASSUME Table!ConstantsFit, Table!Init PROVE TableInv
  OBVIOUS
<1>1. handler \in [Table!Vectors -> SUBSET (0 .. 63)] /\ DOMAIN idt = Table!Vectors
  BY DEF Table!ConstantsFit, Table!Init
<1>2. gate = 1 /\ pc = "gdt" /\ loaded = FALSE BY DEF Table!Init
<1>3. GatesWritten BY <1>2 DEF GatesWritten
<1> QED BY <1>1, <1>2, <1>3 DEF TableInv

\* The next gate leaves those before it as they are.
LEMMA TableNext == TableInv /\ [Table!Next]_(Table!vars) => TableInv'
<1> SUFFICES ASSUME TableInv, [Table!Next]_(Table!vars) PROVE TableInv'
  OBVIOUS
<1>1. CASE Table!LoadGdt
  BY <1>1 DEF Table!LoadGdt, TableInv, GatesWritten
<1>2. CASE Table!InstallGate
  <2> DEFINE v == Table!Installed[gate]
  <2>1. /\ gate \in 1 .. 5 /\ gate' = gate + 1 /\ v \in Table!Vectors
        /\ pc = "gates"
        /\ idt' = [idt EXCEPT ![v] = Gate(handler[v])]
        /\ UNCHANGED <<pc, cs, ds, gdt, loaded, handler>>
    BY <1>2, FiveGates DEF Table!InstallGate, TableInv, Gate
  <2> HIDE DEF v
  <2>2. idt'[v] = Gate(handler[v]) /\ DOMAIN idt' = Table!Vectors
        /\ \A w \in Table!Vectors : w # v => idt'[w] = idt[w]
    BY <2>1 DEF TableInv
  <2>3. GatesWritten'
    <3> SUFFICES ASSUME NEW k \in 1 .. 5, k < gate + 1
                 PROVE  idt'[Table!Installed[k]] = Gate(handler[Table!Installed[k]])
      BY <2>1 DEF GatesWritten
    <3>1. CASE k = gate BY <3>1, <2>2 DEF v
    <3>2. CASE k < gate
      <4>1. Table!Installed[k] # v /\ Table!Installed[k] \in Table!Vectors
        BY <3>2, <2>1, FiveGates DEF v
      <4> QED BY <4>1, <3>2, <2>2 DEF TableInv, GatesWritten
    <3> QED BY <3>1, <3>2, <2>1
  <2> QED BY <2>1, <2>2, <2>3 DEF TableInv
<1>3. CASE Table!LoadIdt
  BY <1>3, FiveGates DEF Table!LoadIdt, TableInv, GatesWritten
<1>4. CASE UNCHANGED Table!vars
  BY <1>4 DEF Table!vars, TableInv, GatesWritten
<1> QED BY <1>1, <1>2, <1>3, <1>4 DEF Table!Next

\* With five gates written, every vector has its gate.
LEMMA TableEnters == TableInv => Table!GatesEnterHandlers
<1> SUFFICES ASSUME TableInv, loaded PROVE Table!GatesEnterHandlers
  BY DEF Table!GatesEnterHandlers
<1>1. gate = 6 /\ gdt = Table!DEFAULT_GDT /\ cs = 8 /\ ds = 16 BY DEF TableInv
<1>2. cs \in Table!Selectors /\ Table!IsCode(cs) /\ ds \in Table!Selectors /\ Table!IsData(ds)
  BY <1>1, SegmentKinds
<1>3. \A v \in Table!Vectors : Enters(idt[v], handler[v])
  <2> TAKE v \in Table!Vectors
  <2>1. PICK k \in 1 .. 5 : v = Table!Installed[k] BY FiveGates
  <2>2. idt[v] = Gate(handler[v]) BY <1>1, <2>1 DEF TableInv, GatesWritten
  <2>3. handler[v] \in SUBSET (0 .. 63) BY DEF TableInv
  <2> QED BY <1>1, <2>2, <2>3, GateEnters
<1> QED BY <1>2, <1>3 DEF Table!GatesEnterHandlers, Enters

(***************************************************************************)
(* Wherever the compiler put the handlers and whatever the frame of the    *)
(* table held: once idtr is loaded, every gate that init_idt wrote takes   *)
(* the processor to its handler, in the code segment set_gdt loaded, with  *)
(* interrupts off and on the stack in use.                                 *)
(***************************************************************************)
THEOREM GatesEnter == Table!Spec => []GatesEnterHandlers
<1>1. Table!Init => TableInv BY TableAssumption, TableInit
<1>2. TableInv /\ [Table!Next]_(Table!vars) => TableInv' BY TableNext
<1>3. TableInv => GatesEnterHandlers BY TableEnters DEF GatesEnterHandlers
<1> QED BY <1>1, <1>2, <1>3, PTL DEF Table!Spec

-----------------------------------------------------------------------------
\* The functions of string.c.
\* A set of positions has a first.
LEMMA LeastExists ==
  ASSUME NEW S \in SUBSET Nat, S # {}
  PROVE  \E x \in S : \A y \in S : x <= y
<1>1. PICK x \in S : \A y \in S : ~ (<<y, x>> \in OpToRel(<, Nat))
  BY WFMin, NatLessThanWellFounded
<1>2. \A y \in S : ~ (y < x) BY <1>1 DEF OpToRel
<1> QED BY <1>2

\* A buffer with a string in it.
Buffer(b) == b \in Seq(Letters \cup {0}) /\ Len(b) \in Nat \ {0} /\ b[Len(b)] = 0

\* f is the first position from i on with a byte in C.
FirstAt(b, i, C, f) ==
  /\ f \in i .. Len(b) /\ b[f] \in C
  /\ \A j \in i .. Len(b) : j < f => b[j] \notin C

\* Find stops, for there is a NUL.
LEMMA FindFirst ==
  ASSUME NEW b, Buffer(b), NEW i \in 1 .. Len(b), NEW C, 0 \in C
  PROVE  FirstAt(b, i, C, Text!Find(b, i, C))
<1> DEFINE S == {j \in i .. Len(b) : b[j] \in C}
<1>1. S \in SUBSET Nat /\ Len(b) \in S BY DEF Buffer
<1>2. \E x \in S : \A y \in S : x <= y BY <1>1, LeastExists
<1>3. Text!Find(b, i, C) \in S /\ \A y \in S : Text!Find(b, i, C) <= y
  BY <1>2 DEF Text!Find, Text!Min
<1> DEFINE f == Text!Find(b, i, C)
<1> HIDE DEF f
<1>4. f \in i .. Len(b) /\ b[f] \in C BY <1>3 DEF f
<1>5. ASSUME NEW j \in i .. Len(b), j < f, b[j] \in C PROVE FALSE
  <2>1. f <= j BY <1>3, <1>5 DEF f
  <2> QED BY <2>1, <1>4, <1>5 DEF Buffer
<1>6. FirstAt(b, i, C, f) BY <1>4, <1>5 DEF FirstAt
<1> QED BY <1>6 DEF f

\* The first position there is, is the one Find answers with.
LEMMA FindIs ==
  ASSUME NEW b, Buffer(b), NEW i \in 1 .. Len(b), NEW C, NEW f, FirstAt(b, i, C, f)
  PROVE  Text!Find(b, i, C) = f
<1> DEFINE S == {j \in i .. Len(b) : b[j] \in C}
<1>1. Len(b) \in Nat BY DEF Buffer
<1>2. f \in S /\ \A y \in S : f <= y BY <1>1 DEF FirstAt
<1>3. \A x \in S : x \in Int BY <1>1
<1>4. \A x \in S : (\A y \in S : x <= y) => x = f BY <1>2, <1>3
<1> QED BY <1>2, <1>4 DEF Text!Find, Text!Min

-----------------------------------------------------------------------------
\* The string at position i of a buffer.
Body(b, i) == SubSeq(b, i, Text!Find(b, i, {0}) - 1)

\* It goes up to the first NUL.
LEMMA BodyIs ==
  ASSUME NEW b, Buffer(b), NEW i \in 1 .. Len(b), NEW z, FirstAt(b, i, {0}, z)
  PROVE  /\ Body(b, i) = SubSeq(b, i, z - 1) /\ Body(b, i) \in Seq(Letters)
         /\ Len(Body(b, i)) = z - i
         /\ \A k \in 1 .. z - i : Body(b, i)[k] = b[i + k - 1]
<1>1. Body(b, i) = SubSeq(b, i, z - 1) BY FindIs DEF Body
<1>2. Len(b) \in Nat /\ z \in i .. Len(b) /\ b \in Seq(Letters \cup {0}) BY DEF FirstAt, Buffer
<1>3. \A j \in i .. (z - 1) : b[j] \in Letters BY <1>2 DEF FirstAt
<1>4. SubSeq(b, i, z - 1) = [k \in 1 .. z - i |-> b[i + k - 1]]
  BY <1>2
<1>5. \A k \in 1 .. z - i : i + k - 1 \in i .. (z - 1) BY <1>2
<1>6. [k \in 1 .. z - i |-> b[i + k - 1]] \in Seq(Letters)
  <2>1. z - i \in Nat BY <1>2
  <2>2. [k \in 1 .. z - i |-> b[i + k - 1]] \in [1 .. z - i -> Letters] BY <1>3, <1>5
  <2> QED BY <2>1, <2>2
<1>7. Body(b, i) = [k \in 1 .. z - i |-> b[i + k - 1]] BY <1>1, <1>4
<1>8. Body(b, i) \in Seq(Letters) BY <1>6, <1>7
<1>9. Len(Body(b, i)) = z - i BY <1>2, <1>7
<1>10. \A k \in 1 .. z - i : Body(b, i)[k] = b[i + k - 1] BY <1>7
<1> QED BY <1>1, <1>8, <1>9, <1>10

\* Bytes before the string and behind its NUL are not part of it.
LEMMA BodyKept ==
  ASSUME NEW b, Buffer(b), NEW c, Buffer(c), Len(c) = Len(b), NEW i \in 1 .. Len(b),
         NEW z, FirstAt(b, i, {0}, z), \A k \in i .. z : c[k] = b[k]
  PROVE  FirstAt(c, i, {0}, z) /\ Body(c, i) = Body(b, i)
<1>1. FirstAt(c, i, {0}, z) BY DEF FirstAt, Buffer
<1>2. Len(b) \in Nat /\ z \in i .. Len(b) BY DEF FirstAt, Buffer
<1>3. /\ Body(c, i) \in Seq(Letters) /\ Len(Body(c, i)) = z - i
      /\ \A k \in 1 .. z - i : Body(c, i)[k] = c[i + k - 1]
  BY <1>1, BodyIs
<1>4. /\ Body(b, i) \in Seq(Letters) /\ Len(Body(b, i)) = z - i
      /\ \A k \in 1 .. z - i : Body(b, i)[k] = b[i + k - 1]
  BY BodyIs
<1>5. \A k \in 1 .. z - i : c[i + k - 1] = b[i + k - 1] BY <1>2
<1> DEFINE v == Body(c, i)  w == Body(b, i)
<1> HIDE DEF v, w
<1>6. v \in Seq(Letters) /\ w \in Seq(Letters) /\ Len(v) = Len(w)
      /\ \A k \in 1 .. Len(w) : v[k] = w[k]
  BY <1>3, <1>4, <1>5 DEF v, w
<1>7. v = w BY <1>6
<1> QED BY <1>1, <1>7 DEF v, w

-----------------------------------------------------------------------------
\* The first m characters of r are the ones before one in D.
Leads(r, D, m) ==
  /\ m \in 0 .. Len(r)
  /\ \A k \in 1 .. m : r[k] \notin D
  /\ m < Len(r) => r[m + 1] \in D

\* So many does Before take.
LEMMA BeforeIs ==
  ASSUME NEW X, NEW r \in Seq(X), NEW D, NEW m, Leads(r, D, m)
  PROVE  Text!Abstract!Before(r, D) = SubSeq(r, 1, m) /\ Len(SubSeq(r, 1, m)) = m
<1> DEFINE I == {j \in 1 .. Len(r) : r[j] \in D}
<1>1. Len(r) \in Nat /\ m \in 0 .. Len(r) BY DEF Leads
<1>2. Text!Abstract!SelectInSeq(r, LAMBDA c : c \in D) = IF m = Len(r) THEN 0 ELSE m + 1
  <2>1. CASE m = Len(r)
    <3>1. I = {} BY <2>1 DEF Leads
    <3> QED BY <2>1, <3>1 DEF Text!Abstract!SelectInSeq
  <2>2. CASE m < Len(r)
    <3>1. m + 1 \in I /\ \A y \in I : m + 1 <= y BY <2>2, <1>1 DEF Leads
    <3>2. \A x \in I : x \in Int BY <1>1
    <3>3. \A x \in I : (\A y \in I : x <= y) => x = m + 1 BY <1>1, <3>1, <3>2
    <3>4. Text!Abstract!Min(I) = m + 1 BY <3>1, <3>3 DEF Text!Abstract!Min
    <3>5. I # {} /\ m # Len(r) BY <3>1, <2>2, <1>1
    <3> QED BY <3>4, <3>5 DEF Text!Abstract!SelectInSeq
  <2> QED BY <2>1, <2>2, <1>1
<1>3. m + 1 # 0 /\ (m + 1) - 1 = m BY <1>1
<1>4. Text!Abstract!Before(r, D) = SubSeq(r, 1, m)
  BY <1>1, <1>2, <1>3 DEF Text!Abstract!Before
<1> QED BY <1>1, <1>4

-----------------------------------------------------------------------------
\* A part of a buffer without NUL, as a sequence.
LEMMA PartIs ==
  ASSUME NEW b, Buffer(b), NEW i \in 1 .. Len(b), NEW z \in i .. Len(b),
         \A j \in i .. (z - 1) : b[j] \in Letters
  PROVE  /\ SubSeq(b, i, z - 1) \in Seq(Letters) /\ Len(SubSeq(b, i, z - 1)) = z - i
         /\ \A k \in 1 .. z - i : SubSeq(b, i, z - 1)[k] = b[i + k - 1]
         /\ \A m \in 0 .. z - i : SubSeq(SubSeq(b, i, z - 1), 1, m) = SubSeq(b, i, i + m - 1)
         /\ \A m \in 1 .. z - i + 1 : SubSeq(SubSeq(b, i, z - 1), m, z - i) = SubSeq(b, i + m - 1, z - 1)
<1>1. Len(b) \in Nat /\ b \in Seq(Letters \cup {0}) BY DEF Buffer
<1> DEFINE r == SubSeq(b, i, z - 1)
<1>2. r = [k \in 1 .. z - i |-> b[i + k - 1]] BY <1>1
<1>3. \A k \in 1 .. z - i : i + k - 1 \in i .. (z - 1) BY <1>1
<1>4. r \in Seq(Letters) /\ Len(r) = z - i
  <2>1. z - i \in Nat BY <1>1
  <2>2. [k \in 1 .. z - i |-> b[i + k - 1]] \in [1 .. z - i -> Letters] BY <1>3
  <2> QED BY <1>2, <2>1, <2>2
<1>5. \A k \in 1 .. z - i : r[k] = b[i + k - 1] BY <1>2
<1> HIDE DEF r
<1>6. ASSUME NEW m \in 0 .. z - i
      PROVE  SubSeq(r, 1, m) = SubSeq(b, i, i + m - 1)
  <2>1. SubSeq(r, 1, m) = [k \in 1 .. m |-> r[k]] BY <1>1, <1>4
  <2>2. SubSeq(b, i, i + m - 1) = [k \in 1 .. m |-> b[i + k - 1]] BY <1>1
  <2>3. \A k \in 1 .. m : r[k] = b[i + k - 1] BY <1>1, <1>5
  <2> QED BY <2>1, <2>2, <2>3
<1>7. ASSUME NEW m \in 1 .. z - i + 1
      PROVE  SubSeq(r, m, z - i) = SubSeq(b, i + m - 1, z - 1)
  <2> DEFINE n == z - i - m + 1
  <2>1. n \in Nat /\ (1 + (z - i)) - m = n /\ (1 + (z - 1)) - (i + m - 1) = n BY <1>1
  <2>2. SubSeq(r, m, z - i) = [k \in 1 .. n |-> r[m + k - 1]] BY <1>1, <1>4, <2>1
  <2>3. SubSeq(b, i + m - 1, z - 1) = [k \in 1 .. n |-> b[i + m - 1 + k - 1]] BY <1>1, <2>1
  <2>4. \A k \in 1 .. n : r[m + k - 1] = b[i + m - 1 + k - 1]
    <3> TAKE k \in 1 .. n
    <3>1. m + k - 1 \in 1 .. z - i /\ i + (m + k - 1) - 1 = i + m - 1 + k - 1 BY <1>1
    <3> QED BY <3>1, <1>5
  <2> QED BY <2>2, <2>3, <2>4
<1> QED BY <1>4, <1>5, <1>6, <1>7 DEF r

\* Where strtok finds the next word and its end, in the string at i.
WordAt(b, i, D, tok, end, z) ==
  /\ FirstAt(b, i, (Letters \cup {0}) \ D, tok) /\ FirstAt(b, tok, D \cup {0}, end)
  /\ FirstAt(b, i, {0}, z)

\* What lies there.
WordParts(b, i, D, tok, end, z) ==
  /\ tok \in i .. Len(b) /\ end \in i .. Len(b) /\ z \in i .. Len(b)
  /\ tok <= end /\ end <= z
  /\ (b[tok] = 0 => tok = end /\ end = z) /\ (b[tok] # 0 => tok < end)
  /\ (b[end] = 0 => end = z) /\ (b[end] # 0 => end < z /\ b[end] \in D)
  /\ \A j \in i .. (z - 1) : b[j] \in Letters
  /\ \A j \in i .. (tok - 1) : b[j] \in D
  /\ \A j \in tok .. (end - 1) : b[j] \in Letters /\ b[j] \notin D

\* Both searches stop at the NUL at the latest.
LEMMA WordPlaces ==
  ASSUME NEW b, Buffer(b), NEW i \in 1 .. Len(b), NEW D \in SUBSET Letters, 0 \notin Letters,
         NEW tok, NEW end, NEW z, WordAt(b, i, D, tok, end, z)
  PROVE  WordParts(b, i, D, tok, end, z)
<1>1. Len(b) \in Nat /\ b \in Seq(Letters \cup {0}) BY DEF Buffer
<1>2. /\ tok \in i .. Len(b) /\ b[tok] \in (Letters \cup {0}) \ D
      /\ \A j \in i .. Len(b) : j < tok => b[j] \notin (Letters \cup {0}) \ D
      /\ end \in tok .. Len(b) /\ b[end] \in D \cup {0}
      /\ \A j \in tok .. Len(b) : j < end => b[j] \notin D \cup {0}
      /\ z \in i .. Len(b) /\ b[z] = 0
      /\ \A j \in i .. Len(b) : j < z => b[j] # 0
  BY DEF WordAt, FirstAt
<1>3. tok \in Int /\ end \in Int /\ z \in Int BY <1>1, <1>2
<1>4. b[z] \in (Letters \cup {0}) \ D BY <1>2
<1>5. tok <= z BY <1>2, <1>3, <1>4
<1>6. z \in tok .. Len(b) BY <1>1, <1>2, <1>3, <1>5
<1>7. end <= z BY <1>2, <1>3, <1>6
<1>8. b[tok] = 0 => tok = end /\ end = z BY <1>2, <1>3, <1>5, <1>7
<1>9. b[tok] # 0 => tok < end BY <1>2, <1>3
<1>10. \A j \in i .. Len(b) : b[j] \in Letters \cup {0} BY <1>1
<1>11. b[end] = 0 => end = z
  <2>1. end \in i .. Len(b) BY <1>1, <1>2
  <2> QED BY <2>1, <1>2, <1>3, <1>7
<1>12. b[end] # 0 => end < z /\ b[end] \in D BY <1>2, <1>3, <1>7
<1>13. \A j \in i .. (z - 1) : j \in i .. Len(b) /\ j < z BY <1>1, <1>2
<1>14. \A j \in i .. (tok - 1) : j \in i .. Len(b) /\ j < tok BY <1>1, <1>2
<1>15. \A j \in tok .. (end - 1) : j \in tok .. Len(b) /\ j \in i .. Len(b) /\ j < end BY <1>1, <1>2
<1>16. \A j \in i .. (z - 1) : b[j] \in Letters BY <1>2, <1>10, <1>13
<1>17. \A j \in i .. (tok - 1) : b[j] \in D BY <1>2, <1>10, <1>14
<1>18. \A j \in tok .. (end - 1) : b[j] \in Letters /\ b[j] \notin D BY <1>2, <1>10, <1>15
<1>19. tok \in i .. Len(b) /\ end \in i .. Len(b) /\ z \in i .. Len(b) BY <1>1, <1>2
<1> QED BY <1>5, <1>2, <1>7, <1>8, <1>9, <1>11, <1>12, <1>16, <1>17, <1>18, <1>19, <1>3 DEF WordParts

\* The string at i, cut at these places as Words cuts it.
CutAt(b, i, D, tok, end, z) ==
  /\ Text!Abstract!Trimmed(Body(b, i), D) = SubSeq(b, tok, z - 1)
  /\ Text!Abstract!Before(SubSeq(b, tok, z - 1), D) = SubSeq(b, tok, end - 1)
  /\ Text!Abstract!Behind(SubSeq(b, tok, z - 1), D) = SubSeq(b, end + 1, z - 1)
  /\ Len(Body(b, i)) = z - i /\ Len(SubSeq(b, tok, z - 1)) = z - tok
  /\ Len(SubSeq(b, tok, end - 1)) = end - tok

\* Words cuts the string at the same places.
LEMMA WordCut ==
  ASSUME NEW b, Buffer(b), NEW i \in 1 .. Len(b), NEW D \in SUBSET Letters, 0 \notin Letters,
         NEW tok, NEW end, NEW z, WordAt(b, i, D, tok, end, z)
  PROVE  CutAt(b, i, D, tok, end, z)
<1>1. WordParts(b, i, D, tok, end, z) BY WordPlaces
<1>2. /\ tok \in i .. Len(b) /\ end \in i .. Len(b) /\ z \in i .. Len(b) /\ tok <= end /\ end <= z
      /\ (b[tok] = 0 => tok = end /\ end = z) /\ (b[tok] # 0 => tok < end)
      /\ (b[end] = 0 => end = z) /\ (b[end] # 0 => end < z /\ b[end] \in D)
  BY <1>1 DEF WordParts
<1>3. \A j \in i .. (z - 1) : b[j] \in Letters BY <1>1 DEF WordParts
<1>4. \A j \in i .. (tok - 1) : b[j] \in D BY <1>1 DEF WordParts
<1>5. \A j \in tok .. (end - 1) : b[j] \in Letters /\ b[j] \notin D BY <1>1 DEF WordParts
<1>6. Len(b) \in Nat BY DEF Buffer
<1>7. FirstAt(b, i, {0}, z) /\ b[tok] \notin D BY DEF WordAt, FirstAt
<1>8. Body(b, i) = SubSeq(b, i, z - 1) BY <1>7, BodyIs
<1> DEFINE r == SubSeq(b, i, z - 1)  t == SubSeq(b, tok, z - 1)
<1>9. /\ r \in Seq(Letters) /\ Len(r) = z - i
      /\ \A k \in 1 .. z - i : r[k] = b[i + k - 1]
      /\ \A m \in 1 .. z - i + 1 : SubSeq(r, m, z - i) = SubSeq(b, i + m - 1, z - 1)
  BY <1>2, <1>3, PartIs
<1>10. tok \in 1 .. Len(b) /\ z \in tok .. Len(b) /\ \A j \in tok .. (z - 1) : b[j] \in Letters
  BY <1>2, <1>3, <1>6
<1>11. /\ t \in Seq(Letters) /\ Len(t) = z - tok
       /\ \A k \in 1 .. z - tok : t[k] = b[tok + k - 1]
  BY <1>10, PartIs
<1>12. \A m \in 0 .. z - tok : SubSeq(t, 1, m) = SubSeq(b, tok, tok + m - 1)
  BY <1>10, PartIs
<1>13. \A m \in 1 .. z - tok + 1 : SubSeq(t, m, z - tok) = SubSeq(b, tok + m - 1, z - 1)
  BY <1>10, PartIs
<1> HIDE DEF r, t
<1>14. Leads(r, Letters \ D, tok - i)
  <2>1. tok - i \in 0 .. Len(r) BY <1>2, <1>6, <1>9
  <2>2. ASSUME NEW k \in 1 .. tok - i PROVE r[k] \notin Letters \ D
    <3>1. k \in 1 .. z - i /\ i + k - 1 \in i .. (tok - 1) BY <1>2, <1>6
    <3> QED BY <3>1, <1>4, <1>9
  <2>3. ASSUME tok - i < Len(r) PROVE r[tok - i + 1] \in Letters \ D
    <3>1. tok - i + 1 \in 1 .. z - i /\ i + (tok - i + 1) - 1 = tok /\ tok \in i .. (z - 1)
      BY <2>3, <1>2, <1>6, <1>9
    <3> QED BY <3>1, <1>3, <1>7, <1>9
  <2> QED BY <2>1, <2>2, <2>3 DEF Leads
<1>15. Len(Text!Abstract!Before(r, Letters \ D)) = tok - i BY <1>9, <1>14, BeforeIs
<1>16. Text!Abstract!Trimmed(r, D) = t
  <2>1. Text!Abstract!Trimmed(r, D) = SubSeq(r, tok - i + 1, z - i)
    BY <1>9, <1>15 DEF Text!Abstract!Trimmed
  <2>2. tok - i + 1 \in 1 .. z - i + 1 /\ i + (tok - i + 1) - 1 = tok BY <1>2, <1>6
  <2> QED BY <2>1, <2>2, <1>9 DEF t
<1>17. Leads(t, D, end - tok)
  <2>1. end - tok \in 0 .. Len(t) BY <1>2, <1>6, <1>11
  <2>2. ASSUME NEW k \in 1 .. end - tok PROVE t[k] \notin D
    <3>1. k \in 1 .. z - tok /\ tok + k - 1 \in tok .. (end - 1) BY <1>2, <1>6
    <3> QED BY <3>1, <1>5, <1>11
  <2>3. ASSUME end - tok < Len(t) PROVE t[end - tok + 1] \in D
    <3>1. end - tok + 1 \in 1 .. z - tok /\ tok + (end - tok + 1) - 1 = end /\ end < z
      BY <2>3, <1>2, <1>6, <1>11
    <3>2. b[end] \in D BY <3>1, <1>2, <1>6
    <3> QED BY <3>1, <3>2, <1>11
  <2> QED BY <2>1, <2>2, <2>3 DEF Leads
<1>18. /\ Text!Abstract!Before(t, D) = SubSeq(t, 1, end - tok)
       /\ Len(Text!Abstract!Before(t, D)) = end - tok
  BY <1>11, <1>17, BeforeIs
<1>19. SubSeq(t, 1, end - tok) = SubSeq(b, tok, end - 1)
  <2> DEFINE m == end - tok
  <2>1. m \in 0 .. z - tok /\ tok + m - 1 = end - 1 BY <1>2, <1>6
  <2> HIDE DEF m
  <2>2. SubSeq(t, 1, m) = SubSeq(b, tok, tok + m - 1) BY <2>1, <1>12, Zenon
  <2> QED BY <2>1, <2>2 DEF m
<1>20. Text!Abstract!Behind(t, D) = SubSeq(b, end + 1, z - 1)
  <2>1. Text!Abstract!Behind(t, D) = SubSeq(t, end - tok + 2, z - tok)
    BY <1>11, <1>18 DEF Text!Abstract!Behind
  <2>2. CASE end < z
    <3> DEFINE m == end - tok + 2
    <3>1. m \in 1 .. z - tok + 1 /\ tok + m - 1 = end + 1
      BY <2>2, <1>2, <1>6
    <3> HIDE DEF m
    <3>2. SubSeq(t, m, z - tok) = SubSeq(b, tok + m - 1, z - 1) BY <3>1, <1>13, Zenon
    <3>3. SubSeq(t, m, z - tok) = SubSeq(b, end + 1, z - 1) BY <3>1, <3>2
    <3> QED BY <2>1, <3>3 DEF m
  <2>3. CASE end = z
    <3>1. SubSeq(t, end - tok + 2, z - tok) = <<>> /\ SubSeq(b, end + 1, z - 1) = <<>>
      BY <2>3, <1>2, <1>6, <1>11
    <3> QED BY <2>1, <3>1
  <2> QED BY <2>2, <2>3, <1>2, <1>6
<1> QED BY <1>8, <1>9, <1>11, <1>16, <1>18, <1>19, <1>20 DEF r, t, CutAt

-----------------------------------------------------------------------------
\* What strtok leaves of a buffer: a NUL where the word ends.
Ended(b, end) == [b EXCEPT ![end] = 0]

\* Nothing else in the buffer changes.
LEMMA EndedBuffer ==
  ASSUME NEW b, Buffer(b), NEW end \in 1 .. Len(b)
  PROVE  /\ Buffer(Ended(b, end)) /\ Len(Ended(b, end)) = Len(b)
         /\ Ended(b, end)[end] = 0
         /\ \A k \in 1 .. Len(b) : k # end => Ended(b, end)[k] = b[k]
BY DEF Buffer, Ended

\* The word, the text before it, and what is left.
EndedAs(b, i, tok, end, z) ==
  /\ Body(Ended(b, end), tok) = SubSeq(b, tok, end - 1)
  /\ i = 1 => Body(Ended(b, end), 1) = SubSeq(b, 1, end - 1)
  /\ b[end] # 0 => Body(Ended(b, end), end + 1) = SubSeq(b, end + 1, z - 1)

\* The NUL cuts the string in two.
LEMMA EndedBodies ==
  ASSUME NEW b, Buffer(b), NEW i \in 1 .. Len(b), NEW D \in SUBSET Letters, 0 \notin Letters,
         NEW tok, NEW end, NEW z, WordAt(b, i, D, tok, end, z)
  PROVE  EndedAs(b, i, tok, end, z)
<1> DEFINE c == Ended(b, end)
<1>1. WordParts(b, i, D, tok, end, z) BY WordPlaces
<1>2. /\ Len(b) \in Nat
      /\ tok \in i .. Len(b) /\ end \in i .. Len(b) /\ z \in i .. Len(b) /\ tok <= end /\ end <= z
  BY <1>1 DEF WordParts, Buffer
<1>3. \A j \in i .. (z - 1) : b[j] \in Letters BY <1>1 DEF WordParts
<1>4. end \in 1 .. Len(b) /\ tok \in 1 .. Len(b) BY <1>2
<1>5. /\ Buffer(c) /\ Len(c) = Len(b) /\ c[end] = 0
      /\ \A k \in 1 .. Len(b) : k # end => c[k] = b[k]
  BY <1>4, EndedBuffer
<1> HIDE DEF c
<1>6. ASSUME NEW h \in i .. end
      PROVE  Body(c, h) = SubSeq(b, h, end - 1)
  <2>1. h \in 1 .. Len(b) BY <1>2
  <2>2. \A j \in h .. Len(b) : j < end => j \in i .. (z - 1) /\ j \in 1 .. Len(b) /\ j # end BY <1>2
  <2>3. \A j \in h .. Len(b) : j < end => c[j] # 0 BY <2>2, <1>3, <1>5
  <2>4. FirstAt(c, h, {0}, end) BY <2>3, <1>2, <1>5 DEF FirstAt
  <2>5. Body(c, h) = SubSeq(c, h, end - 1) BY <2>1, <2>4, <1>5, BodyIs
  <2>6. SubSeq(c, h, end - 1) = [k \in 1 .. end - h |-> c[h + k - 1]] BY <1>2
  <2>7. SubSeq(b, h, end - 1) = [k \in 1 .. end - h |-> b[h + k - 1]] BY <1>2
  <2>8. \A k \in 1 .. end - h : c[h + k - 1] = b[h + k - 1]
    <3> TAKE k \in 1 .. end - h
    <3>1. h + k - 1 \in 1 .. Len(b) /\ h + k - 1 # end BY <1>2
    <3> QED BY <3>1, <1>5
  <2> QED BY <2>5, <2>6, <2>7, <2>8
<1>7. Body(c, tok) = SubSeq(b, tok, end - 1)
  <2>1. tok \in i .. end BY <1>2
  <2> QED BY <2>1, <1>6
<1>8. ASSUME i = 1 PROVE Body(c, 1) = SubSeq(b, 1, end - 1)
  <2>1. 1 \in i .. end BY <1>2, <1>8
  <2> QED BY <2>1, <1>6
<1>9. ASSUME b[end] # 0 PROVE Body(c, end + 1) = SubSeq(b, end + 1, z - 1)
  <2>1. end < z BY <1>1, <1>9 DEF WordParts
  <2>2. end + 1 \in 1 .. Len(b) BY <2>1, <1>2
  <2>3. FirstAt(b, end + 1, {0}, z)
    <3>1. FirstAt(b, i, {0}, z) BY DEF WordAt
    <3> QED BY <3>1, <2>1, <1>2 DEF FirstAt
  <2>4. \A k \in (end + 1) .. z : c[k] = b[k]
    <3>1. \A k \in (end + 1) .. z : k \in 1 .. Len(b) /\ k # end BY <1>2
    <3> QED BY <3>1, <1>5
  <2>5. Body(c, end + 1) = Body(b, end + 1) BY <2>2, <2>3, <2>4, <1>5, BodyKept
  <2>6. Body(b, end + 1) = SubSeq(b, end + 1, z - 1) BY <2>2, <2>3, BodyIs
  <2> QED BY <2>5, <2>6
<1> QED BY <1>7, <1>8, <1>9 DEF c, EndedAs

\* A string that ends before the place strtok goes on from is not touched.
LEMMA EndedKeeps ==
  ASSUME NEW b, Buffer(b), NEW i \in 2 .. Len(b), b[i - 1] = 0, NEW end \in i .. Len(b),
         NEW h \in 1 .. (i - 1)
  PROVE  Body(Ended(b, end), h) = Body(b, h)
<1>1. Len(b) \in Nat BY DEF Buffer
<1>2. h \in 1 .. Len(b) /\ end \in 1 .. Len(b) /\ 0 \in {0} /\ i - 1 \in h .. Len(b) BY <1>1
<1>3. PICK z : FirstAt(b, h, {0}, z)
  <2>1. FirstAt(b, h, {0}, Text!Find(b, h, {0})) BY <1>2, FindFirst
  <2> QED BY <2>1
<1>4. z \in Int /\ z <= i - 1
  <2>1. z \in h .. Len(b) /\ ~ (i - 1 < z) BY <1>2, <1>3 DEF FirstAt
  <2> QED BY <2>1, <1>1
<1>5. \A k \in h .. z : k \in 1 .. Len(b) /\ k # end BY <1>1, <1>4
<1>6. /\ Buffer(Ended(b, end)) /\ Len(Ended(b, end)) = Len(b)
      /\ \A k \in 1 .. Len(b) : k # end => Ended(b, end)[k] = b[k]
  BY <1>2, EndedBuffer
<1>7. \A k \in h .. z : Ended(b, end)[k] = b[k] BY <1>5, <1>6
<1> QED BY <1>2, <1>3, <1>6, <1>7, BodyKept

-----------------------------------------------------------------------------
\* strrev turns the string round and leaves what lies behind it.
LEMMA Reversed ==
  ASSUME NEW b, Buffer(b), 0 \notin Letters
  PROVE  /\ Buffer(Text!strrev(b)) /\ Len(Text!strrev(b)) = Len(b)
         /\ Body(Text!strrev(b), 1) = Text!Abstract!Reverse(Body(b, 1))
         /\ \A i \in 2 .. Len(b) : b[i - 1] = 0 =>
              Text!strrev(b)[i - 1] = 0 /\ Body(Text!strrev(b), i) = Body(b, i)
<1>1. Len(b) \in Nat \ {0} /\ b \in Seq(Letters \cup {0}) /\ DOMAIN b = 1 .. Len(b)
        /\ b[Len(b)] = 0
  BY DEF Buffer
<1> DEFINE z == Text!Find(b, 1, {0})  n == z - 1  c == Text!strrev(b)
<1>2. FirstAt(b, 1, {0}, z)
  <2>1. 1 \in 1 .. Len(b) /\ 0 \in {0} BY <1>1
  <2> QED BY <2>1, FindFirst
<1>3. c = [k \in 1 .. Len(b) |-> IF k \in 1 .. n THEN b[n + 1 - k] ELSE b[k]]
  BY <1>1 DEF Text!strrev, Text!strlen
<1> HIDE DEF z, c
<1>4. z \in 1 .. Len(b) /\ b[z] = 0 /\ \A j \in 1 .. n : b[j] \in Letters
  <2>1. z \in 1 .. Len(b) /\ b[z] = 0 /\ \A j \in 1 .. Len(b) : j < z => b[j] # 0
    BY <1>2 DEF FirstAt
  <2>2. \A j \in 1 .. n : j \in 1 .. Len(b) /\ j < z BY <1>1, <2>1
  <2>3. \A j \in 1 .. Len(b) : b[j] \in Letters \cup {0} BY <1>1
  <2> QED BY <2>1, <2>2, <2>3
<1>5. \A k \in 1 .. n : n + 1 - k \in 1 .. n BY <1>1, <1>4
<1>6. \A k \in 1 .. Len(b) : c[k] = IF k \in 1 .. n THEN b[n + 1 - k] ELSE b[k]
  BY <1>3
<1>7. c \in Seq(Letters \cup {0}) /\ Len(c) = Len(b)
  <2>1. \A k \in 1 .. Len(b) : (IF k \in 1 .. n THEN b[n + 1 - k] ELSE b[k]) \in Letters \cup {0}
    <3>1. \A k \in 1 .. Len(b) : b[k] \in Letters \cup {0} BY <1>1
    <3>2. \A k \in 1 .. n : b[n + 1 - k] \in Letters BY <1>4, <1>5
    <3> QED BY <3>1, <3>2
  <2>2. c \in [1 .. Len(b) -> Letters \cup {0}] BY <1>3, <2>1
  <2> QED BY <2>2, <1>1
<1>8. Buffer(c)
  <2>1. Len(b) \notin 1 .. n /\ Len(b) \in 1 .. Len(b) BY <1>1, <1>4
  <2> QED BY <2>1, <1>1, <1>6, <1>7 DEF Buffer
<1>9. FirstAt(c, 1, {0}, z)
  <2>1. z \in 1 .. Len(c) /\ c[z] = 0
    <3>1. z \notin 1 .. n BY <1>1, <1>4
    <3> QED BY <3>1, <1>4, <1>6, <1>7
  <2>2. ASSUME NEW j \in 1 .. Len(c), j < z PROVE c[j] # 0
    <3>1. j \in 1 .. n /\ j \in 1 .. Len(b) BY <2>2, <1>1, <1>4, <1>7
    <3>2. c[j] = b[n + 1 - j] /\ n + 1 - j \in 1 .. n BY <3>1, <1>5, <1>6
    <3> QED BY <3>2, <1>4
  <2> QED BY <2>1, <2>2 DEF FirstAt
<1>10. Body(c, 1) = Text!Abstract!Reverse(Body(b, 1))
  <2> DEFINE v == Body(c, 1)  w == Body(b, 1)
  <2>1. 1 \in 1 .. Len(b) /\ 1 \in 1 .. Len(c) BY <1>1, <1>7
  <2>2. v \in Seq(Letters) /\ Len(v) = z - 1 /\ \A k \in 1 .. z - 1 : v[k] = c[1 + k - 1]
    BY <2>1, <1>8, <1>9, BodyIs
  <2>3. w \in Seq(Letters) /\ Len(w) = z - 1 /\ \A k \in 1 .. z - 1 : w[k] = b[1 + k - 1]
    BY <2>1, <1>2, BodyIs
  <2> HIDE DEF v, w
  <2>4. v = [k \in 1 .. n |-> v[k]] BY <2>2
  <2>5. Text!Abstract!Reverse(w) = [k \in 1 .. n |-> w[(n - k) + 1]]
    BY <2>3 DEF Text!Abstract!Reverse
  <2>6. \A k \in 1 .. n : v[k] = w[(n - k) + 1]
    <3> TAKE k \in 1 .. n
    <3>1. k \in 1 .. Len(b) /\ 1 + k - 1 = k BY <1>1, <1>4
    <3>2. v[k] = c[k] BY <3>1, <2>2
    <3>3. c[k] = b[n + 1 - k] BY <3>1, <1>6
    <3>4. n + 1 - k \in 1 .. n /\ (n - k) + 1 = n + 1 - k /\ 1 + (n + 1 - k) - 1 = n + 1 - k
      BY <1>1, <1>4
    <3>5. w[n + 1 - k] = b[n + 1 - k] BY <3>4, <2>3
    <3> QED BY <3>2, <3>3, <3>4, <3>5
  <2>7. v = Text!Abstract!Reverse(w) BY <2>4, <2>5, <2>6
  <2> QED BY <2>7 DEF v, w
<1>11. ASSUME NEW i \in 2 .. Len(b), b[i - 1] = 0
       PROVE  c[i - 1] = 0 /\ Body(c, i) = Body(b, i)
  <2>1. i - 1 \in 1 .. Len(b) /\ i \in 1 .. Len(b) BY <1>1
  <2>2. z <= i - 1
    <3>1. ~ (i - 1 < z) BY <2>1, <1>11, <1>2 DEF FirstAt
    <3> QED BY <3>1, <1>1, <1>4
  <2>3. \A k \in 1 .. Len(b) : k >= z => c[k] = b[k]
    <3>1. \A k \in 1 .. Len(b) : k >= z => k \notin 1 .. n BY <1>1, <1>4
    <3> QED BY <3>1, <1>6
  <2>4. c[i - 1] = 0 BY <2>1, <2>2, <2>3, <1>11, <1>1, <1>4
  <2>5. FirstAt(b, i, {0}, Text!Find(b, i, {0}))
    <3>1. 0 \in {0} OBVIOUS
    <3> QED BY <3>1, <2>1, FindFirst
  <2> DEFINE y == Text!Find(b, i, {0})
  <2> HIDE DEF y
  <2>6. FirstAt(b, i, {0}, y) BY <2>5 DEF y
  <2>7. \A k \in i .. y : c[k] = b[k]
    <3>1. y \in i .. Len(b) BY <2>6 DEF FirstAt
    <3>2. \A k \in i .. y : k \in 1 .. Len(b) /\ k >= z BY <3>1, <2>2, <1>1, <1>4
    <3> QED BY <3>2, <2>3
  <2>8. Body(c, i) = Body(b, i) BY <2>1, <2>6, <2>7, <1>7, <1>8, BodyKept
  <2> QED BY <2>4, <2>8
<1> QED BY <1>7, <1>8, <1>10, <1>11 DEF c

-----------------------------------------------------------------------------
\* strcmp looks at the first place where two strings differ or end.
Differ(a, b, i) ==
  /\ i \in 1 .. Len(a) /\ i \in 1 .. Len(b)
  /\ a[i] # b[i] \/ a[i] = 0
  /\ \A j \in 1 .. i - 1 : a[j] = b[j] /\ a[j] # 0

LEMMA CompareStops ==
  ASSUME NEW a, Buffer(a), NEW b, Buffer(b)
  PROVE  \E i : Differ(a, b, i) /\ Text!strcmp(a, b) = a[i] - b[i]
<1> DEFINE S == {j \in DOMAIN a \cap DOMAIN b : a[j] # b[j] \/ a[j] = 0}
<1>1. /\ Len(a) \in Nat \ {0} /\ Len(b) \in Nat \ {0} /\ a[Len(a)] = 0 /\ b[Len(b)] = 0
      /\ DOMAIN a = 1 .. Len(a) /\ DOMAIN b = 1 .. Len(b)
  BY DEF Buffer
<1>2. S \in SUBSET Nat BY <1>1
<1>3. S # {}
  <2>1. CASE Len(a) <= Len(b)
    <3>1. Len(a) \in S BY <2>1, <1>1
    <3> QED BY <3>1
  <2>2. CASE Len(b) < Len(a)
    <3>1. Len(b) \in DOMAIN a \cap DOMAIN b BY <2>2, <1>1
    <3>2. a[Len(b)] # b[Len(b)] \/ a[Len(b)] = 0 BY <1>1
    <3>3. Len(b) \in S BY <3>1, <3>2
    <3> QED BY <3>3
  <2> QED BY <2>1, <2>2, <1>1
<1>4. \E x \in S : \A y \in S : x <= y BY <1>2, <1>3, LeastExists
<1> DEFINE i == Text!Min(S)
<1>5. i \in S /\ \A y \in S : i <= y BY <1>4 DEF Text!Min
<1>6. Text!strcmp(a, b) = a[i] - b[i] BY DEF Text!strcmp
<1> HIDE DEF i
<1>7. \A j \in 1 .. i - 1 : j \in DOMAIN a \cap DOMAIN b /\ ~ (i <= j) BY <1>1, <1>5
<1>8. \A j \in 1 .. i - 1 : a[j] = b[j] /\ a[j] # 0 BY <1>5, <1>7
<1>9. Differ(a, b, i) BY <1>1, <1>5, <1>8 DEF Differ
<1> QED BY <1>6, <1>9

\* The order of the strings is that of the characters there.
LEMMA CompareOrders ==
  ASSUME NEW a, Buffer(a), NEW b, Buffer(b), NEW i, Differ(a, b, i), Letters \subseteq 1 .. 255
  PROVE  /\ Body(a, 1) = Body(b, 1) <=> a[i] = b[i]
         /\ Text!Abstract!Precedes(Body(a, 1), Body(b, 1)) <=> a[i] < b[i]
         /\ a[i] \in Int /\ b[i] \in Int
<1>1. /\ Len(a) \in Nat \ {0} /\ Len(b) \in Nat \ {0}
      /\ a \in Seq(Letters \cup {0}) /\ b \in Seq(Letters \cup {0})
      /\ 1 \in 1 .. Len(a) /\ 1 \in 1 .. Len(b) /\ 0 \in {0}
  BY DEF Buffer
<1> DEFINE y == Text!Find(a, 1, {0})  z == Text!Find(b, 1, {0})  s == Body(a, 1)  t == Body(b, 1)
<1>2. FirstAt(a, 1, {0}, y) /\ FirstAt(b, 1, {0}, z) BY <1>1, FindFirst
<1> HIDE DEF y, z
<1>3. s \in Seq(Letters) /\ Len(s) = y - 1 /\ \A k \in 1 .. y - 1 : s[k] = a[1 + k - 1]
  BY <1>1, <1>2, BodyIs
<1>4. t \in Seq(Letters) /\ Len(t) = z - 1 /\ \A k \in 1 .. z - 1 : t[k] = b[1 + k - 1]
  BY <1>1, <1>2, BodyIs
<1> HIDE DEF s, t
<1>5. /\ y \in 1 .. Len(a) /\ z \in 1 .. Len(b) /\ a[y] = 0 /\ b[z] = 0
      /\ \A j \in 1 .. y - 1 : a[j] # 0
      /\ \A j \in 1 .. z - 1 : b[j] # 0
  BY <1>1, <1>2 DEF FirstAt
<1>6. \A k \in 1 .. y - 1 : s[k] = a[k] /\ k \in 1 .. Len(a)
  BY <1>3, <1>5, <1>1
<1>7. \A k \in 1 .. z - 1 : t[k] = b[k] /\ k \in 1 .. Len(b)
  BY <1>4, <1>5, <1>1
<1>8. i \in 1 .. Len(a) /\ i \in 1 .. Len(b) /\ (a[i] # b[i] \/ a[i] = 0)
      /\ \A j \in 1 .. i - 1 : a[j] = b[j] /\ a[j] # 0
  BY DEF Differ
<1>9. /\ \A j \in 1 .. Len(a) : a[j] \in Letters \cup {0}
      /\ \A j \in 1 .. Len(b) : b[j] \in Letters \cup {0}
  BY <1>1
<1>10. \A c \in Letters \cup {0} : c \in 0 .. 255 OBVIOUS
<1>11. a[i] \in 0 .. 255 /\ b[i] \in 0 .. 255 BY <1>8, <1>9, <1>10
<1>12. \A u, v \in 0 .. 255 : (u < v => v # 0) /\ (u = 0 /\ v # 0 => u < v) /\ ~ (u < u)
  OBVIOUS
<1>13. i <= y /\ i <= z
  <2>1. ~ (y < i)
    <3>1. y < i => y \in 1 .. i - 1 BY <1>1, <1>5, <1>8
    <3> QED BY <3>1, <1>5, <1>8
  <2>2. ~ (z < i)
    <3>1. z < i => z \in 1 .. i - 1 BY <1>1, <1>5, <1>8
    <3> QED BY <3>1, <1>5, <1>8
  <2> QED BY <2>1, <2>2, <1>1, <1>5, <1>8
<1>14. (a[i] = 0 <=> i = y) /\ (b[i] = 0 <=> i = z)
  <2>1. i < y => a[i] # 0
    <3>1. i < y => i \in 1 .. y - 1 BY <1>1, <1>5, <1>8
    <3> QED BY <3>1, <1>5
  <2>2. i < z => b[i] # 0
    <3>1. i < z => i \in 1 .. z - 1 BY <1>1, <1>5, <1>8
    <3> QED BY <3>1, <1>5
  <2> QED BY <2>1, <2>2, <1>1, <1>5, <1>8, <1>13
<1>15. s = t <=> a[i] = b[i]
  <2>1. ASSUME a[i] = b[i] PROVE s = t
    <3>1. i = y /\ i = z BY <2>1, <1>8, <1>14
    <3>2. \A k \in 1 .. y - 1 : s[k] = t[k] BY <3>1, <1>6, <1>7, <1>8
    <3> QED BY <3>1, <3>2, <1>3, <1>4
  <2>2. ASSUME s = t PROVE a[i] = b[i]
    <3>1. y = z BY <2>2, <1>1, <1>3, <1>4, <1>5
    <3>2. CASE i = y BY <3>1, <3>2, <1>5
    <3>3. CASE i < y
      <4>1. i \in 1 .. y - 1 /\ i \in 1 .. z - 1 BY <3>1, <3>3, <1>1, <1>5, <1>8
      <4> QED BY <4>1, <2>2, <1>6, <1>7
    <3> QED BY <3>2, <3>3, <1>1, <1>5, <1>8, <1>13
  <2> QED BY <2>1, <2>2
<1>16. \A k \in Nat : k <= Len(s) => SubSeq(s, 1, k) = [j \in 1 .. k |-> s[j]]
  BY <1>3
<1>17. \A k \in Nat : k <= Len(t) => SubSeq(t, 1, k) = [j \in 1 .. k |-> t[j]]
  BY <1>4
<1>18. ASSUME a[i] < b[i] PROVE Text!Abstract!Precedes(s, t)
  <2> DEFINE k == i - 1
  <2>1. i < z
    <3>1. b[i] # 0 BY <1>11, <1>18, <1>12, Zenon
    <3> QED BY <3>1, <1>1, <1>5, <1>8, <1>13, <1>14
  <2>2. k \in 0 .. Len(s) /\ k \in Nat /\ k < Len(t) /\ k <= Len(s) /\ k <= Len(t)
    BY <2>1, <1>1, <1>3, <1>4, <1>5, <1>8, <1>13
  <2>3. \A j \in 1 .. k : s[j] = t[j]
    <3>1. \A j \in 1 .. k : j \in 1 .. i - 1 /\ j \in 1 .. y - 1 /\ j \in 1 .. z - 1
      BY <1>1, <1>5, <1>8, <1>13
    <3> QED BY <3>1, <1>6, <1>7, <1>8
  <2>4. SubSeq(s, 1, k) = SubSeq(t, 1, k) BY <2>2, <2>3, <1>16, <1>17
  <2>5. k = Len(s) \/ s[k + 1] < t[k + 1]
    <3>1. CASE i = y BY <3>1, <1>3
    <3>2. CASE i < y
      <4>1. i \in 1 .. y - 1 /\ i \in 1 .. z - 1 /\ k + 1 = i BY <3>2, <2>1, <1>1, <1>5, <1>8
      <4> QED BY <4>1, <1>6, <1>7, <1>18
    <3> QED BY <3>1, <3>2, <1>1, <1>5, <1>8, <1>13
  <2> QED BY <2>2, <2>4, <2>5 DEF Text!Abstract!Precedes
<1>19. ASSUME Text!Abstract!Precedes(s, t) PROVE a[i] < b[i]
  <2>1. PICK k \in 0 .. Len(s) : /\ k < Len(t) /\ SubSeq(s, 1, k) = SubSeq(t, 1, k)
                                 /\ k = Len(s) \/ s[k + 1] < t[k + 1]
    BY <1>19 DEF Text!Abstract!Precedes
  <2>2. k \in Nat /\ k <= Len(s) /\ k <= Len(t) /\ k <= y - 1 /\ k < z - 1
    BY <2>1, <1>1, <1>3, <1>4, <1>5
  <2>3. \A j \in 1 .. k : s[j] = t[j]
    <3>1. [j \in 1 .. k |-> s[j]] = [j \in 1 .. k |-> t[j]] BY <2>1, <2>2, <1>16, <1>17
    <3> HIDE DEF s, t
    <3>2. ASSUME NEW j \in 1 .. k PROVE s[j] = t[j]
      <4>1. [h \in 1 .. k |-> s[h]][j] = [h \in 1 .. k |-> t[h]][j] BY <3>1
      <4> QED BY <4>1
    <3> QED BY <3>2
  <2>4. CASE i <= k
    <3>1. i \in 1 .. k /\ i \in 1 .. y - 1 /\ i \in 1 .. z - 1 BY <2>2, <2>4, <1>1, <1>5, <1>8
    <3>2. a[i] = b[i] /\ a[i] # 0 BY <3>1, <2>3, <1>5, <1>6, <1>7
    <3> QED BY <3>2, <1>8
  <2>5. CASE i = k + 1
    <3>1. i \in 1 .. z - 1 /\ i # z BY <2>2, <2>5, <1>1, <1>5, <1>8
    <3>2. CASE k = Len(s)
      <4>1. i = y BY <3>2, <2>5, <1>1, <1>3, <1>5
      <4>2. a[i] = 0 /\ b[i] # 0 BY <4>1, <3>1, <1>14
      <4> QED BY <4>2, <1>11, <1>12, Zenon
    <3>3. CASE s[k + 1] < t[k + 1] /\ k # Len(s)
      <4>1. i \in 1 .. y - 1 BY <3>3, <2>2, <2>5, <1>1, <1>3, <1>5
      <4> QED BY <4>1, <3>1, <3>3, <2>5, <1>6, <1>7
    <3> QED BY <2>1, <3>2, <3>3
  <2>6. CASE k + 1 < i
    <3>1. k + 1 \in 1 .. i - 1 /\ k + 1 \in 1 .. z - 1 /\ k + 1 \in 1 .. y - 1
      BY <2>2, <2>6, <1>1, <1>5, <1>8, <1>13
    <3>2. k # Len(s) BY <3>1, <1>1, <1>3, <1>5
    <3>3. s[k + 1] = a[k + 1] /\ t[k + 1] = b[k + 1] /\ a[k + 1] = b[k + 1]
      BY <3>1, <1>6, <1>7, <1>8
    <3>4. a[k + 1] \in 0 .. 255
      <4>1. k + 1 \in 1 .. Len(a) BY <3>1, <1>6
      <4> QED BY <4>1, <1>9, <1>10, Zenon
    <3>5. a[k + 1] < a[k + 1] BY <2>1, <3>2, <3>3
    <3> QED BY <3>4, <3>5, <1>12, Zenon
  <2> QED BY <2>2, <2>4, <2>5, <2>6, <1>1, <1>8
<1> QED BY <1>11, <1>15, <1>18, <1>19 DEF s, t

-----------------------------------------------------------------------------
(***************************************************************************)
(* The inductive invariant of string.c: strtok's pointer stands behind a   *)
(* NUL it wrote, and the tokens given before in the same buffer start      *)
(* before it, so that no later call writes into them.                      *)
(***************************************************************************)
MemInv == mem \in [Places -> Seq(Letters \cup {0})]
            /\ \A p \in Places : Buffer(mem[p]) /\ Len(mem[p]) = Size[p]

PlaceInv ==
  /\ place \in Places
  /\ last # <<>> => /\ last = <<place, last[2]>> /\ last[2] \in 2 .. Size[place]
                    /\ mem[place][last[2] - 1] = 0

Pointers(p) == {p} \X (1 .. Size[p])

TokenInv ==
  /\ given = [p \in Places |-> given[p]] /\ \A p \in Places : given[p] \in Seq(Pointers(p))
  /\ last # <<>> => \A k \in DOMAIN given[place] : given[place][k][2] < last[2]

TextInv == MemInv /\ PlaceInv /\ TokenInv

\* The strings at pointers, as Words sees them.
StringsAt(m, g) == [k \in DOMAIN g |-> Body(m[g[k][1]], g[k][2])]
WordsOf(m, g) == [p \in Places |-> StringsAt(m, g[p])]
TextOf(m) == [p \in Places |-> Body(m[p], 1)]
RestOf(m, l) == IF l = <<>> THEN <<>> ELSE Body(m[l[1]], l[2])

\* What a call of strtok does to a buffer, and answers.
Strtoked(p, tok, end) ==
  /\ answer' = IF mem[p][tok] = 0 THEN <<>> ELSE <<p, tok>>
  /\ mem' = [mem EXCEPT ![p] = Ended(@, end)]
  /\ last' = IF mem[p][end] = 0 THEN <<>> ELSE <<p, end + 1>>

\* strtok, with the places it finds.
LEMMA StrtokDoes ==
  ASSUME NEW p \in Places, NEW i \in 1 .. Size[p], NEW D, Text!strtok(<<p, i>>, D), MemInv,
         NEW tok, NEW end, NEW z, WordAt(mem[p], i, D, tok, end, z), D \in SUBSET Letters,
         0 \notin Letters
  PROVE  Strtoked(p, tok, end)
<1> DEFINE b == mem[p]
<1>1. Buffer(b) /\ Len(b) = Size[p] BY DEF MemInv
<1>2. FirstAt(b, i, (Letters \cup {0}) \ D, tok) /\ FirstAt(b, tok, D \cup {0}, end) BY DEF WordAt
<1>3. WordParts(b, i, D, tok, end, z) BY <1>1, WordPlaces
<1>4. /\ tok \in 1 .. Len(b) /\ end \in 1 .. Len(b)
      /\ b[tok] = 0 => tok = end /\ b[end] = 0
  BY <1>1, <1>3 DEF WordParts, Buffer
<1>5. Text!Find(b, i, (Letters \cup {0}) \ D) = tok /\ Text!Find(b, tok, D \cup {0}) = end
  BY <1>1, <1>2, <1>4, FindIs
<1>6. <<p, i>>[1] = p /\ <<p, i>>[2] = i OBVIOUS
<1> HIDE DEF b
<1>7. IF b[tok] = 0
        THEN answer' = <<>> /\ last' = <<>> /\ mem' = mem
        ELSE /\ answer' = <<p, tok>>
             /\ mem' = [mem EXCEPT ![p][end] = 0]
             /\ last' = IF b[end] = 0 THEN <<>> ELSE <<p, end + 1>>
  BY <1>5, <1>6 DEF Text!strtok, Text!NULL, b
<1>8. CASE b[tok] = 0
  <2>1. end = tok /\ b[end] = 0 BY <1>4, <1>8
  <2>2. Ended(b, end) = b BY <2>1, <1>1 DEF Ended, Buffer
  <2>3. [mem EXCEPT ![p] = Ended(@, end)] = mem BY <2>2 DEF b, MemInv
  <2> QED BY <1>7, <1>8, <2>1, <2>3 DEF b, Strtoked
<1>9. CASE b[tok] # 0
  <2>1. [mem EXCEPT ![p][end] = 0] = [mem EXCEPT ![p] = Ended(@, end)] BY DEF Ended
  <2> QED BY <1>7, <1>9, <2>1 DEF b, Strtoked
<1> QED BY <1>8, <1>9

\* Every string has its places.
LEMMA PlacesExist ==
  ASSUME NEW b, Buffer(b), NEW i \in 1 .. Len(b), NEW D \in SUBSET Letters, 0 \notin Letters
  PROVE  \E tok, end, z : WordAt(b, i, D, tok, end, z)
<1> DEFINE tok == Text!Find(b, i, (Letters \cup {0}) \ D)
           end == Text!Find(b, tok, D \cup {0})
           z == Text!Find(b, i, {0})
<1>1. FirstAt(b, i, (Letters \cup {0}) \ D, tok)
  <2>1. 0 \in (Letters \cup {0}) \ D OBVIOUS
  <2> QED BY <2>1, FindFirst
<1> HIDE DEF tok
<1>2. tok \in 1 .. Len(b) BY <1>1 DEF FirstAt, Buffer
<1>3. FirstAt(b, tok, D \cup {0}, end)
  <2>1. 0 \in D \cup {0} OBVIOUS
  <2> QED BY <2>1, <1>2, FindFirst
<1>4. FirstAt(b, i, {0}, z)
  <2>1. 0 \in {0} OBVIOUS
  <2> QED BY <2>1, FindFirst
<1> QED BY <1>1, <1>3, <1>4 DEF WordAt

\* Tokens whose strings are the same in two memories.
SameAt(p, g, m, n) == \A k \in DOMAIN g : Body(m[p], g[k][2]) = Body(n[p], g[k][2])

LEMMA StringsSame ==
  ASSUME NEW p \in Places, NEW g \in Seq(Pointers(p)), NEW m, NEW n,
         SameAt(p, g, m, n)
  PROVE  StringsAt(m, g) = StringsAt(n, g)
<1>1. \A k \in DOMAIN g : g[k] \in Pointers(p)
  OBVIOUS
<1>2. \A k \in DOMAIN g : g[k][1] = p BY <1>1 DEF Pointers
<1> QED BY <1>2 DEF StringsAt, SameAt

\* One token more.
LEMMA StringsAppend ==
  ASSUME NEW p \in Places, NEW g \in Seq(Pointers(p)), NEW m, NEW h
  PROVE  StringsAt(m, Append(g, <<p, h>>)) = Append(StringsAt(m, g), Body(m[p], h))
<1> DEFINE n == Len(g)  a == Append(g, <<p, h>>)  s == StringsAt(m, g)
<1>1. n \in Nat /\ DOMAIN g = 1 .. n OBVIOUS
<1>2. DOMAIN a = 1 .. n + 1 /\ a[n + 1] = <<p, h>> /\ \A k \in 1 .. n : a[k] = g[k] OBVIOUS
<1>3. s = [k \in 1 .. n |-> Body(m[g[k][1]], g[k][2])] BY <1>1 DEF StringsAt
<1>4. DOMAIN s = 1 .. n /\ Len(s) = n BY <1>1, <1>3
<1>5. Append(s, Body(m[p], h)) = [k \in 1 .. n + 1 |-> IF k = n + 1 THEN Body(m[p], h) ELSE s[k]]
  BY <1>1, <1>3, <1>4
<1>6. StringsAt(m, a) = [k \in 1 .. n + 1 |-> Body(m[a[k][1]], a[k][2])]
  BY <1>2 DEF StringsAt
<1> HIDE DEF n, a, s
<1>7. \A k \in 1 .. n + 1 : Body(m[a[k][1]], a[k][2]) = IF k = n + 1 THEN Body(m[p], h) ELSE s[k]
  <2> TAKE k \in 1 .. n + 1
  <2>1. CASE k = n + 1
    <3>1. a[k][1] = p /\ a[k][2] = h BY <2>1, <1>2
    <3> QED BY <2>1, <3>1
  <2>2. CASE k # n + 1
    <3>1. k \in 1 .. n BY <2>2, <1>1
    <3>2. a[k] = g[k] /\ s[k] = Body(m[g[k][1]], g[k][2]) BY <3>1, <1>2, <1>3
    <3> QED BY <2>2, <3>2
  <2> QED BY <2>1, <2>2
<1>8. StringsAt(m, a) = Append(s, Body(m[p], h)) BY <1>5, <1>6, <1>7
<1> QED BY <1>8 DEF a, s

(***************************************************************************)
(* One call of strtok on place i of buffer p, the caller keeping the       *)
(* tokens kept: the invariant survives, and Words takes the same word.     *)
(***************************************************************************)
Takes(r, p, D, kept) ==
  LET t == Text!Abstract!Trimmed(r, D)
      w == Text!Abstract!Before(t, D)
  IN  /\ WordsOf(mem', given') =
           [WordsOf(mem, given) EXCEPT ![p] = IF w = <<>> THEN kept ELSE Append(kept, w)]
      /\ Text!Meaning(answer)' = IF w = <<>> THEN <<"none">> ELSE <<"word", w>>
      /\ RestOf(mem', last') = Text!Abstract!Behind(t, D)

\* That holds for every text and for every rest of one.
LEMMA StrtokTakes ==
  ASSUME TextInv, 0 \notin Letters,
         NEW p \in Places, NEW i \in 1 .. Size[p], NEW D \in SUBSET Letters,
         Text!strtok(<<p, i>>, D), NEW kept \in Seq(Pointers(p)), Text!Keep(p, kept),
         (kept = <<>> /\ i = 1) \/ (kept = given[p] /\ i \in 2 .. Size[p] /\ mem[p][i - 1] = 0),
         \A k \in DOMAIN kept : kept[k][2] < i,
         place' = p
  PROVE  /\ TextInv' /\ Takes(Body(mem[p], i), p, D, StringsAt(mem, kept))
         /\ \A q \in Places : q # p => mem'[q] = mem[q]
         /\ i # 1 => Body(mem'[p], 1) = Body(mem[p], 1)
         /\ i = 1 => Body(mem'[p], 1) =
              LET t == Text!Abstract!Trimmed(Body(mem[p], 1), D)
                  x == Body(mem[p], 1)
              IN  SubSeq(x, 1, Len(x) - Len(t) + Len(Text!Abstract!Before(t, D)))
<1> DEFINE b == mem[p]
<1>1. Buffer(b) /\ Len(b) = Size[p] /\ MemInv BY DEF TextInv, MemInv
<1>2. i \in 1 .. Len(b) BY <1>1
<1>3. PICK tok, end, z : WordAt(b, i, D, tok, end, z) BY <1>1, <1>2, PlacesExist
<1>4. /\ answer' = IF b[tok] = 0 THEN <<>> ELSE <<p, tok>>
      /\ mem' = [mem EXCEPT ![p] = Ended(@, end)]
      /\ last' = IF b[end] = 0 THEN <<>> ELSE <<p, end + 1>>
  <2>1. Strtoked(p, tok, end) BY <1>1, <1>3, StrtokDoes
  <2> QED BY <2>1 DEF Strtoked
<1>5. WordParts(b, i, D, tok, end, z) BY <1>1, <1>2, <1>3, WordPlaces
<1>6. /\ Len(b) \in Nat /\ tok \in i .. Len(b) /\ end \in i .. Len(b) /\ z \in i .. Len(b)
      /\ tok <= end /\ end <= z
      /\ (b[tok] = 0 => tok = end /\ end = z) /\ (b[tok] # 0 => tok < end)
      /\ (b[end] = 0 => end = z) /\ (b[end] # 0 => end < z)
  BY <1>5 DEF WordParts, Buffer
<1>7. end \in 1 .. Len(b) /\ tok \in 1 .. Len(b) BY <1>2, <1>6
<1>8. /\ Buffer(Ended(b, end)) /\ Len(Ended(b, end)) = Len(b) /\ Ended(b, end)[end] = 0
  BY <1>1, <1>7, EndedBuffer
<1>9. /\ mem'[p] = Ended(b, end) /\ \A q \in Places : q # p => mem'[q] = mem[q]
      /\ mem' \in [Places -> Seq(Letters \cup {0})]
  <2>1. Ended(b, end) \in Seq(Letters \cup {0}) BY <1>8 DEF Buffer
  <2> QED BY <1>4, <2>1, <1>1 DEF MemInv
<1> HIDE DEF b
<1>10. MemInv'
  <2>1. \A q \in Places : Buffer(mem'[q]) /\ Len(mem'[q]) = Size[q]
    <3> TAKE q \in Places
    <3>1. CASE q = p BY <3>1, <1>1, <1>8, <1>9
    <3>2. CASE q # p BY <3>2, <1>1, <1>9 DEF MemInv
    <3> QED BY <3>1, <3>2
  <2> QED BY <2>1, <1>9 DEF MemInv, Buffer
<1>11. PlaceInv'
  <2>1. ASSUME last' # <<>>
        PROVE  last' = <<p, last'[2]>> /\ last'[2] \in 2 .. Size[p] /\ mem'[p][last'[2] - 1] = 0
    <3>1. last' = <<p, end + 1>> /\ b[end] # 0 BY <2>1, <1>4
    <3>2. last'[2] = end + 1 BY <3>1
    <3>3. end + 1 \in 2 .. Size[p] /\ (end + 1) - 1 = end BY <3>1, <1>1, <1>2, <1>6
    <3> QED BY <3>1, <3>2, <3>3, <1>8, <1>9
  <2> QED BY <2>1 DEF PlaceInv
<1>12. given' = [given EXCEPT ![p] = IF b[tok] = 0 THEN kept ELSE Append(kept, <<p, tok>>)]
  <2>1. <<p, tok>> # <<>> OBVIOUS
  <2>2. CASE b[tok] = 0 BY <2>2, <1>4 DEF Text!Keep, Text!NULL
  <2>3. CASE b[tok] # 0 BY <2>1, <2>3, <1>4 DEF Text!Keep, Text!NULL
  <2> QED BY <2>2, <2>3
<1> DEFINE g == IF b[tok] = 0 THEN kept ELSE Append(kept, <<p, tok>>)
<1>13. /\ given'[p] = g /\ \A q \in Places : q # p => given'[q] = given[q]
       /\ given' = [q \in Places |-> given'[q]]
  BY <1>12 DEF TextInv, TokenInv
<1>14. g \in Seq(Pointers(p))
  <2>1. <<p, tok>> \in Pointers(p) BY <1>1, <1>7 DEF Pointers
  <2> QED BY <2>1
<1>15. TokenInv'
  <2>1. \A q \in Places : given'[q] \in Seq(Pointers(q))
    <3> TAKE q \in Places
    <3>1. CASE q = p BY <3>1, <1>13, <1>14
    <3>2. CASE q # p BY <3>2, <1>13 DEF TextInv, TokenInv
    <3> QED BY <3>1, <3>2
  <2>2. ASSUME last' # <<>>, NEW k \in DOMAIN g PROVE g[k][2] < last'[2]
    <3>1. last' = <<p, end + 1>> /\ b[end] # 0 BY <2>2, <1>4
    <3>2. last'[2] = end + 1 BY <3>1
    <3>3. b[tok] # 0 BY <3>1, <1>6
    <3>4. g = Append(kept, <<p, tok>>) BY <3>3
    <3>5. CASE k \in DOMAIN kept
      <4>1. g[k] = kept[k] BY <3>4, <3>5
      <4>2. kept[k][2] < i BY <3>5
      <4>3. kept[k] \in Pointers(p) BY <3>5
      <4>4. kept[k][2] \in Int BY <4>3 DEF Pointers
      <4> DEFINE x == kept[k][2]
      <4> HIDE DEF x
      <4>5. x \in Int /\ x < i BY <4>2, <4>4 DEF x
      <4>6. x < end + 1 BY <4>5, <1>6
      <4> QED BY <4>1, <4>6, <3>2 DEF x
    <3>6. CASE k \notin DOMAIN kept
      <4>1. k = Len(kept) + 1 BY <3>4, <3>6, <2>2
      <4>2. g[k] = <<p, tok>> BY <3>4, <4>1
      <4>3. g[k][2] = tok BY <4>2
      <4> QED BY <4>3, <3>2, <1>6
    <3> QED BY <3>5, <3>6
  <2> HIDE DEF g
  <2>3. last' # <<>> => \A k \in DOMAIN given'[place'] : given'[place'][k][2] < last'[2]
    BY <2>2, <1>13
  <2> QED BY <2>1, <2>3, <1>13 DEF TokenInv
<1>16. TextInv' BY <1>10, <1>11, <1>15 DEF TextInv
\* What Words makes of it.
<1> DEFINE t == SubSeq(b, tok, z - 1)  w == SubSeq(b, tok, end - 1)  r == SubSeq(b, end + 1, z - 1)
<1>17. /\ Text!Abstract!Trimmed(Body(b, i), D) = t
       /\ Text!Abstract!Before(t, D) = w
       /\ Text!Abstract!Behind(t, D) = r
       /\ Len(Body(b, i)) = z - i /\ Len(t) = z - tok /\ Len(w) = end - tok
  <2>1. CutAt(b, i, D, tok, end, z) BY <1>1, <1>2, <1>3, WordCut
  <2> QED BY <2>1, Zenon DEF CutAt
<1>18. /\ Body(mem'[p], tok) = w
       /\ i = 1 => Body(mem'[p], 1) = SubSeq(b, 1, end - 1)
       /\ b[end] # 0 => Body(mem'[p], end + 1) = r
  <2>1. /\ Body(Ended(b, end), tok) = w
        /\ i = 1 => Body(Ended(b, end), 1) = SubSeq(b, 1, end - 1)
        /\ b[end] # 0 => Body(Ended(b, end), end + 1) = r
    <3>1. EndedAs(b, i, tok, end, z) BY <1>1, <1>2, <1>3, EndedBodies
    <3> QED BY <3>1, Zenon DEF EndedAs
  <2> HIDE DEF w, r
  <2> QED BY <2>1, <1>9
<1>19. w = <<>> <=> b[tok] = 0
  <2>1. Len(w) = 0 <=> b[tok] = 0 BY <1>6, <1>17
  <2>2. w \in Seq(Letters)
    <3>1. \A j \in tok .. (end - 1) : b[j] \in Letters BY <1>5 DEF WordParts
    <3>2. end \in tok .. Len(b) BY <1>2, <1>6
    <3> QED BY <3>1, <3>2, <1>1, <1>7, PartIs
  <2> HIDE DEF w
  <2>3. w = <<>> <=> Len(w) = 0 BY <2>2
  <2> QED BY <2>1, <2>3
<1>20. b[end] = 0 => r = <<>> BY <1>6
<1> HIDE DEF t, w, r
<1>21. RestOf(mem', last') = r
  <2>1. CASE b[end] = 0
    <3>1. last' = <<>> BY <2>1, <1>4
    <3> QED BY <2>1, <3>1, <1>20 DEF RestOf
  <2>2. CASE b[end] # 0
    <3>1. last' = <<p, end + 1>> BY <2>2, <1>4
    <3>2. last' # <<>> /\ last'[1] = p /\ last'[2] = end + 1 BY <3>1
    <3> QED BY <2>2, <3>2, <1>18 DEF RestOf
  <2> QED BY <2>1, <2>2
<1>22. Text!Meaning(answer)' = IF w = <<>> THEN <<"none">> ELSE <<"word", w>>
  <2>1. CASE b[tok] = 0
    <3>1. answer' = <<>> BY <2>1, <1>4
    <3> QED BY <2>1, <3>1, <1>19 DEF Text!Meaning, Text!NULL
  <2>2. CASE b[tok] # 0
    <3>1. answer' = <<p, tok>> BY <2>2, <1>4
    <3>2. answer' # <<>> /\ Len(answer') = 2 /\ answer'[1] = p /\ answer'[2] = tok BY <3>1
    <3>3. Text!StringAt(answer)' = w BY <3>2, <1>18 DEF Text!StringAt, Body
    <3> QED BY <2>2, <3>2, <3>3, <1>19 DEF Text!Meaning, Text!NULL
  <2> QED BY <2>1, <2>2
<1>23. StringsAt(mem', kept) = StringsAt(mem, kept)
  <2>1. \A k \in DOMAIN kept : Body(mem'[p], kept[k][2]) = Body(mem[p], kept[k][2])
    <3> SUFFICES ASSUME NEW k \in DOMAIN kept
                 PROVE  Body(mem'[p], kept[k][2]) = Body(mem[p], kept[k][2])
      OBVIOUS
    <3>1. kept # <<>> OBVIOUS
    <3>2. i \in 2 .. Len(b) /\ b[i - 1] = 0 BY <3>1, <1>1 DEF b
    <3>3. kept[k] \in Pointers(p) OBVIOUS
    <3> DEFINE h == kept[k][2]
    <3>4. h \in 1 .. Size[p] BY <3>3 DEF Pointers
    <3>5. h < i OBVIOUS
    <3> HIDE DEF h
    <3>6. h \in 1 .. (i - 1) BY <3>4, <3>5, <1>1
    <3>7. Body(Ended(b, end), h) = Body(b, h) BY <3>2, <3>6, <1>1, <1>6, EndedKeeps
    <3> QED BY <3>7, <1>9 DEF b, h
  <2>2. SameAt(p, kept, mem', mem) BY <2>1 DEF SameAt
  <2> QED BY <2>2, StringsSame
<1>24. StringsAt(mem', g) = IF w = <<>> THEN StringsAt(mem, kept) ELSE Append(StringsAt(mem, kept), w)
  <2>1. CASE b[tok] = 0 BY <2>1, <1>19, <1>23
  <2>2. CASE b[tok] # 0
    <3>1. g = Append(kept, <<p, tok>>) BY <2>2
    <3>2. StringsAt(mem', g) = Append(StringsAt(mem', kept), Body(mem'[p], tok))
      BY <3>1, StringsAppend
    <3> QED BY <2>2, <3>2, <1>18, <1>19, <1>23
  <2> QED BY <2>1, <2>2
<1> HIDE DEF g
<1>25. WordsOf(mem', given') =
         [WordsOf(mem, given) EXCEPT ![p] = IF w = <<>> THEN StringsAt(mem, kept)
                                            ELSE Append(StringsAt(mem, kept), w)]
  <2>1. StringsAt(mem', given'[p]) = IF w = <<>> THEN StringsAt(mem, kept)
                                     ELSE Append(StringsAt(mem, kept), w)
    BY <1>13, <1>24
  <2>2. \A q \in Places : q # p => StringsAt(mem', given'[q]) = StringsAt(mem, given[q])
    <3> SUFFICES ASSUME NEW q \in Places, q # p
                 PROVE  StringsAt(mem', given[q]) = StringsAt(mem, given[q])
      BY <1>13
    <3>1. given[q] \in Seq(Pointers(q)) BY DEF TextInv, TokenInv
    <3>2. mem'[q] = mem[q] BY <1>9
    <3>3. SameAt(q, given[q], mem', mem) BY <3>2 DEF SameAt
    <3> QED BY <3>1, <3>3, StringsSame
  <2> QED BY <2>1, <2>2 DEF WordsOf
<1>26. i # 1 => Body(mem'[p], 1) = Body(b, 1)
  <2> SUFFICES ASSUME i # 1 PROVE Body(mem'[p], 1) = Body(b, 1)
    OBVIOUS
  <2>1. CASE kept = given[p] /\ i \in 2 .. Size[p] /\ mem[p][i - 1] = 0
    <3>1. i \in 2 .. Len(b) /\ b[i - 1] = 0 /\ 1 \in 1 .. (i - 1) BY <2>1, <1>1 DEF b
    <3> QED BY <3>1, <1>1, <1>6, <1>9, EndedKeeps
  <2> QED BY <2>1
<1>27. i = 1 => Body(mem'[p], 1) =
         SubSeq(Body(b, i), 1, Len(Body(b, i)) - Len(t) + Len(w))
  <2> SUFFICES ASSUME i = 1
               PROVE  SubSeq(b, 1, end - 1) = SubSeq(Body(b, i), 1, Len(Body(b, i)) - Len(t) + Len(w))
    BY <1>18
  <2>1. Len(Body(b, i)) - Len(t) + Len(w) = end - 1 BY <1>6, <1>17
  <2>2. FirstAt(b, i, {0}, z) BY <1>3 DEF WordAt
  <2>3. Body(b, i) = SubSeq(b, i, z - 1) BY <1>1, <1>2, <2>2, BodyIs
  <2>4. \A j \in i .. (z - 1) : b[j] \in Letters BY <1>5 DEF WordParts
  <2>5. \A m \in 0 .. z - i : SubSeq(SubSeq(b, i, z - 1), 1, m) = SubSeq(b, i, i + m - 1)
    BY <1>1, <1>2, <1>6, <2>4, PartIs
  <2> DEFINE m == end - 1
  <2>6. m \in 0 .. z - i /\ i + m - 1 = end - 1 BY <1>6
  <2> HIDE DEF m
  <2>7. SubSeq(SubSeq(b, i, z - 1), 1, m) = SubSeq(b, i, i + m - 1) BY <2>5, <2>6, Zenon
  <2> QED BY <2>1, <2>3, <2>6, <2>7 DEF m
<1>28. Takes(Body(b, i), p, D, StringsAt(mem, kept)) BY <1>17, <1>21, <1>22, <1>25 DEF Takes
<1> QED BY <1>9, <1>16, <1>17, <1>26, <1>27, <1>28 DEF b

-----------------------------------------------------------------------------
\* What the instance of Words sees.
LEMMA Seen ==
  /\ [p \in Places |-> Text!StringAt(<<p, 1>>)] = TextOf(mem)
  /\ [p \in Places |-> [k \in DOMAIN given[p] |-> Text!StringAt(given[p][k])]] = WordsOf(mem, given)
  /\ (IF last = Text!NULL THEN <<>> ELSE Text!StringAt(last)) = RestOf(mem, last)
<1>1. \A p : Text!StringAt(<<p, 1>>) = Body(mem[p], 1) BY DEF Text!StringAt, Body
<1>2. \A x : Text!StringAt(x) = Body(mem[x[1]], x[2]) BY DEF Text!StringAt, Body
<1>3. [p \in Places |-> Text!StringAt(<<p, 1>>)] = TextOf(mem) BY <1>1 DEF TextOf
<1>4. [p \in Places |-> [k \in DOMAIN given[p] |-> Text!StringAt(given[p][k])]] = WordsOf(mem, given)
  BY <1>2 DEF WordsOf, StringsAt
<1>5. (IF last = Text!NULL THEN <<>> ELSE Text!StringAt(last)) = RestOf(mem, last)
  BY <1>2 DEF RestOf, Text!NULL
<1> QED BY <1>3, <1>4, <1>5

\* And what it sees after a step.
LEMMA SeenNext ==
  /\ [p \in Places |-> Text!StringAt(<<p, 1>>)]' = TextOf(mem')
  /\ [p \in Places |-> [k \in DOMAIN given[p] |-> Text!StringAt(given[p][k])]]' = WordsOf(mem', given')
  /\ (IF last = Text!NULL THEN <<>> ELSE Text!StringAt(last))' = RestOf(mem', last')
<1>1. \A p : Text!StringAt(<<p, 1>>)' = Body(mem'[p], 1) BY DEF Text!StringAt, Body
<1>2. \A x : Text!StringAt(x)' = Body(mem'[x[1]], x[2]) BY DEF Text!StringAt, Body
<1>3. [p \in Places |-> Text!StringAt(<<p, 1>>)]' = TextOf(mem') BY <1>1 DEF TextOf
<1>4. [p \in Places |-> [k \in DOMAIN given[p] |-> Text!StringAt(given[p][k])]]' = WordsOf(mem', given')
  BY <1>2 DEF WordsOf, StringsAt
<1>5. (IF last = Text!NULL THEN <<>> ELSE Text!StringAt(last))' = RestOf(mem', last')
  BY <1>2 DEF RestOf, Text!NULL
<1> QED BY <1>3, <1>4, <1>5

\* A call of strtok with a text.
LEMMA SplitStep ==
  ASSUME TextInv, Text!ConstantsFit, NEW p \in Places, NEW D \in Delims, Text!StartTokens(p, D)
  PROVE  TextInv' /\ Text!Abstract!Split(p, D)
<1>1. 0 \notin Letters /\ D \in SUBSET Letters BY DEF Text!ConstantsFit
<1>2. /\ Text!strtok(<<p, 1>>, D) /\ Text!Keep(p, <<>>) /\ place' = p /\ call' = <<"split", p, D>>
  BY DEF Text!StartTokens
<1>3. 1 \in 1 .. Size[p] BY DEF Text!ConstantsFit
<1>4. <<>> \in Seq(Pointers(p)) /\ (<<>> = <<>> /\ 1 = 1) /\ \A k \in DOMAIN <<>> : <<>>[k][2] < 1
  OBVIOUS
<1>5. StringsAt(mem, <<>>) = <<>> BY DEF StringsAt
<1> DEFINE x == Body(mem[p], 1)  t == Text!Abstract!Trimmed(x, D)  w == Text!Abstract!Before(t, D)
           kept == <<>>  i == 1
<1>6. kept \in Seq(Pointers(p)) /\ kept = <<>> /\ i = 1 /\ i \in 1 .. Size[p]
      /\ (\A k \in DOMAIN kept : kept[k][2] < i)
      /\ Text!strtok(<<p, i>>, D) /\ Text!Keep(p, kept)
  BY <1>2, <1>3, <1>4
<1> HIDE DEF kept, i
<1>7. TextInv' /\ Takes(Body(mem[p], i), p, D, StringsAt(mem, kept))
      /\ (\A q \in Places : q # p => mem'[q] = mem[q])
      /\ (i = 1 => Body(mem'[p], 1) = SubSeq(x, 1, Len(x) - Len(t) + Len(w)))
  BY <1>1, <1>2, <1>6, StrtokTakes
<1>8. Takes(x, p, D, <<>>) /\ Body(mem'[p], 1) = SubSeq(x, 1, Len(x) - Len(t) + Len(w))
  BY <1>5, <1>6, <1>7
<1> HIDE DEF x
<1>9. /\ WordsOf(mem', given') =
           [WordsOf(mem, given) EXCEPT ![p] = IF w = <<>> THEN <<>> ELSE Append(<<>>, w)]
      /\ Text!Meaning(answer)' = IF w = <<>> THEN <<"none">> ELSE <<"word", w>>
      /\ RestOf(mem', last') = Text!Abstract!Behind(t, D)
  BY <1>8 DEF Takes
<1>10. TextOf(mem)[p] = x BY DEF TextOf, x
<1>11. TextOf(mem') = [TextOf(mem) EXCEPT ![p] = SubSeq(x, 1, Len(x) - Len(t) + Len(w))]
  BY <1>7, <1>8 DEF TextOf
<1>12. Text!Abstract!Take(TextOf(mem)[p], p, D, <<>>)
  BY <1>9, <1>10, Seen, SeenNext DEF Text!Abstract!Take, Text!Abstract!None
<1>13. Text!Abstract!Split(p, D)
  BY <1>2, <1>10, <1>11, <1>12, Seen, SeenNext DEF Text!Abstract!Split
<1> QED BY <1>7, <1>13

\* Nothing is taken off an empty text.
LEMMA NothingLeft ==
  ASSUME NEW D
  PROVE  /\ Text!Abstract!Trimmed(<<>>, D) = <<>> /\ Text!Abstract!Before(<<>>, D) = <<>>
         /\ Text!Abstract!Behind(<<>>, D) = <<>>
<1>1. <<>> \in Seq({}) /\ Len(<<>>) = 0 OBVIOUS
<1>2. Leads(<<>>, D, 0) /\ Leads(<<>>, Letters \ D, 0) BY <1>1 DEF Leads
<1>3. SubSeq(<<>>, 1, 0) = <<>> /\ SubSeq(<<>>, 2, 0) = <<>> OBVIOUS
<1>4. Text!Abstract!Before(<<>>, D) = <<>> /\ Text!Abstract!Before(<<>>, Letters \ D) = <<>>
  <2> DEFINE e == <<>>
  <2>1. e \in Seq({}) /\ Leads(e, D, 0) /\ Leads(e, Letters \ D, 0) BY <1>1, <1>2
  <2> HIDE DEF e
  <2>2. Text!Abstract!Before(e, D) = SubSeq(e, 1, 0) BY <2>1, BeforeIs
  <2>3. Text!Abstract!Before(e, Letters \ D) = SubSeq(e, 1, 0) BY <2>1, BeforeIs
  <2> QED BY <2>2, <2>3, <1>3 DEF e
<1> QED BY <1>1, <1>3, <1>4 DEF Text!Abstract!Trimmed, Text!Abstract!Behind

\* A call of strtok with NULL, while something is left and after it.
LEMMA ContinueStep ==
  ASSUME TextInv, Text!ConstantsFit, NEW D \in Delims, Text!NextToken(D)
  PROVE  TextInv' /\ Text!Abstract!Continue(D)
<1>1. 0 \notin Letters /\ D \in SUBSET Letters BY DEF Text!ConstantsFit
<1>2. /\ Text!Keep(place, given[place]) /\ place' = place /\ call' = <<"continue", D>>
      /\ place \in Places
  BY DEF Text!NextToken, TextInv, PlaceInv
<1> DEFINE r == RestOf(mem, last)
           t == Text!Abstract!Trimmed(r, D)  w == Text!Abstract!Before(t, D)
           kept == StringsAt(mem, given[place])
<1>3. WordsOf(mem, given)[place] = kept BY <1>2 DEF WordsOf
<1>4. ASSUME TextInv', Takes(r, place, D, kept), TextOf(mem') = TextOf(mem)
      PROVE  TextInv' /\ Text!Abstract!Continue(D)
  <2> HIDE DEF r, kept
  <2>1. UNCHANGED [p \in Places |-> Text!StringAt(<<p, 1>>)] BY <1>4, Seen, SeenNext
  <2>2. /\ [p \in Places |-> [k \in DOMAIN given[p] |-> Text!StringAt(given[p][k])]][place] = kept
        /\ (IF last = Text!NULL THEN <<>> ELSE Text!StringAt(last)) = r
    BY <1>3, Seen DEF r
  <2>3. Text!Abstract!Continue(D)
    BY <1>2, <1>4, <2>1, <2>2, Seen, SeenNext
    DEF Text!Abstract!Continue, Text!Abstract!Take, Text!Abstract!None, Takes
  <2> QED BY <1>4, <2>3
<1>5. CASE last = <<>>
  <2>1. answer' = <<>> /\ UNCHANGED <<mem, last>> BY <1>5 DEF Text!NextToken, Text!NULL
  <2>2. given' = given
    <3>1. given' = [given EXCEPT ![place] = given[place]] BY <1>2, <2>1 DEF Text!Keep, Text!NULL
    <3> QED BY <3>1, <1>2 DEF TextInv, TokenInv
  <2>3. TextInv' BY <1>2, <2>1, <2>2 DEF TextInv, MemInv, PlaceInv, TokenInv
  <2>4. r = <<>> /\ RestOf(mem', last') = <<>> BY <1>5, <2>1 DEF RestOf
  <2>5. Text!Meaning(answer)' = <<"none">> BY <2>1 DEF Text!Meaning, Text!NULL
  <2>6. t = <<>> /\ w = <<>> /\ Text!Abstract!Behind(t, D) = <<>> BY <2>4, NothingLeft
  <2>7. WordsOf(mem', given') = WordsOf(mem, given) BY <2>1, <2>2
  <2>8. [WordsOf(mem, given) EXCEPT ![place] = kept] = WordsOf(mem, given)
    BY <1>2 DEF WordsOf
  <2> HIDE DEF r, kept
  <2>9. Takes(r, place, D, kept) BY <2>4, <2>5, <2>6, <2>7, <2>8 DEF Takes
  <2> QED BY <1>4, <2>1, <2>3, <2>9
<1>6. CASE last # <<>>
  <2> DEFINE i == last[2]
  <2>1. last = <<place, i>> /\ i \in 2 .. Size[place] /\ mem[place][i - 1] = 0
    BY <1>6 DEF TextInv, PlaceInv
  <2>2. Text!strtok(last, D) BY <1>6 DEF Text!NextToken, Text!NULL
  <2>3. /\ given[place] \in Seq(Pointers(place))
        /\ \A k \in DOMAIN given[place] : given[place][k][2] < i
    BY <1>2, <1>6 DEF TextInv, TokenInv
  <2> HIDE DEF i
  <2>4. i \in 1 .. Size[place] /\ i # 1 /\ Text!strtok(<<place, i>>, D) BY <2>1, <2>2
  <2>5. /\ TextInv' /\ Takes(Body(mem[place], i), place, D, StringsAt(mem, given[place]))
        /\ (\A q \in Places : q # place => mem'[q] = mem[q])
        /\ (i # 1 => Body(mem'[place], 1) = Body(mem[place], 1))
    BY <1>1, <1>2, <2>1, <2>3, <2>4, StrtokTakes
  <2>6. r = Body(mem[place], i)
    <3>1. last # <<>> /\ last[1] = place /\ last[2] = i BY <1>6, <2>1
    <3> QED BY <3>1 DEF RestOf
  <2>7. TextOf(mem') = TextOf(mem)
    <3>1. \A q \in Places : Body(mem'[q], 1) = Body(mem[q], 1) BY <2>4, <2>5
    <3> QED BY <3>1 DEF TextOf
  <2> QED BY <1>4, <2>5, <2>6, <2>7
<1> QED BY <1>5, <1>6

\* A call of strcmp.
LEMMA CompareStep ==
  ASSUME TextInv, Text!ConstantsFit, NEW p \in Places, NEW q \in Places, Text!CompareStrings(p, q)
  PROVE  TextInv' /\ Text!Abstract!Compare(p, q)
<1>1. Letters \subseteq 1 .. 255 BY DEF Text!ConstantsFit
<1>2. /\ call' = <<"compare", p, q>> /\ answer' = <<Text!strcmp(mem[p], mem[q])>>
      /\ mem' = mem /\ last' = last /\ given' = given /\ place' = place
  BY DEF Text!CompareStrings
<1>3. TextInv' BY <1>2 DEF TextInv, MemInv, PlaceInv, TokenInv
<1> DEFINE a == mem[p]  b == mem[q]
<1>4. Buffer(a) /\ Buffer(b) BY DEF TextInv, MemInv
<1> HIDE DEF a, b
<1>5. PICK i : Differ(a, b, i) /\ Text!strcmp(a, b) = a[i] - b[i] BY <1>4, CompareStops
<1>6. /\ Body(a, 1) = Body(b, 1) <=> a[i] = b[i]
      /\ Text!Abstract!Precedes(Body(a, 1), Body(b, 1)) <=> a[i] < b[i]
      /\ a[i] \in Int /\ b[i] \in Int
  BY <1>1, <1>4, <1>5, CompareOrders
<1> DEFINE u == a[i]  v == b[i]
<1>7. answer' = <<u - v>> BY <1>2, <1>5 DEF a, b
<1>8. u \in Int /\ v \in Int BY <1>6
<1> HIDE DEF u, v
<1>9. Text!Meaning(answer)' = <<"order", IF u = v THEN 0 ELSE IF u < v THEN -1 ELSE 1>>
  <2> DEFINE d == u - v
  <2>1. d \in Int /\ (d < 0 <=> u < v) /\ (d > 0 <=> (u # v /\ ~ (u < v))) /\ (d = 0 <=> u = v)
    BY <1>8
  <2>2. answer' = <<d>> BY <1>7
  <2> HIDE DEF d
  <2>3. answer' # <<>> /\ Len(answer') = 1 /\ answer'[1] = d BY <2>2
  <2>4. Text!Meaning(answer)' = <<"order", IF d < 0 THEN -1 ELSE IF d > 0 THEN 1 ELSE 0>>
    BY <2>3 DEF Text!Meaning, Text!NULL
  <2>5. (IF d < 0 THEN -1 ELSE IF d > 0 THEN 1 ELSE 0) = IF u = v THEN 0 ELSE IF u < v THEN -1 ELSE 1
    BY <2>1, <1>8
  <2> QED BY <2>4, <2>5
<1>10. TextOf(mem)[p] = Body(a, 1) /\ TextOf(mem)[q] = Body(b, 1) BY DEF TextOf, a, b
<1>11. Text!Meaning(answer)' =
         <<"order", IF TextOf(mem)[p] = TextOf(mem)[q] THEN 0
                    ELSE IF Text!Abstract!Precedes(TextOf(mem)[p], TextOf(mem)[q]) THEN -1 ELSE 1>>
  BY <1>6, <1>9, <1>10 DEF u, v
<1>12. Text!Abstract!Compare(p, q)
  BY <1>2, <1>11, Seen, SeenNext DEF Text!Abstract!Compare
<1> QED BY <1>3, <1>12

\* A call of strrev, which takes the tokens of its buffer with it.
LEMMA TurnStep ==
  ASSUME TextInv, Text!ConstantsFit, NEW p \in Places, Text!ReverseString(p)
  PROVE  TextInv' /\ Text!Abstract!Turn(p)
<1>1. 0 \notin Letters BY DEF Text!ConstantsFit
<1>2. /\ call' = <<"turn", p>> /\ answer' = <<>> /\ last' = last /\ place' = place
      /\ mem' = [mem EXCEPT ![p] = Text!strrev(mem[p])] /\ given' = [given EXCEPT ![p] = <<>>]
  BY DEF Text!ReverseString, Text!NULL
<1> DEFINE b == mem[p]  c == Text!strrev(b)
<1>3. Buffer(b) /\ Len(b) = Size[p] /\ mem \in [Places -> Seq(Letters \cup {0})]
  BY DEF TextInv, MemInv
<1> HIDE DEF b
<1>4. /\ Buffer(c) /\ Len(c) = Len(b) /\ Body(c, 1) = Text!Abstract!Reverse(Body(b, 1))
      /\ \A i \in 2 .. Len(b) : b[i - 1] = 0 => c[i - 1] = 0 /\ Body(c, i) = Body(b, i)
  BY <1>1, <1>3, Reversed
<1> HIDE DEF c
<1>5. c \in Seq(Letters \cup {0}) BY <1>4 DEF Buffer
<1>6. /\ mem'[p] = c /\ \A q \in Places : q # p => mem'[q] = mem[q]
      /\ mem' \in [Places -> Seq(Letters \cup {0})]
  BY <1>2, <1>3, <1>5 DEF b, c
<1>7. /\ given'[p] = <<>> /\ \A q \in Places : q # p => given'[q] = given[q]
      /\ given' = [q \in Places |-> given'[q]]
  BY <1>2 DEF TextInv, TokenInv
<1>8. MemInv'
  <2>1. \A q \in Places : Buffer(mem'[q]) /\ Len(mem'[q]) = Size[q]
    <3> TAKE q \in Places
    <3>1. CASE q = p BY <3>1, <1>3, <1>4, <1>6
    <3>2. CASE q # p BY <3>2, <1>6 DEF TextInv, MemInv
    <3> QED BY <3>1, <3>2
  <2> QED BY <2>1, <1>6 DEF MemInv
<1>9. ASSUME last # <<>>
      PROVE  /\ last = <<place, last[2]>> /\ last[2] \in 2 .. Size[place]
             /\ mem'[place][last[2] - 1] = 0
             /\ Body(mem'[last[1]], last[2]) = Body(mem[last[1]], last[2])
  <2> DEFINE i == last[2]
  <2>1. last = <<place, i>> /\ i \in 2 .. Size[place] /\ mem[place][i - 1] = 0 /\ place \in Places
    BY <1>9 DEF TextInv, PlaceInv
  <2>2. last[1] = place BY <2>1
  <2> HIDE DEF i
  <2>3. CASE place = p
    <3>1. i \in 2 .. Len(b) /\ b[i - 1] = 0 BY <2>1, <2>3, <1>3 DEF b
    <3>2. c[i - 1] = 0 /\ Body(c, i) = Body(b, i) BY <3>1, <1>4
    <3> QED BY <2>1, <2>2, <2>3, <3>2, <1>6 DEF i, b
  <2>4. CASE place # p
    <3>1. mem'[place] = mem[place] BY <2>1, <2>4, <1>6
    <3> QED BY <2>1, <2>2, <3>1 DEF i
  <2> QED BY <2>3, <2>4
<1>10. PlaceInv' BY <1>2, <1>9 DEF PlaceInv, TextInv
<1>11. TokenInv'
  <2>1. \A q \in Places : given'[q] \in Seq(Pointers(q))
    <3> TAKE q \in Places
    <3>1. CASE q = p BY <3>1, <1>7
    <3>2. CASE q # p BY <3>2, <1>7 DEF TextInv, TokenInv
    <3> QED BY <3>1, <3>2
  <2>2. last' # <<>> => \A k \in DOMAIN given'[place'] : given'[place'][k][2] < last'[2]
    <3>1. CASE place = p BY <3>1, <1>2, <1>7
    <3>2. CASE place # p BY <3>2, <1>2, <1>7 DEF TextInv, TokenInv, PlaceInv
    <3> QED BY <3>1, <3>2
  <2> QED BY <2>1, <2>2, <1>7 DEF TokenInv
<1>12. TextOf(mem') = [TextOf(mem) EXCEPT ![p] = Text!Abstract!Reverse(TextOf(mem)[p])]
  BY <1>4, <1>6 DEF TextOf, b
<1>13. WordsOf(mem', given') = [WordsOf(mem, given) EXCEPT ![p] = <<>>]
  <2>1. StringsAt(mem', given'[p]) = <<>> BY <1>7 DEF StringsAt
  <2>2. \A q \in Places : q # p => StringsAt(mem', given'[q]) = StringsAt(mem, given[q])
    <3> SUFFICES ASSUME NEW q \in Places, q # p
                 PROVE  StringsAt(mem', given[q]) = StringsAt(mem, given[q])
      BY <1>7
    <3>1. given[q] \in Seq(Pointers(q)) BY DEF TextInv, TokenInv
    <3>2. SameAt(q, given[q], mem', mem) BY <1>6 DEF SameAt
    <3> QED BY <3>1, <3>2, StringsSame
  <2> QED BY <2>1, <2>2 DEF WordsOf
<1>14. RestOf(mem', last') = RestOf(mem, last) BY <1>2, <1>9 DEF RestOf
<1>15. Text!Meaning(answer)' = <<"none">> BY <1>2 DEF Text!Meaning, Text!NULL
<1>16. Text!Abstract!Turn(p)
  BY <1>2, <1>12, <1>13, <1>14, <1>15, Seen, SeenNext DEF Text!Abstract!Turn, Text!Abstract!None
<1> QED BY <1>8, <1>10, <1>11, <1>16 DEF TextInv

\* Any buffers with a NUL at the end, and no call yet.
LEMMA TextInit == Text!ConstantsFit /\ Text!Init => TextInv /\ Text!Abstract!Init
<1> SUFFICES ASSUME Text!ConstantsFit, Text!Init PROVE TextInv /\ Text!Abstract!Init
  OBVIOUS
<1>1. /\ last = <<>> /\ answer = <<>> /\ place \in Places /\ call = <<"none">>
      /\ given = [p \in Places |-> <<>>]
      /\ mem \in [Places -> UNION {Text!Contents(Size[p]) : p \in Places}]
      /\ \A p \in Places : Len(mem[p]) = Size[p]
  BY DEF Text!Init, Text!NULL
<1>2. \A p \in Places : Buffer(mem[p])
  <2> TAKE p \in Places
  <2>1. PICK q \in Places : mem[p] \in Text!Contents(Size[q]) BY <1>1
  <2>2. Size[q] \in Nat \ {0} BY DEF Text!ConstantsFit
  <2>3. mem[p] \in [1 .. Size[q] -> Letters \cup {0}] /\ mem[p][Size[q]] = 0
    BY <2>1 DEF Text!Contents
  <2>4. mem[p] \in Seq(Letters \cup {0}) /\ Len(mem[p]) = Size[q] BY <2>2, <2>3
  <2> QED BY <2>2, <2>3, <2>4 DEF Buffer
<1>3. MemInv
  <2>1. mem \in [Places -> Seq(Letters \cup {0})] BY <1>1, <1>2 DEF Buffer
  <2> QED BY <2>1, <1>1, <1>2 DEF MemInv
<1>4. TextInv BY <1>1, <1>3 DEF TextInv, PlaceInv, TokenInv
<1>5. TextOf(mem) \in [Places -> Seq(Letters)]
  <2>1. \A p \in Places : Body(mem[p], 1) \in Seq(Letters)
    <3> TAKE p \in Places
    <3>1. Buffer(mem[p]) /\ 1 \in 1 .. Len(mem[p]) /\ 0 \in {0} BY <1>2 DEF Buffer
    <3>2. FirstAt(mem[p], 1, {0}, Text!Find(mem[p], 1, {0})) BY <3>1, FindFirst
    <3> QED BY <3>1, <3>2, BodyIs
  <2> QED BY <2>1 DEF TextOf
<1>6. WordsOf(mem, given) = [p \in Places |-> <<>>]
  <2>1. StringsAt(mem, <<>>) = <<>> BY DEF StringsAt
  <2> QED BY <2>1, <1>1 DEF WordsOf
<1>7. RestOf(mem, last) = <<>> /\ Text!Meaning(answer) = <<"none">>
  BY <1>1 DEF RestOf, Text!Meaning, Text!NULL
<1>8. Text!Abstract!Init
  BY <1>1, <1>5, <1>6, <1>7, Seen DEF Text!Abstract!Init, Text!Abstract!None
<1> QED BY <1>4, <1>8

\* Every call is one of Words.
LEMMA TextNext ==
  ASSUME TextInv, Text!ConstantsFit, [Text!Next]_(Text!vars)
  PROVE  TextInv' /\ [Text!Abstract!Next]_(Text!Abstract!vars)
<1>1. ASSUME NEW p \in Places, NEW D \in Delims, Text!StartTokens(p, D)
      PROVE  TextInv' /\ Text!Abstract!Next
  BY <1>1, SplitStep DEF Text!Abstract!Next
<1>2. ASSUME NEW D \in Delims, Text!NextToken(D) PROVE TextInv' /\ Text!Abstract!Next
  BY <1>2, ContinueStep DEF Text!Abstract!Next
<1>3. ASSUME NEW p \in Places, NEW q \in Places, Text!CompareStrings(p, q)
      PROVE  TextInv' /\ Text!Abstract!Next
  BY <1>3, CompareStep DEF Text!Abstract!Next
<1>4. ASSUME NEW p \in Places, Text!ReverseString(p) PROVE TextInv' /\ Text!Abstract!Next
  BY <1>4, TurnStep DEF Text!Abstract!Next
<1>5. CASE UNCHANGED Text!vars
  <2>1. /\ mem' = mem /\ last' = last /\ given' = given /\ place' = place
        /\ call' = call /\ answer' = answer
    BY <1>5 DEF Text!vars
  <2>2. TextInv' BY <2>1 DEF TextInv, MemInv, PlaceInv, TokenInv
  <2>3. UNCHANGED Text!Abstract!vars
    BY <2>1 DEF Text!Abstract!vars, Text!StringAt, Text!Meaning
  <2> QED BY <2>2, <2>3
<1> QED BY <1>1, <1>2, <1>3, <1>4, <1>5 DEF Text!Next

(***************************************************************************)
(* Whatever the buffers hold and in whatever order strtok, strcmp and      *)
(* strrev are called, with whichever delimiters: strtok's answers are the  *)
(* words of the text, it forgets the old text when it gets a new one, and  *)
(* no call changes a word already given.                                   *)
(***************************************************************************)
THEOREM WordsImplemented == Text!Spec => ImplementsWords
<1>1. Text!Init => TextInv /\ Text!Abstract!Init BY TextAssumption, TextInit
<1>2. TextInv /\ [Text!Next]_(Text!vars) => TextInv' /\ [Text!Abstract!Next]_(Text!Abstract!vars)
  BY TextAssumption, TextNext
<1> QED BY <1>1, <1>2, PTL DEF ImplementsWords, Text!Spec, Text!ImplementsWords, Text!Abstract!Spec

-----------------------------------------------------------------------------
\* ssfn_utf8 of ssfn.c.
\* What a text is made of.
Chars == {Code!Broken} \cup 1 .. Code!MaxCode

\* The leading byte tells how many bytes follow.
LEMMA FollowingBytes ==
  /\ \A b \in 0 .. 127 : ~ Code!Has(b, 128) /\ Code!Following(b) = 0
  /\ \A b \in 192 .. 223 : Code!Has(b, 128) /\ Code!Following(b) = 1
  /\ \A b \in 224 .. 239 : Code!Has(b, 128) /\ Code!Following(b) = 2
  /\ \A b \in 240 .. 247 : Code!Has(b, 128) /\ Code!Following(b) = 3
  /\ Code!Has(255, 128) /\ Code!Following(255) = 0
<1>1. ASSUME NEW b \in 0 .. 127 PROVE ~ Code!Has(b, 128) /\ Code!Following(b) = 0
  BY DEF Code!Has, Code!Following
<1>2. ASSUME NEW b \in 192 .. 223 PROVE Code!Has(b, 128) /\ Code!Following(b) = 1
  <2>1. Code!Has(b, 128) /\ ~ Code!Has(b, 32) BY DEF Code!Has
  <2> QED BY <2>1 DEF Code!Following
<1>3. ASSUME NEW b \in 224 .. 239 PROVE Code!Has(b, 128) /\ Code!Following(b) = 2
  <2>1. Code!Has(b, 128) /\ Code!Has(b, 32) /\ ~ Code!Has(b, 16) BY DEF Code!Has
  <2> QED BY <2>1 DEF Code!Following
<1>4. ASSUME NEW b \in 240 .. 247 PROVE Code!Has(b, 128) /\ Code!Following(b) = 3
  <2>1. /\ Code!Has(b, 128) /\ Code!Has(b, 32) /\ Code!Has(b, 16) /\ ~ Code!Has(b, 8)
    BY DEF Code!Has
  <2> QED BY <2>1 DEF Code!Following
<1>5. Code!Has(255, 128) /\ Code!Following(255) = 0
  BY DEF Code!Has, Code!Following
<1> QED BY <1>1, <1>2, <1>3, <1>4, <1>5

\* The six bits of each byte that follows.
LEMMA RestBytes ==
  ASSUME NEW c \in Nat
  PROVE  /\ Code!Rest(c, 1) = <<128 + (c % 64)>>
         /\ Code!Rest(c, 2) = <<128 + ((c \div 64) % 64), 128 + (c % 64)>>
         /\ Code!Rest(c, 3) = <<128 + ((c \div 4096) % 64), 128 + ((c \div 64) % 64), 128 + (c % 64)>>
<1>1. 64 ^ 0 = 1 /\ 64 ^ 1 = 64 /\ 64 ^ 2 = 4096 OBVIOUS
<1>2. c \div 1 = c OBVIOUS
<1>3. 1 - 1 = 0 /\ 2 - 1 = 1 /\ 2 - 2 = 0 /\ 3 - 1 = 2 /\ 3 - 2 = 1 /\ 3 - 3 = 0 OBVIOUS
<1> DEFINE r(n, k) == 128 + ((c \div 64 ^ (n - k)) % 64)
<1>4. /\ r(1, 1) = 128 + (c % 64)
      /\ r(2, 1) = 128 + ((c \div 64) % 64) /\ r(2, 2) = 128 + (c % 64)
      /\ r(3, 1) = 128 + ((c \div 4096) % 64) /\ r(3, 2) = 128 + ((c \div 64) % 64)
      /\ r(3, 3) = 128 + (c % 64)
  BY <1>1, <1>2, <1>3
<1>5. \A n : Code!Rest(c, n) = [k \in 1 .. n |-> r(n, k)] BY DEF Code!Rest
<1> HIDE DEF r
<1>9. Code!Rest(c, 1) = [k \in 1 .. 1 |-> r(1, k)] BY <1>5
<1>10. Code!Rest(c, 2) = [k \in 1 .. 2 |-> r(2, k)] BY <1>5
<1>11. Code!Rest(c, 3) = [k \in 1 .. 3 |-> r(3, k)] BY <1>5
<1>6. [k \in 1 .. 1 |-> r(1, k)] = <<r(1, 1)>> OBVIOUS
<1>7. [k \in 1 .. 2 |-> r(2, k)] = <<r(2, 1), r(2, 2)>> OBVIOUS
<1>8. [k \in 1 .. 3 |-> r(3, k)] = <<r(3, 1), r(3, 2), r(3, 3)>> OBVIOUS
<1>12. Code!Rest(c, 1) = <<128 + (c % 64)>> BY <1>4, <1>6, <1>9
<1>13. Code!Rest(c, 2) = <<128 + ((c \div 64) % 64), 128 + (c % 64)>> BY <1>4, <1>7, <1>10
<1>14. Code!Rest(c, 3) = <<128 + ((c \div 4096) % 64), 128 + ((c \div 64) % 64), 128 + (c % 64)>>
  BY <1>4, <1>8, <1>11
<1> QED BY <1>12, <1>13, <1>14

\* A byte in front of one.
LEMMA JoinedTwo ==
  ASSUME NEW t \in Int, NEW u \in Int
  PROVE  <<t>> \o <<u>> = <<t, u>>
<1> DEFINE z == <<t>> \o <<u>>
<1>1. z \in Seq(Int) /\ Len(z) = 2 OBVIOUS
<1>2. z[1] = t /\ z[2] = u OBVIOUS
<1> HIDE DEF z
<1>3. z = [k \in 1 .. 2 |-> z[k]] BY <1>1
<1>4. [k \in 1 .. 2 |-> z[k]] = <<z[1], z[2]>> OBVIOUS
<1>5. z = <<t, u>> BY <1>2, <1>3, <1>4
<1> QED BY <1>5 DEF z

\* A byte in front of two.
LEMMA JoinedThree ==
  ASSUME NEW t \in Int, NEW u \in Int, NEW v \in Int
  PROVE  <<t>> \o <<u, v>> = <<t, u, v>>
<1> DEFINE z == <<t>> \o <<u, v>>
<1>1. z \in Seq(Int) /\ Len(z) = 3 OBVIOUS
<1>2. z[1] = t /\ z[2] = u /\ z[3] = v OBVIOUS
<1> HIDE DEF z
<1>3. z = [k \in 1 .. 3 |-> z[k]] BY <1>1
<1>4. [k \in 1 .. 3 |-> z[k]] = <<z[1], z[2], z[3]>> OBVIOUS
<1>5. z = <<t, u, v>> BY <1>2, <1>3, <1>4
<1> QED BY <1>5 DEF z

\* A byte in front of three.
LEMMA JoinedFour ==
  ASSUME NEW t \in Int, NEW u \in Int, NEW v \in Int, NEW w \in Int
  PROVE  <<t>> \o <<u, v, w>> = <<t, u, v, w>>
<1> DEFINE z == <<t>> \o <<u, v, w>>
<1>1. z \in Seq(Int) /\ Len(z) = 4 OBVIOUS
<1>2. z[1] = t /\ z[2] = u /\ z[3] = v /\ z[4] = w OBVIOUS
<1> HIDE DEF z
<1>3. z = [k \in 1 .. 4 |-> z[k]] BY <1>1
<1>4. [k \in 1 .. 4 |-> z[k]] = <<z[1], z[2], z[3], z[4]>> OBVIOUS
<1>5. z = <<t, u, v, w>> BY <1>2, <1>3, <1>4
<1> QED BY <1>5 DEF z

\* Encoded, byte by byte.  One byte.
LEMMA EncodedOne ==
  ASSUME NEW c \in Int, c < 128
  PROVE  Code!Encoded(c) = IF c = Code!Broken THEN <<255>> ELSE <<c>>
BY DEF Code!Encoded

\* Two of them.
LEMMA EncodedTwo ==
  ASSUME NEW c \in Int, 128 <= c, c < 2048
  PROVE  Code!Encoded(c) = <<192 + (c \div 64), 128 + (c % 64)>>
<1>1. c # Code!Broken /\ ~ (c < 128) /\ c \in Nat BY DEF Code!Broken
<1>2. Code!Encoded(c) = <<192 + (c \div 64)>> \o Code!Rest(c, 1)
  BY <1>1 DEF Code!Encoded
<1>3. Code!Rest(c, 1) = <<128 + (c % 64)>> BY <1>1, RestBytes
<1> DEFINE u == 192 + (c \div 64)  v == 128 + (c % 64)
<1>4. u \in Int /\ v \in Int OBVIOUS
<1>5. Code!Encoded(c) = <<u>> \o <<v>>
  <2> DEFINE p == <<192 + (c \div 64)>>  q == Code!Rest(c, 1)
  <2>1. Code!Encoded(c) = p \o q BY <1>2
  <2>2. q = <<v>> /\ p = <<u>> BY <1>3
  <2> HIDE DEF p, q, u, v
  <2> QED BY <2>1, <2>2
<1> DEFINE z == <<u>> \o <<v>>  e == Code!Encoded(c)
<1>6. e = z BY <1>5
<1>7. z = <<u, v>>
  <2> HIDE DEF u, v
  <2> QED BY <1>4, JoinedTwo
<1>8. e = <<u, v>>
  <2> HIDE DEF e, z, u, v
  <2> QED BY <1>6, <1>7
<1> QED BY <1>8

\* Three of them.
LEMMA EncodedThree ==
  ASSUME NEW c \in Int, 2048 <= c, c < 65536
  PROVE  Code!Encoded(c) = <<224 + (c \div 4096), 128 + ((c \div 64) % 64), 128 + (c % 64)>>
<1>1. c # Code!Broken /\ ~ (c < 128) /\ ~ (c < 2048) /\ c \in Nat BY DEF Code!Broken
<1>2. Code!Encoded(c) = <<224 + (c \div 64 ^ 2)>> \o Code!Rest(c, 2)
  BY <1>1 DEF Code!Encoded
<1>3. 64 ^ 2 = 4096 OBVIOUS
<1>4. Code!Rest(c, 2) = <<128 + ((c \div 64) % 64), 128 + (c % 64)>> BY <1>1, RestBytes
<1> DEFINE u == 224 + (c \div 4096)  v == 128 + ((c \div 64) % 64)  w == 128 + (c % 64)
<1>5. c \div 64 ^ 2 = c \div 4096 BY <1>3
<1>6. Code!Encoded(c) = <<u>> \o <<v, w>>
  <2> DEFINE p == <<224 + (c \div 64 ^ 2)>>  q == Code!Rest(c, 2)
  <2>1. Code!Encoded(c) = p \o q BY <1>2
  <2>2. q = <<v, w>> BY <1>4
  <2>3. p = <<u>> BY <1>5
  <2> HIDE DEF p, q, u, v, w
  <2> QED BY <2>1, <2>2, <2>3
<1>7. u \in Int /\ v \in Int /\ w \in Int OBVIOUS
<1>8. Code!Encoded(c) = <<u, v, w>>
  <2> HIDE DEF u, v, w
  <2> QED BY <1>6, <1>7, JoinedThree
<1> QED BY <1>8

\* Four of them.
LEMMA EncodedFour ==
  ASSUME NEW c \in Int, 65536 <= c
  PROVE  Code!Encoded(c) =
           <<240 + (c \div 262144), 128 + ((c \div 4096) % 64), 128 + ((c \div 64) % 64), 128 + (c % 64)>>
<1>1. c # Code!Broken /\ ~ (c < 128) /\ ~ (c < 2048) /\ ~ (c < 65536) /\ c \in Nat BY DEF Code!Broken
<1>2. Code!Encoded(c) = <<240 + (c \div 64 ^ 3)>> \o Code!Rest(c, 3)
  BY <1>1 DEF Code!Encoded
<1>3. 64 ^ 3 = 262144 OBVIOUS
<1>4. Code!Rest(c, 3) =
        <<128 + ((c \div 4096) % 64), 128 + ((c \div 64) % 64), 128 + (c % 64)>>
  BY <1>1, RestBytes
<1> DEFINE t == 240 + (c \div 262144)  u == 128 + ((c \div 4096) % 64)
           v == 128 + ((c \div 64) % 64)  w == 128 + (c % 64)
<1>5. c \div 64 ^ 3 = c \div 262144 BY <1>3
<1>6. Code!Encoded(c) = <<t>> \o <<u, v, w>>
  <2> DEFINE p == <<240 + (c \div 64 ^ 3)>>  q == Code!Rest(c, 3)
  <2>1. Code!Encoded(c) = p \o q BY <1>2
  <2>2. q = <<u, v, w>> BY <1>4
  <2>3. p = <<t>> BY <1>5
  <2> HIDE DEF p, q, t, u, v, w
  <2> QED BY <2>1, <2>2, <2>3
<1>7. t \in Int /\ u \in Int /\ v \in Int /\ w \in Int OBVIOUS
<1>8. Code!Encoded(c) = <<t, u, v, w>>
  <2> HIDE DEF t, u, v, w
  <2> QED BY <1>6, <1>7, JoinedFour
<1> QED BY <1>8

\* A number in digits of six bits.
LEMMA Sixes ==
  ASSUME NEW c \in Nat
  PROVE  /\ c % 64 \in 0 .. 63 /\ (c \div 64) % 64 \in 0 .. 63 /\ (c \div 4096) % 64 \in 0 .. 63
         /\ c = (c \div 64) * 64 + (c % 64)
         /\ c = (c \div 4096) * 4096 + ((c \div 64) % 64) * 64 + (c % 64)
         /\ c = (c \div 262144) * 262144 + ((c \div 4096) % 64) * 4096
                  + ((c \div 64) % 64) * 64 + (c % 64)
OBVIOUS

\* The bytes of e stand at the pointer.
StandsAt(e) == \A j \in 1 .. Len(e) : bytes[pointer + j - 1] = e[j]

\* One character, decoded.
Decoded(e, c) ==
  /\ e \in Seq(Nat) /\ Len(e) = 1 + Code!Following(bytes[pointer])
  /\ bytes[pointer] # 0 /\ Code!ssfn_utf8 = Code!Read(c)

\* ssfn_utf8 gives the character whose bytes stand at the pointer.
LEMMA CharDecoded ==
  ASSUME pointer \in Nat, NEW c \in Chars, StandsAt(Code!Encoded(c))
  PROVE  Decoded(Code!Encoded(c), c)
<1>1. CASE c = Code!Broken
  <2> DEFINE e == <<255>>
  <2>1. Code!Encoded(c) = e BY <1>1, EncodedOne DEF Code!Broken
  <2>2. bytes[pointer] = 255
    <3>1. Len(e) = 1 /\ e[1] = 255 /\ pointer + 1 - 1 = pointer OBVIOUS
    <3> QED BY <2>1, <3>1 DEF StandsAt
  <2>3. Code!ssfn_utf8 = 0
    BY <2>2, FollowingBytes DEF Code!ssfn_utf8
  <2> QED BY <1>1, <2>1, <2>2, <2>3, FollowingBytes DEF Decoded, Code!Read
<1>2. CASE c \in Int /\ 0 < c /\ c < 128
  <2> DEFINE e == <<c>>
  <2>1. Code!Encoded(c) = e BY <1>2, EncodedOne DEF Code!Broken
  <2>2. bytes[pointer] = c
    <3>1. Len(e) = 1 /\ e[1] = c /\ pointer + 1 - 1 = pointer OBVIOUS
    <3> QED BY <2>1, <3>1 DEF StandsAt
  <2>3. ~ Code!Has(c, 128) /\ Code!Following(c) = 0
    <3>1. c \in 0 .. 127 BY <1>2
    <3> QED BY <3>1, FollowingBytes
  <2>4. Code!ssfn_utf8 = c
    BY <2>2, <2>3 DEF Code!ssfn_utf8
  <2>5. c # Code!Broken BY <1>2 DEF Code!Broken
  <2> QED BY <1>2, <2>1, <2>2, <2>3, <2>4, <2>5 DEF Decoded, Code!Read
<1>3. CASE c \in Int /\ 128 <= c /\ c < 2048
  <2> DEFINE u == c \div 64  v == c % 64  e == <<192 + u, 128 + v>>
  <2>1. Code!Encoded(c) = e BY <1>3, EncodedTwo
  <2>2. u \in 0 .. 31 /\ v \in 0 .. 63 /\ c = u * 64 + v BY <1>3, Sixes
  <2> HIDE DEF u, v
  <2>3. bytes[pointer] = 192 + u /\ bytes[pointer + 1] = 128 + v
    <3>1. Len(e) = 2 /\ e[1] = 192 + u /\ e[2] = 128 + v /\ pointer + 1 - 1 = pointer
          /\ pointer + 2 - 1 = pointer + 1
      BY <2>2
    <3> QED BY <2>1, <3>1 DEF StandsAt
  <2>4. Code!Has(192 + u, 128) /\ Code!Following(192 + u) = 1
    <3>1. 192 + u \in 192 .. 223 BY <2>2
    <3> QED BY <3>1, FollowingBytes
  <2>5. Code!ssfn_utf8 = ((192 + u) % 32) * 64 + ((128 + v) % 64)
    BY <2>3, <2>4 DEF Code!ssfn_utf8
  <2>6. (192 + u) % 32 = u /\ (128 + v) % 64 = v BY <2>2
  <2>7. Code!ssfn_utf8 = c BY <2>2, <2>5, <2>6
  <2>8. c # Code!Broken BY <1>3 DEF Code!Broken
  <2>9. e \in Seq(Nat) /\ Len(e) = 2 /\ 192 + u # 0 BY <2>2
  <2> QED BY <2>1, <2>3, <2>4, <2>7, <2>8, <2>9 DEF Decoded, Code!Read
<1>4. CASE c \in Int /\ 2048 <= c /\ c < 65536
  <2> DEFINE u == c \div 4096  v == (c \div 64) % 64  w == c % 64
             e == <<224 + u, 128 + v, 128 + w>>
  <2>1. Code!Encoded(c) = e BY <1>4, EncodedThree
  <2>2. u \in 0 .. 15 /\ v \in 0 .. 63 /\ w \in 0 .. 63 /\ c = u * 4096 + v * 64 + w
    BY <1>4, Sixes
  <2> HIDE DEF u, v, w
  <2>3. bytes[pointer] = 224 + u /\ bytes[pointer + 1] = 128 + v /\ bytes[pointer + 2] = 128 + w
    <3>1. Len(e) = 3 /\ e[1] = 224 + u /\ e[2] = 128 + v /\ e[3] = 128 + w
          /\ pointer + 1 - 1 = pointer /\ pointer + 2 - 1 = pointer + 1 /\ pointer + 3 - 1 = pointer + 2
      BY <2>2
    <3> QED BY <2>1, <3>1 DEF StandsAt
  <2>4. Code!Has(224 + u, 128) /\ Code!Following(224 + u) = 2
    <3>1. 224 + u \in 224 .. 239 BY <2>2
    <3> QED BY <3>1, FollowingBytes
  <2>5. Code!ssfn_utf8 = ((224 + u) % 16) * 64 ^ 2 + ((128 + v) % 64) * 64 + ((128 + w) % 64)
    BY <2>3, <2>4 DEF Code!ssfn_utf8
  <2>6. (224 + u) % 16 = u /\ (128 + v) % 64 = v /\ (128 + w) % 64 = w /\ 64 ^ 2 = 4096 BY <2>2
  <2>7. Code!ssfn_utf8 = c BY <2>2, <2>5, <2>6
  <2>8. c # Code!Broken BY <1>4 DEF Code!Broken
  <2>9. e \in Seq(Nat) /\ Len(e) = 3 /\ 224 + u # 0 BY <2>2
  <2> QED BY <2>1, <2>3, <2>4, <2>7, <2>8, <2>9 DEF Decoded, Code!Read
<1>5. CASE c \in Int /\ 65536 <= c /\ c < 17 * 65536
  <2> DEFINE t == c \div 262144  u == (c \div 4096) % 64  v == (c \div 64) % 64  w == c % 64
             e == <<240 + t, 128 + u, 128 + v, 128 + w>>
  <2>1. Code!Encoded(c) = e BY <1>5, EncodedFour
  <2>2. /\ t \in 0 .. 7 /\ u \in 0 .. 63 /\ v \in 0 .. 63 /\ w \in 0 .. 63
        /\ c = t * 262144 + u * 4096 + v * 64 + w
    BY <1>5, Sixes
  <2> HIDE DEF t, u, v, w
  <2>3. /\ bytes[pointer] = 240 + t /\ bytes[pointer + 1] = 128 + u
        /\ bytes[pointer + 2] = 128 + v /\ bytes[pointer + 3] = 128 + w
    <3>1. /\ Len(e) = 4 /\ e[1] = 240 + t /\ e[2] = 128 + u /\ e[3] = 128 + v /\ e[4] = 128 + w
          /\ pointer + 1 - 1 = pointer /\ pointer + 2 - 1 = pointer + 1
          /\ pointer + 3 - 1 = pointer + 2 /\ pointer + 4 - 1 = pointer + 3
      BY <2>2
    <3> QED BY <2>1, <3>1 DEF StandsAt
  <2>4. Code!Has(240 + t, 128) /\ Code!Following(240 + t) = 3
    <3>1. 240 + t \in 240 .. 247 BY <2>2
    <3> QED BY <3>1, FollowingBytes
  <2>5. Code!ssfn_utf8 = ((240 + t) % 8) * 64 ^ 3 + ((128 + u) % 64) * 64 ^ 2
                           + ((128 + v) % 64) * 64 + ((128 + w) % 64)
    BY <2>3, <2>4 DEF Code!ssfn_utf8
  <2>6. /\ (240 + t) % 8 = t /\ (128 + u) % 64 = u /\ (128 + v) % 64 = v /\ (128 + w) % 64 = w
        /\ 64 ^ 3 = 262144 /\ 64 ^ 2 = 4096
    BY <2>2
  <2>7. Code!ssfn_utf8 = c BY <2>2, <2>5, <2>6
  <2>8. c # Code!Broken BY <1>5 DEF Code!Broken
  <2>9. e \in Seq(Nat) /\ Len(e) = 4 /\ 240 + t # 0 BY <2>2
  <2> QED BY <2>1, <2>3, <2>4, <2>7, <2>8, <2>9 DEF Decoded, Code!Read
<1>6. \/ c = Code!Broken
      \/ c \in Int /\ 0 < c /\ c < 17 * 65536
  <2>1. c = Code!Broken \/ c \in 1 .. Code!MaxCode BY DEF Chars
  <2> DEFINE m == Code!MaxCode
  <2>2. m \in Int /\ m < 17 * 65536 BY DEF Code!MaxCode
  <2> HIDE DEF m
  <2>3. c \in 1 .. m => c \in Int /\ 0 < c /\ c <= m OBVIOUS
  <2>4. c \in 1 .. m => c < 17 * 65536 BY <2>2, <2>3
  <2> QED BY <2>1, <2>3, <2>4 DEF m
<1> QED BY <1>1, <1>2, <1>3, <1>4, <1>5, <1>6

\* Every character is encoded in one to four bytes.
LEMMA EncodedBytes ==
  ASSUME NEW c \in Chars
  PROVE  Code!Encoded(c) \in Seq(Nat)
<1>1. c \in Int
  <2> DEFINE m == Code!MaxCode
  <2>1. c = Code!Broken \/ c \in 1 .. m BY DEF Chars
  <2>2. Code!Broken \in Int BY DEF Code!Broken
  <2> HIDE DEF m
  <2> QED BY <2>1, <2>2
<1>2. c = Code!Broken \/ 0 < c
  <2> DEFINE m == Code!MaxCode
  <2>1. c = Code!Broken \/ c \in 1 .. m BY DEF Chars
  <2> HIDE DEF m
  <2> QED BY <2>1, <1>1
<1>3. CASE c < 128
  <2>1. c \in Nat \/ c = Code!Broken BY <1>1, <1>2
  <2>2. <<255>> \in Seq(Nat) /\ (c \in Nat => <<c>> \in Seq(Nat)) OBVIOUS
  <2> QED BY <1>1, <1>3, <2>1, <2>2, EncodedOne
<1>4. CASE 128 <= c /\ c < 2048
  <2> DEFINE u == 192 + (c \div 64)  v == 128 + (c % 64)
  <2>1. Code!Encoded(c) = <<u, v>> BY <1>1, <1>4, EncodedTwo
  <2>2. u \in Nat /\ v \in Nat BY <1>1, <1>4
  <2> HIDE DEF u, v
  <2> QED BY <2>1, <2>2
<1>5. CASE 2048 <= c /\ c < 65536
  <2> DEFINE u == 224 + (c \div 4096)  v == 128 + ((c \div 64) % 64)  w == 128 + (c % 64)
  <2>1. Code!Encoded(c) = <<u, v, w>> BY <1>1, <1>5, EncodedThree
  <2>2. u \in Nat /\ v \in Nat /\ w \in Nat BY <1>1, <1>5
  <2> HIDE DEF u, v, w
  <2> QED BY <2>1, <2>2
<1>6. CASE 65536 <= c
  <2> DEFINE t == 240 + (c \div 262144)  u == 128 + ((c \div 4096) % 64)
             v == 128 + ((c \div 64) % 64)  w == 128 + (c % 64)
  <2>1. Code!Encoded(c) = <<t, u, v, w>> BY <1>1, <1>6, EncodedFour
  <2>2. t \in Nat /\ u \in Nat /\ v \in Nat /\ w \in Nat BY <1>1, <1>6
  <2> HIDE DEF t, u, v, w
  <2> QED BY <2>1, <2>2
<1> QED BY <1>1, <1>3, <1>4, <1>5, <1>6

\* f gives the encodings of the first characters of w, as many as its argument.
Flattens(f, w) ==
  f = [i \in 1 .. Len(w) |->
         IF i = 1 THEN Code!Encoded(w[i]) ELSE f[i - 1] \o Code!Encoded(w[i])]

\* There is one such function at most.
LEMMA FlattensOnce ==
  ASSUME NEW w \in Seq(Chars), NEW f, NEW g, Flattens(f, w), Flattens(g, w)
  PROVE  f = g
<1> DEFINE S == {i \in 1 .. Len(w) : f[i] # g[i]}
<1>1. ASSUME S # {} PROVE FALSE
  <2>1. S \in SUBSET Nat OBVIOUS
  <2>2. PICK x \in S : \A y \in S : x <= y BY <1>1, <2>1, LeastExists
  <2>3. x \in 1 .. Len(w) /\ f[x] # g[x] BY <2>2
  <2>4. x # 1 BY <2>3 DEF Flattens
  <2>5. x - 1 \in 1 .. Len(w) /\ x - 1 < x BY <2>3, <2>4
  <2>6. f[x - 1] = g[x - 1] BY <2>2, <2>5
  <2>7. /\ f[x] = f[x - 1] \o Code!Encoded(w[x])
        /\ g[x] = g[x - 1] \o Code!Encoded(w[x])
    BY <2>3, <2>4 DEF Flattens
  <2> QED BY <2>3, <2>6, <2>7
<1>2. \A i \in 1 .. Len(w) : f[i] = g[i] BY <1>1
<1>3. f = [i \in 1 .. Len(w) |-> f[i]] BY DEF Flattens
<1>4. g = [i \in 1 .. Len(w) |-> g[i]] BY DEF Flattens
<1> QED BY <1>2, <1>3, <1>4

\* It is what Encoding is made of.
LEMMA EncodingFlattens ==
  ASSUME NEW w \in Seq(Chars), w # <<>>, NEW f, Flattens(f, w)
  PROVE  Code!Encoding(w) = f[Len(w)]
<1> DEFINE q == [k \in DOMAIN w |-> Code!Encoded(w[k])]
           flat(g) == g = [i \in 1 .. Len(q) |-> IF i = 1 THEN q[i] ELSE g[i - 1] \o q[i]]
<1>1. Len(q) = Len(w) /\ Len(w) \in Nat \ {0} OBVIOUS
<1>2. \A g : flat(g) <=> Flattens(g, w)
  <2>1. \A i \in 1 .. Len(w) : q[i] = Code!Encoded(w[i]) OBVIOUS
  <2> HIDE DEF q
  <2> QED BY <1>1, <2>1 DEF Flattens
<1>3. Code!Encoding(w) = (CHOOSE g : flat(g))[Len(q)]
  BY <1>1 DEF Code!Encoding, Code!FlattenSeq
<1>4. flat(f)
  <2> HIDE DEF flat
  <2> QED BY <1>2
<1>5. flat(CHOOSE g : flat(g))
  <2> HIDE DEF flat
  <2> QED BY <1>4, Zenon
<1>6. (CHOOSE g : flat(g)) = f
  <2> HIDE DEF flat
  <2> QED BY <1>2, <1>5, FlattensOnce
<1> QED BY <1>1, <1>3, <1>6

\* No characters, no bytes.
LEMMA EncodingNone == Code!Encoding(<<>>) = <<>>
<1> DEFINE q == [k \in DOMAIN <<>> |-> Code!Encoded(<<>>[k])]
<1>1. q = <<>> OBVIOUS
<1>2. Code!Encoding(<<>>) = Code!FlattenSeq(q) BY DEF Code!Encoding
<1> HIDE DEF q
<1> QED BY <1>1, <1>2 DEF Code!FlattenSeq

\* One character more.
More(f, w, c) ==
  [i \in 1 .. Len(w) + 1 |->
     IF i <= Len(w) THEN f[i] ELSE IF i = 1 THEN Code!Encoded(c) ELSE f[i - 1] \o Code!Encoded(c)]

\* Its bytes go behind the others.
LEMMA FlattensMore ==
  ASSUME NEW w \in Seq(Chars), NEW c \in Chars, NEW f, Flattens(f, w)
  PROVE  Flattens(More(f, w, c), Append(w, c))
<1> DEFINE x == Append(w, c)  g == More(f, w, c)  n == Len(w)
<1>1. /\ n \in Nat /\ Len(x) = n + 1 /\ x[n + 1] = c
      /\ \A i \in 1 .. n : x[i] = w[i]
  OBVIOUS
<1>2. \A i \in 1 .. n : g[i] = f[i] BY <1>1 DEF More
<1>3. \A i \in 1 .. n : f[i] = IF i = 1 THEN Code!Encoded(w[i]) ELSE f[i - 1] \o Code!Encoded(w[i])
  BY DEF Flattens
<1>4. g[n + 1] = IF n + 1 = 1 THEN Code!Encoded(c) ELSE f[n] \o Code!Encoded(c)
  BY <1>1 DEF More
<1>5. g = [i \in 1 .. n + 1 |-> g[i]] BY DEF More
<1> HIDE DEF x, g, n
<1>6. ASSUME NEW i \in 1 .. n + 1
      PROVE  g[i] = IF i = 1 THEN Code!Encoded(x[i]) ELSE g[i - 1] \o Code!Encoded(x[i])
  <2>1. CASE i = n + 1
    <3>1. i # 1 => n \in 1 .. n /\ i - 1 = n BY <2>1, <1>1
    <3> QED BY <1>1, <1>2, <1>4, <2>1, <3>1
  <2>2. CASE i \in 1 .. n
    <3>1. i # 1 => i - 1 \in 1 .. n BY <2>2, <1>1
    <3> QED BY <1>1, <1>2, <1>3, <2>2, <3>1
  <2> QED BY <1>1, <2>1, <2>2
<1>7. Flattens(g, x) BY <1>1, <1>5, <1>6 DEF Flattens
<1> QED BY <1>7 DEF g, x

\* It exists for every text.
LEMMA FlattensExists == \A w \in Seq(Chars) : \E f : Flattens(f, w)
<1> DEFINE Bad == {w \in Seq(Chars) : ~ \E f : Flattens(f, w)}
           S == {Len(w) : w \in Bad}
<1>1. ASSUME Bad # {} PROVE FALSE
  <2>1. S \in SUBSET Nat /\ S # {}
    <3>1. \A w \in Bad : w \in Seq(Chars) OBVIOUS
    <3> HIDE DEF Bad
    <3>2. \A w \in Bad : Len(w) \in Nat BY <3>1
    <3>3. PICK w \in Bad : TRUE BY <1>1
    <3>4. Len(w) \in S BY <3>3
    <3> QED BY <3>2, <3>4
  <2>2. PICK n \in S : \A y \in S : n <= y BY <2>1, LeastExists
  <2>3. PICK w \in Bad : n = Len(w) BY <2>2
  <2>4. CASE w = <<>>
    <3> DEFINE f == [i \in 1 .. 0 |-> <<>>]
    <3>1. Len(w) = 0 BY <2>4
    <3>2. Flattens(f, w) BY <3>1 DEF Flattens
    <3> QED BY <2>3, <3>2
  <2>5. CASE w # <<>>
    <3>1. PICK v \in Seq(Chars), c \in Chars : w = Append(v, c)
      BY <2>3, <2>5, SequenceEmptyOrAppend
    <3>2. Len(v) < n /\ Len(v) \in Nat BY <2>3, <3>1
    <3>3. v \notin Bad BY <2>2, <3>2
    <3>4. PICK f : Flattens(f, v) BY <3>1, <3>3
    <3>5. Flattens(More(f, v, c), w) BY <3>1, <3>4, FlattensMore
    <3> QED BY <2>3, <3>5
  <2> QED BY <2>4, <2>5
<1> QED BY <1>1

\* The encoding of a text goes on with that of its next character.
LEMMA EncodingMore ==
  ASSUME NEW w \in Seq(Chars), NEW c \in Chars
  PROVE  Code!Encoding(Append(w, c)) = Code!Encoding(w) \o Code!Encoded(c)
<1> DEFINE n == Len(w)  x == Append(w, c)
<1>1. PICK f : Flattens(f, w) BY FlattensExists
<1>2. Flattens(More(f, w, c), x) BY <1>1, FlattensMore
<1>3. x \in Seq(Chars) /\ x # <<>> /\ Len(x) = n + 1 /\ n \in Nat OBVIOUS
<1>4. Code!Encoding(x) = More(f, w, c)[n + 1] BY <1>2, <1>3, EncodingFlattens
<1>5. More(f, w, c)[n + 1] = IF n + 1 = 1 THEN Code!Encoded(c) ELSE f[n] \o Code!Encoded(c)
  BY <1>3 DEF More
<1>6. CASE n = 0
  <2>1. w = <<>> BY <1>6
  <2>2. <<>> \o Code!Encoded(c) = Code!Encoded(c) BY EncodedBytes, ConcatEmptySeq
  <2>3. Code!Encoding(x) = Code!Encoded(c) BY <1>4, <1>5, <1>6
  <2>4. Code!Encoding(w) = <<>> BY <2>1, EncodingNone
  <2> HIDE DEF n
  <2> QED BY <2>2, <2>3, <2>4
<1>7. CASE n # 0
  <2>1. w # <<>> BY <1>7
  <2>2. Code!Encoding(w) = f[n] BY <1>1, <2>1, EncodingFlattens
  <2>3. n + 1 # 1 BY <1>3, <1>7
  <2> QED BY <1>4, <1>5, <2>2, <2>3
<1> QED BY <1>6, <1>7

\* The encoding is a string of bytes.
LEMMA EncodingBytes == \A w \in Seq(Chars) : Code!Encoding(w) \in Seq(Nat)
<1> DEFINE Bad == {w \in Seq(Chars) : Code!Encoding(w) \notin Seq(Nat)}
           S == {Len(w) : w \in Bad}
<1>1. ASSUME Bad # {} PROVE FALSE
  <2>1. S \in SUBSET Nat /\ S # {}
    <3>1. \A w \in Bad : w \in Seq(Chars) OBVIOUS
    <3> HIDE DEF Bad
    <3>2. \A w \in Bad : Len(w) \in Nat BY <3>1
    <3>3. PICK w \in Bad : TRUE BY <1>1
    <3>4. Len(w) \in S BY <3>3
    <3> QED BY <3>2, <3>4
  <2>2. PICK n \in S : \A y \in S : n <= y BY <2>1, LeastExists
  <2>3. PICK w \in Bad : n = Len(w) BY <2>2
  <2>4. w # <<>>
    <3>1. <<>> \in Seq(Nat) OBVIOUS
    <3> QED BY <2>3, <3>1, EncodingNone
  <2>5. PICK v \in Seq(Chars), c \in Chars : w = Append(v, c)
    BY <2>3, <2>4, SequenceEmptyOrAppend
  <2>6. Len(v) < n /\ Len(v) \in Nat BY <2>3, <2>5
  <2>7. Code!Encoding(v) \in Seq(Nat) BY <2>2, <2>5, <2>6
  <2>8. Code!Encoding(w) = Code!Encoding(v) \o Code!Encoded(c) BY <2>5, EncodingMore
  <2>9. Code!Encoded(c) \in Seq(Nat) BY EncodedBytes
  <2>10. \A a, b \in Seq(Nat) : a \o b \in Seq(Nat) OBVIOUS
  <2> QED BY <2>3, <2>7, <2>8, <2>9, <2>10
<1> QED BY <1>1

\* The first k characters of w.
UpTo(w, k) == SubSeq(w, 1, k)

\* Character by character they become the whole text.
LEMMA UpToNext ==
  ASSUME NEW w \in Seq(Chars)
  PROVE  /\ UpTo(w, 0) = <<>> /\ UpTo(w, Len(w)) = w
         /\ \A k \in 0 .. Len(w) : UpTo(w, k) \in Seq(Chars)
         /\ \A k \in 0 .. Len(w) - 1 : UpTo(w, k + 1) = Append(UpTo(w, k), w[k + 1])
<1>1. UpTo(w, 0) = <<>> BY DEF UpTo
<1>2. UpTo(w, Len(w)) = w BY SubSeqFull DEF UpTo
<1>3. ASSUME NEW k \in 0 .. Len(w) PROVE UpTo(w, k) \in Seq(Chars) BY DEF UpTo
<1>4. ASSUME NEW k \in 0 .. Len(w) - 1 PROVE UpTo(w, k + 1) = Append(UpTo(w, k), w[k + 1])
  BY DEF UpTo
<1> QED BY <1>1, <1>2, <1>3, <1>4

\* b begins with a.
Begins(a, b) == Len(a) <= Len(b) /\ \A j \in 1 .. Len(a) : b[j] = a[j]

\* The encoding of a text begins with that of its first characters.
LEMMA EncodingBegins ==
  ASSUME NEW w \in Seq(Chars), NEW k \in 0 .. Len(w)
  PROVE  Begins(Code!Encoding(UpTo(w, k)), Code!Encoding(w))
<1> DEFINE E(m) == Code!Encoding(UpTo(w, m))
           Bad == {m \in k .. Len(w) : ~ Begins(E(k), E(m))}
<1>1. \A m \in 0 .. Len(w) : E(m) \in Seq(Nat) BY UpToNext, EncodingBytes
<1>2. ASSUME Bad # {} PROVE FALSE
  <2>1. Bad \in SUBSET Nat OBVIOUS
  <2>2. PICK m \in Bad : \A y \in Bad : m <= y BY <1>2, <2>1, LeastExists
  <2>3. m \in k .. Len(w) /\ ~ Begins(E(k), E(m)) BY <2>2
  <2>4. m # k BY <2>3, <1>1 DEF Begins
  <2>5. m - 1 \in k .. Len(w) /\ m - 1 < m /\ m - 1 \in 0 .. Len(w) - 1 /\ (m - 1) + 1 = m
    BY <2>3, <2>4
  <2>6. Begins(E(k), E(m - 1)) BY <2>2, <2>5
  <2>7. E(m) = E(m - 1) \o Code!Encoded(w[m])
    <3>1. UpTo(w, m) = Append(UpTo(w, m - 1), w[m])
      <4> DEFINE i == m - 1
      <4>1. i \in 0 .. Len(w) - 1 /\ i + 1 = m BY <2>5
      <4> HIDE DEF i
      <4>2. UpTo(w, i + 1) = Append(UpTo(w, i), w[i + 1]) BY <4>1, UpToNext
      <4> QED BY <4>1, <4>2 DEF i
    <3>2. UpTo(w, m - 1) \in Seq(Chars) BY <2>5, UpToNext
    <3>3. w[m] \in Chars BY <2>3, <2>5
    <3> QED BY <3>1, <3>2, <3>3, EncodingMore
  <2>8. w[m] \in Chars BY <2>3, <2>5
  <2>9. Code!Encoded(w[m]) \in Seq(Nat) BY <2>8, EncodedBytes
  <2>10. E(m - 1) \in Seq(Nat) /\ E(k) \in Seq(Nat) BY <1>1, <2>5
  <2>11. \A a, b, c \in Seq(Nat) : Begins(a, b) => Begins(a, b \o c) BY DEF Begins
  <2> HIDE DEF E
  <2> QED BY <2>3, <2>6, <2>7, <2>9, <2>10, <2>11
<1>3. Begins(E(k), E(Len(w))) BY <1>2
<1> QED BY <1>3, UpToNext

\* What has been decoded, and where that left the pointer.
CodeInv ==
  /\ written \in Seq(Chars) /\ bytes = Append(Code!Encoding(written), 0)
  /\ decoded \in Seq(Int) /\ Len(decoded) <= Len(written)
  /\ \A k \in 1 .. Len(decoded) : decoded[k] = Code!Read(written[k])
  /\ pointer = 1 + Len(Code!Encoding(UpTo(written, Len(decoded))))

\* While characters are left, the next one's bytes stand at the pointer.
LEMMA NextStands ==
  ASSUME CodeInv, Len(decoded) # Len(written)
  PROVE  /\ pointer \in Nat
         /\ written[Len(decoded) + 1] \in Chars
         /\ StandsAt(Code!Encoded(written[Len(decoded) + 1]))
         /\ Code!Encoding(UpTo(written, Len(decoded) + 1)) =
              Code!Encoding(UpTo(written, Len(decoded)))
                \o Code!Encoded(written[Len(decoded) + 1])
<1> DEFINE n == Len(decoded)  w == written  c == written[n + 1]
           a == Code!Encoding(UpTo(w, n))  b == Code!Encoded(c)  all == Code!Encoding(w)
<1>1. w \in Seq(Chars) /\ n \in 0 .. Len(w) - 1 /\ n + 1 \in 0 .. Len(w) /\ n \in 0 .. Len(w)
  BY DEF CodeInv
<1>2. c \in Chars BY <1>1
<1>3. UpTo(w, n) \in Seq(Chars) /\ UpTo(w, n + 1) = Append(UpTo(w, n), c) BY <1>1, UpToNext
<1>4. Code!Encoding(UpTo(w, n + 1)) = a \o b BY <1>2, <1>3, EncodingMore
<1>5. a \in Seq(Nat) /\ b \in Seq(Nat) /\ all \in Seq(Nat)
  BY <1>1, <1>2, <1>3, EncodingBytes, EncodedBytes
<1>6. Begins(a \o b, all) BY <1>1, <1>4, EncodingBegins
<1>7. bytes = Append(all, 0) /\ pointer = 1 + Len(a) BY DEF CodeInv
<1>8. StandsAt(b)
  <2> HIDE DEF a, b, all
  <2> SUFFICES ASSUME NEW j \in 1 .. Len(b) PROVE bytes[pointer + j - 1] = b[j] BY DEF StandsAt
  <2>1. Len(a) \in Nat /\ Len(b) \in Nat /\ Len(all) \in Nat /\ Len(a \o b) = Len(a) + Len(b) BY <1>5
  <2>2. pointer + j - 1 = Len(a) + j BY <2>1, <1>7
  <2>3. Len(a) + j \in 1 .. Len(a \o b) /\ Len(a) + j \in 1 .. Len(all) BY <2>1, <1>6 DEF Begins
  <2>4. (a \o b)[Len(a) + j] = b[j] BY <1>5
  <2>5. all[Len(a) + j] = (a \o b)[Len(a) + j] BY <2>3, <1>6 DEF Begins
  <2>6. Append(all, 0)[Len(a) + j] = all[Len(a) + j] BY <2>3, <1>5
  <2> QED BY <1>7, <2>2, <2>4, <2>5, <2>6
<1>9. pointer \in Nat BY <1>5, <1>7
<1> QED BY <1>2, <1>4, <1>8, <1>9

\* At the end of the text the pointer is at the NUL, and not before.
LEMMA EndsAtNul ==
  ASSUME CodeInv
  PROVE  bytes[pointer] = 0 <=> Len(decoded) = Len(written)
<1>1. ASSUME Len(decoded) = Len(written) PROVE bytes[pointer] = 0
  <2> DEFINE all == Code!Encoding(written)
  <2>1. written \in Seq(Chars) /\ bytes = Append(all, 0) BY DEF CodeInv
  <2>2. pointer = 1 + Len(all) BY <1>1, <2>1, UpToNext DEF CodeInv
  <2>3. all \in Seq(Nat) BY <2>1, EncodingBytes
  <2> HIDE DEF all
  <2> QED BY <2>1, <2>2, <2>3
<1>2. ASSUME Len(decoded) # Len(written) PROVE bytes[pointer] # 0
  <2> DEFINE c == written[Len(decoded) + 1]
  <2>1. pointer \in Nat /\ c \in Chars /\ StandsAt(Code!Encoded(c)) BY <1>2, NextStands
  <2>2. Decoded(Code!Encoded(c), c) BY <2>1, CharDecoded
  <2> QED BY <2>2 DEF Decoded
<1> QED BY <1>1, <1>2

\* Before the first call nothing is decoded.
LEMMA CodeInit == Code!Init => CodeInv
<1> SUFFICES ASSUME Code!Init PROVE CodeInv OBVIOUS
<1>1. written \in Seq(Chars)
  <2>1. written \in Texts BY DEF Code!Init
  <2>2. written \in Seq(Int) BY <2>1, CodeAssumption DEF Code!ConstantsFit
  <2>3. \A k \in DOMAIN written : written[k] \in Chars
    BY <2>1, CodeAssumption DEF Code!ConstantsFit, Chars
  <2> QED BY <2>2, <2>3
<1>2. UpTo(written, 0) = <<>> BY <1>1, UpToNext
<1>3. decoded = <<>> /\ Len(decoded) = 0 /\ decoded \in Seq(Int) BY DEF Code!Init
<1>4. Len(Code!Encoding(<<>>)) = 0 BY EncodingNone
<1>5. Len(written) \in Nat BY <1>1
<1> QED BY <1>1, <1>2, <1>3, <1>4, <1>5 DEF Code!Init, CodeInv

\* A call of ssfn_utf8 takes the next character.
LEMMA CodeNext == CodeInv /\ [Code!Next]_(Code!vars) => CodeInv'
<1> SUFFICES ASSUME CodeInv, [Code!Next]_(Code!vars) PROVE CodeInv' OBVIOUS
<1>1. CASE UNCHANGED Code!vars
  BY <1>1 DEF Code!vars, CodeInv, UpTo
<1>2. CASE Code!Decode
  <2> DEFINE n == Len(decoded)  c == written[n + 1]
  <2>1. bytes[pointer] # 0 BY <1>2 DEF Code!Decode
  <2>2. n # Len(written) BY <2>1, EndsAtNul
  <2>3. /\ pointer \in Nat /\ c \in Chars /\ StandsAt(Code!Encoded(c))
        /\ Code!Encoding(UpTo(written, n + 1)) = Code!Encoding(UpTo(written, n)) \o Code!Encoded(c)
    BY <2>2, NextStands
  <2>4. Decoded(Code!Encoded(c), c) BY <2>3, CharDecoded
  <2>5. /\ decoded' = Append(decoded, Code!Read(c))
        /\ pointer' = pointer + 1 + Code!Following(bytes[pointer])
        /\ written' = written /\ bytes' = bytes
    BY <1>2, <2>4 DEF Code!Decode, Decoded
  <2>6. decoded \in Seq(Int) /\ n \in Nat /\ Len(written) \in Nat /\ n <= Len(written)
    BY DEF CodeInv
  <2>7. Code!Read(c) \in Int
    <3> DEFINE m == Code!MaxCode
    <3>1. c = Code!Broken \/ c \in 1 .. m BY <2>3 DEF Chars
    <3> HIDE DEF m
    <3> QED BY <3>1 DEF Code!Read
  <2>8. decoded' \in Seq(Int) /\ Len(decoded') = n + 1 /\ n + 1 <= Len(written)
    BY <2>2, <2>5, <2>6, <2>7
  <2>9. \A k \in 1 .. n + 1 : decoded'[k] = Code!Read(written[k])
    <3> SUFFICES ASSUME NEW k \in 1 .. n + 1 PROVE decoded'[k] = Code!Read(written[k]) OBVIOUS
    <3>1. CASE k = n + 1 BY <3>1, <2>5, <2>6, <2>7
    <3>2. CASE k \in 1 .. n
      <4>1. decoded'[k] = decoded[k] BY <3>2, <2>5, <2>6, <2>7
      <4>2. decoded[k] = Code!Read(written[k]) BY <3>2 DEF CodeInv
      <4> QED BY <4>1, <4>2
    <3> QED BY <3>1, <3>2, <2>6
  <2>10. pointer' = 1 + Len(Code!Encoding(UpTo(written, n + 1)))
    <3> DEFINE a == Code!Encoding(UpTo(written, n))  b == Code!Encoded(c)
    <3>1. a \in Seq(Nat) /\ b \in Seq(Nat)
      <4>1. written \in Seq(Chars) /\ n \in 0 .. Len(written) BY <2>6 DEF CodeInv
      <4> QED BY <4>1, <2>3, UpToNext, EncodingBytes, EncodedBytes
    <3>2. Len(b) = 1 + Code!Following(bytes[pointer]) BY <2>4 DEF Decoded
    <3>3. pointer = 1 + Len(a) BY DEF CodeInv
    <3>4. Code!Encoding(UpTo(written, n + 1)) = a \o b BY <2>3
    <3>5. Len(a \o b) = Len(a) + Len(b) /\ Len(a) \in Nat /\ Len(b) \in Nat BY <3>1
    <3> DEFINE f == Code!Following(bytes[pointer])
    <3>6. pointer' = pointer + 1 + f BY <2>5
    <3> HIDE DEF a, b, f
    <3>7. f = Len(b) - 1 \/ f \in Int BY DEF f, Code!Following
    <3> QED BY <3>2, <3>3, <3>4, <3>5, <3>6, <3>7 DEF f
  <2> QED BY <2>5, <2>8, <2>9, <2>10 DEF CodeInv, UpTo
<1> QED BY <1>1, <1>2 DEF Code!Next

(***************************************************************************)
(* Whatever the text, with bytes that begin no sequence among its          *)
(* characters, and whatever the lengths of their sequences: ssfn_utf8      *)
(* gives every code point in turn, leaves the pointer at the next leading  *)
(* byte and comes to the NUL with the last one.                            *)
(***************************************************************************)
THEOREM DecodesAll == Code!Spec => []DecodesWritten
<1>1. Code!Init => CodeInv BY CodeInit
<1>2. CodeInv /\ [Code!Next]_(Code!vars) => CodeInv' BY CodeNext
<1>3. CodeInv => DecodesWritten
  BY EndsAtNul DEF CodeInv, DecodesWritten, Code!DecodesWritten, UpTo
<1> QED BY <1>1, <1>2, <1>3, PTL DEF Code!Spec

=============================================================================
