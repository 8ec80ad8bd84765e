----------------------------- MODULE PageEntry -----------------------------
(***************************************************************************)
(* An entry of a page table, as pmm_flag_set, pmm_flag_get, pmm_addr_set   *)
(* and pmm_addr_get of page_map.c read and write it.  A word is the set of *)
(* the positions of its bits.                                              *)
(***************************************************************************)
EXTENDS Integers

CONSTANTS
  Flags,      \* the positions of the flags, 0 .. 7
  LowBits,    \* bits of an enumerator, 32
  First,      \* the lowest bit of the address field, 12
  AddrBits,   \* the bits of the field, 40
  WordBits,   \* the bits of an entry, 64
  Masks,      \* the flags callers name together
  Addresses,  \* the frame numbers they enter
  Words       \* what an entry may hold at first

ASSUME EntryAssumption ==
  /\ {LowBits, First, AddrBits, WordBits} \subseteq Nat
  /\ Flags \subseteq 0 .. First - 1
  /\ First <= LowBits /\ First + AddrBits <= WordBits
  /\ Masks \subseteq SUBSET Flags /\ Addresses \subseteq SUBSET (0 .. WordBits - 1)
  /\ Words \subseteq SUBSET (0 .. WordBits - 1)

VARIABLES
  entry,   \* the entry
  set,     \* the flags as they were last set or cleared
  addr,    \* the frame number last entered
  clipped  \* a flag has been cleared since

vars == <<entry, set, addr, clipped>>

Shifted(w, n) == {b + n : b \in w}
Field == First .. First + AddrBits - 1

-----------------------------------------------------------------------------
\* ~bit_mask is an unsigned int: the bits of the entry above it are lost.
pmm_flag_set(e, mask, val) ==
  IF val THEN e \cup mask ELSE e \cap ((0 .. LowBits - 1) \ mask)

pmm_flag_get(e, mask) == mask \subseteq e

\* A mutation: the old address is not taken out first.
pmm_addr_set_over_old(e, a) == e \cup Shifted(a \cap (0 .. AddrBits - 1), First)

\* The address is cut to its field, and nothing else in the entry changes.
pmm_addr_set(e, a) == (e \ Field) \cup Shifted(a \cap (0 .. AddrBits - 1), First)

pmm_addr_get(e) == Shifted(e \cap Field, -First)

-----------------------------------------------------------------------------
\* What an entry says before anybody writes to it.
Init ==
  /\ entry \in Words
  /\ set = entry \cap Flags
  /\ addr = pmm_addr_get(entry) /\ clipped = FALSE

SetFlags(mask, val) ==
  /\ entry' = pmm_flag_set(entry, mask, val)
  /\ set' = IF val THEN set \cup mask ELSE set \ mask
  /\ clipped' = (clipped \/ ~ val)
  /\ UNCHANGED addr

SetAddress(a) ==
  /\ entry' = pmm_addr_set(entry, a)
  /\ addr' = a \cap (0 .. AddrBits - 1) /\ clipped' = FALSE
  /\ UNCHANGED set

Next ==
  \/ \E mask \in Masks, val \in BOOLEAN : SetFlags(mask, val)
  \/ \E a \in Addresses : SetAddress(a)

Spec == Init /\ [][Next]_vars

-----------------------------------------------------------------------------
(***************************************************************************)
(* Flags and address share a word and do not disturb each other, in any    *)
(* order of calls: a flag reads as it was last set or cleared, alone and   *)
(* with others, and the address as it was entered, cut to its field; but   *)
(* pmm_flag_set takes the address bits above 4 GiB away when it clears a   *)
(* flag.  The kernel only ever sets flags.                                 *)
(***************************************************************************)
EntryReadsBack ==
  /\ \A mask \in SUBSET Flags : pmm_flag_get(entry, mask) <=> mask \subseteq set
  /\ pmm_addr_get(entry) =
       addr \cap (IF clipped THEN 0 .. LowBits - First - 1 ELSE 0 .. AddrBits - 1)

=============================================================================
