------------------------------- MODULE Gates -------------------------------
(***************************************************************************)
(* The descriptor tables: gdt.c, idt.h, idt.c, the parts of init_gdt and   *)
(* init_idt of kernel.c that fill and load them, set_gdt and set_idt of    *)
(* asm_utils.asm.  A descriptor is the set of the positions of its bits;   *)
(* the processor reads it its own way.                                     *)
(***************************************************************************)
EXTENDS Integers, Sequences

CONSTANTS
  Offsets,   \* addresses a handler may have, as sets of bits
  Leftovers  \* what the frame of the interrupt table may hold, per gate

\* What the constants have to be.
ConstantsFit ==
  /\ Offsets \subseteq SUBSET (0 .. 63) /\ Leftovers \subseteq SUBSET (0 .. 127)

VARIABLES
  pc,
  gate,     \* the gate being written
  cs, ds,   \* selectors, 0 while they are the firmware's
  gdt,      \* the table gdtr points to, empty while it is the firmware's
  idt,      \* the frame of the interrupt table
  loaded,   \* idtr points to it
  handler   \* where the compiler put each handler

vars == <<pc, gate, cs, ds, gdt, idt, loaded, handler>>

\* The gates in the order init_idt writes them.
Installed == <<14, 8, 13, 32, 33>>
Vectors == {Installed[i] : i \in DOMAIN Installed}

\* The bits of a number, from bit n on.
BitsOf(v, n) == {n + k : k \in {k \in 0 .. 15 : (v \div 2 ^ k) % 2 = 1}}
Shifted(w, n) == {b + n : b \in w}

Init ==
  /\ pc = "gdt" /\ gate = 1
  /\ cs = 0 /\ ds = 0 /\ gdt = <<>>
  /\ idt \in [Vectors -> Leftovers] /\ loaded = FALSE
  /\ handler \in [Vectors -> Offsets]

-----------------------------------------------------------------------------
\* A segment descriptor, field by field: limit0, base0, base1, accessbyte,
\* limit1_flags, base2.
GDTEntry(limit0, base0, base1, accessbyte, limit1_flags, base2) ==
  BitsOf(limit0, 0) \cup BitsOf(base0, 16) \cup BitsOf(base1, 32)
    \cup BitsOf(accessbyte, 40) \cup BitsOf(limit1_flags, 48) \cup BitsOf(base2, 56)

Null == GDTEntry(0, 0, 0, 0, 0, 0)
Code == GDTEntry(0, 0, 0, 154, 160, 0)   \* 0x9a, 0xa0
Data == GDTEntry(0, 0, 0, 146, 160, 0)   \* 0x92, 0xa0

DEFAULT_GDT == <<Null, Code, Data, Null, Code, Data>>

IDT_INTERRUPT_GATE == 142   \* 0x8E
IDT_TRAP_GATE == 143        \* 0x8F

\* A mutation: the middle part of the offset is not shifted down.
IDT_CREATE_ENTRY_unshifted(offset, selector, ist, type_attr) ==
  (offset \cap (0 .. 15))
    \cup BitsOf(selector, 16) \cup BitsOf(ist, 32)
    \cup BitsOf(IF type_attr \in {IDT_INTERRUPT_GATE, IDT_TRAP_GATE} THEN type_attr ELSE 0, 40)
    \cup Shifted(offset \cap (0 .. 15), 48)
    \cup Shifted(Shifted(offset, -32) \cap (0 .. 31), 64)

\* A gate, field by field: offset_0, selector, ist, type_attributes, offset_1,
\* offset_2; no other type than the two is let through.
IDT_CREATE_ENTRY(offset, selector, ist, type_attr) ==
  (offset \cap (0 .. 15))
    \cup BitsOf(selector, 16) \cup BitsOf(ist, 32)
    \cup BitsOf(IF type_attr \in {IDT_INTERRUPT_GATE, IDT_TRAP_GATE} THEN type_attr ELSE 0, 40)
    \cup Shifted(Shifted(offset, -16) \cap (0 .. 15), 48)
    \cup Shifted(Shifted(offset, -32) \cap (0 .. 31), 64)

\* set_gdt: the data selectors, and by a far return the code selector.
LoadGdt ==
  /\ pc = "gdt"
  /\ gdt' = DEFAULT_GDT /\ ds' = 16 /\ cs' = 8
  /\ pc' = "gates"
  /\ UNCHANGED <<gate, idt, loaded, handler>>

\* init_idt: one gate after another.
InstallGate ==
  /\ pc = "gates" /\ gate <= Len(Installed)
  /\ LET v == Installed[gate]
     IN  idt' = [idt EXCEPT ![v] = IDT_CREATE_ENTRY(handler[v], 8, 0, IDT_INTERRUPT_GATE)]
  /\ gate' = gate + 1
  /\ UNCHANGED <<pc, cs, ds, gdt, loaded, handler>>

LoadIdt ==
  /\ pc = "gates" /\ gate > Len(Installed)
  /\ loaded' = TRUE /\ pc' = "done"
  /\ UNCHANGED <<gate, cs, ds, gdt, idt, handler>>

Next == LoadGdt \/ InstallGate \/ LoadIdt

Spec == Init /\ [][Next]_vars

-----------------------------------------------------------------------------
(* How the processor reads the tables.                                     *)

Selectors == {8 * k : k \in 0 .. Len(gdt) - 1}
Segment(sel) == gdt[sel \div 8 + 1]

\* Present, a code segment, of 64 bits; present, a data segment, writable.
IsCode(sel) == {43, 44, 47, 53} \subseteq Segment(sel) /\ 54 \notin Segment(sel)
IsData(sel) == {41, 44, 47} \subseteq Segment(sel) /\ 43 \notin Segment(sel)

GateSelector(g) == CHOOSE sel \in Selectors : BitsOf(sel, 16) = g \cap (16 .. 31)
GateOffset(g) == (g \cap (0 .. 15)) \cup Shifted(g \cap (48 .. 63), -32)
                   \cup Shifted(g \cap (64 .. 95), -32)

\* An interrupt gate turns interrupts off; a trap gate has bit 40 set too.
IsInterruptGate(g) == 47 \in g /\ g \cap (40 .. 44) = {41, 42, 43}

(***************************************************************************)
(* Whatever the frame of the table held, once it is loaded every gate the  *)
(* kernel writes is one the processor takes: to its handler, in a code     *)
(* segment of the table set_gdt loaded, with interrupts off and on the     *)
(* stack in use, as the handlers take for granted.                         *)
(***************************************************************************)
GatesEnterHandlers ==
  loaded =>
    /\ cs \in Selectors /\ IsCode(cs) /\ ds \in Selectors /\ IsData(ds)
    /\ \A v \in Vectors :
         /\ IsInterruptGate(idt[v])
         /\ \E sel \in Selectors : BitsOf(sel, 16) = idt[v] \cap (16 .. 31)
         /\ IsCode(GateSelector(idt[v]))
         /\ GateOffset(idt[v]) = handler[v]
         /\ idt[v] \cap (32 .. 34) = {}

=============================================================================
