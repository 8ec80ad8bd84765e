------------------------------ MODULE MCLeaves ------------------------------
(***************************************************************************)
(* An instance of Leaves, with the numerals as the fifth part.  In a       *)
(* behaviour one of the five works and the others rest in an initial       *)
(* state, so that one run checks them all.                                 *)
(***************************************************************************)
EXTENDS Leaves

VARIABLES
  works,                                    \* the one that works
  number, step, buff, sum, at, cp, frac, n  \* Numerals

entry_vars == <<entry, set, addr, clipped>>
string_vars == <<mem, last, given, place, call, answer>>
utf8_vars == <<written, bytes, pointer, decoded>>
number_vars == <<number, step, buff, sum, at, cp, frac, n>>
gate_vars == <<pc, gate, cs, ds, gdt, idt, loaded, handler>>
leaf_vars == <<works, entry_vars, string_vars, utf8_vars, number_vars, gate_vars>>

-----------------------------------------------------------------------------
\* Page-table entries have the widths of the code.  One flag, the two the kernel
\* sets together, two others.
SomeMasks == {{0}, {0, 1}, {5}, {7}}

\* Frame numbers below 4 GiB, on both sides of it, and one too large.
SomeAddresses == {{}, {0, 19}, {19, 20}, {39}, {3, 20, 40, 51}}

\* A cleared entry, and words with bits outside flags and address.
SomeWords == {{}, {1, 9, 31, 63}, 0 .. 63}

\* A buffer of five bytes and one of two; a comma, a letter, a character with
\* its top bit set; no delimiter, one, and two.
SomeSizes == [long |-> 5, short |-> 2]
SomeDelims == {{}, {44}, {44, 200}}

\* Texts of up to three characters, from both ends of every length.
SomeTexts ==
  UNION {[1 .. k -> {1, 127, 128, 2047, 2048, 65535, 65536, 1114111, -1}] : k \in 0 .. 3}

\* Addresses with bits on both sides of the parts they are cut into, over a frame
\* that was clear, or full of ones.
SomeOffsets == {{4, 15}, {12, 16, 31}, {0, 32, 63}}
SomeLeftovers == {{}, 0 .. 127}

\* A long of eight bits, all of whose values are written; doubles in eighths, the
\* largest and the smallest that have a whole part of eight bits among them.
Numeral == INSTANCE Numerals WITH
  call <- number, pc <- step, Width <- 8, Bases <- {2, 8, 10, 16, 36},
  Parts <- 8, Doubles <- (-1024 .. -1017) \cup (-40 .. 40) \cup (1016 .. 1023),
  Places <- {0, 1, 2, 4}, Capacity <- 10

ASSUME NumeralAssumption == Numeral!ConstantsFit

-----------------------------------------------------------------------------
\* Each of them at rest.
EntryRests == entry = {} /\ Init
TextRests == place = "short" /\ mem = [long |-> <<0, 0, 0, 0, 0>>, short |-> <<0, 0>>] /\ Text!Init
CodeRests == written = <<>> /\ Code!Init
NumeralRests == number = [f |-> "itoa", v |-> 0, base |-> 10, n |-> 0] /\ Numeral!Init
TableRests ==
  /\ handler = [v \in Table!Vectors |-> {4, 15}] /\ idt = [v \in Table!Vectors |-> {}]
  /\ Table!Init

LeavesInit ==
  \/ works = "entry" /\ Init /\ TextRests /\ CodeRests /\ NumeralRests /\ TableRests
  \/ works = "text" /\ EntryRests /\ Text!Init /\ CodeRests /\ NumeralRests /\ TableRests
  \/ works = "code" /\ EntryRests /\ TextRests /\ Code!Init /\ NumeralRests /\ TableRests
  \/ works = "numeral" /\ EntryRests /\ TextRests /\ CodeRests /\ Numeral!Init /\ TableRests
  \/ works = "table" /\ EntryRests /\ TextRests /\ CodeRests /\ NumeralRests /\ Table!Init

LeavesNext ==
  /\ UNCHANGED works
  /\ \/ /\ works = "entry" /\ Next
        /\ UNCHANGED <<string_vars, utf8_vars, number_vars, gate_vars>>
     \/ /\ works = "text" /\ Text!Next
        /\ UNCHANGED <<entry_vars, utf8_vars, number_vars, gate_vars>>
     \/ /\ works = "code" /\ Code!Next
        /\ UNCHANGED <<entry_vars, string_vars, number_vars, gate_vars>>
     \/ /\ works = "numeral" /\ Numeral!Next
        /\ UNCHANGED <<entry_vars, string_vars, utf8_vars, gate_vars>>
     \/ /\ works = "table" /\ Table!Next
        /\ UNCHANGED <<entry_vars, string_vars, utf8_vars, number_vars>>

LeavesSpec == LeavesInit /\ [][LeavesNext]_leaf_vars

-----------------------------------------------------------------------------
\* itoa, itoas and ftoan write what reads back as the number.
NumeralReadsBack == Numeral!NumeralReadsBack

=============================================================================
