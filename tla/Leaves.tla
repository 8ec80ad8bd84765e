------------------------------- MODULE Leaves -------------------------------
(***************************************************************************)
(* The code that calls nothing else and shares no state, side by side: the *)
(* entries of page tables, the descriptors, strings, UTF-8.                *)
(***************************************************************************)
EXTENDS PageEntry, Sequences

CONSTANTS
  Offsets, Leftovers,             \* of Gates
  Places, Size, Letters, Delims,  \* of Strings
  Texts                           \* of Utf8

VARIABLES
  pc, gate, cs, ds, gdt, idt, loaded, handler,  \* of Gates
  mem, last, given, place, call, answer,        \* of Strings
  written, bytes, pointer, decoded              \* of Utf8

Table == INSTANCE Gates
Text == INSTANCE Strings
Code == INSTANCE Utf8 WITH s <- pointer

ASSUME TableAssumption == Table!ConstantsFit
ASSUME TextAssumption == Text!ConstantsFit
ASSUME CodeAssumption == Code!ConstantsFit

-----------------------------------------------------------------------------
\* Their properties, stated and explained in their modules; EntryReadsBack is one
\* more.  Every gate init_idt writes takes the processor to its handler.
GatesEnterHandlers == Table!GatesEnterHandlers

\* strtok splits texts into words and keeps nothing of an old text.
ImplementsWords == Text!ImplementsWords

\* ssfn_utf8 decodes what was encoded, up to the terminator.
DecodesWritten == Code!DecodesWritten

=============================================================================
