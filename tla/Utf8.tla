-------------------------------- MODULE Utf8 --------------------------------
(***************************************************************************)
(* ssfn_utf8 of ssfn.c, which takes one character off a string in UTF-8.   *)
(* Nothing in the kernel calls it yet: the console draws single bytes.     *)
(***************************************************************************)
EXTENDS Integers, Sequences, SequencesExt

CONSTANTS
  Texts   \* what is encoded: sequences of code points, Broken among them

MaxCode == 17 * 65536 - 1  \* the last code point: seventeen planes of 2^16

Broken == -1   \* a byte that begins no sequence, 0xF8 or above

\* What the constant has to be.
ConstantsFit ==
  /\ Texts \subseteq Seq(Int)
  /\ \A t \in Texts : \A k \in DOMAIN t : t[k] = Broken \/ t[k] \in 1 .. MaxCode

VARIABLES
  written,  \* the text
  bytes,    \* its encoding, with a NUL behind it
  s,        \* the pointer
  decoded   \* what was decoded so far

vars == <<written, bytes, s, decoded>>

-----------------------------------------------------------------------------
\* The encoding as the standard defines it: a leading byte whose top bits tell
\* the length, and six bits in every byte that follows.
Rest(c, n) == [k \in 1 .. n |-> 128 + ((c \div 64 ^ (n - k)) % 64)]

Encoded(c) ==
  IF c = Broken THEN <<255>>
  ELSE IF c < 128 THEN <<c>>
  ELSE IF c < 2048 THEN <<192 + (c \div 64)>> \o Rest(c, 1)
  ELSE IF c < 65536 THEN <<224 + (c \div 64 ^ 2)>> \o Rest(c, 2)
  ELSE <<240 + (c \div 64 ^ 3)>> \o Rest(c, 3)

Encoding(text) == FlattenSeq([k \in DOMAIN text |-> Encoded(text[k])])

Init ==
  /\ written \in Texts
  /\ bytes = Append(Encoding(written), 0)
  /\ s = 1 /\ decoded = <<>>

-----------------------------------------------------------------------------
Has(b, bit) == (b \div bit) % 2 = 1

\* How many bytes follow the leading byte b.
Following(b) ==
  IF ~ Has(b, 128) \/ (Has(b, 32) /\ Has(b, 16) /\ Has(b, 8)) THEN 0
  ELSE IF ~ Has(b, 32) THEN 1 ELSE IF ~ Has(b, 16) THEN 2 ELSE 3

\* A mutation: the leading byte of a sequence of four keeps a bit too few.
ssfn_utf8_lead_short ==
  LET b == bytes[s]
      n == Following(b)
      bits(k) == bytes[s + k] % 64
  IN  IF ~ Has(b, 128) THEN b
      ELSE IF n = 1 THEN (b % 32) * 64 + bits(1)
      ELSE IF n = 2 THEN (b % 16) * 64 ^ 2 + bits(1) * 64 + bits(2)
      ELSE IF n = 3 THEN (b % 4) * 64 ^ 3 + bits(1) * 64 ^ 2 + bits(2) * 64 + bits(3)
      ELSE 0

\* The character at s.  The bytes that follow are not looked at but for their
\* six bits; a byte that begins nothing gives 0.
ssfn_utf8 ==
  LET b == bytes[s]
      n == Following(b)
      bits(k) == bytes[s + k] % 64
  IN  IF ~ Has(b, 128) THEN b
      ELSE IF n = 1 THEN (b % 32) * 64 + bits(1)
      ELSE IF n = 2 THEN (b % 16) * 64 ^ 2 + bits(1) * 64 + bits(2)
      ELSE IF n = 3 THEN (b % 8) * 64 ^ 3 + bits(1) * 64 ^ 2 + bits(2) * 64 + bits(3)
      ELSE 0

\* A caller goes on to the end of the string.
Decode ==
  /\ bytes[s] # 0
  /\ decoded' = Append(decoded, ssfn_utf8)
  /\ s' = s + 1 + Following(bytes[s])
  /\ UNCHANGED <<written, bytes>>

Next == Decode

Spec == Init /\ [][Next]_vars

-----------------------------------------------------------------------------
\* What a reader of the text expects of code point c.
Read(c) == IF c = Broken THEN 0 ELSE c

(***************************************************************************)
(* Every character is decoded to its code point, whatever the lengths of   *)
(* its neighbours: the pointer comes to rest on a leading byte each time,  *)
(* and on the terminator in the end, never behind it.                      *)
(***************************************************************************)
DecodesWritten ==
  LET n == Len(decoded)
  IN  /\ n <= Len(written)
      /\ \A k \in 1 .. n : decoded[k] = Read(written[k])
      /\ s = 1 + Len(Encoding(SubSeq(written, 1, n)))
      /\ bytes[s] = 0 <=> n = Len(written)

=============================================================================
