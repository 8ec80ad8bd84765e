-------------------------- MODULE StringFunctions --------------------------
(***************************************************************************)
(* The functions of string.c that keep nothing between calls, on a buffer: *)
(* the bytes from position 1 on, unsigned, with a NUL somewhere.           *)
(***************************************************************************)
EXTENDS Integers, Sequences, FiniteSetsExt

\* The first byte of b from position i on that is in C.
Find(b, i, C) == Min({j \in i .. Len(b) : b[j] \in C})

strlen(b) == Find(b, 1, {0}) - 1

\* Bytes are exchanged from both ends until the positions meet.
strrev(b) ==
  LET n == strlen(b)
  IN  [k \in DOMAIN b |-> IF k \in 1 .. n THEN b[n + 1 - k] ELSE b[k]]

\* The difference of the first bytes that differ, or of the NULs.
strcmp(a, b) ==
  LET i == Min({j \in DOMAIN a \cap DOMAIN b : a[j] # b[j] \/ a[j] = 0})
  IN  a[i] - b[i]

=============================================================================
