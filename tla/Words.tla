------------------------------- MODULE Words -------------------------------
(***************************************************************************)
(* What string.c promises: texts that are split into words, compared in    *)
(* the order of their unsigned characters, and reversed.  Strings          *)
(* implements it on memory that a call of strtok changes in place.         *)
(***************************************************************************)
EXTENDS Integers, Sequences, SequencesExt

CONSTANTS
  Places,   \* where texts are kept
  Letters,  \* the characters a text is made of
  Delims    \* the sets of delimiters

VARIABLES
  text,     \* the text at every place
  words,    \* the words each text has been split into so far
  rest,     \* what is left of the text being split
  current,  \* its place
  call,     \* the last call
  answer    \* and what it answered

vars == <<text, words, rest, current, call, answer>>

None == <<"none">>

Init ==
  /\ text \in [Places -> Seq(Letters)]
  /\ words = [p \in Places |-> <<>>]
  /\ rest = <<>> /\ current \in Places
  /\ call = None /\ answer = None

-----------------------------------------------------------------------------
\* The characters of s before the first one in D, and those behind that one.
Before(s, D) ==
  LET i == SelectInSeq(s, LAMBDA c : c \in D)
  IN  SubSeq(s, 1, IF i = 0 THEN Len(s) ELSE i - 1)
Behind(s, D) == SubSeq(s, Len(Before(s, D)) + 2, Len(s))

\* s without the delimiters it starts with.
Trimmed(s, D) == SubSeq(s, Len(Before(s, Letters \ D)) + 1, Len(s))

\* The next word of s, if there is one, is answered and kept.
Take(s, p, D, kept) ==
  LET t == Trimmed(s, D)
      w == Before(t, D)
  IN  /\ words' = [words EXCEPT ![p] = IF w = <<>> THEN kept ELSE Append(kept, w)]
      /\ answer' = IF w = <<>> THEN None ELSE <<"word", w>>
      /\ rest' = Behind(t, D)

\* A new text: what was left of the previous one is forgotten, and of the text
\* itself only its first word can still be read as a text.
Split(p, D) ==
  /\ call' = <<"split", p, D>>
  /\ Take(text[p], p, D, <<>>)
  /\ current' = p
  /\ text' = [text EXCEPT ![p] =
       SubSeq(@, 1, Len(@) - Len(Trimmed(@, D)) + Len(Before(Trimmed(@, D), D)))]

\* The next word.
Continue(D) ==
  /\ call' = <<"continue", D>>
  /\ Take(rest, current, D, words[current])
  /\ UNCHANGED <<text, current>>

\* Lexicographic order.
Precedes(s, t) ==
  \E k \in 0 .. Len(s) :
    /\ k < Len(t) /\ SubSeq(s, 1, k) = SubSeq(t, 1, k)
    /\ k = Len(s) \/ s[k + 1] < t[k + 1]

Compare(p, q) ==
  /\ call' = <<"compare", p, q>>
  /\ answer' = <<"order", IF text[p] = text[q] THEN 0
                          ELSE IF Precedes(text[p], text[q]) THEN -1 ELSE 1>>
  /\ UNCHANGED <<text, words, rest, current>>

\* The words of a text that is reversed are given up.
Turn(p) ==
  /\ call' = <<"turn", p>>
  /\ text' = [text EXCEPT ![p] = Reverse(@)]
  /\ words' = [words EXCEPT ![p] = <<>>]
  /\ answer' = None
  /\ UNCHANGED <<rest, current>>

Next ==
  \/ \E p \in Places, D \in Delims : Split(p, D)
  \/ \E D \in Delims : Continue(D)
  \/ \E p, q \in Places : Compare(p, q)
  \/ \E p \in Places : Turn(p)

Spec == Init /\ [][Next]_vars

=============================================================================
