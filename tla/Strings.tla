------------------------------ MODULE Strings ------------------------------
(***************************************************************************)
(* string.c.  A pointer is a buffer and a position in it; a string ends at *)
(* the first NUL.  Every call is one step: nothing interrupts the caller   *)
(* in a way that reaches these functions.                                  *)
(***************************************************************************)
EXTENDS StringFunctions

CONSTANTS
  Places,   \* the buffers
  Size,     \* their sizes
  Letters,  \* the characters they hold, as unsigned bytes, besides NUL
  Delims    \* the delimiters callers pass to strtok

\* What the constants have to be.
ConstantsFit ==
  /\ Size \in [Places -> Nat \ {0}] /\ Letters \subseteq 1 .. 255
  /\ \A D \in Delims : D \subseteq Letters

VARIABLES
  mem,     \* the bytes of every buffer
  last,    \* strtok's static pointer
  given,   \* the tokens strtok answered with for each buffer, as pointers
  place,   \* the buffer strtok was last started on
  call,    \* the last call
  answer   \* and what it returned

vars == <<mem, last, given, place, call, answer>>

NULL == <<>>

\* Buffers that hold a string, with anything behind it.
Contents(n) == {b \in [1 .. n -> Letters \cup {0}] : b[n] = 0}

Init ==
  /\ mem \in {m \in [Places -> UNION {Contents(Size[p]) : p \in Places}] :
                \A p \in Places : Len(m[p]) = Size[p]}
  /\ last = NULL
  /\ given = [p \in Places |-> <<>>] /\ place \in Places
  /\ call = <<"none">> /\ answer = NULL

-----------------------------------------------------------------------------
\* A mutation: the static is kept when only delimiters were left.
strtok_keeps_last(s, D) ==
  LET p == s[1]
      tok == Find(mem[p], s[2], (Letters \cup {0}) \ D)
      end == Find(mem[p], tok, D \cup {0})
  IN  IF mem[p][tok] = 0
        THEN answer' = NULL /\ UNCHANGED <<mem, last>>
        ELSE /\ answer' = <<p, tok>>
             /\ mem' = [mem EXCEPT ![p][end] = 0]
             /\ last' = IF mem[p][end] = 0 THEN NULL ELSE <<p, end + 1>>

(***************************************************************************)
(* strtok(s, D) for a pointer s that is not NULL: skip what is in D; at    *)
(* the end of the string forget it; else end the token with a NUL and keep *)
(* the place behind it, unless the string's own NUL ended the token.       *)
(***************************************************************************)
strtok(s, D) ==
  LET p == s[1]
      tok == Find(mem[p], s[2], (Letters \cup {0}) \ D)
      end == Find(mem[p], tok, D \cup {0})
  IN  IF mem[p][tok] = 0
        THEN answer' = NULL /\ last' = NULL /\ UNCHANGED mem
        ELSE /\ answer' = <<p, tok>>
             /\ mem' = [mem EXCEPT ![p][end] = 0]
             /\ last' = IF mem[p][end] = 0 THEN NULL ELSE <<p, end + 1>>

-----------------------------------------------------------------------------
\* The caller keeps the tokens it gets.
Keep(p, kept) ==
  given' = [given EXCEPT ![p] = IF answer' = NULL THEN kept ELSE Append(kept, answer')]

\* strtok(s, D): also on a buffer that was split before.
StartTokens(p, D) ==
  /\ call' = <<"split", p, D>>
  /\ strtok(<<p, 1>>, D)
  /\ Keep(p, <<>>)
  /\ place' = p

\* strtok(NULL, D).
NextToken(D) ==
  /\ call' = <<"continue", D>>
  /\ IF last = NULL THEN answer' = NULL /\ UNCHANGED <<mem, last>> ELSE strtok(last, D)
  /\ Keep(place, given[place])
  /\ UNCHANGED place

CompareStrings(p, q) ==
  /\ call' = <<"compare", p, q>>
  /\ answer' = <<strcmp(mem[p], mem[q])>>
  /\ UNCHANGED <<mem, last, given, place>>

ReverseString(p) ==
  /\ call' = <<"turn", p>>
  /\ mem' = [mem EXCEPT ![p] = strrev(@)]
  /\ given' = [given EXCEPT ![p] = <<>>]
  /\ answer' = NULL
  /\ UNCHANGED <<last, place>>

Next ==
  \/ \E p \in Places, D \in Delims : StartTokens(p, D)
  \/ \E D \in Delims : NextToken(D)
  \/ \E p, q \in Places : CompareStrings(p, q)
  \/ \E p \in Places : ReverseString(p)

Spec == Init /\ [][Next]_vars

-----------------------------------------------------------------------------
\* The string a pointer points to.
StringAt(s) == SubSeq(mem[s[1]], s[2], Find(mem[s[1]], s[2], {0}) - 1)

\* An answer as the caller sees it: a token, the sign of a difference, nothing.
Meaning(a) ==
  IF a = NULL THEN <<"none">>
  ELSE IF Len(a) = 2 THEN <<"word", StringAt(a)>>
  ELSE <<"order", IF a[1] < 0 THEN -1 ELSE IF a[1] > 0 THEN 1 ELSE 0>>

(***************************************************************************)
(* The functions implement Words: the tokens are the words of the text,    *)
(* whichever delimiters each call names; a new string makes strtok forget  *)
(* the old one; no later call changes a token already given, in the same   *)
(* buffer or another; strcmp orders by unsigned characters; strrev stays   *)
(* within the string.                                                      *)
(***************************************************************************)
Abstract == INSTANCE Words WITH
  text    <- [p \in Places |-> StringAt(<<p, 1>>)],
  words   <- [p \in Places |-> [k \in DOMAIN given[p] |-> StringAt(given[p][k])]],
  rest    <- IF last = NULL THEN <<>> ELSE StringAt(last),
  current <- place,
  answer  <- Meaning(answer)

ImplementsWords == Abstract!Spec

=============================================================================
