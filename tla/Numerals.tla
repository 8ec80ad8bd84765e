------------------------------ MODULE Numerals ------------------------------
(***************************************************************************)
(* itoa, itoas and ftoan of conlib.c, and __utoa and __itoa of fmt.c,      *)
(* which are the same code: numbers written into a caller's buffer.  The   *)
(* steps are the turns of the loops.  A double is a multiple of 1/Parts,   *)
(* on which the arithmetic of ftoan is exact.                              *)
(***************************************************************************)
EXTENDS StringFunctions

CONSTANTS
  Width,    \* bits of a long
  Bases,    \* the bases callers ask for
  Parts,    \* a power of two
  Doubles,  \* doubles, in parts
  Places,   \* numbers of decimals
  Capacity  \* bytes of the buffer

\* What the constants have to be.
ConstantsFit ==
  /\ Width \in Nat \ {0} /\ Bases \subseteq 2 .. 36 /\ Capacity > Width + 1
  /\ Parts \in {2 ^ k : k \in 0 .. 10} /\ Places \subseteq Nat
  /\ \A d \in Doubles : d \div Parts \in -(2 ^ (Width - 1)) .. 2 ^ (Width - 1) - 1

VARIABLES
  call,   \* the function, its number, and the base or the decimals
  pc,
  buff,   \* the buffer
  sum,    \* what is left of the whole number
  at,     \* where the digits start, 1 or behind a sign
  cp,     \* where the next byte goes
  frac,   \* the fraction that is left, in parts
  n       \* decimals to go

vars == <<call, pc, buff, sum, at, cp, frac, n>>

Junk == 255
Unsigned == 0 .. 2 ^ Width - 1
Signed == -(2 ^ (Width - 1)) .. 2 ^ (Width - 1) - 1
Abs(v) == IF v < 0 THEN -v ELSE v

\* A double converted to a long loses its fraction.
Truncated(d) == IF d < 0 THEN -(Abs(d) \div Parts) ELSE d \div Parts

Calls ==
  [f : {"itoa"}, v : Unsigned, base : Bases, n : {0}]
    \cup [f : {"itoas"}, v : Signed, base : Bases, n : {0}]
    \cup [f : {"ftoan"}, v : Doubles, base : {10}, n : Places]

Init ==
  /\ call \in Calls /\ pc = "start"
  /\ buff = [i \in 1 .. Capacity |-> Junk]
  /\ sum = 0 /\ at = 1 /\ cp = 1 /\ frac = 0 /\ n = call.n

-----------------------------------------------------------------------------
\* '0' .. '9', 'A' .. 'Z'.
DigitChar(d) == IF d < 10 THEN 48 + d ELSE 65 + d - 10
Minus == 45
Point == 46

\* The number whose digits are written, as the function's own parameter.
Whole == IF call.f = "ftoan" THEN Truncated(call.v) ELSE call.v

\* A mutation: the magnitude is held in a signed char less than its type.
Start_narrow ==
  /\ pc = "start"
  /\ sum' = Abs(Whole) % 2 ^ (Width - 1)
  /\ at' = IF Whole < 0 THEN 2 ELSE 1
  /\ cp' = at' /\ pc' = "digits"
  /\ UNCHANGED <<call, buff, frac, n>>

\* A negative number is negated, modulo 2^Width as the build does it also for
\* the most negative one, and written behind its sign.
Start ==
  /\ pc = "start"
  /\ sum' = Abs(Whole) % 2 ^ Width
  /\ at' = IF Whole < 0 THEN 2 ELSE 1
  /\ cp' = at' /\ pc' = "digits"
  /\ UNCHANGED <<call, buff, frac, n>>

\* The digits, the lowest first; 0 has one.
Digit ==
  /\ pc = "digits"
  /\ buff' = [buff EXCEPT ![cp] = DigitChar(sum % call.base)]
  /\ cp' = cp + 1
  /\ sum' = sum \div call.base
  /\ pc' = IF sum' = 0 THEN "turn" ELSE pc
  /\ UNCHANGED <<call, at, frac, n>>

\* They are ended and turned round; the sign comes last.
Turn ==
  /\ pc = "turn"
  /\ LET digits == strrev([i \in 1 .. cp - at + 1 |-> IF i = cp - at + 1 THEN 0 ELSE buff[at + i - 1]])
     IN  buff' = [i \in DOMAIN buff |->
                    IF i \in at .. cp THEN digits[i - at + 1]
                    ELSE IF i < at THEN Minus ELSE buff[i]]
  /\ pc' = IF call.f = "ftoan" THEN "point" ELSE "done"
  /\ UNCHANGED <<call, sum, at, cp, frac, n>>

\* ftoan: the point replaces the NUL, and the fraction's sign is dropped.
PutPoint ==
  /\ pc = "point"
  /\ buff' = [buff EXCEPT ![strlen(buff) + 1] = Point]
  /\ cp' = strlen(buff) + 2
  /\ frac' = Abs(call.v - Whole * Parts)
  /\ pc' = "decimals"
  /\ UNCHANGED <<call, sum, at, n>>

\* The decimals asked for, not rounded.
Decimal ==
  /\ pc = "decimals"
  /\ IF n = 0
       THEN buff' = [buff EXCEPT ![cp] = 0] /\ pc' = "done" /\ UNCHANGED <<cp, frac, n>>
       ELSE /\ buff' = [buff EXCEPT ![cp] = DigitChar((frac * 10) \div Parts)]
            /\ frac' = (frac * 10) % Parts
            /\ cp' = cp + 1 /\ n' = n - 1
            /\ UNCHANGED pc
  /\ UNCHANGED <<call, sum, at>>

Next == Start \/ Digit \/ Turn \/ PutPoint \/ Decimal

Spec == Init /\ [][Next]_vars

-----------------------------------------------------------------------------
\* What a reader makes of the buffer: its bytes up to the NUL, without a sign.
Text == SubSeq(buff, 1, strlen(buff))
Negative == Text[1] = Minus
Figures == SelectSeq(Text, LAMBDA c : c \notin {Minus, Point})
DigitValue(c) == IF c > 57 THEN c - 65 + 10 ELSE c - 48

\* The value of figures in a base.
Value(figures, base) ==
  LET L == Len(figures)
  IN  MapThenSumSet(LAMBDA k : DigitValue(figures[k]) * base ^ (L - k), 1 .. L)

(***************************************************************************)
(* A numeral of itoa and itoas reads back as the number, in every base,    *)
(* the most negative one, which has no absolute value as a long, included; *)
(* it has no zero in front.  What ftoan writes is cut off, not rounded,    *)
(* behind the decimals asked for; the sign of a number between -1 and 0 is *)
(* lost, since it was on the whole part only.                              *)
(***************************************************************************)
NumeralReadsBack ==
  pc = "done" =>
    LET scaled == IF call.f = "ftoan" THEN (Abs(call.v) * 10 ^ call.n) \div Parts ELSE Abs(call.v)
    IN  /\ Value(Figures, call.base) = scaled
        /\ Negative <=> Whole < 0
        /\ \A k \in DOMAIN Figures : DigitValue(Figures[k]) \in 0 .. call.base - 1
        /\ call.f # "ftoan" /\ Len(Figures) > 1 => DigitValue(Figures[1]) # 0
        /\ call.f = "ftoan" => Text[Len(Text) - call.n] = Point

=============================================================================
