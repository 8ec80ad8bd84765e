------------------------------ MODULE Formatter ------------------------------
(***************************************************************************)
(* __proto_print of fmt.c.  A step is one turn of its loop: a plain        *)
(* character, or a directive with its conversion.                          *)
(*                                                                         *)
(* A format is given as the directives its author wrote, each with its     *)
(* characters (text) and what they mean (sign, align, width, ...).  The    *)
(* program sees the characters only; the meaning serves the properties.    *)
(* An argument is a 64-bit word, read with the width the directive asks    *)
(* for, and a string.  Sizes in bits are parameters, and the buffer of     *)
(* digits is as large against them as in the code.                         *)
(***************************************************************************)
EXTENDS Integers, SequencesExt

CONSTANTS
  CharBits, ShortBits, IntBits, LongBits,   \* 8, 16, 32, 64
  BufferSize,   \* characters in __str_buff: 32
  Formats,      \* the formats: sequences of directives and plain characters
  Arguments     \* the arguments passed: sequences of [word, str]

ASSUME FormatterAssumption ==
  /\ CharBits \in Nat \ {0} /\ ShortBits \in Nat /\ IntBits \in Nat /\ LongBits \in Nat
  /\ CharBits <= ShortBits /\ ShortBits <= IntBits /\ IntBits <= LongBits
  /\ BufferSize \in Nat \ {0}

VARIABLES
  written,   \* the format, as the items its author wrote
  format,    \* its characters
  args,      \* the arguments
  pos,       \* the next character of the format
  taken,     \* arguments read so far
  out,       \* what each plain character and directive has printed
  ret,       \* the sum __proto_print returns
  overrun    \* digits were written past the end of __str_buff

vars == <<written, format, args, pos, taken, out, ret, overrun>>

Nul == "NUL"

\* The character at position i, to the terminating one.
CharAt(i) == IF i <= Len(format) THEN format[i] ELSE Nul

Digit == <<"0", "1", "2", "3", "4", "5", "6", "7", "8", "9", "a", "b", "c", "d", "e", "f">>
UpperDigit == [i \in 1 .. 16 |-> IF i <= 10 THEN Digit[i]
                                 ELSE <<"A", "B", "C", "D", "E", "F">>[i - 10]]
Decimal == {Digit[i] : i \in 1 .. 10}

-----------------------------------------------------------------------------
(* Reading a directive.                                                    *)

\* Where the characters of S that start at i end.
Span(i, S) == Min({j \in i .. Len(format) + 1 : CharAt(j) \notin S})

\* __read_int on the digits from i to before j.
__read_int(i, j) ==
  FoldLeft(LAMBDA n, c : 10 * n + (CHOOSE k \in 0 .. 9 : Digit[k + 1] = c),
           0, SubSeq(format, i, j - 1))

\* The directive whose flags start at i: flags, width, precision, length, conversion.
Directive(i) ==
  LET f     == Span(i, {"-", "+", " ", "0"})
      w     == Span(f, Decimal)
      p     == IF CharAt(w) = "." THEN Span(w + 1, Decimal) ELSE w
      flags == {CharAt(k) : k \in i .. f - 1}
      ch    == CharAt(p)
      l     == IF ch \notin {"h", "l"} THEN 0 ELSE IF CharAt(p + 1) = ch THEN 2 ELSE 1
  IN  [align     |-> "-" \in flags,
       prefix    |-> IF "+" \in flags THEN <<"+">>
                     ELSE IF " " \in flags THEN <<" ">> ELSE <<>>,
       pad       |-> IF "0" \in flags THEN "0" ELSE " ",
       width     |-> IF w = f THEN -1 ELSE __read_int(f, w),
       precision |-> IF CharAt(w) = "." THEN __read_int(w + 1, p) ELSE -1,
       bits      |-> IF l = 0 THEN IntBits ELSE IF ch = "l" THEN LongBits
                     ELSE IF l = 2 THEN CharBits ELSE ShortBits,
       conv      |-> CharAt(p + l),
       next      |-> p + l + 1]

-----------------------------------------------------------------------------
(* Conversions.                                                            *)

Unsigned(word, bits) == word % 2^bits

\* A mutation: a negative value is not extended to the wider type.
Signed_not_extended(word, bits) ==
  IF bits = LongBits /\ word < 0 THEN word ELSE Unsigned(word, bits)

Signed(word, bits) ==
  LET u == Unsigned(word, bits) IN IF u < 2^(bits - 1) THEN u ELSE u - 2^bits

\* The digits of n, the last one first; 0 has one.
Digits(n, base, digit) ==
  LET of[m \in Nat] ==
        <<digit[(m % base) + 1]>> \o (IF m < base THEN <<>> ELSE of[m \div base])
  IN  of[n]

\* A mutation: the zeros of the precision go one too far.
Body_zero_too_many(digits, n, precision) ==
  IF n = 0 /\ precision = 0 THEN <<>>
  ELSE Reverse(digits \o [k \in 1 .. precision + 1 - Len(digits) |-> "0"])

\* What __str_buff holds: digits and the zeros of the precision, then reversed.
Body(digits, n, precision) ==
  IF n = 0 /\ precision = 0 THEN <<>>
  ELSE Reverse(digits \o [k \in 1 .. precision - Len(digits) |-> "0"])

Fill(c, n) == [k \in 1 .. n |-> c]

\* A mutation: the sign is not counted against the width.
Padded_sign_not_counted(d, prefix, body) ==
  LET room == d.width - Len(body)
      pad  == IF d.precision > 0 THEN " " ELSE d.pad
  IN  IF d.align THEN prefix \o body \o Fill(" ", room)
      ELSE IF pad = "0" THEN prefix \o Fill("0", room) \o body
      ELSE Fill(" ", room) \o prefix \o body

\* The field: a width of -1 stands for none.
Padded(d, prefix, body) ==
  LET room == d.width - Len(body) - Len(prefix)
      pad  == IF d.precision > 0 THEN " " ELSE d.pad
  IN  IF d.align THEN prefix \o body \o Fill(" ", room)
      ELSE IF pad = "0" THEN prefix \o Fill("0", room) \o body
      ELSE Fill(" ", room) \o prefix \o body

-----------------------------------------------------------------------------
Init ==
  /\ written \in Formats /\ args \in Arguments
  /\ format = FlattenSeq([i \in DOMAIN written |-> written[i].text])
  /\ pos = 1 /\ taken = 0 /\ out = <<>> /\ ret = 0 /\ overrun = FALSE

\* The loop goes on: not at the terminator, nor once it has read or written
\* memory that is not its own.
Running == ~ overrun /\ pos <= Len(format)

Emit(text, count, reads, next) ==
  /\ out' = Append(out, text)
  /\ ret' = ret + count
  /\ taken' = taken + reads
  /\ pos' = next
  /\ UNCHANGED <<written, format, args, overrun>>

PlainChar ==
  /\ Running /\ CharAt(pos) # "%"
  /\ Emit(<<CharAt(pos)>>, 1, 0, pos + 1)

\* A number is put together in __str_buff, with a terminating character.
EmitNumber(d, prefix, body) ==
  IF Len(body) < BufferSize
    THEN LET text == Padded(d, prefix, body) IN Emit(text, Len(text), 1, d.next)
    ELSE overrun' = TRUE /\ UNCHANGED <<written, format, args, pos, taken, out, ret>>

\* d and i.  The most negative value has no negative: the build either gets the
\* right digits or the same negative value, whose digits are not digits.
__print_int(wraps) ==
  /\ Running /\ CharAt(pos) = "%"
  /\ LET d == Directive(pos + 1)
         n == Signed(args[taken + 1].word, d.bits)
         m == IF n < 0 THEN -n ELSE n
         digits == Digits(m, 10, Digit)
     IN  /\ d.conv \in {"d", "i"}
         /\ wraps => n = - 2^(LongBits - 1)
         /\ EmitNumber(d, IF n < 0 THEN <<"-">> ELSE d.prefix,
                       Body(IF wraps THEN Fill("(", Len(digits)) ELSE digits,
                            n, d.precision))

Base(conv) ==
  CASE conv = "b" -> 2 [] conv = "o" -> 8 [] conv \in {"d", "i", "u"} -> 10 [] OTHER -> 16

\* b, u, o, x, X and p, which prints all digits of a pointer.
__print_unsigned ==
  /\ Running /\ CharAt(pos) = "%"
  /\ LET d == Directive(pos + 1)
         pointer == [d EXCEPT !.align = FALSE, !.pad = "0", !.width = LongBits \div 4,
                              !.precision = -1, !.bits = LongBits]
         as == IF d.conv = "p" THEN pointer ELSE d
         n  == Unsigned(args[taken + 1].word, as.bits)
         digit == IF d.conv \in {"X", "p"} THEN UpperDigit ELSE Digit
     IN  /\ d.conv \in {"b", "u", "o", "x", "X", "p"}
         /\ EmitNumber(as, <<>>, Body(Digits(n, Base(d.conv), digit), n, as.precision))

\* s: the string, cut off at the precision, in its field.
__print_str ==
  /\ Running /\ CharAt(pos) = "%"
  /\ LET d == Directive(pos + 1)
         s == args[taken + 1].str
         shown == IF d.precision >= 0 THEN SubSeq(s, 1, Min({d.precision, Len(s)})) ELSE s
         text == IF d.align THEN shown \o Fill(" ", d.width - Len(shown))
                            ELSE Fill(" ", d.width - Len(shown)) \o shown
     IN  d.conv = "s" /\ Emit(text, Len(text), 1, d.next)

\* c and %.  The width is returned, also when there is none.
__print_char ==
  /\ Running /\ CharAt(pos) = "%"
  /\ LET d == Directive(pos + 1)
         c == IF d.conv = "%" THEN <<"%">> ELSE SubSeq(args[taken + 1].str, 1, 1)
         blanks == Fill(" ", d.width - 1)
     IN  /\ d.conv \in {"c", "%"}
         /\ Emit(IF d.align THEN c \o blanks ELSE blanks \o c, d.width,
                 IF d.conv = "c" THEN 1 ELSE 0, d.next)

\* Any other conversion prints nothing and reads no argument; the terminator
\* is taken for one, and then the loop goes on behind it.
NoConversion ==
  /\ Running /\ CharAt(pos) = "%"
  /\ LET d == Directive(pos + 1)
     IN  /\ d.conv \notin {"d", "i", "b", "u", "o", "x", "X", "p", "s", "c", "%"}
         /\ Emit(<<>>, 0, 0, d.next)

Next ==
  \/ PlainChar \/ __print_unsigned \/ __print_str \/ __print_char \/ NoConversion
  \/ \E wraps \in BOOLEAN : __print_int(wraps)

Spec == Init /\ [][Next]_vars

-----------------------------------------------------------------------------
(* What the author of a format may expect.                                 *)

\* The items that print a number, and how it is read back.
Number(i) == written[i].conv \in {"d", "i", "b", "u", "o", "x", "X", "p"}
HasSign(i) == written[i].conv \in {"d", "i"}
ReadsArgument(i) == Number(i) \/ written[i].conv \in {"s", "c"}

\* The argument meant for item i, and its value in the type of the directive.
Argument(i) == args[Cardinality({j \in 1 .. i : ReadsArgument(j)})]
Value(i) ==
  LET u == Argument(i).word % 2^(written[i].bits)
  IN  IF HasSign(i) /\ u >= 2^(written[i].bits - 1) THEN u - 2^(written[i].bits) ELSE u

Magnitude(i) == IF Value(i) < 0 THEN - Value(i) ELSE Value(i)

DigitValue(c) == CHOOSE k \in 0 .. 15 : c \in {Digit[k + 1], UpperDigit[k + 1]}

IsDigit(c) == \E k \in 1 .. 16 : c \in {Digit[k], UpperDigit[k]}

(***************************************************************************)
(* A number that was printed reads back as the argument meant for it, in   *)
(* the type its directive asks for, whatever flags, width and precision    *)
(* surround it and whatever was printed before.  The most negative value   *)
(* of 64 bits is excepted.                                                 *)
(***************************************************************************)
ValueReadsBack ==
  \A i \in DOMAIN out :
    Number(i) /\ Value(i) # - 2^(LongBits - 1) =>
      LET base == Base(written[i].conv)
          chars == {out[i][k] : k \in DOMAIN out[i]}
      IN  /\ FoldLeft(LAMBDA n, c : base * n + DigitValue(c), 0, SelectSeq(out[i], IsDigit))
               = Magnitude(i)
          /\ "-" \in chars <=> Value(i) < 0
          /\ "+" \in chars <=> (HasSign(i) /\ Value(i) >= 0 /\ written[i].sign = "+")

\* The fewest characters of item i: a sign and digits, or the part of a string.
Fewest(i) ==
  LET base   == Base(written[i].conv)
      n      == Magnitude(i)
      digits == IF n = 0 THEN IF written[i].precision = 0 THEN 0 ELSE 1
                ELSE CHOOSE k \in 1 .. LongBits : base^(k - 1) <= n /\ n < base^k
      sign   == IF HasSign(i) /\ (Value(i) < 0 \/ written[i].sign # "") THEN 1 ELSE 0
      string == Len(Argument(i).str)
  IN  IF Number(i) THEN sign + Max({digits, written[i].precision})
      ELSE IF written[i].precision >= 0 THEN Min({string, written[i].precision}) ELSE string

(***************************************************************************)
(* A number or a string fills its field: it is as wide as its width or as  *)
(* it needs to be, and what is added is on the side the directive says.    *)
(* The value returned counts the characters printed, except that a         *)
(* character without a width counts as -1.                                 *)
(***************************************************************************)
FieldFilled ==
  /\ \A i \in DOMAIN out :
       Number(i) \/ written[i].conv = "s" =>
         LET o == out[i]
             room == Len(o) - Fewest(i)
         IN  /\ Len(o) = Max({written[i].width, Fewest(i)})
             /\ IF written[i].align
                  THEN \A k \in Fewest(i) + 1 .. Len(o) : o[k] = " "
                  ELSE \A k \in 1 .. room : o[k] \in {" ", "0", "-", "+"}
  /\ LET counted(i) == IF written[i].conv \in {"c", "%"} /\ written[i].width = -1
                         THEN -1 ELSE Len(out[i])
     IN  ret = MapThenSumSet(counted, DOMAIN out)

(***************************************************************************)
(* Digits leave the buffer only for a precision as large as the buffer, or *)
(* for a number with that many binary digits, which leave no room for the  *)
(* terminator.                                                             *)
(***************************************************************************)
BufferKept ==
  overrun =>
    LET i == Len(out) + 1
    IN  \/ written[i].precision >= BufferSize
        \/ written[i].conv = "b" /\ Value(i) >= 2^(BufferSize - 1)

=============================================================================
