---------------------------- MODULE MCFormatter ----------------------------
(***************************************************************************)
(* Small instances of Formatter: types of 2, 4, 8 and 16 bits and a buffer *)
(* of 8 digits, a quarter of what the code has.                            *)
(***************************************************************************)
EXTENDS Formatter

\* Each part of a directive, as written and as meant.
Flag(text, align, sign, zero) == [text |-> text, align |-> align, sign |-> sign, zero |-> zero]

Flags ==
  {Flag(<<>>, FALSE, "", FALSE), Flag(<<"-">>, TRUE, "", FALSE),
   Flag(<<"0">>, FALSE, "", TRUE), Flag(<<"+">>, FALSE, "+", FALSE),
   Flag(<<" ">>, FALSE, " ", FALSE),
   Flag(<<"0", " ">>, FALSE, " ", TRUE),
   Flag(<<"+", " ", "-", "0">>, TRUE, "+", TRUE)}

Widths == {[text |-> <<>>, n |-> -1], [text |-> <<"4">>, n |-> 4], [text |-> <<"1", "0">>, n |-> 10]}

Precisions ==
  {[text |-> <<>>, n |-> -1], [text |-> <<".">>, n |-> 0], [text |-> <<".", "3">>, n |-> 3],
   [text |-> <<".", "7">>, n |-> 7], [text |-> <<".", "8">>, n |-> 8]}

Lengths ==
  {[text |-> <<>>, bits |-> IntBits], [text |-> <<"h">>, bits |-> ShortBits],
   [text |-> <<"h", "h">>, bits |-> CharBits], [text |-> <<"l">>, bits |-> LongBits],
   [text |-> <<"l", "l">>, bits |-> LongBits]}

Written(f, w, p, l, conv) ==
  [text |-> <<"%">> \o f.text \o w.text \o p.text \o l.text \o <<conv>>,
   align |-> f.align, sign |-> f.sign, width |-> w.n, precision |-> p.n,
   bits |-> l.bits, conv |-> conv]

\* All directives but those for a pointer.
AllDirectives ==
  {Written(f, w, p, l, conv) :
     f \in Flags, w \in Widths, p \in Precisions, l \in Lengths,
     conv \in {"d", "u", "b", "o", "X", "s", "c", "%", "f"}}

Plain(c) == [text |-> <<c>>, align |-> FALSE, sign |-> "", width |-> -1, precision |-> -1,
             bits |-> IntBits, conv |-> "plain"]

Pointer == [text |-> <<"%", "p">>, align |-> FALSE, sign |-> "", width |-> LongBits \div 4,
            precision |-> -1, bits |-> LongBits, conv |-> "p"]

\* A directive that ends with the format.
Unfinished == [Plain("%") EXCEPT !.text = <<"%", "-", "4">>]

\* The time stamp of serial_printf, among others, and formats that end early.
LongFormats ==
  LET No == Flag(<<>>, FALSE, "", FALSE)
      Bare(conv) == Written(No, [text |-> <<>>, n |-> -1], [text |-> <<>>, n |-> -1],
                            [text |-> <<>>, bits |-> IntBits], conv)
      Seconds == Written(No, [text |-> <<"9">>, n |-> 9], [text |-> <<>>, n |-> -1],
                         [text |-> <<>>, bits |-> IntBits], "d")
      Millis  == Written(Flag(<<"0">>, FALSE, "", TRUE), [text |-> <<"3">>, n |-> 3],
                         [text |-> <<>>, n |-> -1], [text |-> <<>>, bits |-> IntBits], "d")
  IN  {<<Plain("["), Seconds, Plain("."), Millis, Plain("]")>>, <<Pointer, Bare("i")>>,
       <<Bare("s"), Bare("x")>>, <<Bare("b"), Bare("%"), Bare("d")>>,
       <<Bare("d"), Bare("s"), Unfinished>>, <<Plain("a"), Plain("b")>>, <<Bare("f"), Bare("c")>>}

AllFormats == {<<d>> : d \in AllDirectives} \cup LongFormats

\* Values at the limits of the types.
Words == {0, -1, 9, 137, -128, 10000, -32768}

AllArguments ==
  {<<[word |-> n, str |-> <<"h", "i", "j", "k">>], [word |-> 42, str |-> <<"!">>]>> : n \in Words}

=============================================================================
