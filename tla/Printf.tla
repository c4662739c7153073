------------------------------- MODULE Printf -------------------------------
(***************************************************************************)
(* printf of the user programs (001.dir/printf.c): dopr reads the format   *)
(* with a state machine and hands each conversion to fmtint, fmtstr or     *)
(* fmtfp, whose loops are written here as the text they put out.           *)
(*                                                                         *)
(* The input is a sequence of items, literal characters and directives     *)
(* with their arguments; dopr sees only the characters they are spelled    *)
(* with and the list of arguments.  A floating point argument is a number  *)
(* of hundredths.  Machine words are smaller than the real ones; the       *)
(* longest decimal number still has exactly ConvertSize digits.            *)
(***************************************************************************)
EXTENDS Integers, Sequences, SequencesExt, FiniteSets

CONSTANTS
    PItem,          \* [lit] or [flags, min, max, mod, conv, args]
    MaxItems,
    MaxLen,         \* maxlen, 1000
    IntWord, LongWord,
    ConvertSize     \* the size of convert, 20

VARIABLES
    items,          \* history: the input
    format, vargs,  \* what dopr is given
    pstate, pos, flags, cflags, min, max, \* locals of dopr; ch is format[pos]
    out,            \* what putchar has been given; its length is currlen
    num             \* what %n has stored

pfVars == <<items, format, vargs, pstate, pos, flags, cflags, min, max, out, num>>

Digit == <<"0", "1", "2", "3", "4", "5", "6", "7", "8", "9", "a", "b", "c", "d", "e", "f">>
Upper == <<"0", "1", "2", "3", "4", "5", "6", "7", "8", "9", "A", "B", "C", "D", "E", "F">>
DigitValue(c) == CHOOSE d \in 0..15 : c \in {Digit[d + 1], Upper[d + 1]}
IsDigit(c) == \E d \in 1..10 : c = Digit[d]
Times(n, c) == [k \in 1..n |-> c]
AtLeast0(n) == IF n < 0 THEN 0 ELSE n
Larger(p, q) == IF p >= q THEN p ELSE q

-----------------------------------------------------------------------------
\* The digits of u, highest first.  With size digits or more the loop stops
\* there and place is lowered, so the highest of the digits found is lost.
Place(u, base, size) ==
    LET n == CHOOSE k \in 1..size :
               /\ u < base^k \/ k = size
               /\ k = 1 \/ u >= base^(k - 1)
    IN  IF n = size THEN n - 1 ELSE n

Convert(u, base, digits, size) ==
    LET n == Place(u, base, size) IN
    [k \in 1..n |-> digits[((u \div base^(n - k)) % base) + 1]]

Sign(value, fl) ==
    IF "unsigned" \in fl THEN <<>>
    ELSE IF value < 0 THEN <<"-">>
    ELSE IF "+" \in fl THEN <<"+">>
    ELSE IF " " \in fl THEN <<" ">> ELSE <<>>

\* Seeded fault: the sign is not counted as part of the width.
FmtintWide(value, base, mn, mx, fl) ==
    LET digits == Convert((IF value < 0 THEN -value ELSE value) % LongWord, base, Digit, ConvertSize)
    IN  Times(AtLeast0(mn - Len(digits)), "0") \o Sign(value, fl) \o digits

Fmtint(value, base, mn, mx, fl) ==
    LET u == (IF "unsigned" \notin fl /\ value < 0 THEN -value ELSE value) % LongWord
        digits == Convert(u, base, IF "up" \in fl THEN Upper ELSE Digit, ConvertSize)
        place == Len(digits)
        sign == Sign(value, fl)
        prec == AtLeast0(mx)
        space == AtLeast0(mn - Larger(prec, place) - Len(sign))
        zeros == AtLeast0(prec - place)
        z == IF "0" \in fl THEN Larger(zeros, space) ELSE zeros
        s == IF "0" \in fl THEN 0 ELSE space
    IN  (IF "-" \in fl THEN <<>> ELSE Times(s, " "))
          \o sign \o Times(z, "0") \o digits
          \o (IF "-" \in fl THEN Times(s, " ") ELSE <<>>)

\* fmtstr: max limits the padding too.  A null pointer, here <<"NULL">>, has a text.
Fmtstr(value, mn, mx, fl) ==
    LET text == IF value = <<"NULL">> THEN <<"<", "N", "U", "L", "L", ">">> ELSE value
        pad == Times(AtLeast0(mn - Len(text)), " ")
        all == IF "-" \in fl THEN text \o pad ELSE pad \o text
    IN  SubSeq(all, 1, IF mx < Len(all) THEN mx ELSE Len(all))

\* xround(10^m * fraction), carried into the integer part.
Parts(u, m) ==
    LET f == (2 * 10^m * (u % 100) + 100) \div 200
    IN  IF f >= 10^m THEN <<(u \div 100) + 1, f - 10^m>> ELSE <<u \div 100, f>>

\* fmtfp: the zeros that fill up the fraction come after its digits, and the sign of
\* a number padded with zeros is counted twice.
Fmtfp(value, mn, mx, fl) ==
    LET m == IF mx < 0 THEN 6 ELSE IF mx > 9 THEN 9 ELSE mx
        parts == Parts(IF value < 0 THEN -value ELSE value, m)
        sign == Sign(value, fl)
        int == Convert(parts[1], 10, Digit, 20)
        frac == Convert(parts[2], 10, Digit, 20)
        pad == AtLeast0(mn - Len(int) - m - 1 - Len(sign))
        zero == "0" \in fl /\ "-" \notin fl /\ pad > 0
    IN  (IF zero THEN sign \o Times(pad - Len(sign), "0")
         ELSE (IF "-" \in fl THEN <<>> ELSE Times(pad, " ")) \o sign)
          \o int \o (IF m > 0 THEN <<".">> \o frac ELSE <<>>)
          \o Times(AtLeast0(m - Len(frac)), "0")
          \o (IF "-" \in fl THEN Times(pad, " ") ELSE <<>>)

-----------------------------------------------------------------------------
\* How an item is written in a format, and its arguments.
Number(n) == IF n < 10 THEN <<Digit[n + 1]>> ELSE <<Digit[(n \div 10) + 1], Digit[(n % 10) + 1]>>
IsLit(item) == "lit" \in DOMAIN item
Spell(item) ==
    IF IsLit(item) THEN <<item.lit>>
    ELSE <<"%">> \o item.flags
         \o (IF item.star THEN <<"*">> ELSE IF item.min > 0 THEN Number(item.min) ELSE <<>>)
         \o (IF item.max < 0 THEN <<>>
             ELSE <<".">> \o (IF item.star THEN <<"*">> ELSE Number(item.max)))
         \o item.mod \o item.conv
Args(item) ==
    IF IsLit(item) THEN <<>>
    ELSE (IF item.star THEN <<item.min>> \o (IF item.max < 0 THEN <<>> ELSE <<item.max>>)
          ELSE <<>>) \o item.args

PfInit ==
    /\ items = <<>> /\ format = <<>> /\ vargs = <<>>
    /\ pstate = "out"
    /\ pos = 1
    /\ flags = {} /\ cflags = <<>> /\ min = 0 /\ max = -1
    /\ out = <<>>
    /\ num = -1

\* printf and vprintf
Call ==
    /\ pstate = "out"
    /\ pstate' = "default"
    /\ items' \in UNION {[1..n -> PItem] : n \in 0..MaxItems}
    /\ format' = FlattenSeq([k \in DOMAIN items' |-> Spell(items'[k])])
    /\ vargs' = FlattenSeq([k \in DOMAIN items' |-> Args(items'[k])])
    /\ UNCHANGED <<pos, flags, cflags, min, max, out, num>>

ch == format[pos]

\* One turn of the loop in state s.
Turn(s) == pstate = s /\ pos <= Len(format) /\ Len(out) < MaxLen
Input == UNCHANGED <<items, format>>
Skip == pos' = pos + 1
To(s) == pstate' = s

Default ==
    /\ Turn("default")
    /\ Skip
    /\ IF ch = "%" THEN To("flags") /\ UNCHANGED out
       ELSE out' = Append(out, ch) /\ UNCHANGED pstate
    /\ Input /\ UNCHANGED <<vargs, flags, cflags, min, max, num>>

Flags ==
    /\ Turn("flags")
    /\ IF ch \in {"-", "+", " ", "#", "0"}
       THEN Skip /\ flags' = flags \cup {ch} /\ UNCHANGED pstate
       ELSE To("min") /\ UNCHANGED <<pos, flags>>
    /\ Input /\ UNCHANGED <<vargs, cflags, min, max, out, num>>

Min_ ==
    /\ Turn("min")
    /\ \/ /\ IsDigit(ch)
          /\ Skip /\ min' = 10 * min + DigitValue(ch) /\ UNCHANGED <<pstate, vargs>>
       \/ ch = "*" /\ Skip /\ To("dot") /\ min' = Head(vargs) /\ vargs' = Tail(vargs)
       \/ ~IsDigit(ch) /\ ch # "*" /\ To("dot") /\ UNCHANGED <<pos, min, vargs>>
    /\ Input /\ UNCHANGED <<flags, cflags, max, out, num>>

Dot ==
    /\ Turn("dot")
    /\ IF ch = "." THEN To("max") /\ Skip ELSE To("mod") /\ UNCHANGED pos
    /\ Input /\ UNCHANGED <<vargs, flags, cflags, min, max, out, num>>

Max_ ==
    /\ Turn("max")
    /\ \/ /\ IsDigit(ch)
          /\ Skip /\ max' = 10 * AtLeast0(max) + DigitValue(ch) /\ UNCHANGED <<pstate, vargs>>
       \/ ch = "*" /\ Skip /\ To("mod") /\ max' = Head(vargs) /\ vargs' = Tail(vargs)
       \/ ~IsDigit(ch) /\ ch # "*" /\ To("mod") /\ UNCHANGED <<pos, max, vargs>>
    /\ Input /\ UNCHANGED <<flags, cflags, min, out, num>>

Mod ==
    /\ Turn("mod")
    /\ To("conv")
    /\ IF ch \in {"h", "l", "L"} THEN Skip /\ cflags' = <<ch>> ELSE UNCHANGED <<pos, cflags>>
    /\ Input /\ UNCHANGED <<vargs, flags, min, max, out, num>>

\* va_arg of an unsigned type.
Unsigned(value, cf) == value % (IF cf = <<"l">> THEN LongWord ELSE IntWord)

\* The text of conversion c for argument a; e, g and unknown ones print nothing.
Text(c, a, mn, mx, fl, cf) ==
    CASE c \in {"d", "i"} -> Fmtint(a, 10, mn, mx, fl)
      [] c = "o" -> Fmtint(Unsigned(a, cf), 8, mn, mx, fl \cup {"unsigned"})
      [] c = "u" -> Fmtint(Unsigned(a, cf), 10, mn, mx, fl \cup {"unsigned"})
      [] c = "x" -> Fmtint(Unsigned(a, cf), 16, mn, mx, fl \cup {"unsigned"})
      [] c = "X" -> Fmtint(Unsigned(a, cf), 16, mn, mx, fl \cup {"unsigned", "up"})
      [] c = "f" -> Fmtfp(a, mn, mx, fl)
      [] c = "c" -> <<a>>
      [] c = "s" -> Fmtstr(a, mn, IF mx < 0 THEN MaxLen ELSE mx, fl)
      [] c = "p" -> Fmtint(a, 16, mn, mx, fl)
      [] c = "%" -> <<"%">>
      [] OTHER -> <<>>

TakesArg(c) == c \in {"d", "i", "o", "u", "x", "X", "f", "e", "E", "g", "G", "c", "s", "p", "n"}

\* Seeded fault: the flags of a conversion stay set for the next one.
ConvKeepsFlags ==
    /\ Turn("conv")
    /\ To("default")
    /\ out' = out \o Text(ch, IF TakesArg(ch) THEN Head(vargs) ELSE 0, min, max, flags, cflags)
    /\ vargs' = IF TakesArg(ch) THEN Tail(vargs) ELSE vargs
    /\ pos' = pos + IF ch = "w" THEN 2 ELSE 1
    /\ cflags' = <<>> /\ min' = 0 /\ max' = -1
    /\ Input /\ UNCHANGED <<flags, num>>

Conv ==
    /\ Turn("conv")
    /\ To("default")
    /\ out' = out \o Text(ch, IF TakesArg(ch) THEN Head(vargs) ELSE 0, min, max, flags, cflags)
    /\ vargs' = IF TakesArg(ch) THEN Tail(vargs) ELSE vargs
    /\ num' = IF ch = "n" THEN Len(out) ELSE num
    /\ pos' = pos + IF ch = "w" THEN 2 ELSE 1
    /\ flags' = {} /\ cflags' = <<>> /\ min' = 0 /\ max' = -1
    /\ Input

\* The end of the format, or maxlen characters.
Finish ==
    /\ pstate \notin {"out", "done"}
    /\ pos > Len(format) \/ Len(out) >= MaxLen
    /\ To("done")
    /\ Input /\ UNCHANGED <<vargs, pos, flags, cflags, min, max, out, num>>

PfNext == Call \/ Default \/ Flags \/ Min_ \/ Dot \/ Max_ \/ Mod \/ Conv \/ Finish

PfSpec == PfInit /\ [][PfNext]_pfVars

-----------------------------------------------------------------------------
\* The text of an item, from its own fields.
Meant(item) ==
    IF IsLit(item) THEN <<item.lit>>
    ELSE Text(item.conv[1], IF item.args = <<>> THEN 0 ELSE item.args[1],
              item.min, item.max, ToSet(item.flags), item.mod)

\* dopr reads every directive by itself: the text is that of the items in order, each
\* from its own flags, width, precision and arguments, up to the first that reaches
\* maxlen.
DirectivesIndependent ==
    pstate = "done" =>
      \E n \in 0..Len(items) :
        LET upto(k) == FlattenSeq([i \in 1..k |-> Meant(items[i])]) IN
        /\ out = upto(n)
        /\ n = Len(items) \/ Len(out) >= MaxLen
        /\ \A k \in 0..(n - 1) : Len(upto(k)) < MaxLen

\* The number a text of fmtint denotes: blanks, a sign, and digits of the base.
Numeral(text, base) ==
    LET ds == SelectSeq(text, LAMBDA c : c \notin {" ", "+", "-"})
        val[k \in 0..Len(ds)] == IF k = 0 THEN 0 ELSE val[k - 1] * base + DigitValue(ds[k])
    IN  IF "-" \in ToSet(text) THEN -val[Len(ds)] ELSE val[Len(ds)]

\* An integer of fewer than ConvertSize digits reads back from its text: padding,
\* precision and sign never touch its digits, the sign stands before the first digit,
\* and the text is as wide as asked, unless zero padding meets a precision.
NumbersReadBack ==
    pstate = "done" => \A k \in DOMAIN items :
      LET item == items[k] IN
      (~IsLit(item) /\ item.conv[1] \in {"d", "i", "u", "o", "x", "X"}) =>
        LET c == item.conv[1]
            base == CASE c = "o" -> 8 [] c \in {"x", "X"} -> 16 [] OTHER -> 10
            a == IF c \in {"d", "i"} THEN item.args[1] ELSE Unsigned(item.args[1], item.mod)
            text == Meant(item)
            signs == {i \in DOMAIN text : text[i] \in {"-", "+"}}
        IN  (IF a < 0 THEN -a ELSE a) < base^(ConvertSize - 1) =>
              /\ Numeral(text, base) = a
              /\ \A i \in signs : \A j \in 1..(i - 1) : text[j] = " "
              /\ Len(text) >= item.min \/ ("0" \in ToSet(item.flags) /\ item.max > 0)
=============================================================================
