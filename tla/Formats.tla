--------------------------------- MODULE Formats ---------------------------------
(***************************************************************************)
(* Formatted output (lib/libxc/fdoprnt.c), which printf() and sprintf()    *)
(* call: a format, a sequence of characters, and its arguments make a      *)
(* sequence of characters.                                                 *)
(*                                                                         *)
(* An int has PrBits bits.  The constants of the code for 32 bits, how     *)
(* many digits a number has in a base and the thousand million that makes  *)
(* a negative number positive, follow from that.                           *)
(***************************************************************************)
EXTENDS Integers, SequencesExt

CONSTANTS
    PrBits,
    PrString,       \* characters string[] has room for, 20 in the code
    MAXSTR,
    PrSpecs,        \* conversions: [conv, left, zero, star, min, max], see Format
    PrValues        \* what is printed with each conversion: ints, strings, characters

\* In base 10 a negative number gets ten digits by subtracting, of which the first has
\* room for what was subtracted (fdoprnt.c:132-146).
ASSUME RoomForDigit == \E n \in 1 .. PrBits :
           10^n <= 2^PrBits - 1 /\ 2^PrBits - 1 < 10^(n + 1) /\ 2 * 10^n <= 2^(PrBits - 1)

VARIABLES
    prspec, prvalue \* the conversion that is asked for, and its argument

prVars == <<prspec, prvalue>>

PrInit ==
    /\ prspec \in PrSpecs /\ prvalue \in PrValues[prspec.conv]

-----------------------------------------------------------------------------
(* Numbers.  The code stores digits as characters and adds to them.        *)

\* How many digits the largest unsigned number has.
Places(base) == CHOOSE n \in 1 .. PrBits : base^(n - 1) <= 2^PrBits - 1 /\ 2^PrBits - 1 < base^n

\* The last n digits of num; for a power of 2 the sign is shifted in, as by >>.
PlaceDigits(num, base, n) == [i \in 1 .. n |-> (num \div base^(n - i)) % base]

\* The digits without the zeros in front, of which the last is kept.
Significant(s) ==
    LET nonzero == {i \in DOMAIN s : s[i] # 0} \cup {Len(s)}
    IN  SubSeq(s, Min(nonzero), Len(s))

Prtl10(num) == Significant(PlaceDigits(num, 10, Places(10)))

\* Bits of the sign above the highest digit are masked off, in base 8.
Prtl8(num) ==
    LET n    == Places(8)
        temp == PlaceDigits(num, 8, n)
    IN  Significant([temp EXCEPT ![1] = @ % 2^(PrBits - 3 * (n - 1))])

Prtl16(num) == Significant(PlaceDigits(num, 16, Places(16)))
Prtl2(num) == Significant(PlaceDigits(num, 2, PrBits))

PrThousandMillion == 10^(Places(10) - 1)
PrWrapped(n) == IF n < -(2^(PrBits - 1)) THEN n + 2^PrBits ELSE n

\* Mutant of Unsigned: what is added to the first digit counts one less.
RECURSIVE UnsignedShort(_, _)
UnsignedShort(larg, digit1) ==
    IF larg < 0 THEN UnsignedShort(PrWrapped(larg - PrThousandMillion), digit1 + 1)
    ELSE [Prtl10(larg) EXCEPT ![1] = @ + IF digit1 > 0 THEN digit1 - 1 ELSE 0]

\* A negative number as an unsigned one: the thousand millions that made it positive are
\* added to the first digit.
RECURSIVE Unsigned(_, _)
Unsigned(larg, digit1) ==
    IF larg < 0 THEN Unsigned(PrWrapped(larg - PrThousandMillion), digit1 + 1)
    ELSE [Prtl10(larg) EXCEPT ![1] = @ + digit1]

Lower == <<"0", "1", "2", "3", "4", "5", "6", "7", "8", "9", "a", "b", "c", "d", "e", "f">>
Upper == <<"0", "1", "2", "3", "4", "5", "6", "7", "8", "9", "A", "B", "C", "D", "E", "F">>
Chars(digits, letters) == [i \in DOMAIN digits |-> letters[digits[i] + 1]]

\* Digits in string[], with a null byte behind them (fdoprnt.c:34).  What does not fit is
\* written over what the stack holds behind it, and nothing is known of the output then.
Overrun == "overrun"
InString(s) == IF Len(s) < PrString THEN s ELSE <<Overrun>>

\* The text of an argument, without its sign; unknown conversions are not modelled, they
\* print what string[] holds.
Converted(f, arg) ==
    CASE f = "c" -> InString(<<arg>>)
      [] f = "s" -> arg
      [] f = "d" -> InString(Chars(Prtl10(IF arg < 0 THEN -arg ELSE arg), Lower))
      [] f = "u" -> InString(Chars(Unsigned(arg, 0), Lower))
      [] f = "o" -> InString(Chars(Prtl8(arg), Lower))
      [] f = "X" -> InString(Chars(Prtl16(arg), Upper))
      [] f = "x" -> InString(Chars(Prtl16(arg), Lower))
      [] f = "b" -> InString(Chars(Prtl2(arg), Lower))

-----------------------------------------------------------------------------
(* Formats.                                                                *)

PrDigit == {Lower[i] : i \in 1 .. 10}
DigitOf(ch) == CHOOSE d \in 0 .. 9 : Lower[d + 1] = ch

\* A width: the next argument for a "*", or the digits there are.
Field(fmt, args) ==
    IF fmt # <<>> /\ Head(fmt) = "*" THEN [n |-> Head(args), fmt |-> Tail(fmt), args |-> Tail(args)]
    ELSE LET k == Min({i \in 0 .. Len(fmt) : i = Len(fmt) \/ fmt[i + 1] \notin PrDigit})
             value(n, ch) == n * 10 + DigitOf(ch)
         IN  [n |-> FoldLeft(value, 0, SubSeq(fmt, 1, k)), fmt |-> SubSeq(fmt, k + 1, Len(fmt)),
              args |-> args]

Starts(fmt, ch) == fmt # <<>> /\ Head(fmt) = ch

\* What stands between a "%" and its letter: [left, fill, fmin, fmax], and the rest.
Specified(fmt, args) ==
    LET left == Starts(fmt, "-")
        f1   == IF left THEN Tail(fmt) ELSE fmt
        zero == Starts(f1, "0")
        fmin == Field(IF zero THEN Tail(f1) ELSE f1, args)
        fmax == IF Starts(fmin.fmt, ".") THEN Field(Tail(fmin.fmt), fmin.args)
                ELSE [fmin EXCEPT !.n = 0]
    IN  [left |-> left, fill |-> IF zero THEN "0" ELSE " ", fmin |-> fmin.n, fmax |-> fmax.n,
         fmt |-> fmax.fmt, args |-> fmax.args]

PrTimes(n, ch) == [i \in 1 .. n |-> ch]

\* The text of an argument in its field; f is the letter, c what was specified.
InField(f, c, arg) ==
    LET str     == Converted(f, arg)
        sign    == f = "d" /\ arg < 0
        fill    == IF f \in {"c", "s"} THEN " " ELSE c.fill
        asked(n) == IF n > MAXSTR \/ n < 0 THEN 0 ELSE n
        fmin    == asked(c.fmin)
        fmax    == IF f \in {"s", "d"} THEN asked(c.fmax) ELSE 0
        length  == IF fmax # 0 THEN Min({fmax, Len(str)}) ELSE Len(str)
        leading == (IF fmin # 0 THEN fmin - length ELSE 0) - (IF sign THEN 1 ELSE 0)
        minus   == IF sign THEN <<"-">> ELSE <<>>
    IN  (IF fill = "0" THEN minus ELSE <<>>)
          \o (IF c.left THEN <<>> ELSE PrTimes(leading, fill))
          \o (IF fill = " " THEN minus ELSE <<>>)
          \o SubSeq(str, 1, length)
          \o (IF c.left THEN PrTimes(leading, fill) ELSE <<>>)

\* _fdoprnt(): what it writes.
RECURSIVE Fdoprnt(_, _)
Fdoprnt(fmt, args) ==
    IF fmt = <<>> THEN <<>>
    ELSE IF Head(fmt) # "%" THEN <<Head(fmt)>> \o Fdoprnt(Tail(fmt), args)
    ELSE IF Starts(Tail(fmt), "%") THEN <<"%">> \o Fdoprnt(SubSeq(fmt, 3, Len(fmt)), args)
    ELSE LET c == Specified(Tail(fmt), args)
         IN  IF c.fmt = <<>> THEN <<"%">>
             ELSE InField(Head(c.fmt), c, Head(c.args)) \o Fdoprnt(Tail(c.fmt), Tail(c.args))

-----------------------------------------------------------------------------
(* What a conversion means, not as the code goes about it.                 *)

PrWidth(n) == CASE n = 0 -> <<>> [] n < 10 -> <<Lower[n + 1]>>
                [] OTHER -> <<Lower[(n \div 10) + 1], Lower[(n % 10) + 1]>>

\* The format that asks for a conversion, with its widths in the format or as arguments.
Format(s) ==
    LET width(n) == IF s.star THEN <<"*">> ELSE PrWidth(n)
    IN  <<"%">> \o (IF s.left THEN <<"-">> ELSE <<>>) \o (IF s.zero THEN <<"0">> ELSE <<>>)
          \o width(s.min) \o (IF s.max = 0 THEN <<>> ELSE <<".">> \o width(s.max)) \o <<s.conv>>

PrArgs(s, v) ==
    IF ~s.star THEN <<v>> ELSE IF s.max = 0 THEN <<s.min, v>> ELSE <<s.min, s.max, v>>

PrBase(f) == CASE f \in {"d", "u"} -> 10 [] f = "o" -> 8 [] f = "b" -> 2 [] OTHER -> 16

\* The number some characters denote.
PrNumber(s, base) ==
    LET add(n, ch) == n * base + (CHOOSE d \in 0 .. 15 : ch \in {Lower[d + 1], Upper[d + 1]})
    IN  FoldLeft(add, 0, s)

PrNatural(s, v) ==
    LET n == IF s.conv = "d" THEN (IF v < 0 THEN -v ELSE v) ELSE v % 2^PrBits
    IN  [n |-> n, len |-> CHOOSE k \in 1 .. PrBits :
                            n < PrBase(s.conv)^k /\ (k = 1 \/ n >= PrBase(s.conv)^(k - 1))]

\* What is printed of a number is that number, as wide as asked for and not wider than
\* need be, filled on the right side (fdoprnt.c:30-235): "Left-justified output", "Allow
\* for zero-filled numeric outputs", "minimum field width", with "maximum string width for
\* %s"; and string[] is large enough for it (fdoprnt.c:34).  PrSpecs and PrValues leave out
\* the smallest int, whose negative is itself, zeros on the right of a left-justified
\* number, and numbers with more binary digits than string[] has room for.
PrintRight ==
    \A out \in {Fdoprnt(<<"t">> \o Format(prspec) \o <<"%", "%", "t">>, PrArgs(prspec, prvalue))} :
    LET text == SubSeq(out, 2, Len(out) - 2)
        min  == IF prspec.min \in 0 .. MAXSTR THEN prspec.min ELSE 0
        blank(ch) == ch # " "
        body == SelectSeq(text, blank)
        side == IF prspec.left THEN IsPrefix(body, text) ELSE IsSuffix(body, text)
    IN  /\ ~Contains(out, Overrun)
        /\ out = <<"t">> \o text \o <<"%", "t">> /\ side
        /\ IF prspec.conv \in {"c", "s"}
           THEN LET arg  == IF prspec.conv = "c" THEN <<prvalue>> ELSE prvalue
                    size == IF prspec.max = 0 THEN Len(arg) ELSE Min({prspec.max, Len(arg)})
                IN  body = SubSeq(arg, 1, size) /\ Len(text) = Max({min, size})
           ELSE LET num == PrNatural(prspec, prvalue)
                    neg == prspec.conv = "d" /\ prvalue < 0
                    len == num.len + IF neg THEN 1 ELSE 0
                IN  /\ neg = (Head(body) = "-")
                    /\ PrNumber(IF neg THEN Tail(body) ELSE body, PrBase(prspec.conv)) = num.n
                    /\ Len(text) = Max({min, len})
                    /\ Len(body) = IF prspec.zero THEN Len(text) ELSE len
==================================================================================
