------------------------------- MODULE LibFormat -------------------------------
(***************************************************************************)
(* printf of the kernel's lib.c with itoa and strrev: one step for each    *)
(* turn of its loop.  Words have Word values instead of 2^32, so that %#x  *)
(* fills up to HexDigits places instead of 8.  The argument of a %c is a   *)
(* character, that of a %s the characters of the string.                   *)
(***************************************************************************)
EXTENDS Integers, Sequences, SequencesExt

CONSTANTS
    Word, HexDigits,    \* 2^32 and 8
    Formats,            \* format strings, as sequences of characters
    Words, Strings      \* the numbers and strings that are printed

ASSUME FormatAssumption == Word = 16^HexDigits /\ Words \subseteq 0..(Word - 1)

VARIABLES
    format, params,     \* the arguments of the call
    buf,                \* the place in format
    esp,                \* the next parameter
    out,                \* what has been printed
    printing

formatVars == <<format, params, buf, esp, out, printing>>

lookup == <<"0", "1", "2", "3", "4", "5", "6", "7", "8", "9", "A", "B", "C", "D", "E", "F">>
Numbers == {"x", "u", "d"}
Conversions == Numbers \cup {"c", "s"}

\* b swaps of the ends of s.
strrev(s) ==
    LET swapped[b \in 0..(Len(s) \div 2)] ==
            IF b = 0 THEN s
            ELSE [swapped[b - 1] EXCEPT ![b] = s[Len(s) + 1 - b], ![Len(s) + 1 - b] = s[b]]
    IN  swapped[Len(s) \div 2]

\* The digits of value, the lowest first, then reversed.
itoa(value, radix) ==
    LET newbuf[v \in 0..value] ==
            IF v = 0 THEN <<>> ELSE <<lookup[(v % radix) + 1]>> \o newbuf[v \div radix]
    IN  IF value = 0 THEN <<"0">> ELSE strrev(newbuf[value])

\* Mutant: the padding stops one place early.
Padded_Short(s) == [k \in 1..(HexDigits - 1 - Len(s)) |-> "0"] \o s

\* %#x: conv_buf is filled from the length of the number up to where it begins.
Padded(s) == [k \in 1..(HexDigits - Len(s)) |-> "0"] \o s

\* %d: the number is negated as a word, so the least one stays as it is.
Signed(v) ==
    IF v >= Word \div 2 THEN <<"-">> \o itoa((Word - v) % Word, 10) ELSE itoa(v, 10)

Converted(c, alternate, p) ==
    CASE c = "x" -> IF alternate THEN Padded(itoa(p.num, 16)) ELSE itoa(p.num, 16)
      [] c = "u" -> itoa(p.num, 10)
      [] c = "d" -> Signed(p.num)
      [] c \in {"c", "s"} -> p.chars

\* The end of the directive that begins with the % at i: the first character after it
\* that is no #.
Directive(f, i) == CHOOSE j \in (i + 1)..(Len(f) + 1) :
    /\ \A k \in (i + 1)..(j - 1) : f[k] = "#"
    /\ j > Len(f) \/ f[j] # "#"

\* The conversions of a format, in order; <<"end">> ends one whose last directive is not
\* complete, for which printf would read on behind the string.
ConversionsOf(f) ==
    LET from[i \in 1..(Len(f) + 1)] ==
            IF i > Len(f) THEN <<>>
            ELSE IF f[i] # "%" THEN from[i + 1]
            ELSE IF Directive(f, i) > Len(f) THEN <<"end">>
            ELSE <<f[Directive(f, i)]>> \o from[Directive(f, i) + 1]
    IN  SelectSeq(from[1], LAMBDA c : c \in Conversions \cup {"end"})

\* A parameter is a number or, for %c and %s, characters.
Param(w, s) == [num |-> w, chars |-> s]
Values(c) ==
    IF c \in Numbers THEN {Param(w, <<>>) : w \in Words}
    ELSE {Param(0, s) : s \in IF c = "c" THEN {<<"a">>} ELSE Strings}

\* The parameter lists that fit a sequence of conversions.
ParamLists(cs) ==
    LET upto[k \in 0..Len(cs)] ==
            IF k = 0 THEN {<<>>}
            ELSE {Append(p, v) : p \in upto[k - 1], v \in Values(cs[k])}
    IN  upto[Len(cs)]

NotPrinting == printing = FALSE /\ format = <<>> /\ params = <<>> /\ buf = 1 /\ esp = 1 /\ out = <<>>

\* printf is called with a complete format and a parameter for each conversion.
CallPrintf ==
    /\ ~printing /\ printing' = TRUE
    /\ \E f \in Formats : \E cs \in {ConversionsOf(f)} :
          /\ \A k \in 1..Len(cs) : cs[k] # "end"
          /\ format' = f
          /\ params' \in ParamLists(cs)
    /\ UNCHANGED <<buf, esp, out>>

\* default: putc(*buf).
Ordinary ==
    /\ printing /\ buf <= Len(format) /\ format[buf] # "%"
    /\ out' = Append(out, format[buf])
    /\ buf' = buf + 1
    /\ UNCHANGED <<format, params, esp, printing>>

\* A directive: any number of #, then the conversion; an unknown one prints nothing.
Convert ==
    /\ printing /\ buf <= Len(format) /\ format[buf] = "%"
    /\ \E j \in {Directive(format, buf)} : \E c \in {format[j]} :
          /\ IF c \in Conversions
             THEN out' = out \o Converted(c, j > buf + 1, params[esp]) /\ esp' = esp + 1
             ELSE out' = (IF c = "%" THEN Append(out, "%") ELSE out) /\ UNCHANGED esp
          /\ buf' = j + 1
    /\ UNCHANGED <<format, params, printing>>

PrintfReturns ==
    /\ printing /\ buf > Len(format)
    /\ printing' = FALSE /\ format' = <<>> /\ params' = <<>> /\ buf' = 1 /\ esp' = 1 /\ out' = <<>>

FormatNext == CallPrintf \/ Ordinary \/ Convert \/ PrintfReturns

-------------------------------------------------------------------------------
\* A number by its place values: the fewest digits that hold it, each from its power.
Numeral(v, radix) ==
    LET k == CHOOSE d \in 1..Word : v < radix^d /\ (d = 1 \/ v >= radix^(d - 1))
    IN  [i \in 1..k |-> lookup[((v \div radix^(k - i)) % radix) + 1]]

Value(v) == IF v >= Word \div 2 THEN v - Word ELSE v

Shown(c, sharp, p) ==
    LET v == p.num IN
    CASE c = "x" /\ sharp -> [i \in 1..HexDigits |-> lookup[((v \div 16^(HexDigits - i)) % 16) + 1]]
      [] c = "x" /\ ~sharp -> Numeral(v, 16)
      [] c = "u" -> Numeral(v, 10)
      [] c = "d" -> IF Value(v) < 0 THEN <<"-">> \o Numeral(-Value(v), 10) ELSE Numeral(v, 10)
      [] c \in {"c", "s"} -> p.chars

\* What is to be printed: ordinary characters and directives from the left.
Rendered ==
    LET from[i \in 1..(Len(format) + 1), k \in 1..(Len(params) + 1)] ==
            LET j == Directive(format, i) IN
            IF i > Len(format) THEN <<>>
            ELSE IF format[i] # "%" THEN <<format[i]>> \o from[i + 1, k]
            ELSE IF format[j] \in Conversions
                 THEN Shown(format[j], j > i + 1, params[k]) \o from[j + 1, k + 1]
            ELSE (IF format[j] = "%" THEN <<"%">> ELSE <<>>) \o from[j + 1, k]
    IN  from[1, 1]

\* When printf returns it has printed every ordinary character in its place and each
\* parameter, in order, as the number it is: zero, the least and the greatest word, the
\* sign, and with %#x all the places; no directive takes the parameter of another.
PrintfRenders == printing /\ buf > Len(format) => out = Rendered

===============================================================================
