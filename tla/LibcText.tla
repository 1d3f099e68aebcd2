------------------------------- MODULE LibcText -------------------------------
(***************************************************************************)
(* Numbers and text in the C library: the engine behind the printf family, *)
(* strtol, atoi and sscanf.  A character is a string of length one and a   *)
(* text a sequence of them, without the byte that ends it.  They keep no   *)
(* state: a state is a call with its arguments, and the properties hold    *)
(* each function against what the C language says of the call.             *)
(***************************************************************************)
EXTENDS Integers, Sequences, FiniteSets, SequencesExt, FiniteSetsExt

CONSTANTS
    LongBits,     \* the width of int and long, 32 on the machine
    TextFlaws     \* calls the library gets wrong that are made all the same

ASSUME TextAssumption ==
    LongBits \in Nat \ {0, 1} /\ TextFlaws \subseteq {"precision", "empty", "overflow", "sign"}

VARIABLE call   \* the call in question

textVars == <<call>>

Nul == ""
Numerals == <<"0", "1", "2", "3", "4", "5", "6", "7", "8", "9", "a", "b", "c", "d", "e", "f">>
Capitals == SubSeq(Numerals, 1, 10) \o <<"A", "B", "C", "D", "E", "F">>
Decimals == ToSet(SubSeq(Numerals, 1, 10))
Space == {" ", "\n"}

Rep(c, n) == [i \in 1..n |-> c]
At(s, i) == IF i \in 1..Len(s) THEN s[i] ELSE Nul
From(s, i) == SubSeq(s, i, Len(s))
\* The index where a scan that begins at i and passes over the characters of C stops.
Past(s, i, C) == Min({j \in i..Len(s) + 1 : At(s, j) \notin C})
Wrapped(v) == ((v + 2^(LongBits - 1)) % 2^LongBits) - 2^(LongBits - 1)

-----------------------------------------------------------------------------
(* Numbers to text. *)

RECURSIVE FormatUint(_, _, _)
FormatUint(v, base, digits) ==
    IF v < base THEN <<digits[v + 1]>>
    ELSE Append(FormatUint(v \div base, base, digits), digits[(v % base) + 1])

\* format_float of n eighths, which doubles hold exactly: it cuts off, it does not round.
RECURSIVE Fraction(_, _)
Fraction(n, precision) ==
    IF precision = 0 THEN <<>>
    ELSE <<Numerals[((n * 10) \div 8) + 1]>> \o Fraction((n * 10) % 8, precision - 1)

FormatFloat(n, precision) ==
    LET size == IF n < 0 THEN -n ELSE n
    IN  (IF n < 0 THEN <<"-">> ELSE <<>>) \o FormatUint(size \div 8, 10, Numerals)
        \o (IF precision > 0 THEN <<".">> \o Fraction(size % 8, precision) ELSE <<>>)

RECURSIVE Atoi10(_)
Atoi10(s) == IF s = <<>> THEN 0
             ELSE Atoi10(Front(s)) * 10 + (CHOOSE d \in 0..9 : Numerals[d + 1] = Last(s))

NoPrecision == -1

\* A width or a precision: digits, or the next argument.
Number(s, args) ==
    IF At(s, 1) = "*" THEN [value |-> Head(args), rest |-> Tail(s), args |-> Tail(args)]
    ELSE LET end == Past(s, 1, Decimals)
         IN  [value |-> Atoi10(SubSeq(s, 1, end - 1)), rest |-> From(s, end), args |-> args]

\* l and h may be doubled; z, j and t are not.
LengthEnd(s) ==
    CASE At(s, 1) \in {"l", "h"} -> IF At(s, 2) = At(s, 1) THEN 3 ELSE 2
      [] At(s, 1) \in {"z", "j", "t"} -> 2
      [] OTHER -> 1

Precision(wide) ==
    IF At(wide.rest, 1) = "." THEN Number(Tail(wide.rest), wide.args)
    ELSE [wide EXCEPT !.value = NoPrecision]

Conversion(flags, wide, precise) ==
    LET conv == From(precise.rest, LengthEnd(precise.rest))
    IN  [flags |-> flags, width |-> wide.value, precision |-> precise.value,
         conv |-> At(conv, 1), rest |-> From(conv, 2), args |-> precise.args]

\* What follows a %: flags, width, precision, length and conversion.
Directive(s, args) ==
    LET flagged == Past(s, 1, {"-", "0", "+", " ", "#"})
        wide == Number(From(s, flagged), args)
    IN  Conversion({s[i] : i \in 1..flagged - 1}, wide, Precision(wide))

Left(d) == "-" \in d.flags
Pad(d, length) == IF d.width > length THEN d.width - length ELSE 0

\* d, i
Signed(d, v) ==
    LET s == FormatUint(IF v < 0 THEN -v ELSE v, 10, Numerals)
        prefix == CASE v < 0 -> <<"-">>
                    [] v >= 0 /\ "+" \in d.flags -> <<"+">>
                    [] v >= 0 /\ "+" \notin d.flags /\ " " \in d.flags -> <<" ">>
                    [] OTHER -> <<>>
        prec_pad == IF d.precision > Len(s) THEN d.precision - Len(s) ELSE 0
        pad == Pad(d, Len(s) + prec_pad + Len(prefix))
        zeroes == "0" \in d.flags /\ ~Left(d) /\ d.precision = NoPrecision
    IN  Rep(" ", IF Left(d) \/ zeroes THEN 0 ELSE pad) \o prefix
        \o Rep("0", IF zeroes THEN pad ELSE 0) \o Rep("0", prec_pad) \o s
        \o Rep(" ", IF Left(d) THEN pad ELSE 0)

\* u, and the float conversions with their text made: the precision is not looked at.
Filled1(d, s) ==
    LET pad == Pad(d, Len(s))
    IN  IF Left(d) THEN s \o Rep(" ", pad)
        ELSE Rep(IF "0" \in d.flags THEN "0" ELSE " ", pad) \o s

\* x, X
Hex(d, v) ==
    LET s == FormatUint(v, 16, IF d.conv = "X" THEN Capitals ELSE Numerals)
        prefix == IF "#" \in d.flags /\ v # 0 THEN <<"0", d.conv>> ELSE <<>>
        pad == Pad(d, Len(s) + Len(prefix))
        zero == "0" \in d.flags
    IN  Rep(" ", IF Left(d) \/ zero THEN 0 ELSE pad) \o prefix
        \o Rep("0", IF zero /\ ~Left(d) THEN pad ELSE 0) \o s
        \o Rep(" ", IF Left(d) THEN pad ELSE 0)

\* s: no more of the text than the precision says.
Text(d, s) ==
    LET t == IF d.precision = NoPrecision THEN s
             ELSE SubSeq(s, 1, IF d.precision < Len(s) THEN d.precision ELSE Len(s))
        pad == Pad(d, Len(t))
    IN  IF Left(d) THEN t \o Rep(" ", pad) ELSE Rep(" ", pad) \o t

Null == <<Nul>>   \* the null pointer given for a text

\* One conversion with its argument v.
Converted(d, v) ==
    CASE d.conv \in {"d", "i"} -> Signed(d, v)
      [] d.conv = "u" -> Filled1(d, FormatUint(v, 10, Numerals))
      [] d.conv \in {"x", "X"} -> Hex(d, v)
      [] d.conv = "o" -> FormatUint(v, 8, Numerals)
      [] d.conv = "p" -> <<"0", "x">> \o FormatUint(v, 16, Numerals)
      [] d.conv = "s" -> IF v = Null THEN <<"(", "n", "u", "l", "l", ")">> ELSE Text(d, v)
      [] d.conv = "c" -> <<v>>
      [] d.conv = "f" -> Filled1(d, FormatFloat(v, IF d.precision = NoPrecision THEN 6 ELSE d.precision))

\* format_to: what is emitted, and what %n stored.
RECURSIVE FormatTo(_, _, _, _), FormatDirective(_, _, _)
FormatTo(fmt, args, out, stored) ==
    IF fmt = <<>> \/ fmt = <<"%">> THEN [out |-> out, stored |-> stored]
    ELSE IF Head(fmt) # "%" THEN FormatTo(Tail(fmt), args, Append(out, Head(fmt)), stored)
    ELSE FormatDirective(Directive(Tail(fmt), args), out, stored)
FormatDirective(d, out, stored) ==
    CASE d.conv = "%" -> FormatTo(d.rest, d.args, Append(out, "%"), stored)
      [] d.conv = "n" -> FormatTo(d.rest, Tail(d.args), out, Len(out))
      [] d.conv \in {"d", "i", "u", "x", "X", "o", "p", "s", "c", "f"} ->
            FormatTo(d.rest, Tail(d.args), out \o Converted(d, Head(d.args)), stored)
      [] OTHER -> FormatTo(d.rest, d.args, out \o <<"%", d.conv>>, stored)

Printed(fmt, args) == FormatTo(fmt, args, <<>>, NoPrecision).out

Truncated(size, out) ==
    LET pos == IF Len(out) < size - 1 THEN Len(out) ELSE size - 1
    IN  [ret |-> Len(out),
         buf |-> IF size = 0 THEN <<>> ELSE SubSeq(out, 1, pos) \o <<Nul>> \o Rep("?", size - pos - 1)]

\* vsnprintf into size cells that held "?": what it returns and the cells.
Vsnprintf(size, fmt, args) ==
    Truncated(size, Printed(fmt, args))

-----------------------------------------------------------------------------
(* Text to numbers. *)

\* The value of a character as a digit; the letters after f end a number in any base used.
DigitValues ==
    [c \in ToSet(Numerals) \cup ToSet(Capitals) |->
        CHOOSE v \in 0..15 : c \in {Numerals[v + 1], Capitals[v + 1]}]
DigitOf(c) == IF c \in DOMAIN DigitValues THEN DigitValues[c] ELSE 99

\* result.wrapping_mul(base).wrapping_add(digit) over the digits.
RECURSIVE Accumulated(_, _)
Accumulated(s, base) ==
    IF s = <<>> THEN 0 ELSE Wrapped(Accumulated(Front(s), base) * base + DigitOf(Last(s)))

AfterSign(s, i) == IF At(s, i) \in {"-", "+"} THEN i + 1 ELSE i

Atoi(s) ==
    LET first == Past(s, 1, Space)
        start == AfterSign(s, first)
        v == Accumulated(SubSeq(s, start, Past(s, start, Decimals) - 1), 10)
    IN  IF At(s, first) = "-" THEN Wrapped(-v) ELSE v

\* strtol: the number and where *endptr points.
Strtol(s, radix) ==
    LET first == Past(s, 1, Space)
        signed == AfterSign(s, first)
        hex == At(s, signed) = "0" /\ At(s, signed + 1) \in {"x", "X"}
        base == IF radix # 0 THEN radix
                ELSE IF hex THEN 16 ELSE IF At(s, signed) = "0" THEN 8 ELSE 10
        start == IF hex /\ radix \in {0, 16} THEN signed + 2
                 ELSE IF radix = 0 /\ base = 8 THEN signed + 1 ELSE signed
        end == Past(s, start, {c \in DOMAIN DigitValues : DigitOf(c) < base})
        v == Accumulated(SubSeq(s, start, end - 1), base)
    IN  [value |-> IF At(s, first) = "-" THEN Wrapped(-v) ELSE v, end |-> end]

\* vsscanf: what it stored, in order; it returns how many.
RECURSIVE Vsscanf(_, _, _)
Vsscanf(s, fmt, stored) ==
    IF fmt = <<>> THEN stored
    ELSE IF Head(fmt) \in Space THEN Vsscanf(From(s, Past(s, 1, Space)), Tail(fmt), stored)
    ELSE IF Head(fmt) # "%"
    THEN IF At(s, 1) = Head(fmt) THEN Vsscanf(Tail(s), Tail(fmt), stored) ELSE stored
    ELSE LET at == Past(s, 1, Space)
             digits == Past(s, AfterSign(s, at), Decimals)
             word == Min({j \in at..Len(s) + 1 : At(s, j) \in Space \cup {Nul}}) IN
         CASE At(fmt, 2) \in {"d", "i"} ->
                 IF digits = at THEN stored
                 ELSE Vsscanf(From(s, digits), From(fmt, 3), Append(stored, Atoi(From(s, at))))
           [] At(fmt, 2) = "s" ->
                 Vsscanf(From(s, word), From(fmt, 3), Append(stored, SubSeq(s, at, word - 1)))
           [] OTHER -> stored

-----------------------------------------------------------------------------
(* The calls. *)

NoCall == [kind |-> "none"]

Texts(C, n) == UNION {[1..k -> C] : k \in 0..n}

Values == {-12, -1, 0, 7, 10, 105}

\* Directives that the language defines and, unless asked for, the library knows.
Directives ==
    {d \in [flags : SUBSET {"-", "0", "+", "#"} \cup {{" "}}, star : BOOLEAN, width : {0, 1, 6},
            precision : {NoPrecision, 0, 3}, conv : {"d", "u", "x", "X", "s", "f"}] :
        /\ "#" \in d.flags => d.conv \in {"x", "X"}
        /\ d.flags \cap {"+", " "} # {} => d.conv = "d"
        /\ "0" \in d.flags => d.conv # "s"
        /\ {"+", "0", "-"} \subseteq d.flags => ~d.star
        /\ d.width = 0 => ~d.star /\ "0" \notin d.flags
        /\ "precision" \in TextFlaws \/ d.precision = NoPrecision \/ d.conv \notin {"u", "x", "X"}
        /\ "sign" \in TextFlaws \/ d.conv # "f" \/ "0" \notin d.flags}

Arguments(d) ==
    CASE d.conv = "d" -> Values
      [] d.conv \in {"u", "x", "X"} -> {v \in Values : v >= 0}
      [] d.conv = "s" -> {<<>>, <<"a">>, <<"a", "b", "a", "b">>}
      [] d.conv = "f" -> {-12, 0, 7, 80}

CallPrintf ==
    \E d \in Directives : \E v \in Arguments(d), size \in {0, 4, 20} :
        call' = [kind |-> "printf", d |-> d, v |-> v, size |-> size]

\* A number is read in the base it begins with, or in one that is given.
CallStrtol ==
    \E s \in Texts({" ", "-", "0", "1", "9", "x", "F"}, 4), base \in {0, 10, 16} :
        call' = [kind |-> "strtol", s |-> s, base |-> base]

CallSscanf ==
    \E s \in Texts({" ", "-", "1", "a"}, 5) : call' = [kind |-> "sscanf", s |-> s]

TextInit == call = NoCall

TextNext == call = NoCall /\ (CallPrintf \/ CallStrtol \/ CallSscanf)

TextSpec == TextInit /\ [][TextNext]_textVars

-----------------------------------------------------------------------------
(* What the C language says of these calls. *)

\* The number that digits stand for.
Denotes(digits, base) ==
    MapThenSumSet(LAMBDA i : DigitOf(digits[i]) * base^(Len(digits) - i), 1..Len(digits))

Size1(v) == IF v < 0 THEN -v ELSE v

Atleast(m, n) == IF m > n THEN m ELSE n

\* t is body filled up with spaces to the width, on the side the flags say.
Justified(t, body, d) ==
    LET fill == Rep(" ", Atleast(d.width - Len(body), 0))
    IN  t = IF "-" \in d.flags THEN body \o fill ELSE fill \o body

\* t shows the integer v: a sign or prefix, then one digit and those the precision asks for,
\* or with the flag 0 as many as fill the width.
ShowsInteger(t, d, v) ==
    LET base == IF d.conv \in {"x", "X"} THEN 16 ELSE 10
        digits == ToSet(IF d.conv = "X" THEN Capitals ELSE Numerals)
        sign == CASE v < 0 -> <<"-">>
                  [] v > 0 /\ "#" \in d.flags -> <<"0", d.conv>>
                  [] v >= 0 /\ "+" \in d.flags -> <<"+">>
                  [] v >= 0 /\ " " \in d.flags -> <<" ">>
                  [] OTHER -> <<>>
        full == d.flags \cap {"0", "-"} = {"0"} /\ d.precision = NoPrecision
    IN  \E n \in 1..Len(t) : \E at \in 0..Len(t) - n :
            LET shown == SubSeq(t, at + 1, at + n)
                zeros == IF full THEN Atleast(d.width - Len(sign) - n, 0) ELSE Atleast(d.precision - n, 0)
                body == sign \o Rep("0", zeros) \o shown
            IN  /\ ToSet(shown) \subseteq digits
                /\ Denotes(shown, base) = Size1(v)
                /\ n > 1 => shown[1] # "0"
                /\ Justified(t, body, d)

\* t shows n eighths to the places asked for, six if none are, and never too large.
ShowsFraction(t, d, n) ==
    LET places == IF d.precision = NoPrecision THEN 6 ELSE d.precision
        text == SelectSeq(t, LAMBDA c : c # " ")
        digits == SelectSeq(text, LAMBDA c : c \in Decimals)
        point == IF places = 0 THEN <<>> ELSE <<".">>
    IN  /\ text = (IF n < 0 THEN <<"-">> ELSE <<>>) \o SubSeq(digits, 1, Len(digits) - places)
                  \o point \o SubSeq(digits, Len(digits) - places + 1, Len(digits))
        /\ Denotes(digits, 10) * 8 <= Size1(n) * 10^places
        /\ Size1(n) * 10^places < (Denotes(digits, 10) + 1) * 8
        /\ Justified(t, text, d)

Shows(t, d, v) ==
    CASE d.conv \in {"d", "u", "x", "X"} -> ShowsInteger(t, d, v)
      [] d.conv = "f" -> ShowsFraction(t, d, v)
      [] d.conv = "s" ->
            Justified(t, IF d.precision = NoPrecision THEN v ELSE SubSeq(v, 1, Min({d.precision, Len(v)})), d)

\* The format that asks for d, between a plain character and a percent sign.
Spelled(d) ==
    <<"=", "%">> \o SetToSeq(d.flags)
    \o (IF d.star THEN <<"*">> ELSE IF d.width = 0 THEN <<>> ELSE <<Numerals[d.width + 1]>>)
    \o (IF d.precision = NoPrecision THEN <<>> ELSE <<".", Numerals[d.precision + 1]>>)
    \o <<d.conv, "%", "%", "%", "n">>

\* Of a printf: whole is all that it emits and what %n stored, cells what snprintf left.
PrintsRight(d, whole, cells) ==
    LET t == SubSeq(whole.out, 2, Len(whole.out) - 1)
        kept == Min({call.size - 1, Len(whole.out)})
    IN  /\ whole.out = <<"=">> \o t \o <<"%">> /\ Shows(t, d, call.v)
        /\ whole.stored = Len(whole.out) /\ cells.ret = Len(whole.out)
        /\ Len(cells.buf) = call.size
        /\ call.size > 0 =>
              /\ SubSeq(cells.buf, 1, kept + 1) = Append(SubSeq(whole.out, 1, kept), Nul)
              /\ \A i \in kept + 2..call.size : cells.buf[i] = "?"
        /\ d.conv \in {"d", "u"} => /\ Strtol(t, 10).value = call.v
                                   /\ Vsscanf(whole.out, <<"=", "%", "d">>, <<>>) = <<call.v>>
        /\ d.conv \in {"x", "X"} => Strtol(t, 16).value = call.v

\* printf shows the value as the directive says, with its argument found wherever the
\* width is; snprintf writes what fits and the end of the text, and tells how long the
\* whole is; what it wrote for an integer, strtol and sscanf read back.
PrintfIsRight ==
    call.kind = "printf" =>
        LET d == call.d
            args == (IF d.star THEN <<d.width>> ELSE <<>>) \o <<call.v, 0>>
        IN  PrintsRight(d, FormatTo(Spelled(d), args, <<>>, NoPrecision), Vsnprintf(call.size, Spelled(d), args))

\* strtol reads the longest number there is in the base and stops behind it.  Unless
\* asked for, a number has a digit and fits.
StrtolIsRight ==
    call.kind = "strtol" =>
        \A i \in 1..Len(call.s) + 1 : \A j \in i..Len(call.s) + 1 :
        \A k \in j..Len(call.s) + 1 : \A e \in k..Len(call.s) + 1 :
            LET s == call.s
                sign == SubSeq(s, i, j - 1)
                prefix == SubSeq(s, j, k - 1)
                digits == SubSeq(s, k, e - 1)
                base == IF prefix # <<>> THEN 16
                        ELSE IF call.base # 0 THEN call.base
                        ELSE IF At(s, k) = "0" THEN 8 ELSE 10
                value == (IF sign = <<"-">> THEN -1 ELSE 1) * Denotes(digits, base)
                got == Strtol(s, call.base)
            IN  /\ \A n \in 1..i - 1 : s[n] = " "
                /\ sign \in {<<>>, <<"-">>}
                /\ prefix \in {<<>>} \cup IF call.base \in {0, 16} THEN {<<"0", "x">>} ELSE {}
                /\ e > k \/ "empty" \in TextFlaws
                /\ \A n \in 1..Len(digits) : DigitOf(digits[n]) < base
                /\ e = Len(s) + 1 \/ DigitOf(s[e]) >= base
                /\ ~(call.base \in {0, 16} /\ prefix = <<>> /\ At(s, k) = "0" /\ At(s, k + 1) = "x")
                /\ value = Wrapped(value) \/ "overflow" \in TextFlaws
                => got = [value |-> value, end |-> e]

\* sscanf takes a number, then a word, from wherever they begin, and leaves off at the
\* first that is not there.  Unless asked for, there are both, and the number has a digit.
SscanfIsRight ==
    call.kind = "sscanf" =>
        \A i \in 1..Len(call.s) + 1 : \A j \in i + 1..Len(call.s) + 1 :
        \A k \in j..Len(call.s) + 1 : \A m \in k + 1..Len(call.s) + 1 :
            LET s == call.s
                number == SubSeq(s, i, j - 1)
                word == SubSeq(s, k, m - 1)
                digits == SelectSeq(number, LAMBDA c : c = "1")
                value == (IF number # digits THEN -1 ELSE 1) * Denotes(digits, 10)
            IN  /\ \A n \in (1..i - 1) \cup (j..k - 1) : s[n] = " "
                /\ number \in {digits, <<"-">> \o digits}
                /\ digits # <<>> \/ "sign" \in TextFlaws
                /\ At(s, j) # "1" /\ " " \notin ToSet(word) /\ At(s, m) \in {" ", Nul}
                /\ value = Wrapped(value)
                => Vsscanf(s, <<"%", "d", "%", "s">>, <<>>) = <<value, word>>

TextIsRight == PrintfIsRight /\ StrtolIsRight /\ SscanfIsRight

-----------------------------------------------------------------------------
(***************************************************************************)
(* string.rs, qsort and bsearch of stdlib.rs, and dirent.rs.  Strings lie  *)
(* in memory with the byte that ends them, and a pointer is an index.  The *)
(* first two keep no state but strtok's: a state is a use of them, held    *)
(* against its meaning.  readdir is stateful, and a step is a call.        *)
(***************************************************************************)

CONSTANTS
    DirBufSize,   \* DIR_BUF_SIZE
    Listings,     \* the directories, as sequences of names
    DirFlaws      \* listings that readdir gets wrong and a kernel might send

ASSUME StringsAssumption ==
    DirBufSize \in Nat \ {0} /\ DirFlaws \subseteq {"empty", "unterminated", "long", "badread"}

VARIABLES
    use,       \* the strings or the array in question
    dir,       \* the DIR of the directory that is open
    listing,   \* what the kernel has of the directory
    entries    \* the names readdir has returned, and whether it has returned the null pointer

stringsVars == <<use, dir, listing, entries>>

Null0 == 0             \* the null pointer
End == 0               \* the byte that ends a string
Letters == {65, 97, 98}   \* A, a and b
InMemory(s) == Append(s, End)
\* The string at p.
StringAt(m, p) == SubSeq(m, p, Min({i \in p..Len(m) : m[i] = End}) - 1)
\* Where a loop from i to n ends: the first index that breaks it, or n + 1.
FirstOr(i, n, breaks) == Min({j \in i..n : j \in breaks} \cup {n + 1})

Strlen(m) == FirstOr(1, Len(m), {j \in DOMAIN m : m[j] = End}) - 1
Strnlen(m, maxlen) == FirstOr(1, maxlen, {j \in DOMAIN m : m[j] = End}) - 1

\* strcmp, strcoll: the loop leaves where the strings differ or the first ends.
Strcoll(a, b) ==
    LET i == Min({j \in DOMAIN a \cap DOMAIN b : a[j] # b[j] \/ a[j] = End}) IN a[i] - b[i]

Strncmp(a, b, n) ==
    LET i == FirstOr(1, n, {j \in DOMAIN a \cap DOMAIN b : a[j] # b[j] \/ a[j] = End})
    IN  IF i > n THEN 0 ELSE a[i] - b[i]

ToLower(c) == IF c \in 65..90 THEN c + 32 ELSE c
Lowered(m) == [i \in DOMAIN m |-> ToLower(m[i])]
Strcasecmp(a, b) == Strcoll(Lowered(a), Lowered(b))
Strncasecmp(a, b, n) == Strncmp(Lowered(a), Lowered(b), n)

\* Copies into memory d at p.
Stored(d, p, s) == [i \in DOMAIN d |-> IF i \in p..p + Len(s) - 1 THEN s[i - p + 1] ELSE d[i]]
Strcpy(d, p, m) == Stored(d, p, SubSeq(m, 1, Strlen(m) + 1))
\* stpcpy: the pointer to the end it wrote, too.
Stpcpy(d, m) == [mem |-> Strcpy(d, 1, m), ptr |-> Strlen(m) + 1]
Strncpy(d, m, n) ==
    LET k == FirstOr(1, n, {j \in DOMAIN m : m[j] = End})
    IN  Stored(d, 1, [i \in 1..n |-> IF i < k THEN m[i] ELSE End])
Strcat(d, m) == Strcpy(d, Strlen(d) + 1, m)
Strncat(d, m, n) ==
    LET k == FirstOr(1, n, {j \in DOMAIN m : m[j] = End}) - 1
    IN  Stored(d, Strlen(d) + 1, Append(SubSeq(m, 1, k), End))

\* Searches return a pointer; the byte that ends the string can be looked for.
Strchr(m, c) ==
    LET i == Min({j \in DOMAIN m : m[j] \in {c, End}}) IN IF m[i] = c THEN i ELSE Null0
Strrchr(m, c) == Max({Null0} \cup {j \in 1..Strlen(m) + 1 : m[j] = c})
Strstr(h, n) ==
    IF n[1] = End THEN 1
    ELSE LET i == FirstOr(1, Strlen(h), {j \in 1..Strlen(h) : Strncmp(SubSeq(h, j, Len(h)), n, Strlen(n)) = 0})
         IN  IF i > Strlen(h) THEN Null0 ELSE i
Strspn(m, set) == FirstOr(1, Strlen(m), {j \in DOMAIN m : m[j] \notin set}) - 1
Strcspn(m, set) == FirstOr(1, Strlen(m), {j \in DOMAIN m : m[j] \in set}) - 1
Strpbrk(m, set) ==
    LET i == FirstOr(1, Strlen(m), {j \in DOMAIN m : m[j] \in set}) IN IF i > Strlen(m) THEN Null0 ELSE i
Memchr(m, c, n) ==
    LET i == FirstOr(1, n, {j \in DOMAIN m : m[j] = c}) IN IF i > n THEN Null0 ELSE i
Memrchr(m, c, n) == Max({Null0} \cup {j \in 1..n : m[j] = c})

\* strtok from p in memory m: the token, the memory with its end marked, STRTOK_POS.
Strtok(m, p, delim) ==
    IF p = Null0 THEN [token |-> Null0, mem |-> m, pos |-> Null0]
    ELSE LET start == Min({j \in p..Len(m) : m[j] \notin delim})
             end == Min({j \in start..Len(m) : m[j] = End \/ m[j] \in delim}) IN
         IF m[start] = End THEN [token |-> Null0, mem |-> m, pos |-> Null0]
         ELSE [token |-> start, mem |-> [m EXCEPT ![end] = End],
               pos |-> IF m[end] = End THEN Null0 ELSE end + 1]

\* The tokens of the calls that follow, until one gives the null pointer.
RECURSIVE TokensFrom(_, _, _)
TokensFrom(m, p, delim) ==
    LET r == Strtok(m, p, delim)
    IN  IF r.token = Null0 THEN <<>>
        ELSE <<StringAt(r.mem, r.token)>> \o TokensFrom(r.mem, r.pos, delim)

-----------------------------------------------------------------------------
(* Arrays; the comparison is of keys, and elements carry a tag. *)

\* The inner loop of qsort: elements larger than tmp move up, and tmp goes where they were.
RECURSIVE Sifted(_, _, _)
Sifted(a, j, tmp) ==
    IF j > 1 /\ a[j - 1].key > tmp.key THEN Sifted([a EXCEPT ![j] = a[j - 1]], j - 1, tmp)
    ELSE [a EXCEPT ![j] = tmp]

RECURSIVE SortedTo(_, _)
SortedTo(a, i) == IF i > Len(a) THEN a ELSE SortedTo(Sifted(a, i, a[i]), i + 1)

Qsort(a) == SortedTo(a, 2)

RECURSIVE Halved(_, _, _, _)
Halved(a, key, lo, hi) ==
    LET mid == lo + (hi - lo) \div 2 IN
    IF lo >= hi THEN Null0
    ELSE IF a[mid + 1].key = key THEN mid + 1
    ELSE IF key < a[mid + 1].key THEN Halved(a, key, lo, mid)
    ELSE Halved(a, key, mid + 1, hi)

Bsearch(a, key) == Halved(a, key, 0, Len(a))

-----------------------------------------------------------------------------
(* Directories.  The kernel sends the names, each with a byte that ends it. *)

RECURSIVE Sent(_)
Sent(names) == IF names = <<>> THEN <<>> ELSE InMemory(Head(names)) \o Sent(Tail(names))

NoUse == [kind |-> "none"]

NoEntries == [names |-> <<>>, ended |-> FALSE]

NoDir == [open |-> FALSE, buf |-> <<>>, pos |-> 1, offset |-> 0, eof |-> FALSE]

\* opendir; the buffer is as long as what is valid in it.
Opendir ==
    /\ ~dir.open /\ use = NoUse
    /\ \E names \in Listings :
          /\ "empty" \in DirFlaws \/ <<>> \notin ToSet(names)
          /\ "long" \in DirFlaws \/ \A n \in ToSet(names) : Len(n) < DirBufSize
          /\ listing' = IF "unterminated" \in DirFlaws /\ names # <<>> THEN Front(Sent(names))
                        ELSE Sent(names)
    /\ dir' = [NoDir EXCEPT !.open = TRUE]
    /\ entries' = NoEntries
    /\ UNCHANGED use

\* Looking for an entry in the buffer: an empty one moves the position, and the loop goes on.
Scanned(d) ==
    LET ends == {i \in d.pos..Len(d.buf) : d.buf[i] = End}
        first == Min(ends \ {d.pos})
    IN  IF ends \ {d.pos} # {} THEN [found |-> TRUE, pos |-> first + 1, name |-> SubSeq(d.buf, d.pos, first - 1)]
        ELSE [found |-> FALSE, pos |-> IF ends = {} THEN d.pos ELSE d.pos + 1, name |-> <<>>]

\* The turns of readdir's loop, for every number of bytes the kernel may return: the
\* outcomes as the DIR left, and the name unless it is the null pointer.
RECURSIVE ReadOn(_)
ReadOn(d) ==
    LET s == Scanned(d)
        kept == SubSeq(d.buf, s.pos, Len(d.buf))
        room == Min({DirBufSize - Len(kept), Len(listing) - d.offset})
        more(n) == [d EXCEPT !.buf = kept \o SubSeq(listing, d.offset + 1, d.offset + n),
                             !.pos = 1, !.offset = @ + n]
        done == [more(0) EXCEPT !.eof = TRUE]
        over == IF kept = <<>> THEN {[dir |-> done, null |-> TRUE, name |-> <<>>]} ELSE ReadOn(done) IN
    IF s.found \/ d.eof
    THEN {[dir |-> [d EXCEPT !.pos = s.pos], null |-> ~s.found, name |-> s.name]}
    ELSE IF room = 0 THEN over
    ELSE UNION {ReadOn(more(n)) : n \in 1..room} \cup IF "badread" \in DirFlaws THEN over ELSE {}

Readdir ==
    /\ dir.open /\ ~entries.ended
    /\ \E r \in ReadOn(dir) :
          /\ dir' = r.dir
          /\ entries' = IF r.null THEN [entries EXCEPT !.ended = TRUE]
                        ELSE [entries EXCEPT !.names = Append(@, r.name)]
    /\ UNCHANGED <<use, listing>>

Closedir ==
    /\ dir.open /\ entries.ended
    /\ dir' = NoDir /\ listing' = <<>> /\ entries' = NoEntries
    /\ UNCHANGED use

-----------------------------------------------------------------------------
Strings(n) == UNION {[1..k -> Letters] : k \in 0..n}

\* Two strings, a length no longer than the memory of the first, and a character.
UseStrings ==
    \E a \in Strings(3), b \in Strings(2), c \in Letters \cup {End} : \E n \in 0..Len(a) + 1 :
        use' = [kind |-> "strings", a |-> a, b |-> b, n |-> n, c |-> c]

UseArray ==
    \E n \in 0..4 : \E keys \in [1..n -> 1..3] :
        use' = [kind |-> "array", a |-> [i \in 1..n |-> [key |-> keys[i], tag |-> i]]]

StringsInit == use = NoUse /\ dir = NoDir /\ listing = <<>> /\ entries = NoEntries

StringsNext ==
    \/ Opendir \/ Readdir \/ Closedir
    \/ use = NoUse /\ ~dir.open /\ (UseStrings \/ UseArray) /\ UNCHANGED <<dir, listing, entries>>

StringsSpec == StringsInit /\ [][StringsNext]_stringsVars

-----------------------------------------------------------------------------
Begin(s, n) == SubSeq(s, 1, Min({n, Len(s)}))

Before(a, b) ==
    \E k \in 0..Len(a) : /\ k <= Len(b) /\ Begin(a, k) = Begin(b, k)
                         /\ \/ k = Len(a) /\ k < Len(b)
                            \/ k < Len(a) /\ k < Len(b) /\ a[k + 1] < b[k + 1]

Orders(cmp, a, b) == (cmp < 0) = Before(a, b) /\ (cmp > 0) = Before(b, a)

\* p points at the first index of S, or is null when S is empty.
PointsAtFirst(p, S) == p = IF S = {} THEN Null0 ELSE Min(S)

\* The maximal runs of characters that delimit nothing.
Runs0(a, delim) ==
    LET starts == {i \in DOMAIN a : a[i] \notin delim /\ (i = 1 \/ a[i - 1] \in delim)}
        run(i) == SubSeq(a, i, FirstOr(i, Len(a), {j \in DOMAIN a : a[j] \in delim}) - 1)
        order == SetToSortSeq(starts, <)
    IN  [k \in 1..Len(order) |-> run(order[k])]

\* Comparisons order strings, copies leave exactly the string that is meant and touch
\* nothing behind it, searches find the first or last place, and the calls of strtok
\* give the words of the text one by one.
StringCallsRight ==
    use.kind = "strings" =>
        LET a == use.a  b == use.b  c == use.c  n == use.n
            A == InMemory(a)  B == InMemory(b)
            D == A \o <<63, 63, 63, 63>>
            set == ToSet(b)
            untouched(m, k) == \A i \in k + 1..Len(D) : m[i] = D[i]
            copied(m, s) == StringAt(m, 1) = s /\ untouched(m, Len(s) + 1)
        IN  /\ Orders(Strcoll(A, B), a, b)
            /\ Orders(Strncmp(A, B, n), Begin(a, n), Begin(b, n))
            /\ Orders(Strncasecmp(A, B, n), Begin(Lowered(a), n), Begin(Lowered(b), n))
            /\ (Strcasecmp(A, B) = 0) = (Lowered(a) = Lowered(b))
            /\ copied(Strcpy(D, 1, B), b) /\ Stpcpy(D, B) = [mem |-> Strcpy(D, 1, B), ptr |-> Len(b) + 1]
            /\ copied(Strcat(D, B), a \o b) /\ copied(Strncat(D, B, n), a \o Begin(b, n))
            /\ \A i \in 1..n : Strncpy(D, B, n)[i] = IF i <= Len(b) THEN b[i] ELSE End
            /\ untouched(Strncpy(D, B, n), n)
            /\ PointsAtFirst(Strchr(D, c), {i \in DOMAIN A : A[i] = c})
            /\ PointsAtFirst(Memchr(A, c, n), {i \in 1..n : A[i] = c})
            /\ Strrchr(D, c) = Max({Null0} \cup {i \in DOMAIN A : A[i] = c})
            /\ Memrchr(A, c, n) = Max({Null0} \cup {i \in 1..n : A[i] = c})
            /\ PointsAtFirst(Strstr(D, B), {i \in 1..Len(A) - Len(b) : SubSeq(a, i, i + Len(b) - 1) = b})
            /\ PointsAtFirst(Strpbrk(D, set), {i \in DOMAIN a : a[i] \in set})
            /\ ToSet(Begin(a, Strspn(D, set))) \subseteq set /\ A[Strspn(D, set) + 1] \notin set
            /\ ToSet(Begin(a, Strcspn(D, set))) \cap set = {} /\ A[Strcspn(D, set) + 1] \in set \cup {End}
            /\ Strnlen(D, n) = Min({Len(a), n})
            /\ TokensFrom(A \o <<97, End>>, 1, set) = Runs0(a, set)

\* qsort orders the elements and loses none; bsearch finds a key in what it left if and
\* only if it is there.
ArrayCallsRight ==
    use.kind = "array" =>
        LET a == Qsort(use.a)
        IN  /\ ToSet(a) = ToSet(use.a) /\ Len(a) = Len(use.a)
            /\ \A i \in 2..Len(a) : a[i - 1].key <= a[i].key
            /\ \A key \in 0..4 : IF Bsearch(a, key) = Null0 THEN \A i \in DOMAIN a : a[i].key # key
                                   ELSE a[Bsearch(a, key)].key = key

\* readdir gives the names of the directory in order, and all of them before the null
\* pointer, however the kernel cuts up what it sends.
ReaddirIsRight ==
    LET ends == SetToSortSeq({i \in DOMAIN listing : listing[i] = End}, <)
        whole == [k \in 1..Len(ends) |-> SubSeq(listing, IF k = 1 THEN 1 ELSE ends[k - 1] + 1, ends[k] - 1)]
        last == SubSeq(listing, IF ends = <<>> THEN 1 ELSE Last(ends) + 1, Len(listing))
        names == SelectSeq(Append(whole, last), LAMBDA n : n # <<>>)
    IN  IF entries.ended THEN entries.names = names ELSE IsPrefix(entries.names, names)

\* The string functions, sorting and searching, and reading directories.
StringsAreRight == StringCallsRight /\ ArrayCallsRight /\ ReaddirIsRight
=============================================================================
