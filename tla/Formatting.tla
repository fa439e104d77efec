----------------------------- MODULE Formatting -----------------------------
(***************************************************************************)
(* The conversions of printf (lib/stdio.c): what parse_conversion reads    *)
(* from the format, and what format_integer and format_string put out.     *)
(* Texts are sequences of one-character strings.                           *)
(***************************************************************************)
EXTENDS Integers, Sequences, SequencesExt

CONSTANT BufSize        \* characters in the buffer the digits are gathered in: 64

Digits == <<"0", "1", "2", "3", "4", "5", "6", "7", "8", "9", "a", "b", "c", "d", "e", "f">>
Value(ch) == (CHOOSE i \in DOMAIN Digits : Digits[i] = ch) - 1
IsDigit(ch) == ch \in {Digits[i] : i \in 1..10}
Flags == {"-", "+", " ", "#", "0", "'"}

\* base, what a # puts before the digits, and how many digits make a group.
base_d == [base |-> 10, x |-> <<>>, group |-> 3]
base_o == [base |-> 8, x |-> <<>>, group |-> 3]
base_x == [base |-> 16, x |-> <<"0", "x">>, group |-> 4]

\* How many characters of f, from the first on, satisfy Test.
Span(f, Test(_)) == CHOOSE n \in 0..Len(f) : (\A i \in 1..n : Test(f[i])) /\ (n = Len(f) \/ ~Test(f[n + 1]))
Rest(f, n) == SubSeq(f, n + 1, Len(f))
Number(f, n) == FoldLeft(LAMBDA v, ch : 10 * v + Value(ch), 0, SubSeq(f, 1, n))

\* A number in the format, or a * for which the next argument stands.
Amount(f, args) ==
    LET n == Span(f, IsDigit)
    IN  IF f # <<>> /\ f[1] = "*" THEN [v |-> args[1], f |-> Rest(f, 1), args |-> Rest(args, 1)]
        ELSE [v |-> Number(f, n), f |-> Rest(f, n), args |-> args]

\* What stands between the % and the letter of the conversion, read from c.format in three
\* steps; the lengths of types are left out.
ReadFlags(c) ==
    LET n == Span(c.format, LAMBDA ch : ch \in Flags)
        given == {c.format[i] : i \in 1..n}
    IN  [c EXCEPT !.format = Rest(c.format, n),
                  !.flags = given \ ((IF "-" \in given THEN {"0"} ELSE {}) \cup (IF "+" \in given THEN {" "} ELSE {}))]

\* A negative width, which only an argument can be, asks for the left side.
ReadWidth(c) ==
    LET width == Amount(c.format, c.args)
    IN  [format |-> width.f, args |-> width.args, precision |-> -1,
         width |-> IF width.v < 0 THEN 0 - width.v ELSE width.v,
         flags |-> c.flags \cup (IF width.v < 0 THEN {"-"} ELSE {})]

ReadPrecision(c) ==
    IF c.format = <<>> \/ c.format[1] # "." THEN c
    ELSE LET prec == Amount(Rest(c.format, 1), c.args)
         IN  [c EXCEPT !.format = prec.f, !.args = prec.args,
                       !.precision = IF prec.v < 0 THEN -1 ELSE prec.v,
                       !.flags = IF prec.v < 0 THEN @ ELSE @ \ {"0"}]

parse_conversion(format, args) ==
    LET start == [format |-> format, args |-> args, flags |-> {}, width |-> 0, precision |-> -1]
    IN  CHOOSE read \in {ReadPrecision(c) : c \in {ReadWidth(d) : d \in {ReadFlags(start)}}} : TRUE

output_dup(ch, cnt) == [i \in 1..cnt |-> ch]

\* The digits of value, last first, commas between the groups if asked for.
DigitsOf(value, b, c) ==
    LET digit(r, i) ==
            IF r.value = 0 THEN r
            ELSE [value |-> r.value \div b.base,
                  out |-> r.out \o (IF "'" \in c.flags /\ i > 1 /\ (i - 1) % b.group = 0 THEN <<",">> ELSE <<>>)
                          \o <<Digits[(r.value % b.base) + 1]>>]
    IN  FoldLeft(digit, [value |-> value, out |-> <<>>], [i \in 1..BufSize |-> i]).out

format_integer(value, is_signed, negative, b, c) ==
    LET sign == IF ~is_signed THEN <<>> ELSE IF negative THEN <<"-">>
                ELSE IF "+" \in c.flags THEN <<"+">> ELSE IF " " \in c.flags THEN <<" ">> ELSE <<>>
        x == IF "#" \in c.flags /\ value # 0 THEN b.x ELSE <<>>
        digits == DigitsOf(value, b, c)
        precision == IF c.precision < 0 THEN 1 ELSE c.precision
        full == IF precision < BufSize - 1 THEN precision ELSE BufSize - 1
        precise == digits \o output_dup("0", full - Len(digits))
        octal == precise \o (IF "#" \in c.flags /\ b.base = 8 /\ (precise = <<>> \/ Last(precise) # "0") THEN <<"0">> ELSE <<>>)
        pad_cnt == c.width - Len(octal) - Len(x) - Len(sign)
    IN  (IF {"-", "0"} \cap c.flags = {} THEN output_dup(" ", pad_cnt) ELSE <<>>) \o sign \o x
        \o (IF "0" \in c.flags THEN output_dup("0", pad_cnt) ELSE <<>>) \o Reverse(octal)
        \o (IF "-" \in c.flags THEN output_dup(" ", pad_cnt) ELSE <<>>)

format_string(string, c) ==
    LET pad == output_dup(" ", c.width - Len(string))
    IN  IF "-" \in c.flags THEN string \o pad ELSE pad \o string

\* A conversion of __vprintf once it is read: its letter, and the argument it takes.  A signed
\* number is made positive before it is written; of a string at most precision characters are.
Converted(letter, arg, c) ==
    LET cut == IF c.precision < 0 \/ c.precision > Len(arg) THEN Len(arg) ELSE c.precision
    IN  CASE letter = "d" -> format_integer(IF arg < 0 THEN 0 - arg ELSE arg, TRUE, arg < 0, base_d, c)
          [] letter = "o" -> format_integer(arg, FALSE, FALSE, base_o, c)
          [] letter = "u" -> format_integer(arg, FALSE, FALSE, base_d, c)
          [] letter = "x" -> format_integer(arg, FALSE, FALSE, base_x, c)
          [] letter = "p" -> format_integer(arg, FALSE, FALSE, base_x, [c EXCEPT !.flags = {"#"}])
          [] letter = "c" -> format_string(<<arg>>, c)
          [] letter = "s" -> format_string(SubSeq(arg, 1, cut), c)

Convert(format, args) ==
    CHOOSE text \in {Converted(c.format[1], c.args[1], c) : c \in {parse_conversion(format, args)}} : TRUE

\* vsnprintf keeps what fits before the 0 that ends the buffer, and returns the whole length.
vsnprintf(buf_size, text) ==
    [length |-> Len(text), buffer |-> SubSeq(text, 1, IF Len(text) < buf_size THEN Len(text) ELSE buf_size - 1)]
=============================================================================
