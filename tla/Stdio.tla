-------------------------------- MODULE Stdio --------------------------------
(***************************************************************************)
(* Formatted output, src/lib/stdio.c: __vprintf with parse_conversion,     *)
(* format_integer and format_string, and vsnprintf.                        *)
(*                                                                         *)
(* A format and an output are sequences of characters, the arguments a     *)
(* sequence of integers and strings.  Integers keep the widths of their    *)
(* types.                                                                  *)
(***************************************************************************)
EXTENDS Strings, Stdlib, SequencesExt

CONSTANT BufSize    \* the size of format_integer's buffer: 64 in the source

ASSUME StdioAssumption == BufSize \in Nat \ {0}

Dup(c, cnt) == [i \in 1 .. cnt |-> c]

Flags == "-" :> "MINUS" @@ "+" :> "PLUS" @@ " " :> "SPACE" @@ "#" :> "POUND"
           @@ "0" :> "ZERO" @@ "'" :> "GROUP"

(***************************************************************************)
(* parse_conversion.  f is the rest of the format, args the arguments that *)
(* are left; the end of the format reads as its null terminator.           *)
(***************************************************************************)
At1(f) == IF f = <<>> THEN "NUL" ELSE Head(f)

RECURSIVE ParseFlags(_, _)
ParseFlags(f, flags) ==
  IF At1(f) \in DOMAIN Flags THEN ParseFlags(Tail(f), flags \cup {Flags[At1(f)]})
  ELSE [f |-> f, flags |-> (flags \ (IF "MINUS" \in flags THEN {"ZERO"} ELSE {}))
                             \ (IF "PLUS" \in flags THEN {"SPACE"} ELSE {})]

RECURSIVE ParseDigits(_, _)
ParseDigits(f, n) ==
  IF isdigit(At1(f)) THEN ParseDigits(Tail(f), n * 10 + DigitValue(At1(f)))
  ELSE [f |-> f, n |-> n]

\* A number, or a star that stands for the next argument.
ParseNumber(f, args) ==
  IF At1(f) = "*" THEN [f |-> Tail(f), n |-> Head(args), args |-> Tail(args)]
  ELSE [n |-> ParseDigits(f, 0).n, f |-> ParseDigits(f, 0).f, args |-> args]

ParseType(f) ==
  CASE At1(f) = "h" -> IF At1(Tail(f)) = "h" THEN [f |-> Tail(Tail(f)), type |-> "CHAR"]
                       ELSE [f |-> Tail(f), type |-> "SHORT"]
    [] At1(f) = "l" -> IF At1(Tail(f)) = "l" THEN [f |-> Tail(Tail(f)), type |-> "LONGLONG"]
                       ELSE [f |-> Tail(f), type |-> "LONG"]
    [] At1(f) = "j" -> [f |-> Tail(f), type |-> "INTMAX"]
    [] At1(f) = "t" -> [f |-> Tail(f), type |-> "PTRDIFFT"]
    [] At1(f) = "z" -> [f |-> Tail(f), type |-> "SIZET"]
    [] OTHER -> [f |-> f, type |-> "INT"]

\* A negative width from an argument means MINUS; ZERO is not taken back then.
\* A precision takes ZERO back.
parse_conversion(f, args) ==
  LET flags == ParseFlags(f, {})
      width == ParseNumber(flags.f, args)
      given == At1(width.f) = "."
      number == ParseNumber(Tail(width.f), width.args)
      precision == IF given /\ number.n >= 0 THEN number.n ELSE -1
      type == ParseType(IF given THEN number.f ELSE width.f)
  IN  [f |-> type.f, args |-> IF given THEN number.args ELSE width.args,
       c |-> [width |-> IF width.n < 0 THEN -width.n ELSE width.n,
              precision |-> precision, type |-> type.type,
              flags |-> (flags.flags \cup IF width.n < 0 THEN {"MINUS"} ELSE {})
                          \ IF precision >= 0 THEN {"ZERO"} ELSE {}]]

(***************************************************************************)
(* Conversions.                                                            *)
(***************************************************************************)
Bits(type) == CASE type = "CHAR" -> 8
                [] type = "SHORT" -> 16
                [] OTHER -> 30    \* TLC's integers have no more

\* The argument as va_arg and the casts read it.
SignedArg(n, type) == Wrap(n, Bits(type))
UnsignedArg(n, type) == n % 2^Bits(type)

Base == "d" :> 10 @@ "i" :> 10 @@ "u" :> 10 @@ "o" :> 8 @@ "x" :> 16 @@ "X" :> 16
Group(base) == IF base = 16 THEN 4 ELSE 3
DigitSet(conv) ==
  Decimal \o IF conv = "X" THEN <<"A", "B", "C", "D", "E", "F">>
             ELSE <<"a", "b", "c", "d", "e", "f">>

Separates(digit_cnt, base) == digit_cnt % Group(base) = 0

\* The digits of value, in reverse.
RECURSIVE Accumulate(_, _, _, _)
Accumulate(value, digit_cnt, c, conv) ==
  IF value = 0 THEN <<>>
  ELSE (IF "GROUP" \in c.flags /\ digit_cnt > 0 /\ Separates(digit_cnt, Base[conv])
        THEN <<",">> ELSE <<>>)
       \o <<DigitSet(conv)[(value % Base[conv]) + 1]>>
       \o Accumulate(value \div Base[conv], digit_cnt + 1, c, conv)

Greatest(m, n) == IF m > n THEN m ELSE n

\* Mutation: the x of a hexadecimal number is not counted.
PadCnt_NoX(c, buf, x, sign) == Greatest(0, c.width - Len(buf) - Len(sign))

PadCnt(c, buf, x, sign) == Greatest(0, c.width - Len(buf) - Len(x) - Len(sign))

SignOf(is_signed, negative, c) ==
  IF ~is_signed THEN <<>>
  ELSE IF negative THEN <<"-">>
  ELSE IF "PLUS" \in c.flags THEN <<"+">>
  ELSE IF "SPACE" \in c.flags THEN <<" ">> ELSE <<>>

\* What format_integer leaves in its buffer: digits, then zeros up to the
\* precision as far as the buffer goes, then the zero of an octal number.
DigitBuffer(value, c, conv) ==
  LET digits == Accumulate(value, 0, c, conv)
      precision == Least(IF c.precision < 0 THEN 1 ELSE c.precision, BufSize - 1)
      zeros == digits \o Dup("0", Greatest(0, precision - Len(digits)))
  IN  IF /\ "POUND" \in c.flags /\ Base[conv] = 8
         /\ zeros = <<>> \/ zeros[Len(zeros)] # "0"
      THEN Append(zeros, "0") ELSE zeros

format_integer(value, is_signed, negative, c, conv) ==
  LET sign == SignOf(is_signed, negative, c)
      x == IF "POUND" \in c.flags /\ value > 0 /\ Base[conv] = 16
           THEN <<"0", conv>> ELSE <<>>
      buf == DigitBuffer(value, c, conv)
      pad_cnt == PadCnt(c, buf, x, sign)
      Pad(ch, wanted) == IF wanted THEN Dup(ch, pad_cnt) ELSE <<>>
  IN  Pad(" ", c.flags \cap {"MINUS", "ZERO"} = {}) \o sign \o x
        \o Pad("0", "ZERO" \in c.flags) \o Reverse(buf)
        \o Pad(" ", "MINUS" \in c.flags)

format_string(string, c) ==
  LET pad == Dup(" ", Greatest(0, c.width - Len(string)))
  IN  IF "MINUS" \in c.flags THEN string \o pad ELSE pad \o string

\* A null pointer given for a string, and what is printed for it.
NullString == <<"NULL">>
TextOf(string) ==
  IF string = NullString THEN <<"(", "n", "u", "l", "l", ")">> ELSE string

\* strnlen of a string argument.
Limited(string, precision) ==
  IF precision < 0 THEN string ELSE SubSeq(string, 1, Least(Len(string), precision))

\* The note "<<no %f in kernel>>" or "<<no %y conversion>>".
Refused == <<"<<no conversion>>">>

\* One conversion: the output, and the arguments that are left.
Convert(conv, c, args) ==
  LET n == Head(args) IN
  CASE conv \in {"d", "i"} ->
         LET value == SignedArg(n, c.type)
         IN  [out |-> format_integer(Abs(value), TRUE, value < 0, c, conv),
              args |-> Tail(args)]
    [] conv \in {"o", "u", "x", "X"} ->
         [out |-> format_integer(UnsignedArg(n, c.type), FALSE, FALSE, c, conv),
          args |-> Tail(args)]
    [] conv = "c" -> [out |-> format_string(<<n>>, c), args |-> Tail(args)]
    [] conv = "s" -> [out |-> format_string(Limited(TextOf(n), c.precision), c),
                      args |-> Tail(args)]
    [] conv = "p" ->
         [out |-> format_integer(n, FALSE, FALSE, [c EXCEPT !.flags = {"POUND"}], "x"),
          args |-> Tail(args)]
    [] OTHER -> [out |-> Refused, args |-> args]

RECURSIVE vprintf(_, _)
vprintf(f, args) ==
  LET p == parse_conversion(Tail(f), args)
      done == Convert(At1(p.f), p.c, p.args)
  IN  CASE f = <<>> -> <<>>
        [] At1(f) # "%" -> <<Head(f)>> \o vprintf(Tail(f), args)
        [] At1(f) = "%" /\ At1(Tail(f)) = "%" -> <<"%">> \o vprintf(Tail(Tail(f)), args)
        [] OTHER -> done.out \o vprintf(Tail(p.f), done.args)

\* The characters that fit in front of the terminator.
MaxLength(buf_size) == IF buf_size > 0 THEN buf_size - 1 ELSE 0

\* vsnprintf: what it stores, and the length it returns.
vsnprintf(buf_size, f, args) ==
  LET all == vprintf(f, args)
  IN  [stored |-> SubSeq(all, 1, Least(Len(all), MaxLength(buf_size)))
                    \o IF buf_size > 0 THEN <<"NUL">> ELSE <<>>,
       length |-> Len(all)]
=============================================================================
