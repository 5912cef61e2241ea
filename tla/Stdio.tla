-------------------------------- MODULE Stdio -------------------------------
(***************************************************************************)
(* printf() and its relatives (lib/stdio.c).  A format and an output are      *)
(* sequences of one-character strings; arguments are integers and strings.    *)
(* The argument types have the widths TypeBits (8 to 64 in the code).  Each   *)
(* state is one call with its format and its arguments.                       *)
(***************************************************************************)
EXTENDS Integers, Sequences, FiniteSets, SequencesExt

CONSTANTS TypeBits,   \* the width of each length modifier's type
          PrintValues, PrintWidths, PrintPrecs,  \* the cases: -1 is "not given"
          BufSizes,   \* the sizes given to snprintf()
          PerLine     \* bytes of one line of hex_dump(), 16 in the code

VARIABLE printCall

Digit == <<"0", "1", "2", "3", "4", "5", "6", "7", "8", "9", "a", "b", "c", "d", "e", "f">>
DigitVal(ch) == (CHOOSE i \in 1..16 : Digit[i] = ch) - 1
IsDigit(ch) == ch \in {Digit[i] : i \in 1..10}
Flags == {"-", "+", " ", "#", "0", "'"}
Dup(ch, n) == [i \in 1..n |-> ch]
NonNeg(n) == IF n < 0 THEN 0 ELSE n

Base(conv) ==
  CASE conv \in {"d", "u"} -> [base |-> 10, x |-> "", group |-> 3]
    [] conv = "o" -> [base |-> 8, x |-> "", group |-> 3]
    [] OTHER -> [base |-> 16, x |-> "x", group |-> 4]

---------------------------------------------------------------------------
(* parse_conversion(): f is what is left of the format, args of the arguments. *)

(* ParseFlagsKeep forgets that `-' overrides `0'. *)
RECURSIVE ParseFlags(_, _)
ParseFlagsKeep(f, flags) ==
  IF f # <<>> /\ f[1] \in Flags THEN ParseFlags(Tail(f), flags \cup {f[1]})
  ELSE [f |-> f, flags |-> flags \ (IF "+" \in flags THEN {" "} ELSE {})]
ParseFlags(f, flags) ==
  IF f # <<>> /\ f[1] \in Flags THEN ParseFlags(Tail(f), flags \cup {f[1]})
  ELSE [f |-> f, flags |-> (flags \ (IF "-" \in flags THEN {"0"} ELSE {}))
                             \ (IF "+" \in flags THEN {" "} ELSE {})]

RECURSIVE ParseDigits(_, _)
ParseDigits(f, n) ==
  IF f # <<>> /\ IsDigit(f[1]) THEN ParseDigits(Tail(f), n * 10 + DigitVal(f[1]))
  ELSE [f |-> f, n |-> n]

(* A number, or `*' and the next argument. *)
ParseNumber(f, args) ==
  IF f # <<>> /\ f[1] = "*" THEN [f |-> Tail(f), n |-> args[1], args |-> Tail(args)]
  ELSE LET d == ParseDigits(f, 0) IN [f |-> d.f, n |-> d.n, args |-> args]

ParseType(f) ==
  CASE f # <<>> /\ f[1] = "h" ->
         IF Len(f) > 1 /\ f[2] = "h" THEN [f |-> SubSeq(f, 3, Len(f)), type |-> "hh"]
         ELSE [f |-> Tail(f), type |-> "h"]
    [] f # <<>> /\ f[1] = "l" ->
         IF Len(f) > 1 /\ f[2] = "l" THEN [f |-> SubSeq(f, 3, Len(f)), type |-> "ll"]
         ELSE [f |-> Tail(f), type |-> "l"]
    [] f # <<>> /\ f[1] \in {"j", "t", "z"} -> [f |-> Tail(f), type |-> f[1]]
    [] OTHER -> [f |-> f, type |-> ""]

ParseConversion(f0, args0) ==
  LET fl == ParseFlags(f0, {})
      w == ParseNumber(fl.f, args0)
      dot == w.f # <<>> /\ w.f[1] = "."
      p == IF dot THEN ParseNumber(Tail(w.f), w.args) ELSE [f |-> w.f, n |-> -1, args |-> w.args]
      t == ParseType(p.f)
      precision == IF p.n < 0 THEN -1 ELSE p.n
      flags == (fl.flags \cup (IF w.n < 0 THEN {"-"} ELSE {}))
                 \ (IF precision >= 0 THEN {"0"} ELSE {})
  IN [flags |-> flags, width |-> IF w.n < 0 THEN -w.n ELSE w.n, precision |-> precision,
      type |-> t.type, f |-> t.f, args |-> p.args]

---------------------------------------------------------------------------
(* The conversions: each is the sequence of characters sent to `output'. *)

(* The digits of value, least significant first, with the groups' commas. *)
RECURSIVE Accumulated(_, _, _, _)
Accumulated(value, b, grouped, cnt) ==
  IF value = 0 THEN <<>>
  ELSE (IF grouped /\ cnt > 0 /\ cnt % b.group = 0 THEN <<",">> ELSE <<>>)
         \o <<Digit[(value % b.base) + 1]>> \o Accumulated(value \div b.base, b, grouped, cnt + 1)

FormatInteger(value, is_signed, negative, b, c) ==
  LET sign == CASE ~is_signed -> <<>>
                [] is_signed /\ negative -> <<"-">>
                [] is_signed /\ ~negative /\ "+" \in c.flags -> <<"+">>
                [] is_signed /\ ~negative /\ "+" \notin c.flags /\ " " \in c.flags -> <<" ">>
                [] OTHER -> <<>>
      x == IF "#" \in c.flags /\ value # 0 /\ b.x # "" THEN <<"0", b.x>> ELSE <<>>
      digits == Accumulated(value, b, "'" \in c.flags, 0)
      precision == IF c.precision < 0 THEN 1 ELSE c.precision
      zeros == digits \o Dup("0", NonNeg(precision - Len(digits)))
      buf == IF "#" \in c.flags /\ b.base = 8 /\ (zeros = <<>> \/ Last(zeros) # "0")
             THEN Append(zeros, "0") ELSE zeros
      pad == NonNeg(c.width - Len(buf) - Len(x) - Len(sign))
  IN (IF {"-", "0"} \cap c.flags = {} THEN Dup(" ", pad) ELSE <<>>) \o sign \o x
       \o (IF "0" \in c.flags THEN Dup("0", pad) ELSE <<>>) \o Reverse(buf)
       \o (IF "-" \in c.flags THEN Dup(" ", pad) ELSE <<>>)

FormatString(s, length, c) ==
  LET pad == Dup(" ", NonNeg(c.width - length))
      text == SubSeq(s, 1, length)
  IN IF "-" \in c.flags THEN text \o pad ELSE pad \o text

Truncate(v, type) == v % 2^TypeBits[type]
SignedArg(v, type) ==
  LET u == Truncate(v, type)
  IN IF u >= 2^(TypeBits[type] - 1) THEN u - 2^TypeBits[type] ELSE u

(* One conversion character with the parsed c. *)
Convert(conv, c) ==
  LET v == IF c.args = <<>> THEN 0 ELSE c.args[1]
  IN CASE conv \in {"d", "i"} ->
            LET s == SignedArg(v, c.type)
            IN FormatInteger(IF s < 0 THEN -s ELSE s, TRUE, s < 0, Base("d"), c)
       [] conv \in {"o", "u", "x", "X"} ->
            FormatInteger(Truncate(v, c.type), FALSE, FALSE, Base(conv), c)
       [] conv = "c" -> FormatString(<<v>>, 1, c)
       [] conv = "s" ->
            FormatString(v, IF c.precision < 0 \/ c.precision > Len(v) THEN Len(v)
                            ELSE c.precision, c)
       [] conv = "p" -> FormatInteger(v, FALSE, FALSE, Base("x"), [c EXCEPT !.flags = {"#"}])
       [] conv \in {"e", "g", "n"} -> <<"<", "<", "n", "o", " ", "%", conv, ">", ">">>
       [] OTHER -> <<"<", "<", "n", "o", " ", "%", conv, "?", ">", ">">>

(* __vprintf(): everything that output() is called with. *)
RECURSIVE VPrintf(_, _)
VPrintf(f, args) ==
  CASE f = <<>> -> <<>>
    [] f # <<>> /\ f[1] # "%" -> <<f[1]>> \o VPrintf(Tail(f), args)
    [] Len(f) > 1 /\ f[1] = "%" /\ f[2] = "%" -> <<"%">> \o VPrintf(SubSeq(f, 3, Len(f)), args)
    [] OTHER ->
         LET c == ParseConversion(Tail(f), args)
         IN Convert(c.f[1], c) \o VPrintf(Tail(c.f), Tail(c.args))

(* vsnprintf(): the helper stores while length < max_length, and counts on. *)
SNPrintf(size, out) ==
  [buffer |-> IF size = 0 THEN <<>> ELSE Append(SubSeq(out, 1, Min({size - 1, Len(out)})), "NUL"),
   ret |-> Len(out)]

(* hex_dump(): each line is the offset it shows, and for each column the
   index of the byte printed there, or 0. *)
RECURSIVE HexDump(_, _, _)
HexDump(ofs, first, size) ==
  LET start == ofs % PerLine
      n == IF PerLine - start > size THEN size ELSE PerLine - start
      line == [ofs |-> (ofs \div PerLine) * PerLine,
               cols |-> [k \in 0..(PerLine - 1) |->
                           IF k \in start..(start + n - 1) THEN first + k - start ELSE 0]]
  IN IF size = 0 THEN <<>> ELSE <<line>> \o HexDump(ofs + n, first + n, size - n)

(* print_human_readable_size(): the number and the index of its unit. *)
RECURSIVE HumanSize(_, _)
HumanSize(size, unit) ==
  IF size >= 1024 /\ unit < 5 THEN HumanSize(size \div 1024, unit + 1) ELSE <<size, unit>>

---------------------------------------------------------------------------
(* The calls: a conversion between two literal characters. *)

Num(n) == IF n < 10 THEN <<Digit[n + 1]>> ELSE <<Digit[(n \div 10) + 1], Digit[(n % 10) + 1]>>
TypeSpec(t) == CASE t = "" -> <<>> [] t = "hh" -> <<"h", "h">> [] t = "ll" -> <<"l", "l">>
                 [] OTHER -> <<t>>
FormatOf(p) ==
  <<"[", "%">> \o SetToSeq(p.flags)
    \o (IF p.width < 0 THEN <<>> ELSE IF p.star THEN <<"*">> ELSE Num(p.width))
    \o (IF p.prec < 0 THEN <<>> ELSE <<".">> \o Num(p.prec)) \o TypeSpec(p.type) \o <<p.conv, "]">>
ArgsOf(p) == (IF p.star THEN <<-p.width>> ELSE <<>>) \o <<p.value>>

PrintInit == printCall = <<>>

CallPrintf ==
  /\ printCall = <<>>
  /\ \E flags \in SUBSET Flags, width \in PrintWidths, prec \in PrintPrecs, star \in BOOLEAN,
        type \in DOMAIN TypeBits, conv \in {"d", "u", "o", "x"}, value \in PrintValues :
       /\ star => width > 0
       /\ printCall' = [fn |-> "int", flags |-> flags, width |-> width, prec |-> prec,
                        star |-> star, type |-> type, conv |-> conv, value |-> value]

CallPrintString ==
  /\ printCall = <<>>
  /\ \E flags \in SUBSET {"-"}, width \in PrintWidths, prec \in PrintPrecs, conv \in {"s", "q"},
        len \in 0..3 :
       printCall' = [fn |-> "string", flags |-> flags, width |-> width, prec |-> prec,
                     star |-> FALSE, type |-> "", conv |-> conv, value |-> Dup("a", len)]

CallHexDump ==
  /\ printCall = <<>>
  /\ \E ofs \in 0..(2 * PerLine), size \in 0..(2 * PerLine + 1) :
       printCall' = [fn |-> "hex", ofs |-> ofs, size |-> size]

PrintNext == CallPrintf \/ CallPrintString \/ CallHexDump

---------------------------------------------------------------------------
(* Reading a printed integer back: the digits that are not padding. *)
RECURSIVE ReadDigits(_, _, _)
ReadDigits(s, base, n) ==
  CASE s = <<>> -> n
    [] s # <<>> /\ s[1] \in {"-", "+", " ", ",", "x"} -> ReadDigits(Tail(s), base, n)
    [] OTHER -> ReadDigits(Tail(s), base, n * base + DigitVal(s[1]))

(* A negative `*' width sets `-' after `0' was dropped in its favour: both stay
   set, and format_integer() pads on both sides. *)
PadsTwice(p) == p.star /\ "0" \in p.flags /\ p.prec < 0

Count(s, ch) == Cardinality({i \in 1..Len(s) : s[i] = ch})

(* Whatever the flags, width, precision and length modifier, what printf()
   writes for an integer reads back as the argument converted to the type; it
   fills the field exactly or exceeds it only because the number is longer
   (except in the one case PadsTwice, where it is padded on both sides);
   the sign is written when and only when it must be; and snprintf() stops one
   character before the end of its buffer, terminates it, and returns the
   length of the whole output.  hex_dump() shows every byte once, in order, in
   the column of its address (stdio.c). *)
PrintfRight ==
  printCall # <<>> =>
    IF printCall.fn = "hex"
    THEN LET lines == HexDump(printCall.ofs, 1, printCall.size)
         IN \A i \in 1..printCall.size :
              Cardinality({<<k, col>> \in (1..Len(lines)) \X (0..(PerLine - 1)) :
                             /\ lines[k].cols[col] = i
                             /\ lines[k].ofs + col = printCall.ofs + i - 1}) = 1
    ELSE LET out == VPrintf(FormatOf(printCall), ArgsOf(printCall))
             body == SubSeq(out, 2, Len(out) - 1)
             p == printCall
             v == p.value
             width == NonNeg(p.width)
         IN /\ out[1] = "[" /\ Last(out) = "]"
            /\ \A size \in BufSizes :
                 LET r == SNPrintf(size, out)
                 IN /\ r.ret = Len(out) /\ Len(r.buffer) <= size
                    /\ size > Len(out) => r.buffer = Append(out, "NUL")
            /\ p.fn = "string" /\ p.conv = "s" =>
                 /\ Count(body, "a") = IF p.prec < 0 \/ p.prec > Len(v) THEN Len(v) ELSE p.prec
                 /\ Len(body) = Max({width, Count(body, "a")})
            /\ p.fn = "int" =>
                 LET want == IF p.conv = "d" THEN SignedArg(v, p.type) ELSE Truncate(v, p.type)
                     got == ReadDigits(body, Base(p.conv).base, 0)
                     padded == Count(body, " ") > 1
                 IN /\ got = IF want < 0 THEN -want ELSE want
                    /\ Len(body) >= width
                    /\ (Count(body, "-") = 1) <=> (want < 0)
                    /\ padded /\ ~PadsTwice(p) => Len(body) = width
                    /\ "'" \notin p.flags /\ p.prec >= 0 =>
                         Cardinality({i \in 1..Len(body) : body[i] \in {Digit[k] : k \in 1..16}})
                           >= p.prec
=============================================================================
