------------------------------- MODULE Printk -------------------------------
(***************************************************************************)
(* The formatted output of lib/printk.c: _vprintkl runs through a format   *)
(* and turns each conversion and its argument into characters.  A format   *)
(* is a sequence of items, each a literal or a conversion with its flags,  *)
(* width, precision, length modifier and argument as the parser leaves     *)
(* them; what happens to the characters is the module Console.             *)
(***************************************************************************)
EXTENDS Integers, Sequences, FiniteSets

CONSTANTS
  Formats,          \* the formats, with their arguments
  Bits,             \* width of the integer type that a length modifier names
  NTOA_BUFFER_SIZE,
  PTR_DIGITS        \* sizeof(void*) * 2

\* For integers "l" stands for ll, j, z and t as well, which are as wide; for %c
\* and %s it means wide characters.
Lengths == {"hh", "h", "none", "l"}

ASSUME BitsAssumption ==
  Bits \in [Lengths -> Nat] /\ \A l \in Lengths : Bits[l] <= Bits["l"]

VARIABLES
  fmt,       \* the rest of the format
  out,       \* the characters so far, ctx.len of them
  item,      \* ghost: the conversion done last
  piece,     \* ghost: the characters it wrote
  stored     \* what the last %n stored

vars == <<fmt, out, item, piece, stored>>

None == [conv |-> "none"]

Init == fmt \in Formats /\ out = <<>> /\ item = None /\ piece = <<>> /\ stored = 0

Rep(c, n) == [i \in 1 .. n |-> c]

\* The code's  n > 0 ? n : 0
Room(n) == IF n > 0 THEN n ELSE 0

DigitChars == <<"0", "1", "2", "3", "4", "5", "6", "7", "8", "9", "a", "b", "c", "d", "e", "f">>
UpperChars == <<"0", "1", "2", "3", "4", "5", "6", "7", "8", "9", "A", "B", "C", "D", "E", "F">>

\* The digits of val from the last one backwards while there is room, and "?" for
\* the first when there is not enough.
_ntoa(val, base, upper) ==
  LET d == IF upper THEN UpperChars ELSE DigitChars
      digits[v \in Nat, room \in Nat] ==
        IF v = 0 THEN <<>>
        ELSE IF room = 1 /\ v >= base THEN <<"?">>
        ELSE Append(digits[v \div base, room - 1], d[(v % base) + 1])
  IN  IF val = 0 THEN <<"0">> ELSE digits[val, NTOA_BUFFER_SIZE]

\* va_arg and the conversion to the type of the length modifier.
Fetched(is_signed, len, arg) ==
  LET n == 2 ^ Bits[len]
      v == arg % n
  IN  IF is_signed /\ 2 * v >= n THEN v - n ELSE v

\* Mutant: zero padding in spite of a precision.
zero_pads_always(i) == {"0", "-"} \cap i.flags = {"0"}

\* The padding is made of zeros.
zero_pads(i) == {"0", "-"} \cap i.flags = {"0"} /\ i.precision < 0

_integer(i, is_signed, base) ==
  LET x == Fetched(is_signed, i.len, i.arg)
      uval == (IF x < 0 THEN -x ELSE x) % 2 ^ Bits["l"]
      nstr == IF i.precision = 0 /\ uval = 0 THEN <<>> ELSE _ntoa(uval, base, i.conv = "X")
      prec_zeros == Room(i.precision - Len(nstr))
      sign == IF x < 0 THEN <<"-">>
              ELSE IF "+" \in i.flags /\ is_signed THEN <<"+">>
              ELSE IF " " \in i.flags THEN <<" ">> ELSE <<>>
      prefix == IF "#" \notin i.flags THEN <<>>
                ELSE IF base = 8 /\ prec_zeros = 0 /\ (uval # 0 \/ i.precision = 0) THEN <<"0">>
                ELSE IF base = 16 /\ uval # 0 THEN <<"0", IF i.conv = "X" THEN "X" ELSE "x">>
                ELSE <<>>
      padding == Room(i.width - Len(sign \o prefix) - prec_zeros - Len(nstr))
      zero_n == IF zero_pads(i) THEN padding ELSE 0
      pad == Rep(" ", padding - zero_n)
      number == sign \o prefix \o Rep("0", zero_n + prec_zeros) \o nstr
  IN  IF "-" \in i.flags THEN number \o pad ELSE pad \o number

\* Text in a field, as %c, %s and %p place it; %ls counts the length in wide
\* characters, so it is given apart from the bytes.
Field(i, length, text) ==
  LET pad == Rep(" ", Room(i.width - length))
  IN  IF "-" \in i.flags THEN text \o pad ELSE pad \o text

_putwc(wc) ==
  LET six(k) == 128 + ((wc \div 64 ^ k) % 64)
  IN  IF wc <= 127 THEN <<wc>>
      ELSE IF wc <= 2047 THEN <<192 + wc \div 64, six(0)>>
      ELSE IF wc <= 65535 THEN <<224 + wc \div 64 ^ 2, six(1), six(0)>>
      ELSE IF wc <= 1114111 THEN <<240 + wc \div 64 ^ 3, six(2), six(1), six(0)>>
      ELSE <<>>

\* A wide string, up to the precision.
_wstr(s, n) ==
  LET bytes[k \in Nat] == IF k = 0 THEN <<>> ELSE bytes[k - 1] \o _putwc(s[k])
  IN  bytes[n]

\* A width or a precision given by an argument may be negative.
Parsed(i) ==
  [i EXCEPT !.width = IF @ < 0 THEN -@ ELSE @,
            !.flags = IF i.width < 0 THEN @ \cup {"-"} ELSE @,
            !.precision = IF @ < 0 THEN -1 ELSE @]

-----------------------------------------------------------------------------
\* The switch of _vprintkl, one action for each of its cases.

Step(text) ==
  /\ fmt' = Tail(fmt)
  /\ out' = out \o text
  /\ piece' = text

At(convs) == fmt # <<>> /\ Head(fmt).conv \in convs /\ item' = Parsed(Head(fmt))

literal == At({"literal"}) /\ Step(<<Head(fmt).arg>>) /\ UNCHANGED stored

signed == At({"d"}) /\ Step(_integer(item', TRUE, 10)) /\ UNCHANGED stored

unsigned ==
  /\ At({"u", "o", "x", "X"})
  /\ Step(_integer(item', FALSE, CASE item'.conv = "u" -> 10 [] item'.conv = "o" -> 8
                                   [] OTHER -> 16))
  /\ UNCHANGED stored

character ==
  /\ At({"c"})
  /\ Step(Field(item', 1, IF item'.len = "l" THEN _putwc(item'.arg) ELSE <<item'.arg>>))
  /\ UNCHANGED stored

\* The argument is a string, narrow or wide, or the null pointer.
NullString == <<"NULL">>
NullText(wide) ==
  IF wide THEN <<40, 110, 117, 108, 108, 41>> ELSE <<"(", "n", "u", "l", "l", ")">>

string ==
  /\ At({"s"})
  /\ LET wide == item'.len = "l"
         str == IF item'.arg = NullString THEN NullText(wide) ELSE item'.arg
         n == IF item'.precision >= 0 /\ item'.precision < Len(str)
              THEN item'.precision ELSE Len(str)
     IN  Step(Field(item', n, IF wide THEN _wstr(str, n) ELSE SubSeq(str, 1, n)))
  /\ UNCHANGED stored

pointer ==
  /\ At({"p"})
  /\ LET nstr == _ntoa(item'.arg, 16, FALSE)
         text == <<"0", "x">> \o Rep("0", Room(PTR_DIGITS - Len(nstr))) \o nstr
     IN  Step(Field(item', Len(text), text))
  /\ UNCHANGED stored

\* %n stores through its argument, unless that is 0.
count ==
  /\ At({"n"}) /\ Step(<<>>)
  /\ stored' = IF item'.arg = 0 THEN stored ELSE Fetched(TRUE, item'.len, Len(out))

\* An unknown conversion is written as it stands in the format.
unknown == At({"unknown"}) /\ Step(item'.arg) /\ UNCHANGED stored

\* The format ends within a conversion: nothing of it is written.
incomplete ==
  /\ At({"incomplete"})
  /\ fmt' = <<>> /\ piece' = <<>>
  /\ UNCHANGED <<out, stored>>

Returned == fmt = <<>> /\ UNCHANGED vars

Next ==
  \/ literal \/ signed \/ unsigned \/ character \/ string \/ pointer \/ count
  \/ unknown \/ incomplete \/ Returned

Spec == Init /\ [][Next]_vars

-----------------------------------------------------------------------------
\* Reading the output back.

ValueOf(digits, base) ==
  LET d(c) == CHOOSE k \in 0 .. 15 : c \in {DigitChars[k + 1], UpperChars[k + 1]}
      value[k \in Nat] == IF k = 0 THEN 0 ELSE base * value[k - 1] + d(digits[k])
  IN  value[Len(digits)]

Only(c, s) == \A k \in DOMAIN s : s[k] = c

BaseOf(conv) == CASE conv \in {"d", "u"} -> 10 [] conv = "o" -> 8 [] OTHER -> 16

\* The piece s is the number x as the C standard asks of conversion i: blanks on one
\* side only and only to reach the width, the sign, the prefix, then digits that
\* read as x, no fewer than the precision and no leading zero without a reason.
Represents(s, i, x) ==
  LET sign == IF x < 0 THEN <<"-">> ELSE IF "+" \in i.flags /\ i.conv = "d" THEN <<"+">>
              ELSE IF " " \in i.flags THEN <<" ">> ELSE <<>>
      alternative == "#" \in i.flags
      prefix == IF alternative /\ x # 0 /\ i.conv \in {"x", "X"} THEN <<"0", i.conv>> ELSE <<>>
      zeros == "0" \in i.flags /\ "-" \notin i.flags /\ i.precision < 0
      octal == alternative /\ i.conv = "o"
  IN  \E lead, trail \in 0 .. Len(s) :
        LET core == SubSeq(s, lead + 1, Len(s) - trail)
            n == Len(sign \o prefix)
            digits == SubSeq(core, n + 1, Len(core))
        IN  /\ lead + trail <= Len(s)
            /\ Only(" ", SubSeq(s, 1, lead) \o SubSeq(s, Len(s) - trail + 1, Len(s)))
            /\ (IF "-" \in i.flags THEN lead ELSE trail) = 0
            /\ Len(s) >= i.width /\ (lead + trail > 0 => Len(s) = i.width /\ ~zeros)
            /\ SubSeq(core, 1, n) = sign \o prefix
            /\ \A k \in DOMAIN digits :
                 \E v \in 1 .. BaseOf(i.conv) :
                   digits[k] = (IF i.conv = "X" THEN UpperChars ELSE DigitChars)[v]
            /\ ValueOf(digits, BaseOf(i.conv)) = (IF x < 0 THEN -x ELSE x)
            /\ Len(digits) >= i.precision
            /\ (digits = <<>>) = (x = 0 /\ i.precision = 0 /\ ~octal)
            /\ octal => digits[1] = "0"
            /\ digits # <<>> /\ digits[1] = "0" =>
                 \/ Len(digits) = i.precision
                 \/ zeros /\ Len(s) = i.width
                 \/ octal /\ (Len(digits) = 1 \/ digits[2] # "0")
                 \/ digits = <<"0">> /\ i.precision < 0

\* What %d, %u, %o, %x and %X write for an argument reads back as its value.
IntegersExact ==
  item.conv \in {"d", "u", "o", "x", "X"} =>
    Represents(piece, item, Fetched(item.conv = "d", item.len, item.arg))

\* The code point that a sequence of bytes encodes in UTF-8.
DecodedFrom(b) ==
  LET tail(k) == (b[k] - 128) * 64 ^ (Len(b) - k)
      sum[k \in Nat] == IF k <= 1 THEN 0 ELSE sum[k - 1] + tail(k)
      lead == CASE Len(b) = 1 -> b[1] [] Len(b) = 2 -> b[1] - 192
                [] Len(b) = 3 -> b[1] - 224 [] OTHER -> b[1] - 240
  IN  lead * 64 ^ (Len(b) - 1) + sum[Len(b)]

\* A wide character is written in UTF-8, one beyond Unicode not at all.
WideExact ==
  item.conv = "c" /\ item.len = "l" /\ item.width = 0 =>
    IF item.arg > 1114111 THEN piece = <<>>
    ELSE /\ DecodedFrom(piece) = item.arg
         /\ Len(piece) = 1 + Cardinality({b \in {127, 2047, 65535} : item.arg > b})
         /\ \A k \in 2 .. Len(piece) : piece[k] \in 128 .. 191

\* What _integer writes for an argument, under every combination of flags, width,
\* precision and length modifier, reads back as the value of the argument in its
\* type, laid out as the C standard requires.  (The blank flag acts on unsigned
\* conversions too, which C leaves it out of.)  What _putwc writes for a wide
\* character is the shortest encoding of it, the first and the last of every length
\* included.
ConversionsExact == IntegersExact /\ WideExact
=============================================================================
