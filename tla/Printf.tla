------------------------------- MODULE Printf -------------------------------
(***************************************************************************)
(* vprintf of lethe-libc's stdio.c with ntoa_long, ntoa_long_long, __ntoa   *)
(* and print_reverse.  One step takes one character or one conversion of    *)
(* the format.  The flags are those of all conversions so far: vprintf      *)
(* never clears them.                                                       *)
(*                                                                         *)
(* Characters are numbers: 0 .. 15 are the digits, Upper + 10 .. 15 their   *)
(* capitals.  The types are narrower than the machine's, in the same order: *)
(* char < short < int < NTOA_MAX < long.                                    *)
(***************************************************************************)
EXTENDS Integers, Sequences

CONSTANTS
  Formats,     \* the formats with their arguments
  CharBits, ShortBits, IntBits, LongBits,
  NTOA_MAX     \* the size of the buffer of digits

ASSUME BitsAssumption ==
  /\ CharBits \in Nat \ {0} /\ ShortBits \in Nat /\ IntBits \in Nat /\ LongBits \in Nat /\ NTOA_MAX \in Nat
  /\ CharBits < ShortBits /\ ShortBits < IntBits /\ IntBits < NTOA_MAX /\ NTOA_MAX < LongBits

(* A character or a conversion of a format, with its argument. *)
Items == [conv : STRING, flags : SUBSET STRING, width : Int, precision : {"none", "given"}, digits : Int,
          size : STRING, arg : Nat]

ASSUME FormatsAssumption == \A f \in Formats : f \in Seq(Items)

VARIABLES
  format,   \* the format
  fmt,      \* how much of it has been taken
  flags,    \* the flags in force
  before,   \* the flags when the last item was reached
  buf,      \* the buffer as the last number left it
  text      \* what the last item has put out

pfVars == <<format, fmt, flags, before, buf, text>>

Space == 20
Minus == 21
Plus == 22
CharX == 23
CharB == 24
Percent == 25
Upper == 100
Letter == 30

Copies(c, n) == [k \in 1 .. (IF n < 0 THEN 0 ELSE n) |-> c]
Base(conv) == CASE conv \in {"x", "X", "p"} -> 16 [] conv = "o" -> 8 [] conv = "b" -> 2 [] OTHER -> 10

(* The flags after the flags, width, precision and length of a conversion.  *)
(* A width given by an argument may be negative; a precision given so and   *)
(* negative is 0.                                                           *)
Parsed(item, old) ==
  old \union item.flags
      \union (IF item.width < 0 THEN {"-"} ELSE {})
      \union (IF item.precision = "none" THEN {} ELSE {"."})
      \union (CASE item.size = "l" -> {"l"} [] item.size = "ll" -> {"l", "ll"}
                [] item.size = "h" -> {"h"} [] item.size = "hh" -> {"h", "hh"} [] OTHER -> {})

Width(item) == IF item.width < 0 THEN -item.width ELSE item.width
Precision(item) == IF item.precision = "none" THEN 0 ELSE item.digits

(* Variant: a precision leaves the padding with zeros on. *)
Adjusted_Zeros(conv, f) ==
  LET g == (f \ (IF Base(conv) = 10 THEN {"#"} ELSE {})) \union (IF conv = "X" THEN {"U"} ELSE {})
  IN  IF conv = "p" THEN f \union {"0", "U"} ELSE g \ (IF conv = "d" THEN {} ELSE {"+", " "})

(* The changes the conversion of a number makes to the flags. *)
Adjusted(conv, f) ==
  LET g == (f \ (IF Base(conv) = 10 THEN {"#"} ELSE {})) \union (IF conv = "X" THEN {"U"} ELSE {})
      h == g \ (IF conv = "d" THEN {} ELSE {"+", " "})
  IN  IF conv = "p" THEN f \union {"0", "U"} ELSE IF "." \in h THEN h \ {"0"} ELSE h

Signed(v, bits) == IF v % 2^bits >= 2^(bits - 1) THEN (v % 2^bits) - 2^bits ELSE v % 2^bits

BitsRead(f) ==
  IF f \cap {"l", "ll"} # {} THEN LongBits
  ELSE IF "hh" \in f THEN CharBits ELSE IF "h" \in f THEN ShortBits ELSE IntBits

(* What ntoa_long gets of a negative number: the least int stays negative   *)
(* when it is negated and is then widened.                                  *)
Magnitude(v, bits) ==
  CASE v >= 0 -> v
    [] v < 0 /\ bits = IntBits /\ v = -2^(IntBits - 1) -> 2^LongBits + v
    [] OTHER -> -v

(* The loop over the digits, the last one first: value is divided by base   *)
(* after each, and the loop ends when nothing is left or the room is used.  *)
Digits(value, base, upper, room) ==
  LET left[k \in 1 .. room] == IF k = 1 THEN value ELSE left[k - 1] \div base
      stops  == {k \in 1 .. room : k = room \/ left[k] < base}
      passes == CHOOSE k \in stops : \A j \in stops : k <= j
  IN  [k \in 1 .. passes |->
         LET d == left[k] % base IN IF d >= 10 /\ upper THEN Upper + d ELSE d]

(* Variant: the prefix is written without looking at the room that is left. *)
Put_Unchecked(b, c) == Append(b, c)

(* buf[len++] = c, where there is room. *)
Put(b, c) == IF Len(b) < NTOA_MAX THEN Append(b, c) ELSE b

Filled(b, n) == b \o Copies(0, (IF n < NTOA_MAX THEN n ELSE NTOA_MAX) - Len(b))

(* __ntoa up to the call of print_reverse: the buffer, last character       *)
(* first, and the width that is left.                                       *)
__ntoa(digits, f, width, precision, base, negative) ==
  LET signed == negative \/ f \cap {"+", " "} # {}
      w      == IF "-" \notin f /\ width > 0 /\ "0" \in f /\ signed THEN width - 1 ELSE width
      b1     == IF "-" \in f THEN digits ELSE Filled(digits, precision)
      b2     == IF "-" \notin f /\ "0" \in f THEN Filled(b1, w) ELSE b1
      cut    == IF "." \notin f /\ b2 # <<>> /\ Len(b2) \in {precision, w}
                THEN IF base = 16 /\ Len(b2) > 1 THEN 2 ELSE 1
                ELSE 0
      b3     == SubSeq(b2, 1, Len(b2) - cut)
      b4     == CASE base = 16 -> Put(b3, CharX) [] base = 2 -> Put(b3, CharB) [] OTHER -> b3
      b5     == IF "#" \in f THEN Put(b4, 0) ELSE b2
      b6     == CASE negative -> Put(b5, Minus)
                  [] ~negative /\ "+" \in f -> Put(b5, Plus)
                  [] ~negative /\ "+" \notin f /\ " " \in f -> Put(b5, Space)
                  [] OTHER -> b5
  IN  [buf |-> b6, width |-> w]

print_reverse(b, f, width) ==
  (IF f \cap {"-", "0"} = {} THEN Copies(Space, width - Len(b)) ELSE <<>>)
  \o [i \in DOMAIN b |-> b[Len(b) + 1 - i]]
  \o (IF "-" \in f THEN Copies(Space, width - Len(b)) ELSE <<>>)

ntoa_long(value, f, base, width, precision, negative) ==
  LET g      == IF value = 0 THEN f \ {"#"} ELSE f
      digits == IF "." \in f /\ value = 0 THEN <<>> ELSE Digits(value, base, "U" \in f, NTOA_MAX)
      n      == __ntoa(digits, g, width, precision, base, negative)
  IN  [buf |-> n.buf, text |-> print_reverse(n.buf, g, n.width)]

Numbers == {"d", "u", "x", "X", "o", "b", "p"}

(* The value a number is read as, by the flags in force. *)
Value(item, f) ==
  CASE item.conv = "d" -> Signed(item.arg, BitsRead(f))
    [] item.conv = "p" -> item.arg % 2^LongBits
    [] OTHER -> item.arg % 2^BitsRead(f)

(* The width of %p is that of all the digits of a pointer. *)
FieldWidth(item) == IF item.conv = "p" THEN (LongBits + 3) \div 4 ELSE Width(item)

PfInit == format = <<>> /\ fmt = 0 /\ flags = {} /\ before = {} /\ buf = <<>> /\ text = <<>>

(* printf: a call. *)
printf ==
  /\ fmt = 0 /\ format = <<>>
  /\ format' \in Formats
  /\ UNCHANGED <<fmt, flags, before, buf, text>>

(* The part that %p has in common with the other numbers. *)
PutNumber(item) ==
  LET f     == Adjusted(item.conv, Parsed(item, flags))
      value == Value(item, f)
      n     == ntoa_long(Magnitude(value, BitsRead(f)), f, Base(item.conv), FieldWidth(item),
                         Precision(item), value < 0)
  IN  /\ before' = Parsed(item, flags) /\ flags' = f
      /\ buf' = n.buf /\ text' = n.text
      /\ fmt' = fmt + 1 /\ UNCHANGED format

TakeNumber ==
  /\ fmt < Len(format) /\ format[fmt + 1].conv \in Numbers \ {"p"}
  /\ PutNumber(format[fmt + 1])

TakePointer ==
  /\ fmt < Len(format) /\ format[fmt + 1].conv = "p"
  /\ PutNumber(format[fmt + 1])

(* %c and %s: arg is the length of the string. *)
TakeString ==
  LET item  == format[fmt + 1]
      f     == Parsed(item, flags)
      len   == IF item.conv = "s" /\ "." \in f /\ Precision(item) < item.arg THEN Precision(item) ELSE item.arg
      pad   == Copies(Space, Width(item) - len)
  IN  /\ fmt < Len(format) /\ format[fmt + 1].conv \in {"c", "s"}
      /\ before' = f /\ flags' = f
      /\ text' = IF "-" \in f THEN Copies(Letter, len) \o pad ELSE pad \o Copies(Letter, len)
      /\ fmt' = fmt + 1 /\ UNCHANGED <<format, buf>>

(* A % and what is no conversion are put out as they are. *)
TakePercent ==
  LET item == format[fmt + 1]
  IN  /\ fmt < Len(format) /\ item.conv = "%"
      /\ before' = Parsed(item, flags) /\ flags' = Parsed(item, flags)
      /\ text' = <<Percent>>
      /\ fmt' = fmt + 1 /\ UNCHANGED <<format, buf>>

(* A character of the format. *)
TakeText ==
  /\ fmt < Len(format) /\ format[fmt + 1].conv = "text"
  /\ before' = flags /\ text' = <<Letter>>
  /\ fmt' = fmt + 1 /\ UNCHANGED <<format, flags, buf>>

PfNext == printf \/ TakeNumber \/ TakePointer \/ TakeString \/ TakePercent \/ TakeText

PfSpec == PfInit /\ [][PfNext]_pfVars
-----------------------------------------------------------------------------
(* The C standard's text of a number, for the flags in force. *)
Written(value, base, upper) ==
  LET char(d) == IF d >= 10 /\ upper THEN Upper + d ELSE d
      written[v \in Nat] == (IF v < base THEN <<>> ELSE written[v \div base]) \o <<char(v % base)>>
  IN  written[value]

Standard(item, f) ==
  LET base   == Base(item.conv)
      value  == Value(item, f)
      abs    == IF value < 0 THEN -value ELSE value
      digits == IF "." \in f /\ value = 0 THEN <<>> ELSE Written(abs, base, "U" \in Adjusted(item.conv, f))
      number == Copies(0, Precision(item) - Len(digits)) \o digits
      sign   == CASE value < 0 -> <<Minus>>
                  [] value >= 0 /\ item.conv = "d" /\ "+" \in f -> <<Plus>>
                  [] value >= 0 /\ item.conv = "d" /\ "+" \notin f /\ " " \in f -> <<Space>>
                  [] OTHER -> <<>>
      prefix == IF "#" \notin f \/ value = 0 \/ base = 10 THEN <<>>
                ELSE CASE base = 16 -> <<0, CharX>> [] base = 2 -> <<0, CharB>> [] OTHER -> <<0>>
      room   == FieldWidth(item) - Len(sign) - Len(prefix) - Len(number)
  IN  CASE "-" \in f -> sign \o prefix \o number \o Copies(Space, room)
        [] "-" \notin f /\ (item.conv = "p" \/ ("0" \in f /\ "." \notin f)) ->
             sign \o prefix \o Copies(0, room) \o number
        [] OTHER -> Copies(Space, room) \o sign \o prefix \o number

(* Where the code is known to differ: the buffer is full, the least int,    *)
(* a precision in a left-justified field, flags that %p does not take, and  *)
(* # with a precision, with base 2 or 8, or with as many digits as the      *)
(* field is wide.                                                           *)
Usual(item, f) ==
  LET value == Value(item, f)
      abs   == IF value < 0 THEN -value ELSE value
      n     == Len(Written(abs, Base(item.conv), FALSE))
  IN  /\ Len(Standard(item, f)) <= NTOA_MAX
      /\ item.conv = "p" => f \cap {"+", " ", "#", "."} = {}
      /\ Magnitude(value, BitsRead(f)) = abs
      /\ "-" \in f => Precision(item) <= n
      /\ "#" \in f /\ Base(item.conv) # 10 =>
           Base(item.conv) = 16 /\ "." \notin f /\ (FieldWidth(item) > n + 2 \/ FieldWidth(item) < n)

(* Every number is put out as the C standard says for the flags that are in *)
(* force and the size it is read with, digits, sign, prefix, precision and  *)
(* padding, wherever the code is not known to differ (vprintf, __ntoa).     *)
PrintsAsC ==
  fmt > 0 /\ format[fmt].conv \in Numbers /\ Usual(format[fmt], before) =>
    text = Standard(format[fmt], before)

(* No number, width, precision or prefix writes behind the buffer of digits *)
(* on the stack (ntoa_long, ntoa_long_long, __ntoa).                        *)
StaysInBuffer == Len(buf) <= NTOA_MAX
=============================================================================
