------------------------------ MODULE Decimals ------------------------------
(***************************************************************************)
(* Amounts as decimal strings (quesen_sdk/admissibility.py, _norm_decimal  *)
(* and _cmp_decimal), and the number each of them stands for.              *)
(*                                                                         *)
(* A decimal is the characters before and after its point.  A digit is its *)
(* value; the minus sign of a negative integer is a character like any     *)
(* other and sorts before the digits, hence Minus.                         *)
(***************************************************************************)
EXTENDS Integers, Sequences, FiniteSetsExt

Minus == -1
Digits == 0 .. 9

\* Mutant: leading zeros are kept.
NormKeepsZeros(d) == [whole |-> d.whole, frac |-> d.frac]

LStrip(s) ==
  SubSeq(s, Min({i \in 1 .. Len(s) : s[i] # 0} \cup {Len(s) + 1}), Len(s))
RStrip(s) ==
  SubSeq(s, 1, Min({n \in 0 .. Len(s) : \A i \in (n + 1) .. Len(s) : s[i] = 0}))

\* _norm_decimal
NormDecimal(d) ==
  [whole |-> IF LStrip(d.whole) = <<>> THEN <<0>> ELSE LStrip(d.whole),
   frac |-> RStrip(d.frac)]

\* Order of two strings of the same length.
Less(s, t) == \E i \in 1 .. Len(s) :
  s[i] < t[i] /\ \A j \in 1 .. (i - 1) : s[j] = t[j]

\* ljust(width, "0")
Pad(s, width) == [i \in 1 .. width |-> IF i <= Len(s) THEN s[i] ELSE 0]

Width(f, g) == IF Len(f) < Len(g) THEN Len(g) ELSE Len(f)

Order(s, t) == IF s = t THEN 0 ELSE IF Less(s, t) THEN -1 ELSE 1

\* Mutant: integer parts are compared as text, whatever their lengths.
CmpAsText(a, b) ==
  LET x == NormDecimal(a)
      y == NormDecimal(b)
      width == Width(x.whole, y.whole)
      whole == Order(Pad(x.whole, width), Pad(y.whole, width))
      places == Width(x.frac, y.frac)
  IN IF whole # 0 THEN whole ELSE Order(Pad(x.frac, places), Pad(y.frac, places))

\* _cmp_decimal
CmpDecimal(a, b) ==
  LET x == NormDecimal(a)
      y == NormDecimal(b)
      places == Width(x.frac, y.frac)
  IN IF Len(x.whole) # Len(y.whole)
       THEN IF Len(x.whole) < Len(y.whole) THEN -1 ELSE 1
     ELSE IF x.whole # y.whole THEN Order(x.whole, y.whole)
     ELSE Order(Pad(x.frac, places), Pad(y.frac, places))

-----------------------------------------------------------------------------
(* What _to_decimal_str lets through: digits with or without a point, or    *)
(* the text of a negative integer.                                          *)

Unsigned(d) == /\ DOMAIN d = {"whole", "frac"}
               /\ d.whole \in Seq(Digits) \ {<<>>} /\ d.frac \in Seq(Digits)
Negative(d) == /\ DOMAIN d = {"whole", "frac"}
               /\ d.whole \in Seq(Digits \cup {Minus}) \ {<<>>} /\ d.whole[1] = Minus
               /\ Tail(d.whole) \in Seq(Digits) /\ d.frac = <<>>
IsDecimal(d) == Unsigned(d) \/ Negative(d)

\* The number a string of digits stands for.
BeforeLast(s) == SubSeq(s, 1, Len(s) - 1)
Number[s \in Seq(Digits)] ==
  IF s = <<>> THEN 0 ELSE 10 * Number[BeforeLast(s)] + s[Len(s)]

\* The value of a decimal in units of the last of that many places.
Units(d, places) ==
  IF Negative(d) THEN -Number[Tail(d.whole) \o Pad(<<>>, places)]
  ELSE Number[d.whole \o Pad(d.frac, places)]

\* Two decimals compared by value: -1, 0 or 1.
Compare(m, n) == IF m < n THEN -1 ELSE IF m = n THEN 0 ELSE 1
NumericCmp(a, b) ==
  LET places == Width(a.frac, b.frac) IN Compare(Units(a, places), Units(b, places))
=============================================================================
