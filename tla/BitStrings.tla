------------------------------ MODULE BitStrings ------------------------------
(***************************************************************************)
(* Bit strings (src/jlm/rvsdg/bitstring/value-representation.hpp): the     *)
(* arithmetic that compile-time evaluation uses, bit by bit.  A string is  *)
(* a sequence of bits, the lowest first; a bit is "0", "1", "D" (defined,  *)
(* but unknown) or "X" (undefined and unknown).                            *)
(***************************************************************************)
EXTENDS Integers, Sequences

Bits == {"0", "1", "D", "X"}
Repeated(bit, count) == [n \in 1 .. count |-> bit]

(* The unknown bit that two bits give when neither decides the result.     *)
Doubt(a, b) == IF "X" \in {a, b} THEN "X" ELSE "D"
BothKnown(a, b) == {a, b} \subseteq {"0", "1"}

LOr(a, b) == IF "1" \in {a, b} THEN "1" ELSE IF BothKnown(a, b) THEN "0" ELSE Doubt(a, b)
LAnd(a, b) == IF "0" \in {a, b} THEN "0" ELSE IF BothKnown(a, b) THEN "1" ELSE Doubt(a, b)
LXor(a, b) == IF ~BothKnown(a, b) THEN Doubt(a, b) ELSE IF a = b THEN "0" ELSE "1"
LNot(a) == LXor("1", a)
Carry(a, b, c) == LOr(LOr(LAnd(a, b), LAnd(a, c)), LAnd(b, c))
SumBit(a, b, c) == LXor(LXor(a, b), c)

(***************************************************************************)
(* Arithmetic                                                              *)
(***************************************************************************)
Inverted(x) == [n \in DOMAIN x |-> LNot(x[n])]

(* The carry into each bit, of an addition with carry c into the lowest.   *)
Ripple(x, y, c) ==
  LET carry[n \in 0 .. Len(x)] == IF n = 0 THEN c ELSE Carry(x[n], y[n], carry[n - 1])
  IN  [n \in DOMAIN x |-> SumBit(x[n], y[n], carry[n - 1])]
AddBits(x, y) == Ripple(x, y, "0")
NegBits(x) == Ripple(Inverted(x), Repeated("0", Len(x)), "1")
SubBits(x, y) == AddBits(x, NegBits(y))

(* The i-th bit of x has been multiplied into the product: what is carried *)
(* out of the row is dropped.                                              *)
WithRow(product, row, i) == SubSeq(product, 1, i - 1) \o row \o SubSeq(product, i + Len(row), Len(product))
RECURSIVE Rows(_, _, _, _)
Rows(product, x, y, i) ==
  IF i > Len(x) THEN product
  ELSE Rows(WithRow(product, Ripple([j \in DOMAIN y |-> LAnd(x[i], y[j])], SubSeq(product, i, i + Len(y) - 1), "0"), i),
            x, y, i + 1)
Product(x, y) == Rows(Repeated("0", Len(x) + Len(y)), x, y, 1)
MulBits(x, y) == SubSeq(Product(x, y), 1, Len(x))
High(x) == SubSeq(x, Len(x) \div 4 + 1, Len(x) \div 2)
UMulHBits(x, y) == High(Product(x \o Repeated("0", Len(x)), y \o Repeated("0", Len(y))))
SMulHBits(x, y) == High(Product(x \o Repeated(x[Len(x)], Len(x)), y \o Repeated(y[Len(y)], Len(y))))

(***************************************************************************)
(* Comparison                                                              *)
(***************************************************************************)
RECURSIVE Below(_, _, _)
Below(x, y, n) ==
  IF n = 1 THEN LAnd(LNot(x[1]), y[1])
  ELSE LAnd(LOr(LNot(x[n]), y[n]), LOr(LAnd(LNot(x[n]), y[n]), Below(x, y, n - 1)))
RECURSIVE NotAbove(_, _, _)
NotAbove(x, y, n) ==
  IF n = 0 THEN "1"
  ELSE LET v == NotAbove(x, y, n - 1)
       IN  LAnd(LAnd(LOr(LNot(x[n]), y[n]), LOr(LNot(x[n]), v)), LOr(v, y[n]))
RECURSIVE Differ(_, _, _)
Differ(x, y, n) == IF n = 0 THEN "0" ELSE LOr(Differ(x, y, n - 1), LXor(x[n], y[n]))

SignFlipped(x) == [x EXCEPT ![Len(x)] = LNot(@)]
Ult(x, y) == Below(x, y, Len(x))
Ule(x, y) == NotAbove(x, y, Len(x))
Slt(x, y) == Ult(SignFlipped(x), SignFlipped(y))
Sle(x, y) == Ule(SignFlipped(x), SignFlipped(y))
Ne(x, y) == Differ(x, y, Len(x))
CompareBits(fn, x, y) ==
  CASE fn = "ult" -> Ult(x, y) [] fn = "ule" -> Ule(x, y) [] fn = "slt" -> Slt(x, y) [] fn = "sle" -> Sle(x, y)
    [] fn = "uge" -> LNot(Ult(x, y)) [] fn = "ugt" -> LNot(Ule(x, y))
    [] fn = "sge" -> LNot(Slt(x, y)) [] fn = "sgt" -> LNot(Sle(x, y))
    [] fn = "ne" -> Ne(x, y) [] fn = "eq" -> LNot(Ne(x, y))

(***************************************************************************)
(* Division, one bit of the dividend x at a time from the highest, and     *)
(* shifts.  Whether the divisor is zero is not looked at.                  *)
(***************************************************************************)
Shl(x, by) == IF by >= Len(x) THEN Repeated("0", Len(x)) ELSE Repeated("0", by) \o SubSeq(x, 1, Len(x) - by)
ShiftedIn(x, by, bit) == IF by >= Len(x) THEN Repeated(bit, Len(x)) ELSE SubSeq(x, by + 1, Len(x)) \o Repeated(bit, by)
Shr(x, by) == ShiftedIn(x, by, "0")
Ashr(x, by) == ShiftedIn(x, by, x[Len(x)])

RECURSIVE Divided(_, _, _, _, _)
DividedBit(x, y, n, quotient, remainder) ==
  IF CompareBits("uge", remainder, y) = "1"
  THEN Divided(x, y, n - 1, [quotient EXCEPT ![n] = "1"], SubBits(remainder, y))
  ELSE Divided(x, y, n - 1, quotient, remainder)
Divided(x, y, n, quotient, remainder) ==
  IF n = 0 THEN [quotient |-> quotient, remainder |-> remainder]
  ELSE DividedBit(x, y, n, quotient, [Shl(remainder, 1) EXCEPT ![1] = x[n]])
Division(x, y) == Divided(x, y, Len(x), Repeated("0", Len(x)), Repeated("0", Len(x)))

IsNegative(x) == x[Len(x)] = "1"
Magnitude(x) == IF IsNegative(x) THEN NegBits(x) ELSE x
NegatedIf(p, x) == IF p THEN NegBits(x) ELSE x
SDiv(x, y) == NegatedIf(IsNegative(x) # IsNegative(y), Division(Magnitude(x), Magnitude(y)).quotient)
SMod(x, y) == NegatedIf(IsNegative(x), Division(Magnitude(x), Magnitude(y)).remainder)

RECURSIVE ToUInt(_)
ToUInt(x) == IF x = <<>> THEN 0 ELSE (IF Head(x) = "1" THEN 1 ELSE 0) + 2 * ToUInt(Tail(x))
RECURSIVE ToBits(_, _)
ToBits(value, width) ==
  IF width = 0 THEN <<>> ELSE <<IF value % 2 = 1 THEN "1" ELSE "0">> \o ToBits(value \div 2, width - 1)

BinaryBits(fn, x, y) ==
  CASE fn = "add" -> AddBits(x, y) [] fn = "sub" -> SubBits(x, y) [] fn = "mul" -> MulBits(x, y)
    [] fn = "umulh" -> UMulHBits(x, y) [] fn = "smulh" -> SMulHBits(x, y)
    [] fn = "and" -> [n \in DOMAIN x |-> LAnd(x[n], y[n])]
    [] fn = "or" -> [n \in DOMAIN x |-> LOr(x[n], y[n])]
    [] fn = "xor" -> [n \in DOMAIN x |-> LXor(x[n], y[n])]
    [] fn = "udiv" -> Division(x, y).quotient [] fn = "umod" -> Division(x, y).remainder
    [] fn = "sdiv" -> SDiv(x, y) [] fn = "smod" -> SMod(x, y)
    [] fn = "shl" -> Shl(x, ToUInt(y)) [] fn = "shr" -> Shr(x, ToUInt(y)) [] fn = "ashr" -> Ashr(x, ToUInt(y))
===============================================================================
