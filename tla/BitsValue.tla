------------------------------ MODULE BitsValue ------------------------------
(***************************************************************************)
(* The interpreter's value model (InterpValue) and the arithmetic the      *)
(* execution engine applies to it.  A Bits value keeps its payload as the  *)
(* unsigned number 0 .. 2^w-1 of its w bits; the sign tag only changes how *)
(* Div reads the payload.  Widths are kept small so that 2^(2w) stays      *)
(* inside TLC's integers.                                                  *)
(***************************************************************************)
EXTENDS Integers, Sequences
LOCAL INSTANCE Bitwise

Unit == [kind |-> "unit"]
MakeBits(w, s, v) == [kind |-> "bits", w |-> w, s |-> s, v |-> v]
MakeFunction(name) == [kind |-> "fn", name |-> name]
IsBits(x) == x.kind = "bits"

\* The result contract of Interpret: a value, a user-visible assertion
\* failure carrying both compared values, or an internal error.
Pending == [kind |-> "pending"]
Returned(v) == [kind |-> "value", val |-> v]
AssertionFailure(lhs, rhs) == [kind |-> "assert", lhs |-> lhs, rhs |-> rhs]
InternalError == [kind |-> "internal"]

\* The payload of a w-bit value reduced modulo 2^w, as the engine stores it.
Wrap(n, w) == n % (2 ^ w)

\* The two's-complement reading of a payload and its inverse.
ToSigned(x) == IF x.v >= 2 ^ (x.w - 1) THEN x.v - 2 ^ x.w ELSE x.v
AbsInt(n) == IF n < 0 THEN -n ELSE n

\* Integer division rounding toward zero, as the host's signed division.
TruncDiv(a, b) ==
    LET q == AbsInt(a) \div AbsInt(b)
    IN IF (a < 0) = (b < 0) THEN q ELSE -q

BinaryOps == {"add", "sub", "mul", "div", "and", "or", "xor",
              "concat", "shll", "shrl"}
UnaryOps == {"invert", "negate"}

\* Operations whose two operands must have equal widths.
SameWidthOps == BinaryOps \ {"concat", "shll", "shrl"}

(***************************************************************************)
(* The checks the engine makes before a binary operation: both operands    *)
(* Bits, equal widths where required, a nonzero divisor, and (the open     *)
(* question of the spec, resolved as it says) no signed MIN / -1.          *)
(* Each failed check is an internal error.                                 *)
(***************************************************************************)
BinopChecksPass(op, l, r) ==
    /\ IsBits(l) /\ IsBits(r)
    /\ op \in SameWidthOps => l.w = r.w
    /\ op = "div" => r.v # 0
    /\ op = "div" /\ l.s => ~(ToSigned(l) = -(2 ^ (l.w - 1)) /\ ToSigned(r) = -1)

ShiftAmount(r) == r.v

\* Mutant: add without reducing the sum modulo 2^w.
BinopValueUnwrapped(op, l, r) ==
    CASE op = "add"    -> MakeBits(l.w, l.s, l.v + r.v)
      [] op = "sub"    -> MakeBits(l.w, l.s, Wrap(l.v - r.v, l.w))
      [] op = "mul"    -> MakeBits(l.w, l.s, Wrap(l.v * r.v, l.w))
      [] op = "div"    -> MakeBits(l.w, l.s,
                            IF l.s THEN Wrap(TruncDiv(ToSigned(l), ToSigned(r)), l.w)
                                   ELSE l.v \div r.v)
      [] op = "and"    -> MakeBits(l.w, l.s, l.v & r.v)
      [] op = "or"     -> MakeBits(l.w, l.s, l.v | r.v)
      [] op = "xor"    -> MakeBits(l.w, l.s, l.v ^^ r.v)
      [] op = "concat" -> MakeBits(l.w + r.w, FALSE, l.v * 2 ^ r.w + r.v)
      [] op = "shll"   -> MakeBits(l.w, l.s,
                            IF ShiftAmount(r) >= l.w THEN 0
                            ELSE Wrap(l.v * 2 ^ ShiftAmount(r), l.w))
      [] op = "shrl"   -> MakeBits(l.w, l.s,
                            IF ShiftAmount(r) >= l.w THEN 0
                            ELSE l.v \div 2 ^ ShiftAmount(r))

BinopValue(op, l, r) ==
    CASE op = "add"    -> MakeBits(l.w, l.s, Wrap(l.v + r.v, l.w))
      [] op = "sub"    -> MakeBits(l.w, l.s, Wrap(l.v - r.v, l.w))
      [] op = "mul"    -> MakeBits(l.w, l.s, Wrap(l.v * r.v, l.w))
      [] op = "div"    -> MakeBits(l.w, l.s,
                            IF l.s THEN Wrap(TruncDiv(ToSigned(l), ToSigned(r)), l.w)
                                   ELSE l.v \div r.v)
      [] op = "and"    -> MakeBits(l.w, l.s, l.v & r.v)
      [] op = "or"     -> MakeBits(l.w, l.s, l.v | r.v)
      [] op = "xor"    -> MakeBits(l.w, l.s, l.v ^^ r.v)
      [] op = "concat" -> MakeBits(l.w + r.w, FALSE, l.v * 2 ^ r.w + r.v)
      [] op = "shll"   -> MakeBits(l.w, l.s,
                            IF ShiftAmount(r) >= l.w THEN 0
                            ELSE Wrap(l.v * 2 ^ ShiftAmount(r), l.w))
      [] op = "shrl"   -> MakeBits(l.w, l.s,
                            IF ShiftAmount(r) >= l.w THEN 0
                            ELSE l.v \div 2 ^ ShiftAmount(r))

UnopValue(op, x) ==
    CASE op = "invert" -> MakeBits(x.w, x.s, 2 ^ x.w - 1 - x.v)
      [] op = "negate" -> MakeBits(x.w, x.s, Wrap(2 ^ x.w - x.v, x.w))

=============================================================================
