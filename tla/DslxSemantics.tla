---------------------------- MODULE DslxSemantics ----------------------------
(***************************************************************************)
(* The reference meaning of the little expression language whose bytecode *)
(* the interpreter runs: what an expression evaluates to, written from the *)
(* spec's definitions of each operation (bit by bit, or as the unique      *)
(* number with the defining property), independently of the engine's      *)
(* arithmetic in BitsValue.  The refinement check of BytecodeInterpreter   *)
(* compares the engine against this.                                      *)
(***************************************************************************)
EXTENDS Integers, Sequences, BitsValue

\* Expressions: literal, slot read, binary and unary operations,
\* if-then-else, let binding a slot, and a call of the assert_eq builtin.
ELit(v) == [tag |-> "lit", val |-> v]
EVar(slot) == [tag |-> "var", slot |-> slot]
EBin(op, l, r) == [tag |-> "bin", op |-> op, lhs |-> l, rhs |-> r]
EUn(op, e) == [tag |-> "un", op |-> op, arg |-> e]
EIte(c, t, f) == [tag |-> "ite", cond |-> c, then |-> t, else |-> f]
ELet(slot, e, body) == [tag |-> "let", slot |-> slot, val |-> e, body |-> body]
EAssertEq(l, r) == [tag |-> "assert_eq", lhs |-> l, rhs |-> r]

-----------------------------------------------------------------------------
(* Reference arithmetic.                                                   *)

Bit(x, i) == (x.v \div 2 ^ i) % 2

\* The number whose bit i is b[i], for i in 0 .. w-1.
RECURSIVE Weigh(_, _)
Weigh(b, w) == IF w = 0 THEN 0 ELSE b[w - 1] * 2 ^ (w - 1) + Weigh(b, w - 1)

FromBitFn(w, s, b) == MakeBits(w, s, Weigh(b, w))

\* Ripple-carry addition: the carry into bit i of a + b + cin.
RECURSIVE CarryIn(_, _, _, _)
CarryIn(a, b, cin, i) ==
    IF i = 0 THEN cin
    ELSE (a[i - 1] + b[i - 1] + CarryIn(a, b, cin, i - 1)) \div 2

RippleAdd(w, a, b, cin) ==
    [i \in 0 .. w - 1 |-> (a[i] + b[i] + CarryIn(a, b, cin, i)) % 2]

Bits2Fn(x) == [i \in 0 .. x.w - 1 |-> Bit(x, i)]
Complement(x) == [i \in 0 .. x.w - 1 |-> 1 - Bit(x, i)]

SignOf(n) == IF n > 0 THEN 1 ELSE IF n < 0 THEN -1 ELSE 0

\* The quotient of signed division: the q of largest magnitude with
\* |q * b| <= |a| whose sign is the product of the operands' signs.
SignedQuotient(a, b) ==
    CHOOSE q \in -AbsInt(a) .. AbsInt(a) :
        /\ AbsInt(q * b) <= AbsInt(a)
        /\ AbsInt(a) < AbsInt(q * b) + AbsInt(b)
        /\ q = 0 \/ SignOf(q) = SignOf(a) * SignOf(b)

RefBinop(op, l, r) ==
    LET k == r.v IN
    CASE op = "add" -> FromBitFn(l.w, l.s, RippleAdd(l.w, Bits2Fn(l), Bits2Fn(r), 0))
      [] op = "sub" -> FromBitFn(l.w, l.s, RippleAdd(l.w, Bits2Fn(l), Complement(r), 1))
      [] op = "mul" -> MakeBits(l.w, l.s,
                          CHOOSE m \in 0 .. 2 ^ l.w - 1 : (l.v * r.v - m) % 2 ^ l.w = 0)
      [] op = "div" -> MakeBits(l.w, l.s,
                          IF l.s THEN SignedQuotient(ToSigned(l), ToSigned(r)) % 2 ^ l.w
                          ELSE CHOOSE q \in 0 .. l.v : q * r.v <= l.v /\ l.v < (q + 1) * r.v)
      [] op = "and" -> FromBitFn(l.w, l.s, [i \in 0 .. l.w - 1 |-> Bit(l, i) * Bit(r, i)])
      [] op = "or"  -> FromBitFn(l.w, l.s,
                          [i \in 0 .. l.w - 1 |-> IF Bit(l, i) + Bit(r, i) > 0 THEN 1 ELSE 0])
      [] op = "xor" -> FromBitFn(l.w, l.s, [i \in 0 .. l.w - 1 |-> (Bit(l, i) + Bit(r, i)) % 2])
      [] op = "concat" -> FromBitFn(l.w + r.w, FALSE,
                          [i \in 0 .. l.w + r.w - 1 |-> IF i < r.w THEN Bit(r, i) ELSE Bit(l, i - r.w)])
      [] op = "shll" -> FromBitFn(l.w, l.s,
                          [i \in 0 .. l.w - 1 |-> IF i >= k THEN Bit(l, i - k) ELSE 0])
      [] op = "shrl" -> FromBitFn(l.w, l.s,
                          [i \in 0 .. l.w - 1 |-> IF i + k < l.w THEN Bit(l, i + k) ELSE 0])

RefUnop(op, x) ==
    CASE op = "invert" -> FromBitFn(x.w, x.s, Complement(x))
      [] op = "negate" -> MakeBits(x.w, x.s, CHOOSE m \in 0 .. 2 ^ x.w - 1 : (m + x.v) % 2 ^ x.w = 0)

\* The spec's internal-error conditions of an operation (section 4.2, 9).
RefBinopDefined(op, l, r) ==
    /\ l.kind = "bits" /\ r.kind = "bits"
    /\ op \notin {"concat", "shll", "shrl"} => l.w = r.w
    /\ op = "div" => /\ r.v # 0
                     /\ l.s => SignedQuotient(ToSigned(l), ToSigned(r)) < 2 ^ (l.w - 1)

-----------------------------------------------------------------------------
(* Evaluation.  Eval(e, env) is the outcome of e together with the slots   *)
(* after it; evaluation is left to right and the first failure aborts.     *)

Done(out, env) == [out |-> out, env |-> env]
Ok(r) == r.out.kind = "value"

RECURSIVE Eval(_, _)
Eval(e, env) ==
  CASE e.tag = "lit" -> Done(Returned(e.val), env)
    [] e.tag = "var" ->
         IF e.slot < Len(env) THEN Done(Returned(env[e.slot + 1]), env)
         ELSE Done(InternalError, env)
    [] e.tag = "un" ->
         LET a == Eval(e.arg, env) IN
         IF ~Ok(a) THEN a
         ELSE IF a.out.val.kind = "bits" THEN Done(Returned(RefUnop(e.op, a.out.val)), a.env)
         ELSE Done(InternalError, a.env)
    [] e.tag \in {"bin", "assert_eq"} ->
         LET l == Eval(e.lhs, env)
             r == Eval(e.rhs, l.env)
             lv == l.out.val
             rv == r.out.val
         IN CASE ~Ok(l) -> l
              [] ~Ok(r) -> r
              [] e.tag = "assert_eq" ->
                   IF lv = rv THEN Done(Returned(Unit), r.env)
                   ELSE Done(AssertionFailure(lv, rv), r.env)
              [] RefBinopDefined(e.op, lv, rv) -> Done(Returned(RefBinop(e.op, lv, rv)), r.env)
              [] OTHER -> Done(InternalError, r.env)
    [] e.tag = "ite" ->
         LET c == Eval(e.cond, env) IN
         CASE ~Ok(c) -> c
           [] c.out.val.kind # "bits" \/ c.out.val.w # 1 -> Done(InternalError, c.env)
           [] c.out.val.v # 0 -> Eval(e.then, c.env)
           [] OTHER -> Eval(e.else, c.env)
    [] e.tag = "let" ->
         LET v == Eval(e.val, env) IN
         CASE ~Ok(v) -> v
           [] e.slot >= Len(v.env) -> Done(InternalError, v.env)
           [] OTHER -> Eval(e.body, [v.env EXCEPT ![e.slot + 1] = v.out.val])

\* The outcome Interpret must return for e run over the initial slots env.
Meaning(e, env) == Eval(e, env).out

=============================================================================
