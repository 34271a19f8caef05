------------------------ MODULE MCBytecodeInterpreter ------------------------
(***************************************************************************)
(* Model-checking instance of BytecodeInterpreter.  The jobs are the       *)
(* repository's interpreter tests, every binary and unary operation on     *)
(* every 1- and 2-bit literal pair, lets and ternaries built from          *)
(* assertions that pass and fail, and hand-made malformed programs.  The  *)
(* expected outcome of an emitted expression is its reference meaning.    *)
(***************************************************************************)
EXTENDS BytecodeInterpreter, BytecodeInterpreterTests

Lits1 == {MakeBits(1, FALSE, v) : v \in 0 .. 1}
Lits2 == {MakeBits(2, s, v) : s \in BOOLEAN, v \in 0 .. 3}
Lits == Lits1 \cup Lits2

u1(v) == ELit(MakeBits(1, FALSE, v))
u2(v) == ELit(MakeBits(2, FALSE, v))
s2(v) == ELit(MakeBits(2, TRUE, v))

JobOf(e, n) ==
    [code |-> Emit(e), env |-> Slots(n), expect |-> Meaning(e, Slots(n))]

OpJobs ==
    {JobOf(EBin(op, ELit(a), ELit(b)), 0) : op \in BinaryOps, a \in Lits, b \in Lits}
    \cup {JobOf(EUn(op, ELit(a)), 0) : op \in UnaryOps, a \in Lits}

\* Statements whose value is bound by a let: assertions that pass, fail on
\* the value, fail on the sign tag alone, fail on the width alone.
Stmts ==
    { u2(1), s2(2),
      EAssertEq(u2(1), u2(1)), EAssertEq(u2(1), u2(2)),
      EAssertEq(u2(1), s2(1)), EAssertEq(u1(1), u2(1)) }

Bodies == { EVar(0), EVar(1), EBin("sub", EVar(0), EVar(1)), EBin("concat", EVar(1), EVar(0)) }

\* let x = a; let y = b; body, over one slot (the second store is out of
\* range) or two.
LetJobs ==
    {JobOf(ELet(0, a, ELet(1, b, body)), n) : a, b \in Stmts, body \in Bodies, n \in 1 .. 2}

Conds == { u1(0), u1(1), EVar(0), EBin("xor", EVar(0), u1(1)), u2(1) }

Branches ==
    { u2(1), EBin("sub", u2(1), u2(2)), EAssertEq(u2(1), u2(2)),
      EIte(EVar(0), EAssertEq(u2(3), u2(0)), u2(3)) }

\* let c = b; if cond { t } else { f }, nested ternaries included.
IteJobs ==
    {JobOf(ELet(0, u1(b), EIte(c, t, f)), 1) : b \in 0 .. 1, c \in Conds, t, f \in Branches}

\* Programs no emitter produces: the engine must report an internal error.
MalformedJobs ==
    { [code |-> p, env |-> Slots(1), expect |-> InternalError] :
        p \in { << >>,
                << Bytecode("add", NoOperand) >>,
                << Bytecode("literal", MakeBits(2, FALSE, 1)), Bytecode("literal", MakeBits(2, FALSE, 1)) >>,
                << Bytecode("literal", MakeBits(1, FALSE, 1)), Bytecode("jump_rel_if", 3) >>,
                << Bytecode("jump_rel", -1) >>,
                << Bytecode("load", 1) >>,
                << Bytecode("literal", MakeBits(2, FALSE, 1)), Bytecode("jump_rel_if", 1) >> } }

MCJobs == TestJobs \cup OpJobs \cup LetJobs \cup IteJobs \cup MalformedJobs

=============================================================================
