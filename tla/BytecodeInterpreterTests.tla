----------------------- MODULE BytecodeInterpreterTests -----------------------
(***************************************************************************)
(* The jobs of the repository's BytecodeInterpreterTest suite: each test's *)
(* program, initial slots and expected outcome.  Hand-written bytecode is  *)
(* given instruction by instruction; a DSLX test function is given as the  *)
(* expression the emitter lowers.  The tests use 32-bit values, out of     *)
(* reach of TLC's integers; they are scaled to 8 bits by keeping one byte  *)
(* of each repeated byte pattern (0xa5a5a5a5 becomes 0xa5 = 165), which    *)
(* keeps every carry, borrow and shifted-out bit the 32-bit test has.      *)
(***************************************************************************)
EXTENDS Integers, Sequences, BitsValue, DslxSemantics, BytecodeEmitter

U1(v) == MakeBits(1, FALSE, v)
U8(v) == MakeBits(8, FALSE, v)
U16(v) == MakeBits(16, FALSE, v)
S8(v) == MakeBits(8, TRUE, v % 256)
Slots(n) == [i \in 1 .. n |-> Unit]

\* A DSLX test body "let a = x; let b = y; a op b" over two slots.
BinopTest(op, x, y, expect) ==
    [code   |-> Emit(ELet(0, ELit(x), ELet(1, ELit(y), EBin(op, EVar(0), EVar(1))))),
     env    |-> Slots(2),
     expect |-> Returned(expect)]

PositiveSmokeTest ==
    [code   |-> << Bytecode("literal", U8(1)), Bytecode("store", 0),
                   Bytecode("load", 0), Bytecode("literal", U8(2)),
                   Bytecode("add", NoOperand) >>,
     env    |-> Slots(1),
     expect |-> Returned(U8(3))]

AssertEqFail ==
    [code   |-> << Bytecode("literal", U8(3)), Bytecode("store", 0),
                   Bytecode("load", 0), Bytecode("literal", U8(2)),
                   Bytecode("call", MakeFunction("assert_eq")),
                   Bytecode("store", 1), Bytecode("load", 0) >>,
     env    |-> Slots(2),
     expect |-> AssertionFailure(U8(3), U8(2))]

\* The ternary of RunTernaryConsequent / RunTernaryAlternate on condition c.
Ternary(c) ==
    << Bytecode("literal", U1(c)), Bytecode("jump_rel_if", 3),
       Bytecode("literal", U8(64)), Bytecode("jump_rel", 3),
       Bytecode("jump_dest", NoOperand), Bytecode("literal", U8(42)),
       Bytecode("jump_dest", NoOperand) >>

RunTernaryConsequent ==
    [code |-> Ternary(1), env |-> Slots(0), expect |-> Returned(U8(42))]

RunTernaryAlternate ==
    [code |-> Ternary(0), env |-> Slots(0), expect |-> Returned(U8(64))]

BinopAnd == BinopTest("and", U8(165), U8(255), U8(165))
BinopConcat == BinopTest("concat", U8(165), U8(255), U16(42495))
BinopDiv == BinopTest("div", U8(132), U8(4), U8(33))
BinopMul == BinopTest("mul", U8(33), U8(4), U8(132))
BinopOr == BinopTest("or", U8(165), U8(90), U8(255))
BinopShll == BinopTest("shll", U8(33), U8(2), U8(132))
BinopShrl == BinopTest("shrl", U8(132), U8(2), U8(33))
BinopSub == BinopTest("sub", U8(165), U8(90), U8(75))
\* 0xa5a5ffff ^ 0x5a5affff = 0xffff0000, kept at 16 bits: 0xa5ff ^ 0x5aff.
BinopXor == BinopTest("xor", U16(42495), U16(23295), U16(65280))

\* let a = s32:1; let b = !a; -b  evaluates to 2.
Unops ==
    [code   |-> Emit(ELet(0, ELit(S8(1)),
                     ELet(1, EUn("invert", EVar(0)), EUn("negate", EVar(1))))),
     env    |-> Slots(2),
     expect |-> Returned(S8(2))]

TestJobs ==
    { PositiveSmokeTest, AssertEqFail, RunTernaryConsequent, RunTernaryAlternate,
      BinopAnd, BinopConcat, BinopDiv, BinopMul, BinopOr, BinopShll, BinopShrl,
      BinopSub, BinopXor, Unops }

=============================================================================
