--------------------------- MODULE BytecodeEmitter ---------------------------
(***************************************************************************)
(* Bytecode and its emission from expressions.  An instruction is an op    *)
(* code and an operand (a literal value, a slot index, a relative jump     *)
(* offset or a callee); a program is a sequence of instructions addressed  *)
(* from 0.  Emit lowers an expression the way the emitter does: operands  *)
(* left before right, a let as value; store; body, and a ternary as the    *)
(* jump_rel_if / jump_rel / jump_dest layout of the interpreter's tests.   *)
(***************************************************************************)
EXTENDS Integers, Sequences, BitsValue, DslxSemantics

CONSTANT NoOperand

Bytecode(op, data) == [op |-> op, data |-> data]

RECURSIVE Emit(_)
Emit(e) ==
  CASE e.tag = "lit" -> << Bytecode("literal", e.val) >>
    [] e.tag = "var" -> << Bytecode("load", e.slot) >>
    [] e.tag = "bin" -> Emit(e.lhs) \o Emit(e.rhs) \o << Bytecode(e.op, NoOperand) >>
    [] e.tag = "un"  -> Emit(e.arg) \o << Bytecode(e.op, NoOperand) >>
    [] e.tag = "assert_eq" ->
         Emit(e.lhs) \o Emit(e.rhs) \o << Bytecode("call", MakeFunction("assert_eq")) >>
    [] e.tag = "let" -> Emit(e.val) \o << Bytecode("store", e.slot) >> \o Emit(e.body)
    [] e.tag = "ite" ->
         LET t == Emit(e.then)
             f == Emit(e.else)
         IN Emit(e.cond)
              \o << Bytecode("jump_rel_if", Len(f) + 2) >> \o f
              \o << Bytecode("jump_rel", Len(t) + 2), Bytecode("jump_dest", NoOperand) >> \o t
              \o << Bytecode("jump_dest", NoOperand) >>

=============================================================================
