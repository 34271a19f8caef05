------------------------- MODULE BytecodeInterpreter -------------------------
(***************************************************************************)
(* The execution engine: BytecodeInterpreter::Interpret(bytecodes, env).   *)
(* One behaviour is one call of Interpret on one job (a program, the       *)
(* initial slots, and the outcome the call must return).  The engine      *)
(* fetches the instruction at pc, checks the conditions whose failure is   *)
(* an internal error, and executes it; reaching the end of the program     *)
(* returns the single value left on the operand stack.                     *)
(***************************************************************************)
EXTENDS Integers, Sequences, BitsValue

CONSTANT Jobs   \* set of [code |-> program, env |-> slots, expect |-> outcome]

VARIABLES
    job,        \* the program and slots passed to Interpret (never changes)
    pc,         \* index of the next instruction, from 0
    stack,      \* the operand stack; its top is the last element
    env,        \* the environment: slot i is env[i + 1]
    outcome     \* Pending while the loop runs, then what Interpret returns

vars == << job, pc, stack, env, outcome >>

Arity == [assert_eq |-> 2]

Init ==
    /\ job \in Jobs
    /\ pc = 0
    /\ stack = << >>
    /\ env = job.env
    /\ outcome = Pending

Running == outcome = Pending
Fetching == Running /\ pc < Len(job.code)
Instr == job.code[pc + 1]
Top == stack[Len(stack)]
Below == stack[Len(stack) - 1]
Popped(n) == SubSeq(stack, 1, Len(stack) - n)
JumpTarget == pc + Instr.data
InProgram(t) == t \in 0 .. Len(job.code)

(***************************************************************************)
(* The conditions the engine checks before executing instruction i; a      *)
(* failed check ends the run with an internal error.                       *)
(***************************************************************************)
ChecksPass(i) ==
    CASE i.op = "literal"  -> TRUE
      [] i.op = "store"    -> Len(stack) >= 1 /\ i.data < Len(env)
      [] i.op = "load"     -> i.data < Len(env)
      [] i.op \in BinaryOps -> Len(stack) >= 2 /\ BinopChecksPass(i.op, Below, Top)
      [] i.op \in UnaryOps  -> Len(stack) >= 1 /\ IsBits(Top)
      [] i.op = "call"     -> i.data.kind = "fn" /\ i.data.name \in DOMAIN Arity
                              /\ Len(stack) >= Arity[i.data.name]
      [] i.op = "jump_rel_if" -> /\ Len(stack) >= 1 /\ IsBits(Top) /\ Top.w = 1
                                 /\ Top.v # 0 => InProgram(JumpTarget)
      [] i.op = "jump_rel" -> InProgram(JumpTarget)
      [] i.op = "jump_dest" -> TRUE
      [] OTHER -> FALSE

Execute(op) == Fetching /\ Instr.op = op /\ ChecksPass(Instr)

Advance == pc' = pc + 1

Literal ==
    /\ Execute("literal")
    /\ stack' = Append(stack, Instr.data)
    /\ Advance
    /\ UNCHANGED << job, env, outcome >>

Store ==
    /\ Execute("store")
    /\ env' = [env EXCEPT ![Instr.data + 1] = Top]
    /\ stack' = Popped(1)
    /\ Advance
    /\ UNCHANGED << job, outcome >>

Load ==
    /\ Execute("load")
    /\ stack' = Append(stack, env[Instr.data + 1])
    /\ Advance
    /\ UNCHANGED << job, env, outcome >>

\* Pops the right operand, then the left one, and pushes the result.
Binop ==
    /\ \E op \in BinaryOps : Execute(op)
    /\ stack' = Append(Popped(2), BinopValue(Instr.op, Below, Top))
    /\ Advance
    /\ UNCHANGED << job, env, outcome >>

Unop ==
    /\ \E op \in UnaryOps : Execute(op)
    /\ stack' = Append(Popped(1), UnopValue(Instr.op, Top))
    /\ Advance
    /\ UNCHANGED << job, env, outcome >>

\* assert_eq on equal values pushes unit; on unequal ones the run fails
\* with both values, the left operand first.
CallAssertEqPass ==
    /\ Execute("call")
    /\ Below = Top
    /\ stack' = Append(Popped(2), Unit)
    /\ Advance
    /\ UNCHANGED << job, env, outcome >>

CallAssertEqFail ==
    /\ Execute("call")
    /\ Below # Top
    /\ outcome' = AssertionFailure(Below, Top)
    /\ UNCHANGED << job, pc, stack, env >>

\* Mutant: the branch taken when the condition is zero.
JumpRelIfInverted ==
    /\ Execute("jump_rel_if")
    /\ stack' = Popped(1)
    /\ pc' = IF Top.v = 0 THEN JumpTarget ELSE pc + 1
    /\ UNCHANGED << job, env, outcome >>

JumpRelIf ==
    /\ Execute("jump_rel_if")
    /\ stack' = Popped(1)
    /\ pc' = IF Top.v # 0 THEN JumpTarget ELSE pc + 1
    /\ UNCHANGED << job, env, outcome >>

JumpRel ==
    /\ Execute("jump_rel")
    /\ pc' = JumpTarget
    /\ UNCHANGED << job, stack, env, outcome >>

JumpDest ==
    /\ Execute("jump_dest")
    /\ Advance
    /\ UNCHANGED << job, stack, env, outcome >>

\* A check of the fetched instruction fails: the run ends at once.
FailCheck ==
    /\ Fetching
    /\ ~ChecksPass(Instr)
    /\ outcome' = InternalError
    /\ UNCHANGED << job, pc, stack, env >>

\* The end of the program: exactly one value must be left.
Finish ==
    /\ Running
    /\ pc = Len(job.code)
    /\ outcome' = IF Len(stack) = 1 THEN Returned(stack[1]) ELSE InternalError
    /\ UNCHANGED << job, pc, stack, env >>

Next ==
    \/ Literal \/ Store \/ Load \/ Binop \/ Unop
    \/ CallAssertEqPass \/ CallAssertEqFail
    \/ JumpRelIf \/ JumpRel \/ JumpDest
    \/ FailCheck \/ Finish

\* The loop runs on one thread and never waits: it always takes its step.
Spec == Init /\ [][Next]_vars /\ WF_vars(Next)

-----------------------------------------------------------------------------
Values == {Unit} \cup {v \in [kind : {"bits"}, w : Nat, s : BOOLEAN, v : Nat] : v.v < 2 ^ v.w}

\* Every value on the stack or in a slot is unit or a Bits value whose
\* payload fits its width.
TypeOK ==
    /\ pc \in 0 .. Len(job.code)
    /\ \A i \in 1 .. Len(stack) : stack[i] \in Values
    /\ \A i \in 1 .. Len(env) : env[i] \in Values
    /\ outcome.kind \in {"pending", "value", "assert", "internal"}

Contract == INSTANCE InterpretContract

\* Interpret refines its contract: every call returns, exactly once, the
\* outcome the job specifies (the reference meaning of the emitted
\* expression, or the expectation of the repository's test).
ImplementsContract == Contract!Spec

=============================================================================
