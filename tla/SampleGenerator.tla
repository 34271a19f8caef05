--------------------------- MODULE SampleGenerator ---------------------------
(***************************************************************************)
(* The fuzzer's sample generator (xls/fuzzer/sample_generator.cc):         *)
(* GenerateSample checks the options, draws codegen flags, takes the top   *)
(* entity of the generated module and fills a sample with random argument *)
(* lists.  Randomness is nondeterminism: every draw of the RNG is a choice *)
(* among the results the code can take from it.  A failed XLS_CHECK       *)
(* aborts the process; a failed XLS_RET_CHECK returns an error status.     *)
(***************************************************************************)
EXTENDS Integers, Sequences, BitsValue, SampleTypes

CONSTANTS
    Requests,   \* the (generator_options, sample_options) a caller may pass
    Tops        \* the top entities ("main") the AST generator may produce

\* The two ways a step can fail.
Abort == [kind |-> "abort"]          \* an XLS_CHECK: the process dies
RetCheckError == [kind |-> "error"]  \* an XLS_RET_CHECK: an error status
IsFailure(x) == x.kind \in {"abort", "error"}
Count(n) == [kind |-> "count", n |-> n]

-----------------------------------------------------------------------------
(* RngState.                                                               *)

\* Mutant: no early return for a single possible value.
BiasedCountsNoShortcut(limit) ==
    IF limit <= 0 THEN {Abort}
    ELSE {IF c = 0 THEN Abort ELSE Count(c - 1) : c \in 0 .. limit}

\* RandRangeBiasedTowardsZero(limit): ceil of a triangular draw on
\* [0, limit], minus one.  The draw may be exactly 0.0, giving -1.
BiasedCounts(limit) ==
    IF limit <= 0 THEN {Abort}
    ELSE IF limit = 1 THEN {Count(0)}
    ELSE {IF c = 0 THEN Abort ELSE Count(c - 1) : c \in 0 .. limit}

\* Mutant: the flipped bit drawn from 0 .. w, one past the top bit.
RECURSIVE FlippedPastWidth(_, _, _)
FlippedPastWidth(v, w, k) ==
    IF k = 0 THEN {v}
    ELSE UNION {FlippedPastWidth(IF (v \div 2 ^ b) % 2 = 1 THEN v - 2 ^ b ELSE v + 2 ^ b, w, k - 1)
                  : b \in 0 .. w}

\* The values reachable from v by k flips of a bit picked uniformly from w.
RECURSIVE Flipped(_, _, _)
Flipped(v, w, k) ==
    IF k = 0 THEN {v}
    ELSE UNION {Flipped(IF (v \div 2 ^ b) % 2 = 1 THEN v - 2 ^ b ELSE v + 2 ^ b, w, k - 1)
                  : b \in 0 .. w - 1}

-----------------------------------------------------------------------------
(* GenerateArgument.                                                       *)

\* GenerateBitValue / GenerateUnbiasedArgument: any pattern of the width.
Unbiased(t) == {MakeBits(t.w, t.s, v) : v \in 0 .. 2 ^ t.w - 1}

\* Mutating the prior Bits argument p into a value of bits type t: widen it
\* with random low bits or keep its low t.w bits, check the width, then
\* flip a biased-towards-zero number of random bits.
Mutations(p, t) ==
    LET grow == t.w > p.w
        width == IF grow THEN p.w + (t.w - p.w) ELSE t.w
        bases == IF grow THEN {p.v * 2 ^ (t.w - p.w) + a : a \in 0 .. 2 ^ (t.w - p.w) - 1}
                 ELSE {p.v % 2 ^ t.w}
    IN IF width # t.w THEN {RetCheckError}
       ELSE UNION {IF IsFailure(c) THEN {c}
                   ELSE {MakeBits(t.w, t.s, v) : v \in UNION {Flipped(b, t.w, c.n) : b \in bases}}
                   : c \in BiasedCounts(t.w)}

\* A Bits argument: unbiased when there is no prior or on the coin; else
\* a random prior, mutated when it is Bits.
BitsChoices(t, prior) ==
    IF prior = << >> THEN Unbiased(t)
    ELSE Unbiased(t) \cup UNION {IF prior[i].kind = "bits" THEN Mutations(prior[i], t)
                                  ELSE Unbiased(t) : i \in 1 .. Len(prior)}

\* The possible results of GenerateArgument(t, rng, prior), and of
\* generating the members ts in order (the first failure is returned).
RECURSIVE ArgChoices(_, _), MemberChoices(_, _), MemberChoicesGrowingPrior(_, _)
ArgChoices(t, prior) ==
    CASE t.k = "channel" -> ArgChoices(t.p, prior)
      [] t.k = "tuple" ->
           {IF m.ok THEN TupleV(m.vals) ELSE m.err : m \in MemberChoices(t.ms, prior)}
      [] t.k = "array" ->
           {IF m.ok THEN ArrayV(m.vals) ELSE m.err
              : m \in MemberChoices([i \in 1 .. t.n |-> t.e], prior)}
      [] t.k = "bits" -> BitsChoices(t, prior)
      [] OTHER -> {RetCheckError}

\* Mutant: each member takes the earlier members as part of its prior.
MemberChoicesGrowingPrior(ts, prior) ==
    IF ts = << >> THEN {[ok |-> TRUE, vals |-> << >>, err |-> RetCheckError]}
    ELSE UNION {IF IsFailure(x) THEN {[ok |-> FALSE, vals |-> << >>, err |-> x]}
                ELSE {IF rest.ok THEN [rest EXCEPT !.vals = << x >> \o @] ELSE rest
                        : rest \in MemberChoicesGrowingPrior(Tail(ts), Append(prior, x))}
                : x \in ArgChoices(Head(ts), prior)}

MemberChoices(ts, prior) ==
    IF ts = << >> THEN {[ok |-> TRUE, vals |-> << >>, err |-> RetCheckError]}
    ELSE UNION {IF IsFailure(x) THEN {[ok |-> FALSE, vals |-> << >>, err |-> x]}
                ELSE {IF rest.ok THEN [rest EXCEPT !.vals = << x >> \o @] ELSE rest
                        : rest \in MemberChoices(Tail(ts), prior)}
                : x \in ArgChoices(Head(ts), prior)}

\* GenerateCodegenArgs: the SystemVerilog flag, then combinational (one
\* draw in five) or a pipeline of RandRange(10) + 1 stages.
CodegenArgChoices(sv) ==
    {[sv |-> sv, generator |-> "combinational", stages |-> 0]}
    \cup {[sv |-> sv, generator |-> "pipeline", stages |-> n + 1] : n \in 0 .. 9}

-----------------------------------------------------------------------------
(* GenerateSample and the sample it builds.                                *)

VARIABLES
    req,        \* the generator and sample options of the call
    top,        \* the top entity of the generated module
    phase,      \* "start", "args" (argument batches), "init" (proc init
                \* values), then "done", "aborted" or "error"
    params,     \* the types GenerateArguments is filling in
    cur,        \* the arguments generated so far in that call
    batches,    \* args_batch / channel_values_batch
    inits,      \* proc_init_values
    codegen     \* the codegen args set on the sample options copy

vars == << req, top, phase, params, cur, batches, inits, codegen >>

NoTop == [kind |-> "none"]
NoCodegenArgs == [generator |-> "none"]

\* How many argument lists the sample holds.
Rounds == IF req.generate_proc THEN req.proc_ticks ELSE req.calls_per_sample

Init ==
    /\ req \in Requests
    /\ top = NoTop
    /\ phase = "start"
    /\ params = << >>
    /\ cur = << >>
    /\ batches = << >>
    /\ inits = << >>
    /\ codegen = NoCodegenArgs

StartAborts ==
    /\ phase = "start"
    /\ ~OptionsConsistent(req)
    /\ phase' = "aborted"
    /\ UNCHANGED << req, top, params, cur, batches, inits, codegen >>

\* Codegen args given by the caller are refused by a RET_CHECK.
StartRejects ==
    /\ phase = "start"
    /\ OptionsConsistent(req)
    /\ req.codegen_args_set
    /\ phase' = "error"
    /\ UNCHANGED << req, top, params, cur, batches, inits, codegen >>

\* Draw codegen flags, generate and type-check the module, take "main"
\* (a proc exactly when a proc was asked for) and its parameter types.
Start ==
    /\ phase = "start"
    /\ OptionsConsistent(req)
    /\ ~req.codegen_args_set
    /\ codegen' \in IF req.codegen THEN CodegenArgChoices(req.use_system_verilog)
                    ELSE {NoCodegenArgs}
    /\ \E t \in Tops[req.generate_proc] :
          /\ top' = t
          /\ params' = IF req.generate_proc THEN t.members ELSE t.params
    /\ phase' = "args"
    /\ UNCHANGED << req, cur, batches, inits >>

Filling ==
    \/ phase = "args" /\ Len(batches) < Rounds
    \/ phase = "init"

\* One iteration of GenerateArguments: GenerateArgument for the next type
\* with the arguments generated so far in this call as the prior.
GenerateArgument ==
    /\ Filling
    /\ Len(cur) < Len(params)
    /\ \E v \in ArgChoices(params[Len(cur) + 1], cur) :
          IF IsFailure(v)
          THEN /\ phase' = (IF v = Abort THEN "aborted" ELSE "error")
               /\ UNCHANGED cur
          ELSE /\ cur' = Append(cur, v)
               /\ UNCHANGED phase
    /\ UNCHANGED << req, top, params, batches, inits, codegen >>

\* GenerateArguments returned: the list joins the batch.
EndRound ==
    /\ phase = "args"
    /\ Len(batches) < Rounds
    /\ Len(cur) = Len(params)
    /\ batches' = Append(batches, cur)
    /\ cur' = << >>
    /\ UNCHANGED << req, top, phase, params, inits, codegen >>

FinishFunctionSample ==
    /\ phase = "args"
    /\ Len(batches) = Rounds
    /\ ~req.generate_proc
    /\ phase' = "done"
    /\ UNCHANGED << req, top, params, cur, batches, inits, codegen >>

\* After the channel values, GenerateProcSample draws the init values of
\* the next function's non-token parameters.
\* Mutant: the init value types collected front to back reversed.
StartInitValuesReversed ==
    /\ phase = "args"
    /\ Len(batches) = Rounds
    /\ req.generate_proc
    /\ params' = LET ts == InitValueTypes(top)
                 IN [i \in 1 .. Len(ts) |-> ts[Len(ts) + 1 - i]]
    /\ phase' = "init"
    /\ UNCHANGED << req, top, cur, batches, inits, codegen >>

StartInitValues ==
    /\ phase = "args"
    /\ Len(batches) = Rounds
    /\ req.generate_proc
    /\ params' = InitValueTypes(top)
    /\ phase' = "init"
    /\ UNCHANGED << req, top, cur, batches, inits, codegen >>

FinishProcSample ==
    /\ phase = "init"
    /\ Len(cur) = Len(params)
    /\ inits' = cur
    /\ phase' = "done"
    /\ UNCHANGED << req, top, params, cur, batches, codegen >>

Next ==
    \/ StartAborts \/ StartRejects \/ Start
    \/ GenerateArgument \/ EndRound
    \/ FinishFunctionSample \/ StartInitValues \/ FinishProcSample

Spec == Init /\ [][Next]_vars

-----------------------------------------------------------------------------
(* Properties.                                                             *)

Contract == INSTANCE SampleContract WITH
    phase  <- IF phase \in {"args", "init"} THEN "start" ELSE phase,
    top    <- IF phase \in {"args", "init"} THEN NoTop ELSE top,
    sample <- IF phase = "done"
              THEN [batches |-> batches, inits |-> inits, codegen |-> codegen]
              ELSE [kind |-> "none"]

\* Every step of GenerateSample is a step of its contract: it returns an error status only for caller-set codegen args; it aborts only
\* on inconsistent options or where a draw for a mutated argument of width
\* other than one may fail; and a sample it returns has one list of the
\* top's parameter (member) types per call (tick), payloads that fit,
\* proc init values for the non-token next parameters, and codegen flags
\* exactly when codegen is on.
ImplementsSampleContract == Contract!Spec

\* With options that pass GenerateSample's own checks, no XLS_CHECK inside
\* the generator kills the process.
NoAbortOnConsistentOptions == phase = "aborted" => ~OptionsConsistent(req)

=============================================================================
