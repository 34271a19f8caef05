---------------------------- MODULE SampleContract ----------------------------
(***************************************************************************)
(* What one call of GenerateSample promises its caller, in one step: an   *)
(* error status exactly when the caller set codegen args, a process abort *)
(* when the options are inconsistent or when a random draw for a mutated  *)
(* argument may fail, and otherwise a sample whose argument lists, proc   *)
(* init values and codegen flags match the generated top entity.  The     *)
(* random draws and the argument-by-argument filling are hidden; the top  *)
(* entity becomes visible when the call ends.                             *)
(***************************************************************************)
EXTENDS Integers, Sequences, SampleTypes

CONSTANTS Requests, Tops

VARIABLES req, phase, top, sample

vars == << req, phase, top, sample >>

NoTop == [kind |-> "none"]
NoSample == [kind |-> "none"]

ParamsOf(t) == IF t.kind = "proc" THEN t.members ELSE t.params
RoundsOf(r) == IF r.generate_proc THEN r.proc_ticks ELSE r.calls_per_sample

\* A value of type t is a Bits value (a channel carries its payload).
RECURSIVE BitsValued(_)
BitsValued(t) == t.k = "bits" \/ (t.k = "channel" /\ BitsValued(t.p))

\* The widths of the Bits leaves of type t.
RECURSIVE LeafWidths(_)
LeafWidths(t) ==
    CASE t.k = "bits" -> {t.w}
      [] t.k = "channel" -> LeafWidths(t.p)
      [] t.k = "tuple" -> UNION {LeafWidths(t.ms[i]) : i \in 1 .. Len(t.ms)}
      [] t.k = "array" -> IF t.n = 0 THEN {} ELSE LeafWidths(t.e)
      [] OTHER -> {}

\* The widths a list ts of argument types may mutate a prior into: the
\* leaves of an argument that follows a Bits-valued argument.
MutableWidths(ts) ==
    UNION {LeafWidths(ts[i]) : i \in {j \in 1 .. Len(ts) : \E k \in 1 .. j - 1 : BitsValued(ts[k])}}

\* A biased draw for a mutation can fail unless the width is exactly 1.
DrawMayAbort(r, t) ==
    \/ RoundsOf(r) > 0 /\ \E w \in MutableWidths(ParamsOf(t)) : w # 1
    \/ r.generate_proc /\ \E w \in MutableWidths(InitValueTypes(t)) : w # 1

\* The codegen flags of a sample: none without codegen; otherwise the
\* SystemVerilog choice of the caller and a combinational or 1..10-stage
\* pipelined generator.
CodegenOk(r, c) ==
    IF ~r.codegen THEN c = [generator |-> "none"]
    ELSE /\ c.sv = r.use_system_verilog
         /\ \/ c.generator = "combinational"
            \/ c.generator = "pipeline" /\ c.stages \in 1 .. 10

ListOk(vs, ts) == ListConforms(vs, ts) /\ \A i \in 1 .. Len(vs) : Fits(vs[i])

IsSample(r, t, s) ==
    /\ Len(s.batches) = RoundsOf(r)
    /\ \A b \in 1 .. Len(s.batches) : ListOk(s.batches[b], ParamsOf(t))
    /\ s.inits = IF r.generate_proc THEN s.inits ELSE << >>
    /\ r.generate_proc => ListOk(s.inits, InitValueTypes(t))
    /\ CodegenOk(r, s.codegen)

Init ==
    /\ req \in Requests
    /\ phase = "start"
    /\ top = NoTop
    /\ sample = NoSample

Accepted == phase = "start" /\ OptionsConsistent(req) /\ ~req.codegen_args_set

Reject ==
    /\ phase = "start" /\ OptionsConsistent(req) /\ req.codegen_args_set
    /\ phase' = "error"
    /\ UNCHANGED << req, top, sample >>

AbortOnOptions ==
    /\ phase = "start" /\ ~OptionsConsistent(req)
    /\ phase' = "aborted"
    /\ UNCHANGED << req, top, sample >>

AbortOnDraw ==
    /\ Accepted
    /\ top' \in Tops[req.generate_proc]
    /\ DrawMayAbort(req, top')
    /\ phase' = "aborted"
    /\ UNCHANGED << req, sample >>

Produce ==
    /\ Accepted
    /\ phase' = "done"
    /\ top' \in Tops[req.generate_proc]
    /\ IsSample(req, top', sample')
    /\ UNCHANGED req

Next == Reject \/ AbortOnOptions \/ AbortOnDraw \/ Produce

Spec == Init /\ [][Next]_vars

=============================================================================
