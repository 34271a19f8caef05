----------------------------- MODULE SampleTypes -----------------------------
(***************************************************************************)
(* The data GenerateSample works on, shared by its detailed model         *)
(* (SampleGenerator) and its contract (SampleContract): DSLX concrete     *)
(* types, the values generated for them, the option checks, and what it   *)
(* means for a value to be an argument of a type.                         *)
(***************************************************************************)
EXTENDS Integers, Sequences

\* Concrete types of DSLX parameters.
BitsT(w, s) == [k |-> "bits", w |-> w, s |-> s]
TupleT(ms) == [k |-> "tuple", ms |-> ms]
ArrayT(e, n) == [k |-> "array", e |-> e, n |-> n]
ChannelT(p) == [k |-> "channel", p |-> p]
TokenT == [k |-> "token"]

TupleV(es) == [kind |-> "tuple", elems |-> es]
ArrayV(es) == [kind |-> "array", elems |-> es]

\* The XLS_CHECKs at the start of GenerateSample.
OptionsConsistent(r) ==
    IF r.generate_proc THEN r.calls_per_sample = 0 /\ r.has_proc_ticks
    ELSE ~r.has_proc_ticks \/ r.proc_ticks = 0

\* GetProcInitValueTypes: the next function's parameters but its tokens.
InitValueTypes(top) == SelectSeq(top.next, LAMBDA t : t.k # "token")

\* Value v is an argument of type t: same shape, widths and sign tags.
RECURSIVE Conforms(_, _)
Conforms(v, t) ==
    CASE t.k = "channel" -> Conforms(v, t.p)
      [] t.k = "bits" -> v.kind = "bits" /\ v.w = t.w /\ v.s = t.s
      [] t.k = "tuple" -> /\ v.kind = "tuple" /\ Len(v.elems) = Len(t.ms)
                         /\ \A i \in 1 .. Len(t.ms) : Conforms(v.elems[i], t.ms[i])
      [] t.k = "array" -> /\ v.kind = "array" /\ Len(v.elems) = t.n
                         /\ \A i \in 1 .. t.n : Conforms(v.elems[i], t.e)
      [] OTHER -> FALSE

ListConforms(vs, ts) == Len(vs) = Len(ts) /\ \A i \in 1 .. Len(ts) : Conforms(vs[i], ts[i])

\* Every Bits payload inside v fits its width.
RECURSIVE Fits(_)
Fits(v) == IF v.kind = "bits" THEN v.v \in 0 .. 2 ^ v.w - 1
           ELSE \A i \in 1 .. Len(v.elems) : Fits(v.elems[i])

=============================================================================
