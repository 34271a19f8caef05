-------------------------- MODULE MCSampleGenerator --------------------------
(***************************************************************************)
(* Model-checking instance of SampleGenerator.  Requests cover consistent  *)
(* and inconsistent option sets, with and without codegen; the tops have   *)
(* parameters whose widths grow and shrink between consecutive arguments  *)
(* and change sign, parameters only one bit wide, a tuple whose members  *)
(* differ in width, a tuple after a Bits parameter, an array, channels,  *)
(* and a proc whose next function has a token and two init parameters.  *)
(***************************************************************************)
EXTENDS SampleGenerator

MCRequests ==
    [generate_proc : BOOLEAN, calls_per_sample : {0, 2}, has_proc_ticks : BOOLEAN,
     proc_ticks : {0, 2}, codegen : BOOLEAN, codegen_args_set : BOOLEAN,
     use_system_verilog : {FALSE}]

MCTops ==
    [b \in BOOLEAN |->
        IF b THEN { [kind |-> "proc",
                     members |-> << ChannelT(BitsT(1, FALSE)), ChannelT(BitsT(2, TRUE)) >>,
                     next |-> << TokenT, BitsT(1, FALSE), BitsT(2, TRUE) >>] }
        ELSE { [kind |-> "function",
                params |-> << BitsT(2, TRUE), BitsT(1, FALSE), BitsT(2, FALSE) >>],
               [kind |-> "function",
                params |-> << TupleT(<< BitsT(1, FALSE), BitsT(2, FALSE) >>), ArrayT(BitsT(1, TRUE), 2) >>],
               [kind |-> "function",
                params |-> << BitsT(1, TRUE), TupleT(<< BitsT(1, FALSE) >>) >>] }]

\* A module whose "main" takes a zero-width parameter after a Bits one.
ZeroWidthTops ==
    [b \in BOOLEAN |->
        IF b THEN {} ELSE { [kind |-> "function", params |-> << BitsT(1, FALSE), BitsT(0, FALSE) >>] }]

\* A module whose "main" takes two 2-bit parameters.
TwoBitTops ==
    [b \in BOOLEAN |->
        IF b THEN {} ELSE { [kind |-> "function", params |-> << BitsT(2, FALSE), BitsT(2, FALSE) >>] }]

FunctionRequests ==
    {r \in MCRequests : ~r.generate_proc /\ ~r.has_proc_ticks /\ r.calls_per_sample = 2
                        /\ ~r.codegen /\ ~r.codegen_args_set}

=============================================================================
