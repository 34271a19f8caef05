-------------------------- MODULE InterpretContract --------------------------
(***************************************************************************)
(* What Interpret(instructions, environment) promises, with no program     *)
(* counter and no stack: the call returns, once, the outcome its job       *)
(* specifies, and returns eventually.                                      *)
(***************************************************************************)
EXTENDS BitsValue

CONSTANT Jobs

VARIABLES job, outcome

Init == job \in Jobs /\ outcome = Pending

Return ==
    /\ outcome = Pending
    /\ outcome' = job.expect
    /\ UNCHANGED job

Spec == Init /\ [][Return]_<< job, outcome >> /\ WF_<< job, outcome >>(Return)

=============================================================================
