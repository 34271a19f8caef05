CONSTANTS
    NoOperand = NoOperand
    Jobs <- MCJobs
SPECIFICATION Spec
INVARIANT TypeOK
PROPERTY ImplementsContract
\* Interpret returns: the run really stops once the outcome is set.
CHECK_DEADLOCK FALSE
