CONSTANTS
    Requests <- FunctionRequests
    Tops <- ZeroWidthTops
SPECIFICATION Spec
INVARIANT NoAbortOnConsistentOptions
\* GenerateSample returns (or the process aborts): every run really stops.
CHECK_DEADLOCK FALSE
