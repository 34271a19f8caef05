CONSTANTS
    Requests <- MCRequests
    Tops <- MCTops
SPECIFICATION Spec
PROPERTY ImplementsSampleContract
\* GenerateSample returns (or the process aborts): every run really stops.
CHECK_DEADLOCK FALSE
