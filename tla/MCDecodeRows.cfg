SPECIFICATION FairSpec
CONSTANTS
    N = 4
    NumThreads = 3
    limit_syntax_length = 2
    MayThrow <- SomeSpans
    LoadMayThrow = FALSE
INVARIANTS InsideIsFinal ThrottleHolds NormalReturnMeansChartFull RowSleepsForAReason
PROPERTIES RowsEnd MainReturns
CHECK_DEADLOCK FALSE
