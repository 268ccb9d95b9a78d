SPECIFICATION FairSpec
CONSTANTS
    N = 4
    NumThreads = 3
    limit_syntax_length = 1
    MayThrow <- SomeSpans
    LoadMayThrow = TRUE
INVARIANTS NobodySleepsOnDestroyed
PROPERTIES DestructorEnds
CHECK_DEADLOCK FALSE
