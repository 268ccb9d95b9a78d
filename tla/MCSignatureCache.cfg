SPECIFICATION FairSpec
CONSTANTS
    Rows = {r1, r2}
    Workers = {w1, w2}
    s1 = s1
    s2 = s2
    s3 = s3
    Sigs = {s1, s2, s3}
    Bucket <- MCBucket
    Pieces <- MCPieces
    MaxCalls = 2
    MaxThrows = 1
    none = none
INVARIANTS TypeOK LoadedOnce SortedBeforePublished CountIsLive
PROPERTY CallsReturn
CHECK_DEADLOCK FALSE
