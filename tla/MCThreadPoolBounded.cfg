SPECIFICATION FairSpec
CONSTANTS
    Workers = {w1, w2}
    Jobs = {j1, j2, j3}
    MayThrow = {}
    max_jobs = 1
    None = None
INVARIANTS CountsAgree
PROPERTIES AddTerminates
CHECK_DEADLOCK FALSE
