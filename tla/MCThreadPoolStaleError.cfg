SPECIFICATION Spec
CONSTANTS
    Workers = {w1, w2}
    Jobs = {j1, j2, j3}
    MayThrow = {j1, j2}
    max_jobs = 3
    None = None
INVARIANTS CancelledOnlyByBatch
CHECK_DEADLOCK FALSE
