SPECIFICATION FairSpec
CONSTANTS
    Slaves = {s1, s2}
    Train = 2
    Heldout = 3
    Iterations = 2
    TrainLimit = 2
    HeldoutLimit = 3
    MaxFailures = 3
    InitialWeights = 1
    Delta <- MCDelta
INVARIANTS TypeOK ResultsInOrder HeldoutUsesAverage TrainingResumes
PROPERTIES TrainingEnds
CHECK_DEADLOCK FALSE
