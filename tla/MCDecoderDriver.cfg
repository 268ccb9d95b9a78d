SPECIFICATION FairSpec
CONSTANTS
    Sentences = {s1, s2, s3}
    Unpopped = {s3}
    Weights <- MCWeights
    Shown <- MCShown
    Rounding = 4
    MaxAge = 3
    MaxRestarts = 3
    noparse = noparse
INVARIANTS TypeOK WeightsArrive
PROPERTIES AcceptsItsAnswer TranslateReturns
