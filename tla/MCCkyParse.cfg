SPECIFICATION FairSpec
CONSTANTS
    Length = 5
    max_length = 3
    max_retries = 1
    MaxThrows = 3
INVARIANTS TypeOK CombinesFinal ReturnsFullChart AttemptsDoNotMix
PROPERTY ParseEnds
