SPECIFICATION Spec
CONSTANTS
    Length = 4
    max_length = 2
    max_retries = 0
    MaxThrows = 0
INVARIANTS GivenLengthIsBuilt
