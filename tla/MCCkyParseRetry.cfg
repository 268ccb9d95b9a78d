SPECIFICATION Spec
CONSTANTS
    Length = 3
    max_length = 3
    max_retries = 1
    MaxThrows = 1
INVARIANTS RetryIsTighter
