SPECIFICATION FairSpec
CONSTANTS
    NumClients = 2
    Lines = 5
    loadmax = 2
    max_attempts = 3
    MaxFaults = 1
INVARIANTS TypeOK LoadsAgree AnsweredOnce ResultsMatchJobs
PROPERTY Ends
CHECK_DEADLOCK FALSE
