SPECIFICATION FairSpec
CONSTANTS
    Jobs = {1}
    Clients = {c1}
    Sweepers = {s1}
    MaxRestarts = 1
    MaxErrors = 1
    Torn = FALSE
CHECK_DEADLOCK FALSE
INVARIANT CancelledNeverDone
PROPERTY LegalTransitions
PROPERTY CancellationEnds
PROPERTY OrphansEndIfWritesSucceed
