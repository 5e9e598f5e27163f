SPECIFICATION FairSpec
CONSTANTS
    Jobs = {1, 2}
    Clients = {c1}
    Sweepers = {s1}
    MaxRestarts = 1
    MaxErrors = 1
    Torn = FALSE
CHECK_DEADLOCK FALSE
PROPERTY OrphansOfRestartEnd
