SPECIFICATION Spec
CONSTANTS
    d1 = d1
    Devices = {d1}
    Sessions = {s1, s2}
    DeviceOf <- OnePhone
    Requests = {r1}
    MaxFailures = 2
    Overlap = FALSE
    MayCrash = TRUE
    WritesFail = TRUE
CHECK_DEADLOCK FALSE
INVARIANT NoSendingWhileBarred
INVARIANT RunningHasSession
