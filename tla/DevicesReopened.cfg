SPECIFICATION Spec
CONSTANTS
    d1 = d1
    Devices = {d1}
    Sessions = {s1}
    DeviceOf <- OnePhone
    Requests = {r1}
    MaxFailures = 2
    Overlap = FALSE
    MayCrash = FALSE
    WritesFail = FALSE
CHECK_DEADLOCK FALSE
PROPERTY CleanupKeepsQuarantine
