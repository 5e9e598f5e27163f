SPECIFICATION Spec
CONSTANTS
    w1 = w1
    w2 = w2
    d1 = d1
    d2 = d2
    j1 = j1
    j2 = j2
    Leads = {1, 2, 3}
    Workers = {w1, w2}
    Jobs = {j1, j2}
    Devices = {d1, d2}
    JobOf <- MCJobOf
    DeviceOf <- OwnDevice
    GlobalDailyLimit = 2
    DailySendMax = 0
    DeviceDailyLimit <- OneLimitedDevice
    HourlyLimit = 1
    CandidateLimit = 2
    LastDay = 2
    MaxClaims = 4
    Faults = {"dberror", "stale"}
CHECK_DEADLOCK FALSE
INVARIANT SendsWithinLimit
INVARIANT DeviceWithinLimits
INVARIANT NoTaskMeansNoneReady
