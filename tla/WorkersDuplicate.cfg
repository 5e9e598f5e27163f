SPECIFICATION WorkSpec
CONSTANTS
    w1 = w1
    w2 = w2
    d1 = d1
    d2 = d2
    j1 = j1
    j2 = j2
    Leads = {1}
    Workers = {w1, w2}
    Jobs = {j1, j2}
    Devices = {d1, d2}
    JobOf <- MCJobOf
    DeviceOf <- OwnDevice
    GlobalDailyLimit = 2
    DailySendMax = 0
    DeviceDailyLimit <- NoDeviceLimit
    HourlyLimit = 0
    CandidateLimit = 2
    LastDay = 1
    MaxClaims = 12
    Faults = {}
    Cancellable = {j1}
    MaxRetries = 0
    MaxMishaps = 0
    ObserveRetries = 1
CHECK_DEADLOCK FALSE
INVARIANT ZeroDuplicateSends
