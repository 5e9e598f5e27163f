SPECIFICATION Spec
CONSTANTS
    w1 = w1
    w2 = w2
    d1 = d1
    d2 = d2
    j1 = j1
    j2 = j2
    Leads = {1, 2}
    Workers = {w1, w2}
    Jobs = {j1, j2}
    Devices = {d1, d2}
    JobOf <- MCJobOf
    DeviceOf <- SharedDevice
    GlobalDailyLimit = 2
    DailySendMax = 3
    DeviceDailyLimit <- NoDeviceLimit
    HourlyLimit = 0
    CandidateLimit = 2
    LastDay = 2
    MaxClaims = 3
    Faults = {"midnight", "crash", "dberror", "stale"}
CHECK_DEADLOCK FALSE
INVARIANT QuotaWithinLimit
INVARIANT OneClaimant
INVARIANT ClaimsConsistent
PROPERTY KeepsLedger
