CONSTANTS
    r1 = r1  r2 = r2  t1 = t1  t2 = t2
    w1 = w1  w2 = w2
    NoRecord = NoRecord
    Records = {r1, r2}
    Tenants = {t1}
    TenantOf <- OneTenant
    Workers = {w1, w2}
    MaxAttempts = 2
    BatchSize = 1
    Delays = {1}
    MaxTime = 1
    MaxReplays = 0
    MaxFaults = 0
    Stoppable = {w1}
SPECIFICATION FairSpec
INVARIANT NoStrandedClaim
PROPERTY EveryRecordSettles
CHECK_DEADLOCK FALSE
