CONSTANTS
    r1 = r1  r2 = r2  t1 = t1  t2 = t2
    w1 = w1  w2 = w2
    NoRecord = NoRecord
    Records = {r1, r2}
    Tenants = {t1, t2}
    TenantOf <- TwoTenants
    Workers = {w1, w2}
    MaxAttempts = 2
    BatchSize = 1
    Delays = {1}
    MaxTime = 0
    MaxReplays = 1
    MaxFaults = 1
    Stoppable = {}
SYMMETRY WorkerSymmetry
SPECIFICATION Spec
INVARIANTS TypeOK ClaimIsExclusive AckedAtMostOnce SettledAsAnswered
CHECK_DEADLOCK FALSE
