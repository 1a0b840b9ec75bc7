CONSTANTS
    NoHandler = NoHandler
    NoRequest = NoRequest
    Handlers = {h1, h2}
    Requests = {r1, r2}
    Paths = {"pool", "tx"}
    WithApprovalRepo = TRUE
    MaxVersions = 3
    MaxFaults = 1
SYMMETRY Symmetry
SPECIFICATION Spec
INVARIANTS NoLostUpdate DecisionStands AtomicSupersede PoolWithdraws
CHECK_DEADLOCK FALSE
