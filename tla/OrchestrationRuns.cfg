CONSTANTS
    internal = internal  a1 = a1
    NoAction = NoAction  NoEffect = NoEffect  NoCaller = NoCaller
    Actions = {a1}
    Effects = {internal}
    EffectClass <- OneInternal
    Callers = {r1, c}
    Runs = {r1}
    ActionLists <- Repeated
    Foreign = {}
    Paths = {"service"}
    FailureCodes = {"transient"}
    WithRollbackRepo = FALSE
    ClientsGuess = FALSE
    MaxRetries = 1
    MaxLock = 4
    MaxFaults = 1
    MaxRunFaults = 1
SPECIFICATION RunsSpec
INVARIANTS ItemsTruthful AnsweredIsStored
PROPERTY RunsAreCallers
PROPERTY EveryRunEnds
CHECK_DEADLOCK FALSE
