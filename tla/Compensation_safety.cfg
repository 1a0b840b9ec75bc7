CONSTANTS
    read = read  internal = internal  external = external
    notice = notice  final = final
    NoAction = NoAction  NoEffect = NoEffect  NoCaller = NoCaller
    Actions = {a1}
    Effects = {read, internal, external, notice, final}
    EffectClass <- AllClasses
    Callers = {c1, c2}
    Paths = {"service", "tx"}
    FailureCodes = {"transient", "permanent"}
    WithRollbackRepo = TRUE
    ClientsGuess = FALSE
    MaxRetries = 2
    MaxLock = 9
    MaxFaults = 1
SYMMETRY Symmetry
SPECIFICATION Spec
INVARIANT RecordsAccurate
PROPERTY ImplementsLifecycle
CHECK_DEADLOCK FALSE
