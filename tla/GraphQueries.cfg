CONSTANTS
    r1 = r1  r2 = r2  k = k  s1 = s1  s2 = s2
    Scopes = {s1}
    Requests = {}
    Keys = {}
    Kinds = {"artifact", "approval", "side_effect"}
    Paths = {"plain"}
    HandTypes = {"IntentVersion", "Artifact"}
    LinkTypes = {"DependsOn", "Triggers"}
    MaxNodes = 3
    MaxLinks = 3
    MaxFaults = 0
    QueryKinds = {"classify", "reachable", "path", "cycles"}
    Depths = {1, 2}
    Follows <- OneFollow
    TypeFilters <- OneFilter
    MaxMeanwhile = 1
SPECIFICATION QSpec
INVARIANTS TraversalsBracketed PathShortest CycleReported
CHECK_DEADLOCK FALSE
