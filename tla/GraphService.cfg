CONSTANTS
    r1 = r1  r2 = r2  k = k  s1 = s1  s2 = s2
    Scopes = {s1, s2}
    Requests = {r1, r2}
    Keys = {k}
    Kinds = {"artifact", "approval", "side_effect"}
    Paths = {"rls", "plain"}
    HandTypes = {"IntentVersion"}
    LinkTypes = {"DependsOn"}
    MaxNodes = 3
    MaxLinks = 1
    MaxFaults = 1
    QueryKinds = {}
    Depths = {}
    Follows = {}
    TypeFilters = {}
    MaxMeanwhile = 0
SYMMETRY Symmetry
SPECIFICATION QSpec
INVARIANTS AllOrNothing OneRowPerKey CreatedIsWired
CHECK_DEADLOCK FALSE
