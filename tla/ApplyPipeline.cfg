CONSTANTS
    n1 = n1
    n2 = n2
    Requests = {r1, r2}
    Nodes = {n1, n2}
    ItemLists <- OppositeOrders
    PoolSizes = {1, 2}
    MaxCheckpoints = 1
    MaxFaults = 1

SPECIFICATION Spec

INVARIANTS
    NothingLeftBehind
    FalseReportShows
    RuntimeReportTrue

PROPERTY EveryRequestAnswered

CHECK_DEADLOCK FALSE
