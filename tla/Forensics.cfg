CONSTANTS
    None = None
    mine = mine
    theirs = theirs
    Requests = {b1}
    Readers = {d1}
    Owned = {mine}
    Foreign = {theirs}
    IdLists <- OwnMixedTwice
    Collectors = {"real", "in_memory"}
    PoolSizes = {1, 2}
    MaxRows <- TwoEvents
    MaxTime = 1
    Citing = {1}
    TimeRanges <- FirstAndUpsideDown
    MAX_RETRIES = 1
SPECIFICATION Spec
INVARIANTS ReadyHasBytes EvidenceBracketed ReplayTellsTheTruth
PROPERTY EveryCreateAnswered
CHECK_DEADLOCK FALSE
