CONSTANTS
    Absent = Absent
    ClauseIds = {1}
    Texts = {1}
    Descriptions = {1, 2}
    Strings = {1, 2}
    Written <- OneOfEachKind
    MaxClauses = 4
SPECIFICATION EngineSpec
INVARIANTS DiffReplays NoOpMeansSame WideningIsGated DoubtIsCareful
CHECK_DEADLOCK FALSE
