SPECIFICATION Spec
CONSTANTS
    e1 = e1
    e2 = e2
    e3 = e3
    Events = {e1, e2}
    Rebases = {e1}
    Complete = {e1, e2}
    InScope = {e1, e2}
    Adapters = {"checkpoint_creator", "notifier"}
    FullConsumer = TRUE
    Replayable = {e1}
    MaxPrefetch = 3
    MaxPerPoll = 2
    MaxStream = 4
    MaxFaults = 1
INVARIANTS EffectsBounded OneHolder
PROPERTY EveryMessageSettles
