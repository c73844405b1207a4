SPECIFICATION FairSpec
CONSTANTS
    Polls = {p1, p2}
    Documents = {a, b}
    Linkless = {b}
    NoPoll = NoPoll
    MaxPatches = 1
    MaxFaults = 2
CHECK_DEADLOCK FALSE
INVARIANTS StoredOnce HealthIsTruthful RunAtMostOnce
PROPERTIES IngestedIsRouted EveryPollEnds
