SPECIFICATION FairSpec
CONSTANTS
    Requests = {r1, r2, r3}
    Pipeline = pipeline
    Decisions = {approve, reject}
    None = None
    Savers = {"postgres", "memory"}
    MaxFaults = 2
CHECK_DEADLOCK FALSE
INVARIANTS WaitingIsListed AuditedIsDecided OneReviewer
PROPERTY AuditedLeavesQueue
