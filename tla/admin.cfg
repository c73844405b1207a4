SPECIFICATION Spec
CONSTANTS
    Requests = {q1, q2}
    Schedules = {daily, hourly}
    Urls = {u1, u2}
    NoUrl = NoUrl
    NoJob = NoJob
    Omitted = Omitted
    Unborn = Unborn
    Gone = Gone
    MaxFields = 2
    MaxLost = 1
    NoRule = NoRule
    NoSeverity = NoSeverity
    Editors = {e1, e2}
    RuleIds = {1, 2}
    Topics = {tax}
    Severities = {high}
    Dests = {legal, ops}
    Priorities = {1, 2}
    Same = Same
    MaxEdits = 2

SYMMETRY Symmetry
CHECK_DEADLOCK FALSE
INVARIANTS TypeOK JobFollowsRow PairBreaksOnlyByOverlap AuditTellsStory
PROPERTIES OnlySentColumnsChange OneTableDecides
