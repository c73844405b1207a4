SPECIFICATION PipelineSpec
CONSTANTS
    Main = Main
    Resumers = {r1, r2}
    Replayer = Replayer
    Feeds <- SmallFeeds
    Allowed = {"eu"}
    Severities = {"low", "critical"}
    Corrections <- SmallCorrections
    MaxRequests = 2
    Dimensions = {"date_bucket", "severity"}
    MaxTries = 2
    NoSeverity = NoSeverity
    AnyUrl = AnyUrl
    MaxFaults = 1
    Types = {"rss", "http"}
    Modes = {"none", "html_page", "same_as_primary"}
    MAX_ATTEMPTS = 4
    NoSource = NoSource

SYMMETRY Symmetry
CHECK_DEADLOCK FALSE
INVARIANTS TypeOK FetchIsEarned RetryLeavesNothing ReviewedBeforeBriefed BriefingMatchesRun
PROPERTIES ReplayLeavesNoTrace
