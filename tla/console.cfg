SPECIFICATION MCSpec
CONSTANTS
    Admins = {a1, a2}
    Values = {v1, v2}
    Seed <- MCSeed
    Omitted = Omitted
    Refused = Refused
    NoDraft = NoDraft
    NoAdmin = NoAdmin
    Kinds = {"classification", "golden_set"}
    MaxVersion = 3
    Updates = {u1, u2}
    Runs = {r1, r2}
    NoRun = NoRun
    Levels = {high, low}
    NoLevel = NoLevel
    Urgent = {high}
    NoBriefing = NoBriefing
    AnyOne = AnyOne
    PageSize = 1
    MaxWrites = 5
    MaxFeedback = 1
    People = {ann, bob}
    Addresses = {mail}
    UserIds = {i1, i2}
    NoUser = NoUser
    NotANumber = NotANumber
    Settings = {NotANumber, 0, 5}
    DefaultMinutes = 1
    MaxMinutes = 2
    Providers = {"local", "stub"}
    MaxClock = 3
    MaxByHand = 2
SYMMETRY Symmetry
CHECK_DEADLOCK FALSE
INVARIANTS VisitorsTypeOK IInv AuditExplainsActive DraftKeepsEveryEdit WalkMissesLittle FeedbackQuotesBriefing AccessIsEarned
