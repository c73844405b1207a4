SPECIFICATION Spec
CONSTANTS
    Flushers = {f1, f2}
    t1 = t1
    t2 = t2
    u3 = u3
    Teams = {t1, t2}
    Users = {u1, u2, u3}
    RowIds <- TwoRows
    Instants = {1}
    NoTeam = NoTeam
    NoKey = NoKey
    Modes = {"none", "smtp", "slack"}
    InitialTeams <- MCTeams
    BatchMax = 2
    Lines <- OneLine
    MaxPosts = 3
    MaxDisturbances = 2
SYMMETRY Symmetry
CHECK_DEADLOCK FALSE
INVARIANTS DeletedWasMailed UndisturbedExactlyOnce
PROPERTY LedgerSpec
