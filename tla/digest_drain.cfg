SPECIFICATION FairSpec
CONSTANTS
    Flushers = {f1, f2}
    t1 = t1
    t2 = t2
    u3 = u3
    Teams = {t1, t2}
    Users = {u1, u2, u3}
    RowIds <- TwoRows
    Instants <- TwoRows
    NoTeam = NoTeam
    NoKey = NoKey
    Modes = {"none"}
    InitialTeams <- MCTeams
    BatchMax = 2
    Lines <- TwoLines
    MaxPosts = 3
    MaxDisturbances = 2
CHECK_DEADLOCK FALSE
PROPERTY InAppDrains
