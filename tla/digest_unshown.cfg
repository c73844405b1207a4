SPECIFICATION Spec
CONSTANTS
    Flushers = {f1}
    t1 = t1
    t2 = t2
    u3 = u3
    Teams = {t1, t2}
    Users = {u1, u2, u3}
    RowIds <- TwoRows
    Instants <- TwoRows
    NoTeam = NoTeam
    NoKey = NoKey
    Modes = {"smtp"}
    InitialTeams <- MCTeams
    BatchMax = 2
    Lines <- TwoLines
    MaxPosts = 3
    MaxDisturbances = 1
CHECK_DEADLOCK FALSE
INVARIANT DeletedWasShown
