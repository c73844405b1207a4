SPECIFICATION Spec
CONSTANTS
    Senders = {s1, s2, s3}
    Keys = {k1, k2}
    NoKey = NoKey
    MaxPosts = 3
SYMMETRY Symmetry
INVARIANTS IInv SingleSenderBound SuccessWasDelivered
PROPERTY RowsOnlyAdvance
