SPECIFICATION Spec
CONSTANTS
    Senders = {s1, s2}
    Keys = {k1}
    NoKey = NoKey
    MaxPosts = 3
INVARIANT AtMostOnce
