SPECIFICATION Spec
CONSTANTS
    Executions = {e1, e2}
    Items <- MCItems
    Immediate <- MCImmediate
    Users = {u1, u2}
    Members = {u1, u2}
    Webhook = webhook
    NoKey = NoKey
    Modes = {"none", "smtp", "slack"}
    Cap = 1
    MaxPosts = 3
    MaxFaults = 2
SYMMETRY Symmetry
CHECK_DEADLOCK FALSE
INVARIANTS EffectsHappenOnce BudgetHolds SevereFirst NoSilentDrop
