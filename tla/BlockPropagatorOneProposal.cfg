CONSTANTS
    v1 = v1
    v2 = v2
    v3 = v3
    v4 = v4
    obs = obs
    NotPrepared = NotPrepared
    NoTracker = NoTracker
    Validators <- TwoValidators
    Observers = {obs}
    x = x
    y = y
    Data = {x, y}
    ProposeOnce = TRUE
    DeliverOnce = FALSE
    MaxView = 1
    MaxRound = 1
    MaxRoot = 1
SPECIFICATION Spec
SYMMETRY DataSymmetry
INVARIANTS  CommittedBlocksAgree
PROPERTIES CommittedIsFinal
CHECK_DEADLOCK FALSE
