CONSTANTS
    v1 = v1
    v2 = v2
    v3 = v3
    v4 = v4
    obs = obs
    x = x
    y = y
    NotPrepared = NotPrepared
    NoTracker = NoTracker
    Validators <- TwoValidators
    Observers = {}
    Data = {x, y}
    ProposeOnce = FALSE
    DeliverOnce = FALSE
    MaxView = 1
    MaxRound = 1
    MaxRoot = 2
SPECIFICATION Spec
PROPERTIES CommittedIsFinal
CHECK_DEADLOCK FALSE
