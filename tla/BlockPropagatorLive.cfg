CONSTANTS
    v1 = v1
    v2 = v2
    v3 = v3
    v4 = v4
    obs = obs
    x = x
    y = y
    NotPrepared = NotPrepared
    NoTracker = NoTracker
    Validators <- FourValidators
    Observers = {}
    Data = {x}
    ProposeOnce = TRUE
    DeliverOnce = TRUE
    MaxView = 0
    MaxRound = 1
    MaxRoot = 1
SPECIFICATION FairSpec
INVARIANTS CommitHasQuorum
PROPERTIES ProposedIsCommitted
CHECK_DEADLOCK FALSE
