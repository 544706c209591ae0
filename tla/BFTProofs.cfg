CONSTANTS
    a = a
    b = b
    c = c
    d = d
    NoBlock = NoBlock
    Validators <- TwoValidators
    Blocks = {}
    Voters = {}
    Nullifiers = {}
    quorum_size = 2
    MAX_VOTES_PER_ROUND = 3
    MAX_CONSECUTIVE_VIEW_CHANGES = 3
    MaxView = 1
    MaxRound = 0
    MaxTime = 1
    MaxMessages = 2
SPECIFICATION Spec
INVARIANTS ProofsFromDistinctValidators
CHECK_DEADLOCK FALSE
