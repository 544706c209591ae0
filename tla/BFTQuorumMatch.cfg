CONSTANTS
    a = a
    b = b
    c = c
    d = d
    NoBlock = NoBlock
    Validators <- OneValidator
    Blocks = {c, d}
    Voters = {a, b}
    Nullifiers = {}
    quorum_size = 2
    MAX_VOTES_PER_ROUND = 4
    MAX_CONSECUTIVE_VIEW_CHANGES = 1
    MaxView = 0
    MaxRound = 1
    MaxTime = 1
    MaxMessages = 2
SPECIFICATION Spec
INVARIANTS QuorumMatchesProposal
CHECK_DEADLOCK FALSE
