CONSTANTS
    a = a
    b = b
    c = c
    d = d
    NoBlock = NoBlock
    Validators <- OneValidator
    Blocks = {c}
    Voters = {a, b}
    Nullifiers = {a}
    quorum_size = 1
    MAX_VOTES_PER_ROUND = 1
    MAX_CONSECUTIVE_VIEW_CHANGES = 3
    MaxView = 1
    MaxRound = 1
    MaxTime = 4
    MaxMessages = 2
SPECIFICATION Spec
INVARIANTS TypeOK TallyOfThisRound
PROPERTIES BackoffUntilCommit
CHECK_DEADLOCK FALSE
