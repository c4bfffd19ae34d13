SPECIFICATION QueueSpec
CONSTANTS
    c1 = c1
    c2 = c2
    c3 = c3
    bnb = bnb
    eth = eth
    Signature = {c1, c2, c3}
    Network = {bnb, eth}
    NetworkOf <- MCNetworkOf
    Hint = {1, 2}
    SortKey = "profit"
    MaxSize = 2
    Ttl = 1
    Cooldown = 1
    RetryDelay = 1
    MaxAttempts = 1
    MaxSequence = 5
INVARIANTS
    QueueTypeOK
    SizeBound
    SequenceSound
    OneToClaim
    RetryHasTime
