SPECIFICATION FairSpec
CONSTANTS
    c1 = c1
    c2 = c2
    bnb = bnb
    eth = eth
    Signature = {c1, c2}
    Network = {bnb, eth}
    NetworkOf <- MCNetworkOf
    Hint = {1}
    SortKey = "fifo"
    MaxSize = 1
    Ttl = 2
    Cooldown = 1
    RetryDelay = 1
    MaxAttempts = 2
    MaxSequence = 2
    QuoteOutcome = {"blocked"}
    RecordMayFail = TRUE
    DeadlineEnabled = FALSE
    StopMayHappen = FALSE
PROPERTIES
    ClaimsSettle
    Drains
