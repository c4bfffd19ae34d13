SPECIFICATION FairSpec
CONSTANTS
    mainnet = mainnet
    testnet = testnet
    g = g
    r1 = r1
    x1 = x1
    Scanner = scanner
    Chain <- MCChain
    Reference <- MCReference
    Fallback <- MCFallback
    Group <- MCGroup
    Request <- MCRequest
    Tester <- MCTester
    MaxNow = 1
INVARIANTS
    TypeOK
    LiveAgain
PROPERTIES
    EvidenceKept
    QueuedIsScanned
