SPECIFICATION Spec
CONSTANTS
    engine = engine
    request1 = request1
    request2 = request2
    Thread = {engine, request1, request2}
    MaxNonce = 2
SYMMETRY Symmetry
INVARIANTS
    TypeOK
    ManagerExclusive
    NoReuseOfSent
    NonceAccounted
PROPERTIES
    LowestFreeGiven
    RaceStaysOver
