SPECIFICATION Spec
CONSTANTS
    engine = engine
    request1 = request1
    request2 = request2
    Thread = {engine, request1}
    MaxNonce = 2
INVARIANTS
    NoConflict
