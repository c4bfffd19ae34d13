SPECIFICATION Spec
CONSTANTS
    engine = engine
    request = request
    Thread = {engine, request}
    Engine = engine
    Enabled = TRUE
    Threshold = 2
    LevelAt <- MCLevelAt
    MaxFailures = 4
    AutoExecute = TRUE
    RequireFork = FALSE
    MaxAccounts = 2
PROPERTIES
    TripHolds
