SPECIFICATION FairSpec
CONSTANTS
    w1 = w1
    w2 = w2
    daemon = daemon
    Main = main
    Setter <- MCSetter
    Reader <- MCReader
    FirstFile <- MCFirstFile
    MaxSets = 2
    MaxFaults = 1
INVARIANTS
    TypeOK
    AnswersCurrent
PROPERTIES
    PauseHolds
    Converges
