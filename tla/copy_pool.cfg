SPECIFICATION FairSpec
CONSTANTS
    w1 = w1
    w2 = w2
    Worker = {w1, w2}
    Main = main
    Path <- MCPath
    Above <- MCAbove
    Plan <- AllPlans
    Disk <- AllDisks
    SeqBelow = 3
    MaxChunk = 2
INVARIANTS
    TypeOK
    ClaimedOnce
    EveryJobEnded
    OwnData
    OnlyRealFailures
    ProgressHonest
PROPERTIES
    ImplementsContract
    CancelStops
    Finishes
