SPECIFICATION Spec
CONSTANTS
    w1 = w1
    w2 = w2
    Worker = {w1, w2}
    Main = main
    Path <- MCPath
    Above <- MCAbove
    Plan <- CleanPlans
    Disk <- AllDisks
    SeqBelow = 3
    MaxChunk = 2
INVARIANT NothingSilent
