SPECIFICATION Spec
CONSTANTS
    r1 = r1
    r2 = r2
    Reader = {r1, r2}
    Own = {r2}
    Wanted <- OneIno
    Batches <- OneBatch
    NBlocks <- MCNBlocks
    BlockUnits = 2
    PerBlock = 2
    PerGroup = 4
    NDirect = 1
    Ptrs = 2
    MaxRun = 2
    MaxWalk = 3
    LenBit = 4
    Tables <- MCTable
    InodesAt <- MCInodesAt
    NodeAt <- MCNodeAt
    PtrsAt <- MCPtrsAt
INVARIANT NoneOnlyOnFailure
