SPECIFICATION FairSpec
CONSTANTS
    Ino <- MCIno
    Root = 1
    Tree <- AllTrees
    Names <- MCNames
    Depths <- MCDepths
    Path <- MCPaths
    MaxLevel = 3
    Directory <- MCDirectory
    BlockLen = 16
    Levels = 2
    Faulty = TRUE
INVARIANTS
    AgreesWithWalk
    
PROPERTY Terminates
