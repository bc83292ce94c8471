SPECIFICATION FairSpec
CONSTANTS
    Ino <- MCIno
    Root = 1
    Tree <- CircleTrees
    Names <- MCNames
    Depths <- MCDepths
    Path <- CirclePaths
    MaxLevel = 3
    Directory <- MCDirectory
    BlockLen = 16
    Levels = 2
    Faulty = FALSE
PROPERTY Terminates
