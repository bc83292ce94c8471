SPECIFICATION FairSpec
CONSTANTS
    Ino <- MCIno
    Top = 1
    Image <- MCImages
    Given <- MCGiven
    MaxDepth = 3
    Broken = 0
    Endless = 6
INVARIANTS
    NothingForgotten
    ParentsFirst
    RightInode
    LegalNames
    CountAgrees
    StopsSoon
    ClashesReported
PROPERTY Finishes
