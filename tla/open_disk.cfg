SPECIFICATION Spec
CONSTANTS
    NoImage = NoImage
    Root = 2
    Gone = Gone
    Drive = {0, 1}
    Disk <- MCDisk
    On <- MCOn
    File <- MCFile
    Setup <- MCSetup
    GoTo <- MCGoTo
    Gui <- MCGui
    Nodes = {3, 4}
    Exchange <- MCExchange
    Misread <- MCMisread
    NumberOf <- MCNumberOf
    Assigned <- MCAssigned
    Option <- MCOption
    Device <- MCDevice
    Kind <- MCKind
    Argv <- MCArgv
    Image <- Images
    Shape <- TestShape
    Calls <- TestCalls
    Letters <- NameBytes
INVARIANTS
    ListedRight
    OpensWhatWasChosen
    VolumeSound
    TreeOfImage
    DrawingEnds
    ExitTruthful
    OffsetObeyed
    BlocksOnce
    OpensAsLaid
    ReadsBack
CHECK_DEADLOCK FALSE
