SPECIFICATION Spec
CONSTANTS
    NoImage = NoImage
    Image <- MCImage
    Root = 2
    Rank <- MCRank
    HasText <- MCHasText
    SortCol = {"size"}
    RenameOf = {"a"}
    Unread <- MCUnread
    Overlap = FALSE
    MaxPath = 1
    Faulty = TRUE
INVARIANTS
    RowsOfPath
    ShownRight
    SelectionShown
    CopiesRows
