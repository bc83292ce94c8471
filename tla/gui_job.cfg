SPECIFICATION FairSpec
CONSTANTS
    None = None
    MaxJobs = 2
    MaxItems = 2
    Rename = TRUE
INVARIANTS
    SummaryTruthful
    OrphanedOnlyByRename
PROPERTY
    WindowCloses
