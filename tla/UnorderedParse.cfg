SPECIFICATION FairSpec
CONSTANTS
    Documents <- MCDocuments
    MaxSize = 3
    MaxFailing = 2
    Threads = 3
    BuildMayFail = TRUE
INVARIANTS
    FoldedAtMostOnce
    PrefixFolded
    ReportedOffset
PROPERTIES
    EventuallyReturns
