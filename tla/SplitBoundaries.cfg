SPECIFICATION Spec
CONSTANTS
    Formats <- UnpaddedFormats
    Lengths <- MCLengths
    Wanted <- MCWanted
    MaxLength = 6
    MaxWanted = 3
INVARIANTS
    BoundariesAreRecordStarts
    ChunksAreNotEmpty
CHECK_DEADLOCK FALSE
