SPECIFICATION Spec
CONSTANTS
    Formats <- MCEscaped
    Streams <- MCStreams
    Calls <- EscapedCalls
    Reads = {1, 4}
    ReadErrors = FALSE
    MaxMoves = 0
    MaxBytes = 6
    Literal <- MCLiteral
    FilterBackoff = 1
INVARIANT ReportedAreWhole
