SPECIFICATION Spec
CONSTANTS
    Formats <- MCAllFormats
    Streams <- MCStreams
    Calls <- MCCalls
    Reads = {1, 4}
    ReadErrors = TRUE
    MaxMoves = 1
    MaxBytes = 6
    Literal <- MCLiteral
    FilterBackoff = 1
INVARIANTS WindowIsStream SameAsWhole LinesTallied Prompt
PROPERTIES WindowHoldsTwo CallsReturn
CHECK_DEADLOCK TRUE
