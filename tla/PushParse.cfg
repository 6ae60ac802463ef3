SPECIFICATION PushSpec
CONSTANTS
    Formats <- MCAllFormats
    Streams <- MCStreams
    Methods <- MCMethods
    Abandons <- MCAbandons
    Sizes = {1, 3}
    Stride = 2
    MaxBytes = 6
INVARIANTS BufferIsStream PushedAsWhole PushedLinesTallied KeepsARecord PromptlyTold
PROPERTIES DrainedIsTaken
CHECK_DEADLOCK TRUE
