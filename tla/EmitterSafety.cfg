SPECIFICATION Spec
CONSTANTS
    Threshold = 4
    MaxFields = 2
    Multiline = {FALSE}
    MaxRecords = 4
    MaxSessions = 3
INVARIANTS
    DocumentIntact
    FlushedSurvives
    UniformFieldCount
    HeaderOnce
    BufferBelowThreshold
CHECK_DEADLOCK FALSE
