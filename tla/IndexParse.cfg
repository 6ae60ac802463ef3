SPECIFICATION Spec
CONSTANTS
    Sources <- MCSources
    Threads = 2
    Buffered = 2
    MaxCells = 6
    MaxBeside = 0
INVARIANTS
    BuildIsSerial
    IndexDescribesItsSource
    SeeksFindTheirRecords
    CompletedLoads
PROPERTY
    BuildReturns
