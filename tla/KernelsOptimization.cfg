SPECIFICATION Spec
CONSTANTS
    Inputs <- MCInputs
    PlainBlock = 2
    StructuralBytes = 7
    Default <- MCDefault
    QuoteRun = 2
INVARIANTS
    WrittenIsReadBack
    ConfirmedIsOneRecord
    LimitsOnlyRefuse
PROPERTIES
    OnlyAnOptimization
CHECK_DEADLOCK FALSE
