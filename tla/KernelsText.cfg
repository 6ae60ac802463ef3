SPECIFICATION Spec
CONSTANTS
    Inputs <- TextInputs
    PlainBlock = 2
    StructuralBytes = 7
    Default <- MCDefault
    QuoteRun = 2
PROPERTIES
    OnlyAnOptimization
CHECK_DEADLOCK FALSE
