SPECIFICATION Spec
CONSTANTS
    Names <- MCNames
    Values <- MCValues
    Numbers = {"1"}
    Fields <- MCNames
    Structs <- MCStructs
    Maps <- MCMaps
    Headers <- MCHeaders
    Records <- MCRecords
    WordColumns = 2
    NotUtf8 = NotUtf8
    NoField = NoField
    Nothing = Nothing
INVARIANTS AsAfresh
