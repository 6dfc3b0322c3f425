SPECIFICATION Spec
CONSTANTS
    Ids <- MCIds
    Files <- MCFiles
INVARIANTS
    TypeOK
    ValidateIsExact
    ValidatedCanStart
    PriorityIsByPaths
