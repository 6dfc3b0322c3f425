SPECIFICATION Spec
CONSTANTS
    Execs = {x1, x2}
    Tasks = {a, b}
INVARIANTS
    TypeOK
    PanicNeedsOverlap
    AloneIsComplete
    CompletedWasRun
