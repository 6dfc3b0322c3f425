SPECIFICATION Spec
CONSTANTS
    a = a
    b = b
    c = c
    x = x
    Tasks <- MCTasks
    Ids <- MCIds
    Plans <- JoinOnly
    MaxWorkers = 2
    MaxRetries = 1
    MaxCalls = 1
INVARIANTS
    RunsWholeDAG
