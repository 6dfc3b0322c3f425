SPECIFICATION FairSpec
CONSTANTS
    a = a
    b = b
    c = c
    x = x
    Tasks <- MCTasks
    Ids <- MCIds
    Plans <- MCPlans
    MaxWorkers = 2
    MaxRetries = 1
    MaxCalls = 2
INVARIANTS
    TypeOK
    ClosedOnce
    DependenciesFirst
    ResultsPublished
    RootCause
    FailureReported
    WorkersBounded
    CleanErrorReturn
    IInv
PROPERTIES
    TerminalIsFinal
    LifecycleSpec
    Termination
