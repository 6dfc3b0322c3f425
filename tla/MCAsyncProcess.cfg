SPECIFICATION FairSpec
CONSTANTS
    Execs = {e1, e2}
    Retrieval = TRUE
INVARIANTS
    TypeOK
    AnswerIsSynthesised
    CancelPrevails
    FailureIsNotComplete
    AnswerIsStable
PROPERTIES
    RemovedRunsNoStage
    
    EveryExecutionEnds
