SPECIFICATION FairSpec
CONSTANTS
    Execs = {e1}
    Retrieval = FALSE
INVARIANTS
    CompleteHasNoError
