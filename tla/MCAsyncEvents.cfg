SPECIFICATION FairAsyncSpec
CONSTANTS
    e1 = e1
    e2 = e2
    e3 = e3
    h1 = h1
    Events = {e1, e2, e3}
    Handlers = {h1}
    Wants <- MCWants
    CatchAll = {}
    Workers = {w1}
    BufferSize = 1
    MaxRetries = 1
    UnderMutex = {e2}
    Asking = {h1}
    FollowUp <- MCFollowUp
PROPERTIES
    MutexIsReleased
    PublishReturns
    CloseReturns
    AcceptedIsProcessed
