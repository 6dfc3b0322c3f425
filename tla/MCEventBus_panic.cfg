SPECIFICATION FairSpec
CONSTANTS
    e1 = e1
    e2 = e2
    h1 = h1
    h2 = h2
    Events = {e1, e2}
    Handlers = {h1}
    Wants <- LiveWants
    CatchAll = {}
    Workers = {w1}
    BufferSize = 1
    MaxRetries = 0
INVARIANTS
    PublishNeverPanics
