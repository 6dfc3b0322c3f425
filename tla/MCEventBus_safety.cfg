SPECIFICATION Spec
CONSTANTS
    e1 = e1
    e2 = e2
    h1 = h1
    h2 = h2
    Events = {e1, e2}
    Handlers <- MCHandlers
    Wants <- MCWants
    CatchAll <- MCCatchAll
    Workers = {w1, w2}
    BufferSize = 1
    MaxRetries = 1
SYMMETRY Symmetry
INVARIANTS
    TypeOK
    EveryHandlerServed
    NoDuplicateDelivery
    OneLateCall
PROPERTIES
    NoCallAfterClose
