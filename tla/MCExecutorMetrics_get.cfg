SPECIFICATION FairSpec
CONSTANTS
    Calls = {}
    Width = 1
    Readers = {r1}
CHECK_DEADLOCK FALSE
PROPERTIES
    GetMetricsReturns
