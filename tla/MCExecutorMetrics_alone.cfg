SPECIFICATION FairSpec
CONSTANTS
    Calls = {c1}
    Width = 1
    Readers = {}
CHECK_DEADLOCK FALSE
PROPERTIES
    ExecutePlanReturns
