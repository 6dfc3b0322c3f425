SPECIFICATION FairSpec
CONSTANTS
    Calls = {c1, c2}
    Width = 2
    Readers = {r1, r2}
CHECK_DEADLOCK FALSE
INVARIANTS
    TypeOK
    LockDebt
PROPERTIES
    ResetIsPaid
