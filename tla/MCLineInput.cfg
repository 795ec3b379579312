SPECIFICATION Spec
CONSTANTS
    SIZE = 3
    WORD = 1
    Keys <- MCKeys
    Holds <- MCHolds
    Locks <- MCLocks
INVARIANTS TypeOK BufferHoldsLine CleanLineDelivered
PROPERTY ReadReturns
