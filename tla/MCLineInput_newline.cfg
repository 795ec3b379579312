SPECIFICATION Spec
CONSTANTS
    SIZE = 3
    WORD = 1
    Keys <- MCKeys
    Holds <- MCHolds
    Locks <- MCLocks
INVARIANT ReadEndsInNewline
