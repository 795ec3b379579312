----------------------------- MODULE MCLineInput -----------------------------
EXTENDS LineInput

Letter == [low |-> "l", up |-> "L", letter |-> TRUE, L |-> TRUE]
Enter == [low |-> NL, up |-> NL, letter |-> FALSE, L |-> FALSE]
Backspace == [low |-> BS, up |-> BS, letter |-> FALSE, L |-> FALSE]
F1 == [low |-> NUL, up |-> NUL, letter |-> FALSE, L |-> FALSE]

MCKeys == {Letter, Enter, Backspace, F1}
MCHolds == {"ctrl"}
MCLocks == {"caps"}

===============================================================================
