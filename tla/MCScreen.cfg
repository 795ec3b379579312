SPECIFICATION LibSpec
CONSTANTS
    NUM_ROWS = 3
    NUM_COLS = 3
    TAB = 2
    SIZE = 3
    Letters = {"a", "b"}
    Outputs <- MCOutputs
    MaxText = 5
    Size = 11
    Word = 256
    HexDigits = 2
    Formats <- MCFormats
    Words <- MCWords
    Strings <- MCStrings
INVARIANTS TypeOK ShowsText WritesExactly PrintfRenders
