SPECIFICATION MemSpec
CONSTANT Size = 11
INVARIANT SetsBytes
