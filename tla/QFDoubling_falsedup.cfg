\* Hash values (q, r) = (0, 1), (1, 3), (0, 3) in a 4-slot table.
CONSTANTS
    BitsPerWord = 4
    InitQBits = 2
    HashValues = {1, 7, 3}
    Values = {0}
SPECIFICATION Spec
INVARIANT
    ExactLookup
