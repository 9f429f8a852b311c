\* Eight hash values of 7 bits whose low 3 bits differ, so no two share a
\* remainder at any size the table reaches (q = 1 .. 4, rBits >= 3).
CONSTANTS
    BitsPerWord = 7
    InitQBits = 1
    HashValues = {40, 89, 18, 115, 60, 5, 78, 103}
    Values = {0, 1}
SPECIFICATION Spec
INVARIANTS
    TypeOK
    ExactLookup
    EntriesMatchInserted
    ValuesFollowRemainders
