CONSTANTS
    Keys = {1, 2, 3, 4, 5}
    NumTables = 2
    NumBuckets = 2
    BucketHeight = 2
    DeleteOnlyPresent = FALSE
    Hashes <- MCHashesDistinct
SPECIFICATION Spec
INVARIANTS
    TypeOK
    NoFalseNegatives
    CountMatchesPresent
    EntriesBeyondCountEmpty
