CONSTANTS
    Keys = {1, 2, 3}
    NumTables = 2
    NumBuckets = 2
    BucketHeight = 2
    DeleteOnlyPresent = FALSE
    Hashes <- MCHashesZeroFp
SPECIFICATION Spec
INVARIANT NoFalseNegatives
