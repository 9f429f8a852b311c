CONSTANTS
    Keys = {k1, k2}
    Capacity = 4
    UintBits = 6
    BucketSize = 2
    MaxCuckooCount = 2
    Fingerprints = {1, 2}
    DeleteOnlyPresent = TRUE
SPECIFICATION Spec
INVARIANT NoFalseNegatives
