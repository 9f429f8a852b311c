\* Distinct fingerprints; loadFactor 3/2 per bucket (75% of 2-slot buckets),
\* so both the load test and a failed kick chain append a filter.
CONSTANTS
    Keys = {k1, k2}
    InitPow = 1
    MaxFilters = 2
    BucketSize = 2
    MaxCuckooCount = 2
    Fingerprints = {1, 2}
    HashBits = 2
    LoadNum = 3
    LoadDen = 2
    DeleteOnlyPresent = TRUE
    FpsDistinct = TRUE
SPECIFICATION Spec
INVARIANTS
    TypeOK
    NoFalseNegatives
    ChainRoundTripFaithful
