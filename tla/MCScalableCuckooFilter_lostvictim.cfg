\* Distinct fingerprints, so no key can lose a copy to another key's
\* Delete; the caller deletes only keys it inserted.
CONSTANTS
    Keys = {k1, k2}
    InitPow = 1
    MaxFilters = 2
    BucketSize = 2
    MaxCuckooCount = 2
    Fingerprints = {1, 2}
    HashBits = 2
    LoadNum = 3
    LoadDen = 2
    DeleteOnlyPresent = TRUE
    FpsDistinct = TRUE
SPECIFICATION Spec
INVARIANT NoLostKeys
