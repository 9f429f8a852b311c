SPECIFICATION Spec
CONSTANTS
    QBits = 2
    RBits = 2
    WordBits = 8
INVARIANTS
    ExactMembership
    OccupiedMatchesRuns
    LenCountsSlots
