SPECIFICATION Spec
CONSTANTS
    Base = 3
    Images <- MCImages
    LastTier = 1
INVARIANTS
    Rejected
