SPECIFICATION Spec
CONSTANTS
    NOwners = 2
    Families = {"MS41", "MS4x"}
    ChainLimit = 32
    MaxRecords = 2
    MaxFaults = 2
    MaxOutside = 0
INVARIANTS
    RecoveryAdmissible
