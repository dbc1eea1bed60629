SPECIFICATION FairSpec
CONSTANTS
    NOwners = 2
    Families = {"MS41"}
    ChainLimit = 32
    MaxRecords = 2
    MaxFaults = 0
    MaxOutside = 1
PROPERTIES
    RecoveryStaysOffered
