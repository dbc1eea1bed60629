SPECIFICATION FairSpec
CONSTANTS
    NOwners = 2
    Families = {"MS41", "MS4x"}
    ChainLimit = 32
    MaxRecords = 4
    MaxFaults = 2
    MaxOutside = 1
INVARIANTS
    TypeOK
    WrittenAhead
    JournalNeverRefuses
    RecoveryOpen
PROPERTIES
    ClosedStaysClosed
    ForeignCodingKept
    ImplementsAtomic
    EventuallySettled
