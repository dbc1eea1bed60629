SPECIFICATION FairSpec
CONSTANTS
    Blocks = 2
    Packets = 2
    WriteRetries = 2
    Chunks = 1
    Retries = 1
    LastTier = 2
    MaxTorn = 1
    RegionChunks = 2
    Attempts = 2
    LastRate = 2
    Base = 3
    Images <- MCImages
    Firmwares = {"MS41.2", "MS41.3"}
INVARIANTS
    TypeOK
    OnlyOntoErased
    EntryReady
PROPERTIES
    WritesEnd
    NormalAgain
    RightPlace
    ImplementsPromise
CHECK_DEADLOCK FALSE
