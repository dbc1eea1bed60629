SPECIFICATION RetrySpec
CONSTANTS
    Packets = 2
    Kinds <- MCKinds
    MaxTries = 3
    MaxSeeds = 2
    MaxOperations = 2
    MaxFaults = 3
INVARIANTS
    TypeOK
    SafeRates
    OnlyOntoErased
PROPERTIES
    NothingSpent
    ImplementsPromise
    WritesSettle
