SPECIFICATION Spec
CONSTANTS
    Contents = {a, b}
    Root = Root
    Folders = {f, g}
    LegacyFolder = f
    Names = {n1, n2}
    NoImage = NoImage
    Systems = {"posix"}
    Installs = {0, 1, 2}
    MaxImages = 2
    MaxFaults = 2
    MaxOutside = 1
    MaxFolders = 1
SYMMETRY Alike
INVARIANTS
    TypeOK
    ProvenanceKept
    EntriesTruthful
PROPERTIES
    FoundAgain
    NeverOverwritten
    MigrationComplete
