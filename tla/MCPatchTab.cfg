SPECIFICATION Spec
CONSTANTS
    NoImage = NoImage
    Library <- MCLibrary
    Ecus <- MCEcus
    Values = {"own", "initial"}
    Selections <- MCSelections
    MaxOps = 3
INVARIANTS
    TypeOK
    DraftsApply
    InstallImagesAgree
PROPERTIES
    NothingLeftBehind
    KeptWhole
    Arrives
