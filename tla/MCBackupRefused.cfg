SPECIFICATION Spec
CONSTANTS
    Contents = {a, b}
    Root = Root
    Folders = {f, g}
    LegacyFolder = f
    Names = {n1, n2}
    NoImage = NoImage
    Systems = {"nt"}
    Installs = {0}
    MaxImages = 2
    MaxFaults = 2
    MaxOutside = 0
    MaxFolders = 1
SYMMETRY Alike
INVARIANT StartsAgain
