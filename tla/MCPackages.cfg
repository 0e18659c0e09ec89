CONSTANTS
    Package <- Packages
    MaxPackages = 2
    BufSize = 4
    StringSize = 3
    MaxLens = {1, 3}
    FileSize = 2
    Reads = {"string", "file", "python"}
    ShortSends = FALSE
SPECIFICATION FairSpec
INVARIANT TypeOK
INVARIANT PiecesArrive
INVARIANT OverrunsHaveCauses
PROPERTY PackagesRead
CHECK_DEADLOCK FALSE
