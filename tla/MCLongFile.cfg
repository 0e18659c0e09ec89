CONSTANTS
    Package <- Packages
    MaxPackages = 2
    BufSize = 4
    StringSize = 3
    MaxLens = {1, 3}
    FileSize = 2
    Reads = {"file"}
    ShortSends = FALSE
SPECIFICATION Spec
INVARIANT PackagesArrive
CHECK_DEADLOCK FALSE
