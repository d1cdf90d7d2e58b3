\* Two downloads, an import, starts and version checks on one executable.
SPECIFICATION Spec
CONSTANTS
    j1 = j1  j2 = j2
    Jobs = {j1, j2}
    Versions = {1, 2, 3, 4}
    Odd = {4}
    Offered = {1, 3}
    Installed = {0, 1}
    Bundles <- MCBundles
    FaultKinds = {"copy", "spawn", "stop", "page", "mirrors", "rename", "busy", "move", "restore", "probe", "db"}
    Budget = 1
SYMMETRY Symmetry
INVARIANTS SomeKernelKept InstallTakesEffect FailedImportLeavesOld
PROPERTIES StartRepairsVersion
CHECK_DEADLOCK FALSE
