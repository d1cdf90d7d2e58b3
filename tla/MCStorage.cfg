\* Edits, exports and restores of the settings, with faults and a restart.
SPECIFICATION UpdSpec
CONSTANTS
    Foreign <- MCForeign
    Lists <- MCLists
    Contents = {1, 2}
    Tables <- MCTables
    Defaults <- MCDefaults
    FaultKinds = {"row", "prefs", "export", "primary", "config", "tables", "load", "update", "download"}
    Machines <- MCMachines
    Feeds <- MCFeeds
    Channels = {"stable", "prerelease", "autobuild"}
    Budgets <- MCBudgets
    Budget = {0, 1, 3}
    Faults = 1
INVARIANTS LocalPaths RoundTrip FrontendFollows ChosenPackageRuns UpdateStoreFollows
PROPERTIES RestoreComplete
CHECK_DEADLOCK FALSE
