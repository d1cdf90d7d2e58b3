\* Downloads, rule edits, switches and saves overlapping, with one fault.
SPECIFICATION Spec
CONSTANTS
    d = d  g = g  o = o  j1 = j1  j2 = j2
    Paths <- MCPaths
    Default = d
    Original <- MCOriginal
    Rules = {r1}
    Versions = {"v1"}
    Ports = {1, 2}
    Jobs <- MCJobs
    Budget <- BudgetFiles
SYMMETRY Symmetry
INVARIANTS TypeOK OriginalNotInjected
PROPERTIES RulesHealed AppliedConfigIsLive
CHECK_DEADLOCK FALSE
