SPECIFICATION Spec
CONSTANTS
    Groups <- MCGroups
    Ranges = {"r1", "r2", "r3"}
    DefaultRange = "r1"
    Documents <- MCDocuments
    RuleLists <- MCRuleLists
    Varied = {"ads", "groups", "hijack", "fake", "range", "outbound", "detour", "dns", "tun", "exclude"}
    MaxChanged = 2
INVARIANTS TagsResolve GroupsOfferNodes UserRulesFirst
PROPERTIES PatchMatchesFresh
CHECK_DEADLOCK FALSE
