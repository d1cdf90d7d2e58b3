--------------------------- MODULE MCConfigFiles ---------------------------
(* Instances of ConfigFiles for TLC: a generated subscription g, one that   *)
(* keeps its original configuration o, and the default path.                *)
EXTENDS ConfigFiles, TLC

CONSTANTS d, g, o, j1, j2

MCPaths == {d, g, o}
MCOriginal == {o}
MCJobs == {j1, j2}
Symmetry == Permutations(MCJobs)

Bounds(commands, kernels, faults) ==
    [k \in BudgetKinds |-> CASE k = "command" -> commands
                             [] k = "kernel" -> kernels [] OTHER -> faults]
BudgetFiles    == Bounds(3, 1, 1)
BudgetResidue  == Bounds(4, 0, 0)
BudgetOriginal == Bounds(5, 0, 0)
=============================================================================
