------------------------- MODULE MCKernelLifecycle -------------------------
(* Budgets of the model-checking runs of KernelLifecycle. *)
EXTENDS KernelLifecycle

Bounds(submit, crash, fault, tun, side, maintenance) ==
  [k \in BudgetKinds |->
     CASE k = "submit" -> submit [] k = "crash" -> crash [] k = "fault" -> fault
       [] k = "tun" -> tun [] k = "maint" -> maintenance [] OTHER -> side]

\*                           submit crash fault tun side maintenance
BudgetCore        == Bounds(4,     3,    2,    0,  0,   0)
BudgetCommands    == Bounds(2,     1,    0,    1,  1,   1)
BudgetLiveness    == Bounds(2,     1,    2,    0,  0,   1)
BudgetOneStart    == Bounds(1,     0,    1,    0,  0,   0)
BudgetMaintenance == Bounds(1,     1,    0,    0,  0,   1)
BudgetLiveApply   == Bounds(1,     0,    0,    0,  1,   0)
=============================================================================
