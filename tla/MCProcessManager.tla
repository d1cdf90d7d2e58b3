-------------------------- MODULE MCProcessManager --------------------------
(* Budgets of the model-checking runs of ProcessManager. *)
EXTENDS ProcessManager

Bounds(ops, sessions, exits, programs, readers, faults) ==
  [k \in BudgetKinds |->
     CASE k = "op" -> ops [] k = "session" -> sessions [] k = "exit" -> exits
       [] k = "program" -> programs [] k = "reader" -> readers [] k = "fault" -> faults]

\*                    op session exit program reader fault
BudgetPlain  == Bounds(3, 2,     1,   1,      1,     1)
BudgetSudo   == Bounds(4, 3,     1,   1,      1,     2)
BudgetSingle == Bounds(2, 1,     0,   0,      0,     0)
BudgetDrop   == Bounds(1, 1,     0,   0,      0,     1)
=============================================================================
