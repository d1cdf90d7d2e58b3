CONSTANTS
  Pids = {1, 2, 3, 4}
  Tuns = {TRUE}
  OpKinds = {"start"}
  MaxAttempts = 2
  FaultKinds = {"sudo", "spawn"}
  Budget <- BudgetSudo
SPECIFICATION Spec
INVARIANTS StartLeavesOne
CHECK_DEADLOCK FALSE
