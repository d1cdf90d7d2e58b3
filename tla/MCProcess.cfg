CONSTANTS
  Pids = {1, 2, 3, 4}
  Tuns = {FALSE}
  OpKinds = {"start", "stop", "recover"}
  MaxAttempts = 2
  FaultKinds = {"config", "environment", "spawn", "drain", "record", "sudo"}
  Budget <- BudgetPlain
SPECIFICATION Spec
INVARIANTS StartLeavesOne NoStrayKernel StopKillsManaged
PROPERTIES SparesOtherPrograms
CHECK_DEADLOCK FALSE
