CONSTANTS
  UserKinds = {"start", "stop", "restart", "apply_restart"}
  AutoStart = TRUE
  CfgProxy = TRUE
  TunEnabled = FALSE
  QueueCapacity = 2
  MaxAttempts = 2
  TunThreshold = 1
  InitForeign = {FALSE, TRUE}
  FaultKinds = {"resolve", "prepare", "config", "spawn", "stability", "kill", "stop_error", "conflict", "timeout", "preflight", "sudo", "install"}
  Budget <- BudgetCore
SPECIFICATION Spec
INVARIANTS TypeOK UserStopWins StopLeavesNothing GuardAccounting
PROPERTIES ImplementsIntent
CHECK_DEADLOCK FALSE
