CONSTANTS
  UserKinds = {"start", "stop", "restart", "apply_restart", "apply_hot"}
  AutoStart = FALSE
  CfgProxy = TRUE
  TunEnabled = TRUE
  QueueCapacity = 2
  MaxAttempts = 2
  TunThreshold = 2
  InitForeign = {FALSE}
  FaultKinds = {"resolve", "prepare", "config", "spawn", "stability", "kill", "stop_error", "conflict", "timeout", "preflight", "sudo", "install"}
  Budget <- BudgetCommands
SPECIFICATION Spec
INVARIANTS GuardAccounting
CHECK_DEADLOCK FALSE
