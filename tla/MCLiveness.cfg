CONSTANTS
  UserKinds = {"start", "stop", "apply_restart"}
  AutoStart = TRUE
  CfgProxy = TRUE
  TunEnabled = FALSE
  QueueCapacity = 2
  MaxAttempts = 2
  TunThreshold = 1
  InitForeign = {FALSE}
  FaultKinds = {"resolve", "prepare", "config", "spawn", "stability", "kill", "stop_error", "conflict", "timeout", "preflight", "sudo", "install"}
  Budget <- BudgetLiveness
SPECIFICATION FairSpec
PROPERTIES EveryRequestServed CrashRecovers MaintenanceEnds
CHECK_DEADLOCK FALSE
