CONSTANTS
  Routes = {"proxy"}
  HiddenStarts = {FALSE, TRUE}
  Behaviours = {"hide", "lightweight"}
  Workers = {"w1"}
  Budgets <- MCBudgets
SPECIFICATION Spec
INVARIANTS ShellAgrees OnlyQuitExits
PROPERTIES RouteReturns
CHECK_DEADLOCK FALSE
