CONSTANTS
  Routes = {"proxy"}
  HiddenStarts = {FALSE}
  Behaviours = {"lightweight"}
  Workers = {"w1"}
  Budgets <- BudgetsQuit
SPECIFICATION FairSpec
PROPERTIES QuitEnds
CHECK_DEADLOCK FALSE
