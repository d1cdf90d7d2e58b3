----------------------------- MODULE MCDesktop -----------------------------
(* Instances of Desktop for TLC. *)
EXTENDS Desktop

Bounds(window, change, fault) ==
  [k \in BudgetKinds |-> CASE k = "window" -> window [] k = "change" -> change [] OTHER -> fault]

\* Three of the window; two of it and a fault; one of each; two changes.
MCBudgets ==
  {Bounds(3, 0, 0), Bounds(2, 0, 1), Bounds(1, 1, 1), Bounds(0, 2, 0)}

BudgetsQuit == {Bounds(2, 0, 0), Bounds(1, 1, 0)}
=============================================================================
