---------------------------- MODULE KernelIntent ----------------------------
(***************************************************************************)
(* What the lifecycle of the kernel promises a session, without queue,     *)
(* guard or failures: a kernel comes up only while the session wants one,  *)
(* it may go down at any time (a stop, a restart, a crash), and a stop     *)
(* that has been confirmed means that no kernel is left, until the next    *)
(* decision.                                                               *)
(***************************************************************************)
VARIABLES
  desired,    \* what the session wants: "running" or "stopped"
  alive,      \* a kernel process exists
  confirmed   \* the session has been told that the kernel is stopped

Init == desired = "stopped" /\ alive \in BOOLEAN /\ confirmed = FALSE

\* An explicit request, or the startup policy, sets the intent.
Decide ==
  /\ desired' \in {"running", "stopped"}
  /\ confirmed' = FALSE
  /\ UNCHANGED alive

ComeUp == desired = "running" /\ alive' = TRUE /\ UNCHANGED <<desired, confirmed>>

GoDown == alive' = FALSE /\ UNCHANGED <<desired, confirmed>>

Confirm ==
  /\ desired = "stopped" /\ ~alive
  /\ confirmed' = TRUE
  /\ UNCHANGED <<desired, alive>>

Next == Decide \/ ComeUp \/ GoDown \/ Confirm

Spec == Init /\ [][Next]_<<desired, alive, confirmed>>
=============================================================================
