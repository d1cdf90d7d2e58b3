---------------------------- MODULE KernelState ----------------------------
(***************************************************************************)
(* The pure vocabulary of kernel_service/state.rs: the lifecycle states,   *)
(* the readiness snapshot and the updates the state manager applies to it, *)
(* the observed state composed from both, and the transition planner.      *)
(* No definition here has state; KernelLifecycle owns the variables.       *)
(***************************************************************************)

\* enum KernelState and enum KernelDesiredState.
KernelStates == {"stopped", "starting", "running", "stopping", "failed", "crashed"}
DesiredStates == {"running", "stopped"}

\* enum KernelObservedState.
ObservedStates == KernelStates \cup {"degraded"}

\* The three readiness flags of KernelReadinessSnapshot that the lifecycle reads.
Readiness == [alive : BOOLEAN, api : BOOLEAN, relay : BOOLEAN]
NotReady == [alive |-> FALSE, api |-> FALSE, relay |-> FALSE]

\* mark_running leaves relay_ready alone; every caller that verified the API
\* clears it next, emit_kernel_started then sets all three.
ProcessReady == [alive |-> TRUE, api |-> TRUE, relay |-> FALSE]
FullyReady == [alive |-> TRUE, api |-> TRUE, relay |-> TRUE]

\* KernelObservedState::from_runtime.
FromRuntime(state, readiness) ==
  LET settled == state \notin {"starting", "stopping"}
  IN  IF readiness.alive /\ settled
        THEN IF readiness.api /\ readiness.relay THEN "running" ELSE "degraded"
        ELSE IF state = "running" THEN "stopped" ELSE state

IsRunning(observed) == observed \in {"running", "degraded"}

\* KernelObservedState::is_process_active.
IsProcessActive(observed) == IsRunning(observed) \/ observed \in {"starting", "stopping"}

ChangeImpacts == {"persist_only", "hot_apply", "restart_if_running"}
Requests ==
  [kind : {"user_start", "user_stop", "user_restart", "crashed", "shutdown"}]
    \cup [kind : {"apply"}, impact : ChangeImpacts]
    \cup [kind : {"reconcile"}, auto_start : BOOLEAN]

Actions == {"noop", "start", "stop", "restart", "hot_apply", "apply_config_only", "reject"}

\* What an ApplyRuntimeChange of the given impact does.
PlanChange(desired, observed, impact) ==
  CASE impact = "hot_apply" /\ IsRunning(observed) -> "hot_apply"
    [] impact = "restart_if_running" /\ desired = "running" /\ IsRunning(observed) -> "restart"
    [] OTHER -> "apply_config_only"

\* plan_kernel_transition.
PlanKernelTransition(desired, observed, request) ==
  CASE request.kind = "user_start" ->
         IF IsRunning(observed) \/ observed = "starting" THEN "noop" ELSE "start"
    [] request.kind \in {"user_stop", "shutdown"} ->
         IF IsProcessActive(observed) THEN "stop" ELSE "noop"
    [] request.kind = "user_restart" ->
         IF IsRunning(observed) THEN "restart" ELSE "reject"
    [] request.kind = "apply" ->
         PlanChange(desired, observed, request.impact)
    [] request.kind = "reconcile" /\ request.auto_start ->
         IF IsRunning(observed) THEN "noop" ELSE "start"
    [] request.kind = "reconcile" /\ ~request.auto_start ->
         IF IsProcessActive(observed) THEN "stop" ELSE "noop"
    [] OTHER ->
         IF desired = "running" THEN "start" ELSE "noop"
=============================================================================
