-------------------------- MODULE KernelLifecycle --------------------------
(***************************************************************************)
(* The kernel lifecycle of the backend (kernel_service/): one worker takes *)
(* lifecycle operations from a bounded queue and runs each to its end; the *)
(* guard task watches the kernel process and submits recoveries to the     *)
(* same queue; commands that are not queued (status probe, live proxy      *)
(* apply, kernel update) run on other threads and interleave anywhere.     *)
(*                                                                         *)
(* An action is the code between two points where the executing task may   *)
(* be suspended.  The worker and the guard share one single-threaded       *)
(* runtime: a guard whose answer is ready runs before the worker's next    *)
(* resumption, but not before the first segment of the next operation.     *)
(***************************************************************************)
EXTENDS KernelState, Naturals, Sequences

CONSTANTS
  UserKinds,      \* the operations users and services may submit
  AutoStart,      \* auto_start_kernel, read once by the startup task
  CfgProxy,       \* resolved.proxy.system_proxy_enabled
  TunEnabled,     \* resolved.proxy.tun_enabled
  QueueCapacity,  \* QUEUE_CAPACITY
  MaxAttempts,    \* spawn attempts of ProcessManager::start_inner
  TunThreshold,   \* TUN_CONNECTIVITY_FAIL_THRESHOLD
  InitForeign,    \* may an unmanaged kernel process run at startup?
  FaultKinds,     \* the failures the environment may inject
  Budget          \* bounds on submissions, crashes, faults and side commands

SubmitKinds == {"start", "stop", "restart", "apply_restart", "apply_hot"}
GuardKinds == {"recover", "heal"}
StopKinds == {"stop", "reconcile_stop"}   \* those that set the intent to stop
OpKinds == SubmitKinds \cup GuardKinds
             \cup {"reconcile_run", "reconcile_stop", "suspend", "resume"}

AllFaults == {"resolve", "prepare", "config", "spawn", "stability", "kill", "stop_error",
              "conflict", "detect", "timeout", "preflight", "sudo", "install"}
BudgetKinds == {"submit", "crash", "fault", "tun", "probe", "live", "maint"}

ASSUME ConstantsAssumption ==
  /\ UserKinds \subseteq SubmitKinds
  /\ AutoStart \in BOOLEAN /\ CfgProxy \in BOOLEAN /\ TunEnabled \in BOOLEAN
  /\ QueueCapacity \in Nat \ {0} /\ MaxAttempts \in Nat \ {0} /\ TunThreshold \in Nat \ {0}
  /\ InitForeign \subseteq BOOLEAN
  /\ FaultKinds \subseteq AllFaults
  /\ Budget \in [BudgetKinds -> Nat]

VARIABLES
  state, desired, readiness,   \* KERNEL_STATE
  managed,     \* the kernel process this application spawned is alive
  foreign,     \* a kernel process exists that the process manager holds no handle or PID of
  sysproxy,    \* the operating system's proxy points at the kernel
  relay,       \* event relay tasks are registered
  keepAlive,   \* KEEP_ALIVE_ENABLED
  guard,       \* where the guard task is, "none" when there is no task
  guardReply,  \* the answer waiting in the guard's oneshot channel
  tunFails,    \* the guard's tun_connectivity_failures
  queue, op, pc, attempt,      \* the orchestrator's channel and worker
  maint, maintReply,           \* download_kernel
  probe,       \* kernel_get_status_enhanced
  live,        \* apply_proxy_settings
  reconciled,  \* the startup task has submitted its reconcile
  acked,       \* history: the last operation was a stop and it reported success
  budget       \* what is left of Budget

kernel == <<state, readiness>>
process == <<managed, foreign>>
guardVars == <<keepAlive, guard, tunFails>>
replies == <<guardReply, maintReply>>
clients == <<maint, probe, live, reconciled>>
vars == <<kernel, desired, process, sysproxy, relay, guardVars, replies,
          queue, op, pc, attempt, clients, acked, budget>>

NoOp == [kind |-> "none", reply |-> "nobody"]
Ops == [kind : OpKinds, reply : {"nobody", "guard", "maint"}]
Answers == {"none", "ok", "skipped", "err"}
WorkerPcs == {"idle", "resolve", "prepare", "checkrun", "conflict", "validate", "spawn",
              "verify", "stab", "stabrun", "relay", "stop", "stopcheck", "forcekill", "cleanstop"}
GuardPcs == {"none", "sleep", "tun", "gone", "preflight", "waiting"}

KernelTyped ==
  /\ state \in KernelStates /\ desired \in DesiredStates /\ readiness \in Readiness

SystemTyped ==
  /\ managed \in BOOLEAN /\ foreign \in BOOLEAN /\ sysproxy \in BOOLEAN /\ relay \in BOOLEAN

GuardTyped ==
  /\ keepAlive \in BOOLEAN /\ guard \in GuardPcs /\ guardReply \in Answers
  /\ tunFails \in 0 .. TunThreshold

QueueTyped == queue \in Seq(Ops) /\ op \in Ops \cup {NoOp}

WorkerTyped == pc \in WorkerPcs /\ attempt \in 0 .. MaxAttempts

ClientsTyped ==
  /\ maint \in {"off", "suspending", "replacing", "replacing_cold", "resuming"}
  /\ maintReply \in Answers
  /\ probe \in {"off", "alive", "dead"} /\ live \in {"off", "enable", "disable"}
  /\ reconciled \in BOOLEAN /\ acked \in BOOLEAN
  /\ budget \in [BudgetKinds -> Nat]

TypeOK ==
  KernelTyped /\ SystemTyped /\ GuardTyped /\ QueueTyped /\ WorkerTyped /\ ClientsTyped

Init ==
  /\ state = "stopped" /\ desired = "stopped" /\ readiness = NotReady
  /\ managed = FALSE /\ foreign \in InitForeign
  /\ sysproxy = FALSE /\ relay = FALSE
  /\ keepAlive = FALSE /\ guard = "none" /\ guardReply = "none" /\ tunFails = 0
  /\ queue = <<>> /\ op = NoOp /\ pc = "idle" /\ attempt = 0
  /\ maint = "off" /\ maintReply = "none" /\ probe = "off" /\ live = "off"
  /\ reconciled = FALSE /\ acked = FALSE
  /\ budget = Budget

-----------------------------------------------------------------------------
(* Budgets, process detection and the queue. *)

Spend(k) == budget[k] > 0 /\ budget' = [budget EXCEPT ![k] = @ - 1]
Fault(f) == f \in FaultKinds /\ Spend("fault")

\* is_kernel_running_with_process: the managed process first, then detection by
\* name, whose error is reported as "not running".
Detect(seen) ==
  \/ seen = (managed \/ foreign) /\ UNCHANGED budget
  \/ ~seen /\ ~managed /\ foreign /\ Fault("detect")

CanSubmit == Len(queue) < QueueCapacity
Request(kind, reply) == [kind |-> kind, reply |-> reply]

\* Mutant: an aborted guard's operation still answers to whichever guard runs next.
OrphanedKeepsReply(q) == q

\* An aborted guard drops the receiving end of the answer it waits for; the
\* operation it submitted stays queued.
Orphaned(q) ==
  [i \in DOMAIN q |-> IF q[i].reply = "guard" THEN [q[i] EXCEPT !.reply = "nobody"] ELSE q[i]]

\* run_worker answers the submitter and takes the next operation.
Finish(o, answer) ==
  /\ op' = NoOp /\ pc' = "idle"
  /\ guardReply' = IF o.reply = "guard" THEN answer ELSE guardReply
  /\ maintReply' = IF o.reply = "maint" THEN answer ELSE maintReply

MarkFailed == state' = "failed" /\ readiness' = NotReady

-----------------------------------------------------------------------------
(* The first segment of each operation. *)

Begin(kinds) == pc = "idle" /\ queue # <<>> /\ Head(queue).kind \in kinds
Take == op' = Head(queue) /\ acked' = FALSE /\ attempt' = 0
Skip(answer) ==
  /\ acked' = FALSE /\ attempt' = 0
  /\ queue' = Tail(queue) /\ Finish(Head(queue), answer)

\* Mutant: the relay tasks are left running.
EnterStopKeepsRelay(q) ==
  /\ state' = "stopping" /\ pc' = "stop" /\ keepAlive' = FALSE
  /\ guard' = IF keepAlive THEN "none" ELSE guard
  /\ guardReply' = IF keepAlive THEN "none" ELSE guardReply
  /\ tunFails' = IF keepAlive THEN 0 ELSE tunFails
  /\ queue' = IF keepAlive THEN Orphaned(q) ELSE q
  /\ UNCHANGED relay

\* stop_kernel_with_process up to process.stop: the guard is aborted when
\* KEEP_ALIVE_ENABLED was set, the relay tasks are cleared.
EnterStop(q) ==
  /\ state' = "stopping"
  /\ pc' = "stop"
  /\ relay' = FALSE
  /\ keepAlive' = FALSE
  /\ guard' = IF keepAlive THEN "none" ELSE guard
  /\ guardReply' = IF keepAlive THEN "none" ELSE guardReply
  /\ tunFails' = IF keepAlive THEN 0 ELSE tunFails
  /\ queue' = IF keepAlive THEN Orphaned(q) ELSE q

\* The head of start_kernel_with_state_with_process.
EnterStart == state' = "starting" /\ readiness' = NotReady /\ pc' = "prepare"

BeginStart ==
  /\ Begin({"start"}) /\ Take
  /\ desired' = "running"
  /\ queue' = Tail(queue) /\ pc' = "resolve"
  /\ UNCHANGED <<kernel, process, sysproxy, relay, guardVars, replies, clients, budget>>

BeginStop ==
  /\ Begin({"stop"}) /\ Take
  /\ desired' = "stopped"
  /\ EnterStop(Tail(queue))
  /\ UNCHANGED <<readiness, process, sysproxy, maintReply, clients, budget>>

BeginRestart ==
  /\ Begin({"restart"})
  /\ \E seen \in BOOLEAN :
       /\ Detect(seen)
       /\ IF seen
            THEN /\ Take /\ desired' = "running"
                 /\ queue' = Tail(queue) /\ pc' = "resolve" /\ UNCHANGED replies
            ELSE Skip("err") /\ UNCHANGED desired
  /\ UNCHANGED <<kernel, process, sysproxy, relay, guardVars, clients>>

\* orchestrated_startup_reconcile; an undetected kernel is judged by the snapshot.
BeginReconcile(kind, wanted) ==
  /\ Begin({kind})
  /\ desired' = wanted
  /\ \E seen \in BOOLEAN :
       LET observed == IF seen THEN "running" ELSE FromRuntime(state, readiness)
           plan == PlanKernelTransition(wanted, observed,
                     [kind |-> "reconcile", auto_start |-> wanted = "running"])
       IN  /\ Detect(seen)
           /\ \/ /\ plan = "start" /\ Take
                 /\ queue' = Tail(queue) /\ pc' = "resolve"
                 /\ UNCHANGED <<kernel, relay, guardVars, replies>>
              \/ /\ plan = "stop" /\ Take
                 /\ EnterStop(Tail(queue))
                 /\ UNCHANGED <<readiness, maintReply>>
              \/ /\ plan \notin {"start", "stop"} /\ Skip("ok")
                 /\ UNCHANGED <<kernel, relay, guardVars>>
  /\ UNCHANGED <<process, sysproxy, clients>>

\* orchestrated_apply_change_with_deps: only the live process counts, never the snapshot.
BeginApply(kind, impact) ==
  /\ Begin({kind})
  /\ \E seen \in BOOLEAN :
       /\ Detect(seen)
       /\ IF PlanKernelTransition(desired, IF seen THEN "running" ELSE "stopped",
                                  [kind |-> "apply", impact |-> impact]) = "restart"
            THEN Take /\ queue' = Tail(queue) /\ pc' = "resolve" /\ UNCHANGED replies
            ELSE Skip("ok")
  /\ UNCHANGED <<kernel, desired, process, sysproxy, relay, guardVars, clients>>

BeginSuspend ==
  /\ Begin({"suspend"})
  /\ \E seen \in BOOLEAN :
       /\ Detect(seen)
       /\ IF seen
            THEN Take /\ EnterStop(Tail(queue)) /\ UNCHANGED <<readiness, maintReply>>
            ELSE Skip("ok") /\ UNCHANGED <<kernel, relay, guardVars>>
  /\ UNCHANGED <<desired, process, sysproxy, clients>>

BeginResume ==
  /\ Begin({"resume"})
  /\ \/ /\ desired # "running"
        /\ Skip("ok") /\ UNCHANGED budget
     \/ /\ desired = "running"
        /\ \E seen \in BOOLEAN :
             /\ Detect(seen)
             /\ IF seen
                  THEN Skip("ok")
                  ELSE Take /\ queue' = Tail(queue) /\ pc' = "resolve" /\ UNCHANGED replies
  /\ UNCHANGED <<kernel, desired, process, sysproxy, relay, guardVars, clients>>

\* Mutant: a queued recovery does not re-read the desired state.
BeginGuardOpUnchecked ==
  /\ Begin(GuardKinds)
  /\ Take /\ queue' = Tail(queue) /\ UNCHANGED replies
  /\ pc' = IF Head(queue).kind = "heal" THEN "cleanstop" ELSE "validate"
  /\ UNCHANGED <<kernel, desired, process, sysproxy, relay, guardVars, clients, budget>>

\* The guard's crash recovery starts the process, its TUN self-heal restarts it;
\* both re-read the desired state and nothing else.
BeginGuardOp ==
  /\ Begin(GuardKinds)
  /\ IF desired = "running"
       THEN /\ Take /\ queue' = Tail(queue) /\ UNCHANGED replies
            /\ pc' = IF Head(queue).kind = "heal" THEN "cleanstop" ELSE "validate"
       ELSE Skip("skipped")
  /\ UNCHANGED <<kernel, desired, process, sysproxy, relay, guardVars, clients, budget>>

-----------------------------------------------------------------------------
(* The later segments of an operation. *)

At(p) == pc = p /\ guardReply = "none"
Goto(p) == pc' = p /\ UNCHANGED <<op, replies>>
RestartsAfterStop == op.kind \in {"restart", "apply_restart"}

\* resolve_proxy_runtime_state reads the application configuration.
Resolve ==
  /\ At("resolve")
  /\ \/ /\ Fault("resolve") /\ Finish(op, "err")
        /\ UNCHANGED <<kernel, relay, guardVars, queue>>
     \/ /\ RestartsAfterStop /\ EnterStop(queue)
        /\ UNCHANGED <<op, readiness, maintReply, budget>>
     \/ /\ ~RestartsAfterStop /\ EnterStart
        /\ UNCHANGED <<op, replies, relay, guardVars, queue, budget>>
  /\ UNCHANGED <<desired, process, sysproxy, attempt, clients, acked>>

\* prepare_kernel_runtime_before_start_with_deps: inbounds, then the system proxy.
Prepare ==
  /\ At("prepare")
  /\ \/ /\ Fault("prepare") /\ MarkFailed /\ Finish(op, "err")
        /\ UNCHANGED sysproxy
     \/ /\ sysproxy' = CfgProxy /\ Goto("checkrun")
        /\ UNCHANGED <<kernel, budget>>
  /\ UNCHANGED <<desired, process, relay, guardVars, queue, attempt, clients, acked>>

\* A managed kernel is kept, an unmanaged one is a conflict.
CheckRunning ==
  /\ At("checkrun")
  /\ \/ /\ managed
        /\ state' = "running" /\ readiness' = ProcessReady /\ Goto("stabrun")
        /\ UNCHANGED budget
     \/ /\ ~managed
        /\ \E seen \in BOOLEAN :
             Detect(seen) /\ Goto(IF seen THEN "conflict" ELSE "validate")
        /\ UNCHANGED kernel
  /\ UNCHANGED <<desired, process, sysproxy, relay, guardVars, queue, attempt, clients, acked>>

\* try_cleanup_conflicting_kernel_with_process and the check that follows it.
CleanConflict ==
  /\ At("conflict")
  /\ \/ /\ Fault("conflict") /\ MarkFailed /\ Finish(op, "err")
        /\ UNCHANGED foreign
     \/ /\ foreign' = FALSE /\ Goto("validate")
        /\ UNCHANGED <<kernel, budget>>
  /\ managed' = FALSE
  /\ UNCHANGED <<desired, sysproxy, relay, guardVars, queue, attempt, clients, acked>>

\* An error of process.start: the start path marks the failure itself, a guard
\* operation returns it to the guard.
StartError ==
  /\ Finish(op, "err")
  /\ IF op.kind \in GuardKinds
       THEN UNCHANGED state /\ readiness' = [readiness EXCEPT !.alive = FALSE]
       ELSE MarkFailed

\* start_inner up to the first attempt: validate the configuration, kill whatever
\* kernel is managed, check the environment.
Validate ==
  /\ At("validate")
  /\ \/ /\ Fault("config") /\ Finish(op, "err")
        /\ IF op.kind \in GuardKinds THEN UNCHANGED kernel ELSE MarkFailed
        /\ managed' \in {managed, FALSE}
        /\ UNCHANGED <<foreign, attempt>>
     \/ /\ Goto("spawn") /\ attempt' = 1
        /\ managed' = FALSE
        /\ \/ UNCHANGED <<foreign, budget>>
           \/ managed /\ foreign' = TRUE /\ Fault("kill")
        /\ UNCHANGED kernel
  /\ UNCHANGED <<desired, sysproxy, relay, guardVars, queue, clients, acked>>

\* Mutant: one attempt too many.
RetryOnceMore ==
  \/ /\ attempt <= MaxAttempts
     /\ attempt' = attempt + 1 /\ Goto("spawn")
     /\ readiness' = [readiness EXCEPT !.alive = FALSE]
     /\ UNCHANGED state
  \/ /\ attempt > MaxAttempts
     /\ UNCHANGED attempt
     /\ StartError

Retry ==
  \/ /\ attempt < MaxAttempts
     /\ attempt' = attempt + 1 /\ Goto("spawn")
     /\ readiness' = [readiness EXCEPT !.alive = FALSE]
     /\ UNCHANGED state
  \/ /\ attempt = MaxAttempts
     /\ UNCHANGED attempt
     /\ StartError

\* try_start_kernel_process.
Spawn ==
  /\ At("spawn")
  /\ \/ /\ managed' = TRUE
        /\ readiness' = [readiness EXCEPT !.alive = TRUE]
        /\ Goto("verify")
        /\ UNCHANGED <<state, attempt, budget>>
     \/ /\ Fault("spawn") /\ Retry
        /\ UNCHANGED managed
  /\ UNCHANGED <<desired, foreign, sysproxy, relay, guardVars, queue, clients, acked>>

\* verify_startup; a guard operation then marks the kernel running unverified and
\* clears the relay, a start goes on to the stability check.
Verify ==
  /\ At("verify")
  /\ \/ /\ managed
        /\ IF op.kind \in GuardKinds
             THEN /\ state' = "running" /\ relay' = FALSE /\ Goto("relay")
                  /\ readiness' = [readiness EXCEPT !.alive = TRUE, !.api = TRUE]
             ELSE Goto("stab") /\ UNCHANGED <<kernel, relay>>
        /\ UNCHANGED attempt
     \/ /\ ~managed
        /\ Retry
        /\ UNCHANGED relay
  /\ UNCHANGED <<desired, process, sysproxy, guardVars, queue, clients, acked, budget>>

\* verify_kernel_startup_stability of a fresh process.
StabilityFresh ==
  /\ At("stab")
  /\ \/ /\ managed \/ foreign
        /\ state' = "running" /\ readiness' = ProcessReady
        /\ relay' = FALSE /\ Goto("relay")
        /\ UNCHANGED budget
     \/ /\ \/ ~managed /\ ~foreign /\ UNCHANGED budget
           \/ Fault("stability")
        /\ MarkFailed /\ Goto("cleanstop")
        /\ UNCHANGED relay
  /\ UNCHANGED <<desired, process, sysproxy, guardVars, queue, attempt, clients, acked>>

\* The same check of a kernel that was already running.
StabilityRunning ==
  /\ At("stabrun")
  /\ \/ /\ managed \/ foreign
        /\ relay' = FALSE /\ Goto("relay")
        /\ UNCHANGED <<kernel, budget>>
     \/ /\ \/ ~managed /\ ~foreign /\ UNCHANGED budget
           \/ Fault("stability")
        /\ readiness' = [readiness EXCEPT !.api = FALSE, !.relay = FALSE]
        /\ Finish(op, "err")
        /\ UNCHANGED <<state, relay>>
  /\ UNCHANGED <<desired, process, sysproxy, guardVars, queue, attempt, clients, acked>>

\* start_websocket_relay, enable_kernel_guard (not from a guard operation) and
\* emit_kernel_started.
Started ==
  /\ At("relay")
  /\ relay' = TRUE
  /\ readiness' = FullyReady
  /\ IF op.kind \in GuardKinds
       THEN UNCHANGED guardVars
       ELSE /\ keepAlive' = TRUE
            /\ guard' = IF keepAlive THEN guard ELSE "sleep"
            /\ tunFails' = IF keepAlive THEN tunFails ELSE 0
  /\ Finish(op, "ok")
  /\ UNCHANGED <<state, desired, process, sysproxy, queue, attempt, clients, acked, budget>>

\* ProcessManager::stop: the handle is taken and its PID record cleared whether or
\* not the kill succeeded; only Windows reports the failure as an error.
StopProcess(error) ==
  /\ sysproxy' = FALSE
  /\ managed' = FALSE
  /\ \/ ~error /\ UNCHANGED <<foreign, budget>>
     \/ ~error /\ managed /\ foreign' = TRUE /\ Fault("kill")
     \/ error /\ managed /\ foreign' = TRUE /\ Fault("stop_error")

\* What follows a failed stop_kernel.
StopFailed ==
  /\ MarkFailed
  /\ IF RestartsAfterStop THEN Goto("forcekill") ELSE Finish(op, "err")

StopKernel ==
  /\ At("stop")
  /\ \E error \in BOOLEAN :
       /\ StopProcess(error)
       /\ IF error THEN StopFailed ELSE Goto("stopcheck") /\ UNCHANGED kernel
  /\ UNCHANGED <<desired, relay, guardVars, queue, attempt, clients, acked>>

\* Mutant: the stop is reported as done without looking.
StopCheckTrusting ==
  /\ At("stopcheck")
  /\ IF RestartsAfterStop
       THEN EnterStart /\ UNCHANGED <<op, replies, acked>>
       ELSE /\ state' = "stopped" /\ readiness' = NotReady
            /\ IF op.kind \in StopKinds THEN acked' = TRUE ELSE UNCHANGED acked
            /\ Finish(op, "ok")
  /\ UNCHANGED <<desired, process, sysproxy, relay, guardVars, queue, attempt, clients, budget>>

\* Mutant: the polls go on until the kernel is gone.
StopCheckUnbounded ==
  /\ At("stopcheck")
  /\ ~managed /\ ~foreign
  /\ StopCheckTrusting

\* The polls after process.stop, mark_stopped and emit_kernel_stopped.
StopCheck ==
  /\ At("stopcheck")
  /\ \E seen \in BOOLEAN :
       /\ Detect(seen)
       /\ \/ seen /\ StopFailed /\ UNCHANGED acked
          \/ /\ ~seen /\ RestartsAfterStop
             /\ EnterStart /\ UNCHANGED <<op, replies, acked>>
          \/ /\ ~seen /\ ~RestartsAfterStop
             /\ state' = "stopped" /\ readiness' = NotReady
             /\ IF op.kind \in StopKinds THEN acked' = TRUE ELSE UNCHANGED acked
             /\ Finish(op, "ok")
  /\ UNCHANGED <<desired, process, sysproxy, relay, guardVars, queue, attempt, clients>>

\* restart_kernel_internal_with_process gives its stop phase four seconds.
StopTimeout ==
  /\ At("stop") \/ At("stopcheck")
  /\ RestartsAfterStop /\ Fault("timeout")
  /\ Goto("forcekill")
  /\ UNCHANGED <<kernel, desired, process, sysproxy, relay, guardVars, queue, attempt,
                 clients, acked>>

\* force_kill_kernel_processes_by_name; its failure is only logged.
ForceKill ==
  /\ At("forcekill")
  /\ managed' = FALSE
  /\ \/ foreign' = FALSE /\ UNCHANGED budget
     \/ foreign' = (managed \/ foreign) /\ Fault("conflict")
  /\ EnterStart /\ UNCHANGED <<op, replies>>
  /\ UNCHANGED <<desired, sysproxy, relay, guardVars, queue, attempt, clients, acked>>

\* process.stop outside stop_kernel: after an unstable start, whose result is
\* ignored, and as the first half of the self-heal's process.restart.
CleanStop ==
  /\ At("cleanstop")
  /\ \E error \in BOOLEAN :
       /\ StopProcess(error)
       /\ IF op.kind = "heal" /\ ~error THEN Goto("validate") ELSE Finish(op, "err")
  /\ UNCHANGED <<kernel, desired, relay, guardVars, queue, attempt, clients, acked>>

Worker ==
  \/ BeginStart \/ BeginStop \/ BeginRestart
  \/ BeginReconcile("reconcile_run", "running") \/ BeginReconcile("reconcile_stop", "stopped")
  \/ BeginApply("apply_restart", "restart_if_running") \/ BeginApply("apply_hot", "hot_apply")
  \/ BeginSuspend \/ BeginResume \/ BeginGuardOp
  \/ Resolve \/ Prepare \/ CheckRunning \/ CleanConflict \/ Validate \/ Spawn \/ Verify
  \/ StabilityFresh \/ StabilityRunning \/ Started
  \/ StopKernel \/ StopCheck \/ StopTimeout \/ ForceKill \/ CleanStop

-----------------------------------------------------------------------------
(* The guard task (enable_kernel_guard_with_process). *)

\* Mutant: the guard task ends with KEEP_ALIVE_ENABLED still set.
EndGuardKeepsFlag == guard' = "none" /\ tunFails' = 0 /\ UNCHANGED keepAlive

EndGuard == keepAlive' = FALSE /\ guard' = "none" /\ tunFails' = 0

\* After its tick the guard asks whether a kernel runs.  Without TUN a running
\* kernel leaves the guard as it was.
GuardTick ==
  /\ guard = "sleep"
  /\ \E seen \in BOOLEAN :
       /\ Detect(seen)
       /\ ~seen \/ TunEnabled
       /\ guard' = IF seen THEN "tun" ELSE "gone"
  /\ UNCHANGED <<kernel, desired, process, sysproxy, relay, keepAlive, tunFails, replies,
                 queue, op, pc, attempt, clients, acked>>

\* The connectivity probe: success (or a disabled policy) clears the count; at the
\* threshold a self-heal is submitted unless its cooldown still runs.
GuardTun ==
  /\ guard = "tun"
  /\ \/ guard' = "sleep" /\ tunFails' = 0 /\ UNCHANGED <<queue, budget>>
     \/ LET fails == IF tunFails < TunThreshold THEN tunFails + 1 ELSE tunFails
        IN  /\ tunFails' = fails
            /\ \/ guard' = "sleep" /\ UNCHANGED <<queue, budget>>
               \/ /\ fails = TunThreshold /\ CanSubmit /\ Spend("tun")
                  /\ queue' = Append(queue, Request("heal", "guard"))
                  /\ guard' = "waiting"
  /\ UNCHANGED <<kernel, desired, process, sysproxy, relay, keepAlive, replies,
                 op, pc, attempt, clients, acked>>

\* mark_crashed and emit_kernel_stopped, outside the queue.
GuardReact ==
  /\ guard = "gone"
  /\ state' = "crashed" /\ readiness' = NotReady
  /\ IF desired = "running"
       THEN guard' = "preflight" /\ UNCHANGED <<keepAlive, tunFails>>
       ELSE EndGuard
  /\ UNCHANGED <<desired, process, sysproxy, relay, replies,
                 queue, op, pc, attempt, clients, acked, budget>>

\* classify_guard_preflight, then the crash recovery is submitted.
GuardSubmit ==
  /\ guard = "preflight"
  /\ \/ /\ Fault("preflight") /\ MarkFailed /\ EndGuard
        /\ UNCHANGED queue
     \/ /\ CanSubmit
        /\ queue' = Append(queue, Request("recover", "guard"))
        /\ guard' = "waiting"
        /\ UNCHANGED <<kernel, keepAlive, tunFails, budget>>
  /\ UNCHANGED <<desired, process, sysproxy, relay, replies, op, pc, attempt, clients, acked>>

\* Mutant: a failed recovery is not tried again.
GuardAnswerNoRetry ==
  /\ guard = "waiting" /\ guardReply # "none"
  /\ guardReply' = "none"
  /\ \/ /\ guardReply = "ok"
        /\ guard' = "sleep" /\ tunFails' = 0
        /\ UNCHANGED <<kernel, keepAlive>>
     \/ /\ guardReply = "skipped" /\ EndGuard
        /\ UNCHANGED kernel
     \/ /\ guardReply = "err" /\ MarkFailed
        /\ guard' = "none" /\ UNCHANGED <<keepAlive, tunFails>>
  /\ UNCHANGED <<desired, process, sysproxy, relay, maintReply,
                 queue, op, pc, attempt, clients, acked, budget>>

GuardAnswer ==
  /\ guard = "waiting" /\ guardReply # "none"
  /\ guardReply' = "none"
  /\ \/ /\ guardReply = "ok"
        /\ guard' = "sleep" /\ tunFails' = 0
        /\ UNCHANGED <<kernel, keepAlive, budget>>
     \/ /\ guardReply = "skipped" /\ EndGuard
        /\ UNCHANGED <<kernel, budget>>
     \/ /\ guardReply = "err" /\ MarkFailed
        /\ \/ guard' = "sleep" /\ UNCHANGED <<keepAlive, tunFails, budget>>
           \/ Fault("sudo") /\ EndGuard
  /\ UNCHANGED <<desired, process, sysproxy, relay, maintReply,
                 queue, op, pc, attempt, clients, acked>>

Guard == GuardTick \/ GuardTun \/ GuardReact \/ GuardSubmit \/ GuardAnswer

-----------------------------------------------------------------------------
(* Commands and tasks on other threads. *)

Enqueue(kind, reply) == CanSubmit /\ queue' = Append(queue, Request(kind, reply))

Submit(kind) ==
  /\ Spend("submit")
  /\ Enqueue(kind, "nobody")
  /\ UNCHANGED <<kernel, desired, process, sysproxy, relay, guardVars, replies,
                 op, pc, attempt, clients, acked>>

\* The startup task reconciles once; the user may already have submitted operations.
StartupReconcile ==
  /\ ~reconciled /\ reconciled' = TRUE
  /\ Enqueue(IF AutoStart THEN "reconcile_run" ELSE "reconcile_stop", "nobody")
  /\ UNCHANGED <<kernel, desired, process, sysproxy, relay, guardVars, replies,
                 op, pc, attempt, maint, probe, live, acked, budget>>

\* download_kernel: suspend a running kernel, replace the binary, resume.
MaintStart ==
  /\ maint = "off" /\ Spend("maint")
  /\ \/ /\ managed \/ foreign
        /\ Enqueue("suspend", "maint") /\ maint' = "suspending"
     \/ /\ ~managed /\ ~foreign
        /\ maint' = "replacing_cold" /\ UNCHANGED queue
  /\ UNCHANGED <<kernel, desired, process, sysproxy, relay, guardVars, replies,
                 op, pc, attempt, probe, live, reconciled, acked>>

\* Mutant: a suspension that failed is waited out.
MaintSuspendedOnlyOk ==
  /\ maint = "suspending" /\ maintReply = "ok"
  /\ maint' = "replacing" /\ maintReply' = "none"
  /\ UNCHANGED <<kernel, desired, process, sysproxy, relay, guardVars, guardReply,
                 queue, op, pc, attempt, probe, live, reconciled, acked, budget>>

MaintSuspended ==
  /\ maint = "suspending" /\ maintReply # "none"
  /\ maint' = IF maintReply = "ok" THEN "replacing" ELSE "off"
  /\ maintReply' = "none"
  /\ UNCHANGED <<kernel, desired, process, sysproxy, relay, guardVars, guardReply,
                 queue, op, pc, attempt, probe, live, reconciled, acked, budget>>

\* install_kernel_from_archive; a failure returns without resuming.
MaintReplace ==
  /\ \/ /\ maint = "replacing"
        /\ Enqueue("resume", "maint") /\ maint' = "resuming" /\ UNCHANGED budget
     \/ /\ maint = "replacing"
        /\ Fault("install") /\ maint' = "off" /\ UNCHANGED queue
     \/ /\ maint = "replacing_cold"
        /\ maint' = "off" /\ UNCHANGED <<queue, budget>>
  /\ UNCHANGED <<kernel, desired, process, sysproxy, relay, guardVars, replies,
                 op, pc, attempt, probe, live, reconciled, acked>>

MaintResumed ==
  /\ maint = "resuming" /\ maintReply # "none"
  /\ maint' = "off" /\ maintReply' = "none"
  /\ UNCHANGED <<kernel, desired, process, sysproxy, relay, guardVars, guardReply,
                 queue, op, pc, attempt, probe, live, reconciled, acked, budget>>

\* kernel_get_status_enhanced reads the process, awaits the API probes and then
\* overwrites the readiness with what it saw.
ProbeRead ==
  /\ probe = "off" /\ Spend("probe")
  /\ probe' = IF managed \/ foreign THEN "alive" ELSE "dead"
  /\ UNCHANGED <<kernel, desired, process, sysproxy, relay, guardVars, replies,
                 queue, op, pc, attempt, maint, live, reconciled, acked>>

ProbeWrite ==
  /\ probe # "off" /\ probe' = "off"
  /\ \E api, relayReady \in BOOLEAN :
       /\ (probe = "dead" => ~api) /\ (relayReady => api)
       /\ readiness' = [alive |-> probe = "alive", api |-> api, relay |-> relayReady]
  /\ UNCHANGED <<state, desired, process, sysproxy, relay, guardVars, replies,
                 queue, op, pc, attempt, maint, live, reconciled, acked, budget>>

\* apply_proxy_settings: checks for a running kernel, later sets the system proxy.
LiveCheck ==
  /\ live = "off" /\ Spend("live")
  /\ managed \/ foreign
  /\ live' \in {"enable", "disable"}
  /\ UNCHANGED <<kernel, desired, process, sysproxy, relay, guardVars, replies,
                 queue, op, pc, attempt, maint, probe, reconciled, acked>>

LiveApply ==
  /\ live # "off" /\ live' = "off"
  /\ sysproxy' = (live = "enable")
  /\ UNCHANGED <<kernel, desired, process, relay, guardVars, replies,
                 queue, op, pc, attempt, maint, probe, reconciled, acked, budget>>

Maintenance == MaintSuspended \/ MaintReplace \/ MaintResumed
Clients == StartupReconcile \/ Maintenance \/ ProbeWrite \/ LiveApply

-----------------------------------------------------------------------------
(* The environment: users, and kernels that exit on their own. *)

Crash ==
  /\ managed /\ managed' = FALSE
  /\ Spend("crash")
  /\ UNCHANGED <<kernel, desired, foreign, sysproxy, relay, guardVars, replies,
                 queue, op, pc, attempt, clients, acked>>

ForeignExit ==
  /\ foreign /\ foreign' = FALSE
  /\ UNCHANGED <<kernel, desired, managed, sysproxy, relay, guardVars, replies,
                 queue, op, pc, attempt, clients, acked, budget>>

Environment ==
  \/ \E kind \in UserKinds : Submit(kind)
  \/ MaintStart \/ ProbeRead \/ LiveCheck
  \/ Crash \/ ForeignExit

Next == Worker \/ Guard \/ Clients \/ Environment

Spec == Init /\ [][Next]_vars

\* The worker thread, the guard task and a command once issued keep running; users,
\* crashes and commands not yet issued are under no obligation.
Fairness ==
  /\ WF_vars(Worker) /\ WF_vars(Guard)
  /\ WF_vars(StartupReconcile) /\ WF_vars(Maintenance)
  /\ WF_vars(ProbeWrite) /\ WF_vars(LiveApply)
FairSpec == Spec /\ Fairness

-----------------------------------------------------------------------------
(* Properties. *)

\* A kernel of ours is alive under a stop intent only until the stop operation that
\* set the intent kills it: no queued recovery, configuration change or resume
\* brings it back (lifecycle.rs:824-838 against guard.rs:417-443, 932-985, 1011-1041).
UserStopWins ==
  desired = "stopped" /\ managed => op.kind \in StopKinds /\ pc = "stop"

\* Once a stop has reported success, and until another operation begins, nothing it
\* is responsible for is left: process, guard, relay tasks, system proxy
\* (lifecycle.rs:1151-1176, manager.rs:879-939).
StopLeavesNothing ==
  acked => /\ desired = "stopped" /\ ~managed /\ ~foreign
           /\ ~keepAlive /\ guard = "none" /\ ~relay /\ ~sysproxy

\* A guard task exists exactly while KEEP_ALIVE_ENABLED is set, and one that waits has
\* exactly one operation or answer to wait for; one that does not wait has none
\* (guard.rs:204, 511-522 against the orphaned operations of an aborted guard).
GuardAccounting ==
  LET owed == {i \in DOMAIN queue : queue[i].reply = "guard"}
      sources == (IF op.reply = "guard" THEN 1 ELSE 0) + (IF guardReply # "none" THEN 1 ELSE 0)
  IN  /\ keepAlive <=> guard # "none"
      /\ IF guard = "waiting"
           THEN \/ sources = 1 /\ owed = {}
                \/ sources = 0 /\ \E i \in owed : owed = {i}
           ELSE sources = 0 /\ owed = {}

\* Between operations a kernel the session wants running is guarded
\* (lifecycle.rs:638-661, 1011-1041; docs/plans/kernel-lifecycle-refactor-plan.md:524).
DesiredRunningIsGuarded ==
  pc = "idle" /\ desired = "running" /\ managed => keepAlive

\* A start that failed and left no kernel leaves no system proxy pointing at one
\* (lifecycle.rs:441-459, 685-705; refactor plan lines 461-463).
FailureClearsProxy ==
  pc = "idle" /\ state = "failed" /\ ~managed /\ ~foreign => ~sysproxy

\* While the binary of a suspended kernel is replaced no kernel runs
\* (lifecycle.rs:987-1009, download.rs:268-317).
MaintenanceExcludesKernel == maint = "replacing" => ~managed

\* A confirmed stop has cleared the system proxy, and it stays clear
\* (lifecycle.rs:1071-1113 runs outside the queue; refactor plan line 505).
StopClearsProxy == acked => ~sysproxy

\* Every accepted operation runs to its end: the worker is never stuck behind the
\* guard's answer and no submitter waits for ever (orchestrator.rs:107-175).
EveryRequestServed == []<>(queue = <<>> /\ pc = "idle")

\* A guarded kernel that died is started again, however often that fails first,
\* unless the guard gives up or the session stops wanting it (guard.rs:358-487).
CrashRecovers ==
  keepAlive /\ desired = "running" /\ ~managed
    ~> managed \/ foreign \/ ~keepAlive \/ desired = "stopped"

\* An update that suspended the kernel gets to its end (download.rs:268-317).
MaintenanceEnds == maint = "suspending" ~> maint = "off"

Intent == INSTANCE KernelIntent WITH alive <- managed \/ foreign, confirmed <- acked

\* The lifecycle implements the session's promise.
ImplementsIntent == Intent!Spec
=============================================================================
