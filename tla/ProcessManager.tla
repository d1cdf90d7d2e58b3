--------------------------- MODULE ProcessManager ---------------------------
(***************************************************************************)
(* The process manager (process/manager.rs, Linux build): the handle of    *)
(* the child it spawned, the PID file that outlives the application, and   *)
(* the processes of the operating system both of them name.  The lifecycle *)
(* worker runs one operation at a time; the cleanup at startup runs on a   *)
(* manager of its own that shares only the PID file, and status commands   *)
(* ask is_running from other threads.  Processes exit, users start kernels *)
(* of their own, and the application dies, between any two steps.          *)
(*                                                                         *)
(* With TUN the child is a sudo that becomes the kernel or forks it; both  *)
(* belong to root and no plain kill reaches them.                          *)
(***************************************************************************)
EXTENDS Naturals, FiniteSets

CONSTANTS
  Pids,         \* process ids
  Tuns,         \* the TUN settings a start may run with
  OpKinds,      \* the operations the lifecycle submits
  MaxAttempts,  \* spawn attempts of start_inner
  FaultKinds,   \* the failures the environment may inject
  Budget        \* bounds on operations, sessions and what the environment does

NoPid == 0
AllOps == {"start", "stop", "recover", "heal"}
AllFaults == {"config", "environment", "spawn", "drain", "record", "sudo"}
BudgetKinds == {"op", "session", "exit", "program", "reader", "fault"}

ASSUME ProcessAssumption ==
  /\ Pids \subseteq Nat \ {NoPid} /\ IsFiniteSet(Pids)
  /\ Tuns \subseteq BOOLEAN
  /\ OpKinds \subseteq AllOps
  /\ MaxAttempts \in Nat \ {0}
  /\ FaultKinds \subseteq AllFaults
  /\ Budget \in [BudgetKinds -> Nat]

VARIABLES
  procs,    \* the processes that matter: kernels, sudo wrappers, reused PIDs
  fresh,    \* PIDs not used since the application started
  app,      \* the application runs
  handle,   \* ProcessManager::process, the PID of the child it holds
  record,   \* the content of .managed-kernel.pid
  op, tun, attempt,   \* the worker's operation
  pc,       \* where the worker and the startup cleanup are
  target,   \* the PID each of them has read or spawned and not yet dealt with
  reader,   \* the PID a concurrent is_running has read from the file
  guarded,  \* the guard that a start enabled, with GUARDED_TUN_ENABLED or without
  left,     \* history: our kernels that ran when the application started
  owed,     \* history: our kernels the running or last stop had to kill
  result,   \* history: the outcome of the last operation
  budget

worker == <<op, tun, attempt>>
history == <<left, owed>>
vars == <<procs, fresh, app, handle, record, worker, pc, target, reader, guarded,
          history, result, budget>>

Actors == {"worker", "startup"}
Process ==
  [pid : Pids, name : {"sing-box", "sudo", "other"}, root : BOOLEAN,
   origin : {"manager", "dropped", "user"}, parent : Pids \cup {NoPid}]
Pcs == {"idle", "force", "forceverify", "forceagain", "validate", "stop", "kill", "killcheck",
        "replace", "spawn", "persist", "verify", "done"}

TypeOK ==
  /\ procs \subseteq Process /\ fresh \subseteq Pids /\ app \in BOOLEAN
  /\ handle \in Pids \cup {NoPid} /\ record \in Pids \cup {NoPid}
  /\ op \in AllOps \cup {"none"} /\ tun \in BOOLEAN /\ attempt \in 0 .. MaxAttempts
  /\ pc \in [Actors -> Pcs] /\ target \in [Actors -> Pids \cup {NoPid}]
  /\ reader \in Pids \cup {NoPid} /\ guarded \in {"off", "plain", "tun"}
  /\ left \subseteq Pids /\ owed \subseteq Pids
  /\ result \in {"none", "started", "stopped", "failed"}
  /\ budget \in [BudgetKinds -> Nat]

Init ==
  /\ procs = {} /\ fresh = Pids /\ app = FALSE
  /\ handle = NoPid /\ record = NoPid
  /\ op = "none" /\ tun = FALSE /\ attempt = 0
  /\ pc = [a \in Actors |-> "idle"] /\ target = [a \in Actors |-> NoPid]
  /\ reader = NoPid /\ guarded = "off"
  /\ left = {} /\ owed = {} /\ result = "none"
  /\ budget = Budget

Spend(k) == budget[k] > 0 /\ budget' = [budget EXCEPT ![k] = @ - 1]
Fault(f) == f \in FaultKinds /\ Spend("fault")

-----------------------------------------------------------------------------
(* Processes. *)

Live == {q.pid : q \in procs}
Named(name) == {q \in procs : q.name = name}
WithPid(pid) == {q \in procs : q.pid = pid}

\* The kernels the manager spawned and took, not those an attempt dropped alive.
OurKernels == {q \in Named("sing-box") : q.origin = "manager"}

\* A sudo whose kernel does not run yet.
Pending == {s \in Named("sudo") : \A k \in procs : k.parent # s.pid}

\* platform_list_active_processes_by_name, which skips zombies.
Active == {q.pid : q \in Named("sing-box")}

\* A sudo ends with the kernel it waits for.
Without(dead) ==
  {q \in procs \ dead : ~\E k \in dead : k.parent = q.pid}

\* A kill without privilege does not reach a process of root.
PlainKill(victims) == procs' = Without({q \in victims : ~q.root})

\* sudo with the saved password, which may be missing or wrong.
SudoKill(victims) ==
  \/ procs' = Without(victims) /\ UNCHANGED budget
  \/ UNCHANGED procs /\ Fault("sudo")

\* ProcessManager::is_running: an exited child is reaped and its handle dropped,
\* then the PID file decides and is removed when it is stale.
IsRunning(running) ==
  \/ /\ running /\ handle \in Live
     /\ UNCHANGED <<handle, record>>
  \/ /\ running /\ handle \notin Live /\ record \in Active
     /\ handle' = NoPid /\ UNCHANGED record
  \/ /\ ~running /\ handle \notin Live /\ record \notin Active
     /\ handle' = NoPid /\ record' = NoPid

Goto(a, p) == pc' = [pc EXCEPT ![a] = p]
At(a, p) == app /\ pc[a] = p

Guarded(withTun) == IF withTun THEN "tun" ELSE "plain"

\* The operation returns to the lifecycle worker.  A start that succeeded enables the
\* guard, a stop has aborted it.
End(outcome) ==
  /\ op' = "none" /\ UNCHANGED <<tun, attempt>>
  /\ Goto("worker", "idle")
  /\ result' = outcome
  /\ guarded' = CASE outcome = "stopped" -> "off"
                  [] outcome = "started" /\ op = "start" -> Guarded(tun)
                  [] OTHER -> guarded

Continue(p) == Goto("worker", p) /\ UNCHANGED <<worker, guarded, result>>

-----------------------------------------------------------------------------
(* The operations the lifecycle worker runs. *)

Begin(kind) ==
  /\ At("worker", "idle") /\ kind \in OpKinds /\ Spend("op")
  /\ attempt' = 0

\* Mutant: an unmanaged kernel is not looked for.
BeginStartUnchecked(withTun) ==
  /\ Begin("start")
  /\ tun' = withTun
  /\ \E running \in BOOLEAN :
       /\ IsRunning(running)
       /\ IF running
            THEN /\ op' = "none" /\ result' = "started" /\ guarded' = Guarded(withTun)
                 /\ UNCHANGED pc
            ELSE /\ op' = "start" /\ result' = "none"
                 /\ Goto("worker", "validate")
                 /\ UNCHANGED guarded
  /\ UNCHANGED <<procs, fresh, app, target, reader, history>>

\* start_kernel_with_state_with_process: a managed kernel is kept, an unmanaged
\* one is killed by name.
BeginStart(withTun) ==
  /\ Begin("start")
  /\ tun' = withTun
  /\ \E running \in BOOLEAN :
       /\ IsRunning(running)
       /\ IF running
            THEN /\ op' = "none" /\ result' = "started" /\ guarded' = Guarded(withTun)
                 /\ UNCHANGED pc
            ELSE /\ op' = "start" /\ result' = "none"
                 /\ Goto("worker", IF Active = {} THEN "validate" ELSE "force")
                 /\ UNCHANGED guarded
  /\ UNCHANGED <<procs, fresh, app, target, reader, history>>

\* ProcessManager::stop, alone or as the first half of a self-heal's restart.
BeginStop(kind) ==
  /\ Begin(kind)
  /\ \/ kind = "stop" /\ UNCHANGED tun
     \/ kind = "heal" /\ guarded = "tun" /\ tun' = TRUE
  /\ op' = kind /\ result' = "none"
  /\ owed' = {q.pid : q \in OurKernels} \cap {handle, record}
  /\ Goto("worker", "stop")
  /\ UNCHANGED <<procs, fresh, app, handle, record, target, reader, guarded, left>>

\* The guard's recovery calls ProcessManager::start and nothing before it.
BeginRecover ==
  /\ Begin("recover") /\ guarded # "off"
  /\ tun' = (guarded = "tun")
  /\ op' = "recover" /\ result' = "none"
  /\ Goto("worker", "validate")
  /\ UNCHANGED <<procs, fresh, app, handle, record, target, reader, guarded, history>>

\* force_kill_kernel_processes_by_name: the plain kill, the forgotten handle and PID.
ForceKill ==
  /\ At("worker", "force")
  /\ PlainKill(Named("sing-box"))
  /\ handle' = NoPid /\ record' = NoPid
  /\ Continue("forceverify")
  /\ UNCHANGED <<fresh, app, target, reader, history, budget>>

\* Its first check, which falls back to sudo.
ForceVerify ==
  /\ At("worker", "forceverify")
  /\ IF Active = {}
       THEN Continue("validate") /\ UNCHANGED <<procs, budget>>
       ELSE Continue("forceagain") /\ SudoKill(Named("sing-box"))
  /\ UNCHANGED <<fresh, app, handle, record, target, reader, history>>

\* Mutant: the start goes on although a kernel still runs.
ForceAgainTrusting ==
  /\ At("worker", "forceagain")
  /\ Continue("validate")
  /\ UNCHANGED <<procs, fresh, app, handle, record, target, reader, history, budget>>

\* The later checks: a kernel that is still there ends the start.
ForceAgain ==
  /\ At("worker", "forceagain")
  /\ IF Active = {} THEN Continue("validate") ELSE End("failed")
  /\ UNCHANGED <<procs, fresh, app, handle, record, target, reader, history, budget>>

\* validate_config.
Validate ==
  /\ At("worker", "validate")
  /\ \/ Continue("kill") /\ UNCHANGED budget
     \/ Fault("config") /\ End("failed")
  /\ UNCHANGED <<procs, fresh, app, handle, record, target, reader, history>>

\* Mutant: the child is forgotten without being killed.
StopHandleForgets ==
  /\ At("worker", "stop")
  /\ UNCHANGED procs
  /\ handle' = NoPid
  /\ record' = IF handle = NoPid THEN record ELSE NoPid
  /\ Continue("kill")
  /\ UNCHANGED <<fresh, app, target, reader, history, budget>>

\* The first half of stop: the child is taken and killed, and the PID file removed
\* whether or not the kill reached it.
StopHandle ==
  /\ At("worker", "stop")
  /\ PlainKill(WithPid(handle))
  /\ handle' = NoPid
  /\ record' = IF handle = NoPid THEN record ELSE NoPid
  /\ Continue("kill")
  /\ UNCHANGED <<fresh, app, target, reader, history, budget>>

\* What follows kill_existing_processes: the end of a stop, the second half of a
\* restart, or the rest of a start.
AfterKill(a) ==
  CASE a = "startup" -> Goto("startup", "done") /\ UNCHANGED <<worker, guarded, result>>
    [] a = "worker" /\ op = "stop" -> End("stopped")
    [] a = "worker" /\ op = "heal" ->
         /\ op' = "recover" /\ Goto("worker", "validate")
         /\ UNCHANGED <<tun, attempt, guarded, result>>
    [] OTHER -> Continue("replace")

\* Mutant: the recorded PID is killed whatever program has it now.
KillExistingByPid(a) ==
  /\ At(a, "kill")
  /\ IF record = NoPid
       THEN AfterKill(a) /\ UNCHANGED <<procs, target>>
       ELSE /\ PlainKill(WithPid(record))
            /\ target' = [target EXCEPT ![a] = record]
            /\ Goto(a, "killcheck") /\ UNCHANGED <<worker, guarded, result>>
  /\ UNCHANGED <<fresh, app, handle, record, reader, history, budget>>

\* kill_existing_processes up to the first kill: only a recorded PID that is now the
\* PID of a kernel is killed, any other record is removed.
KillExisting(a) ==
  /\ At(a, "kill")
  /\ \/ /\ record \notin Active
        /\ record' = NoPid
        /\ AfterKill(a) /\ UNCHANGED <<procs, target>>
     \/ /\ record \in Active
        /\ PlainKill(WithPid(record))
        /\ target' = [target EXCEPT ![a] = record]
        /\ Goto(a, "killcheck") /\ UNCHANGED <<record, worker, guarded, result>>
  /\ UNCHANGED <<fresh, app, handle, reader, history, budget>>

\* 250 ms later: a survivor is killed with sudo, the PID file is removed in any case.
KillCheck(a) ==
  /\ At(a, "killcheck")
  /\ SudoKill({q \in Named("sing-box") : q.pid = target[a]})
  /\ record' = NoPid
  /\ target' = [target EXCEPT ![a] = NoPid]
  /\ AfterKill(a)
  /\ UNCHANGED <<fresh, app, handle, reader, history>>

\* Mutant: a child that still runs is kept beside the new one.
ReplaceHandleKeepsChild ==
  /\ At("worker", "replace")
  /\ handle' = NoPid
  /\ record' = IF handle = NoPid THEN record ELSE NoPid
  /\ Goto("worker", "spawn") /\ attempt' = 1
  /\ UNCHANGED <<op, tun, guarded, result, budget>>
  /\ UNCHANGED <<procs, fresh, app, target, reader, history>>

\* start_inner drops the child it still holds, killed or not, and looks at the
\* environment.
ReplaceHandle ==
  /\ At("worker", "replace")
  /\ PlainKill(WithPid(handle))
  /\ handle' = NoPid
  /\ record' = IF handle = NoPid THEN record ELSE NoPid
  /\ \/ /\ Goto("worker", "spawn") /\ attempt' = 1
        /\ UNCHANGED <<op, tun, guarded, result, budget>>
     \/ Fault("environment") /\ End("failed")
  /\ UNCHANGED <<fresh, app, target, reader, history>>

\* Mutant: one attempt too many.
RetryOnceMore ==
  IF attempt <= MaxAttempts
    THEN /\ Goto("worker", "spawn") /\ attempt' = attempt + 1
         /\ UNCHANGED <<op, tun, guarded, result>>
    ELSE End("failed")

Retry ==
  IF attempt < MaxAttempts
    THEN /\ Goto("worker", "spawn") /\ attempt' = attempt + 1
         /\ UNCHANGED <<op, tun, guarded, result>>
    ELSE End("failed")

\* Without TUN the thread that reads the child's stderr may fail to start: the child,
\* which runs, is dropped, neither killed nor held, and the attempt has failed.
DropChild ==
  /\ ~tun /\ Fault("drain") /\ Retry
  /\ \E p \in fresh :
       /\ procs' = procs \cup
            {[pid |-> p, name |-> "sing-box", root |-> FALSE, origin |-> "dropped",
              parent |-> NoPid]}
       /\ fresh' = fresh \ {p}
  /\ UNCHANGED <<handle, target>>

\* try_start_kernel_process; the child is held before its PID is recorded.
Spawn ==
  /\ At("worker", "spawn")
  /\ \/ \E p \in fresh :
          /\ procs' = procs \cup
               {[pid |-> p, name |-> IF tun THEN "sudo" ELSE "sing-box", root |-> tun,
                 origin |-> "manager", parent |-> NoPid]}
          /\ fresh' = fresh \ {p}
          /\ handle' = p
          /\ target' = [target EXCEPT !["worker"] = p]
          /\ Continue("persist") /\ UNCHANGED budget
     \/ /\ Fault("spawn") /\ Retry
        /\ UNCHANGED <<procs, fresh, handle, target>>
     \/ DropChild
  /\ UNCHANGED <<app, record, reader, history>>

\* persist_started_process_pid.  With TUN, resolve_linux_managed_kernel_pid takes the
\* child if it is a kernel, else the kernel with the largest PID, and gives up when
\* its polls see none.
Persist ==
  /\ At("worker", "persist")
  /\ LET child == target["worker"]
         candidates ==
           CASE ~tun \/ child \in Active -> {child}
             [] Active = {} -> {NoPid}
             [] OTHER -> {p \in Active : \A q \in Active : q <= p}
     IN  \/ record' \in candidates /\ UNCHANGED budget
         \/ Fault("record") /\ UNCHANGED record
  /\ target' = [target EXCEPT !["worker"] = NoPid]
  /\ Continue("verify")
  /\ UNCHANGED <<procs, fresh, app, handle, reader, history>>

\* verify_startup and cleanup_failed_process, which finds the handle already gone.
Verify ==
  /\ At("worker", "verify")
  /\ \E running \in BOOLEAN :
       IsRunning(running) /\ IF running THEN End("started") ELSE Retry
  /\ UNCHANGED <<procs, fresh, app, target, reader, history, budget>>

Worker ==
  \/ \E withTun \in Tuns : BeginStart(withTun)
  \/ BeginStop("stop") \/ BeginStop("heal") \/ BeginRecover
  \/ ForceKill \/ ForceVerify \/ ForceAgain
  \/ Validate \/ StopHandle \/ KillExisting("worker") \/ KillCheck("worker")
  \/ ReplaceHandle \/ Spawn \/ Persist \/ Verify

\* lib.rs: a process manager of its own cleans up what an earlier session recorded.
Startup == KillExisting("startup") \/ KillCheck("startup")

-----------------------------------------------------------------------------
(* is_running on another thread (kernel_get_status_enhanced, is_kernel_running). *)

\* It finds no running child and reads the PID file.
ReaderRead ==
  /\ app /\ reader = NoPid /\ Spend("reader")
  /\ handle \notin Live /\ record # NoPid
  /\ handle' = NoPid /\ reader' = record
  /\ UNCHANGED <<procs, fresh, app, record, worker, pc, target, guarded, history, result>>

\* It lists the kernels and removes the PID file if the PID it read is not one of
\* them, whatever the file says by now.
ReaderCompare ==
  /\ app /\ reader # NoPid
  /\ reader' = NoPid
  /\ record' = IF reader \in Active THEN record ELSE NoPid
  /\ UNCHANGED <<procs, fresh, app, handle, worker, pc, target, guarded, history, result, budget>>

-----------------------------------------------------------------------------
(* The environment. *)

\* The application dies where it is; kernels and the PID file stay.
AppDies ==
  /\ app /\ app' = FALSE
  /\ handle' = NoPid /\ reader' = NoPid /\ guarded' = "off"
  /\ op' = "none" /\ result' = "none" /\ UNCHANGED <<tun, attempt>>
  /\ pc' = [a \in Actors |-> "idle"] /\ target' = [a \in Actors |-> NoPid]
  /\ left' = {} /\ owed' = {}
  /\ UNCHANGED <<procs, fresh, record, budget>>

\* A PID is handed out again only after the session that used it, and a sudo has
\* started its kernel before the application is back.
AppStarts ==
  /\ ~app /\ app' = TRUE /\ Spend("session")
  /\ Pending = {}
  /\ Goto("startup", "kill")
  /\ fresh' = Pids \ Live
  /\ left' = {q.pid : q \in OurKernels}
  /\ UNCHANGED <<procs, handle, record, worker, target, reader, guarded, owed, result>>

\* sudo executes the kernel in its own process, or forks it and waits.
SudoRuns ==
  \E s \in Pending :
    /\ \/ /\ procs' = (procs \ {s}) \cup {[s EXCEPT !.name = "sing-box"]}
          /\ UNCHANGED fresh
       \/ \E p \in fresh :
            /\ procs' = procs \cup
                 {[pid |-> p, name |-> "sing-box", root |-> TRUE, origin |-> "manager",
                   parent |-> s.pid]}
            /\ fresh' = fresh \ {p}
    /\ UNCHANGED <<app, handle, record, worker, pc, target, reader, guarded, history,
                   result, budget>>

KernelExits ==
  /\ Spend("exit")
  /\ \E q \in Named("sing-box") : procs' = Without({q})
  /\ UNCHANGED <<fresh, app, handle, record, worker, pc, target, reader, guarded, history,
                 result>>

\* A user runs a kernel of their own; between two sessions a PID may also go to an
\* unrelated program.
ProgramStarts ==
  /\ Spend("program")
  /\ \E p \in IF app THEN fresh ELSE Pids \ Live, name \in {"sing-box", "other"} :
       /\ app => name = "sing-box"
       /\ procs' = procs \cup
            {[pid |-> p, name |-> name, root |-> FALSE, origin |-> "user", parent |-> NoPid]}
       /\ fresh' = fresh \ {p}
  /\ UNCHANGED <<app, handle, record, worker, pc, target, reader, guarded, history, result>>

Environment == AppDies \/ AppStarts \/ SudoRuns \/ KernelExits \/ ProgramStarts

Next == Worker \/ Startup \/ ReaderRead \/ ReaderCompare \/ Environment

Spec == Init /\ [][Next]_vars

-----------------------------------------------------------------------------
(* Properties. *)

\* A PID file that outlived its kernel never costs an unrelated program its life:
\* whatever is killed bears the kernel's name at the time (manager.rs:731-776).
SparesOtherPrograms == [][Named("other") \subseteq procs']_vars

\* A start that succeeded leaves at most one kernel that the manager took, beside those
\* whose stderr reader could not start: whatever an application that died in the middle
\* of a start or stop left behind, whatever a sudo refused to kill, and although dropped
\* kernels run beside it and are killed, recorded or found by their name
\* (lifecycle.rs:461-545, manager.rs:384-536, 621-625).
StartLeavesOne == result = "started" => Cardinality(OurKernels) <= 1

\* The same of every kernel spawned, dropped ones too: not so, an attempt whose stderr
\* reader cannot start leaves its kernel running beside the next attempt's
\* (manager.rs:466-531, 624; Known limits).
StartIsAlone ==
  result = "started"
    => Cardinality({q \in Named("sing-box") : q.origin # "user"}) <= 1

\* Between operations every kernel that this session spawned and took is held: none is
\* lost by a failed attempt, a stop, a status query or the cleanup at startup.  The one
\* kernel an attempt does lose is the one dropped before it is taken, because its stderr
\* reader could not start (manager.rs:405-536, 621-625, 879-939, 1057-1093).
NoStrayKernel ==
  pc["worker"] = "idle" => \A q \in OurKernels : app => q.pid \in left \cup {handle}

\* A stop kills the kernels whose PID the manager held or had recorded when it began
\* (manager.rs:879-939; docs/CHANGELOG.md:136).
StopKillsManaged ==
  result = "stopped" => \A q \in OurKernels : q.pid \notin owed

\* The cleanup at startup kills what an earlier session left and nothing that this
\* session started (lib.rs:154-162).
StartupKillsLeftovers ==
  [][pc'["startup"] # pc["startup"] /\ app'
       => \A q \in procs \ procs' : q.origin = "manager" => q.pid \in left]_vars

=============================================================================
