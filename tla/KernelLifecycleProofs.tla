----------------------- MODULE KernelLifecycleProofs -----------------------
(***************************************************************************)
(* Proofs about KernelLifecycle, for every queue capacity, number of spawn *)
(* attempts, set of failures and budget: its types, that the user's stop   *)
(* wins, that it implements KernelIntent, that a confirmed stop leaves     *)
(* nothing behind, and that the guard's request is neither lost nor        *)
(* doubled.                                                                *)
(***************************************************************************)
EXTENDS KernelLifecycle, SequenceTheorems, TLAPS

-----------------------------------------------------------------------------
(* What the operators of the model return. *)

\* Taking the head of a non-empty queue yields an operation and a queue.
LEMMA QueueTake ==
  ASSUME NEW q \in Seq(Ops), q # <<>>
  PROVE  Head(q) \in Ops /\ Tail(q) \in Seq(Ops)
  OBVIOUS

\* Aborting a guard turns a queue into a queue of the same operations, none of which is
\* answered to a guard.
LEMMA OrphanedQueue ==
  ASSUME NEW q \in Seq(Ops)
  PROVE  /\ Orphaned(q) \in Seq(Ops)
         /\ Len(Orphaned(q)) = Len(q)
         /\ \A i \in 1 .. Len(q) : Orphaned(q)[i].kind = q[i].kind
                                   /\ Orphaned(q)[i].reply # "guard"
<1> DEFINE orphan(o) == IF o.reply = "guard" THEN [o EXCEPT !.reply = "nobody"] ELSE o
<1>1. DOMAIN q = 1 .. Len(q) /\ Len(q) \in Nat
  OBVIOUS
<1>2. \A i \in 1 .. Len(q) : q[i] \in Ops
  OBVIOUS
<1>3. \A o \in Ops : orphan(o) \in Ops /\ orphan(o).kind = o.kind /\ orphan(o).reply # "guard"
  BY DEF Ops
<1>4. Orphaned(q) = [i \in 1 .. Len(q) |-> orphan(q[i])]
  BY <1>1 DEF Orphaned
<1> HIDE DEF orphan
<1>5. Orphaned(q) \in [1 .. Len(q) -> Ops]
  BY <1>2, <1>3, <1>4
<1>6. Orphaned(q) \in Seq(Ops)
  BY <1>1, <1>5, SeqDef
<1>7. Len(Orphaned(q)) = Len(q)
  BY <1>1, <1>4, <1>6, LenProperties
<1> QED
  BY <1>2, <1>3, <1>4, <1>6, <1>7

\* Every way a step changes the queue yields a queue of operations.
LEMMA QueueUpdates ==
  /\ \A q \in Seq(Ops) : q # <<>> => Head(q) \in Ops /\ Tail(q) \in Seq(Ops)
  /\ \A q \in Seq(Ops) : Orphaned(q) \in Seq(Ops)
  /\ \A q \in Seq(Ops), o \in Ops : Append(q, o) \in Seq(Ops)
  /\ \A kind \in OpKinds, reply \in {"nobody", "guard", "maint"} : Request(kind, reply) \in Ops
  /\ SubmitKinds \subseteq OpKinds
  /\ {"recover", "heal", "reconcile_run", "reconcile_stop", "suspend", "resume"} \subseteq OpKinds
<1>1. \A kind \in OpKinds, reply \in {"nobody", "guard", "maint"} : Request(kind, reply) \in Ops
  BY DEF Request, Ops
<1>2. \A q \in Seq(Ops), o \in Ops : Append(q, o) \in Seq(Ops)
  OBVIOUS
<1> QED BY QueueTake, OrphanedQueue, <1>1, <1>2 DEF OpKinds, GuardKinds

\* Every update of the readiness yields a readiness.
LEMMA ReadinessUpdates ==
  /\ NotReady \in Readiness /\ ProcessReady \in Readiness /\ FullyReady \in Readiness
  /\ \A r \in Readiness, b, c \in BOOLEAN :
       /\ [r EXCEPT !.alive = b] \in Readiness
       /\ [r EXCEPT !.alive = b, !.api = c] \in Readiness
       /\ [r EXCEPT !.api = b, !.relay = c] \in Readiness
  /\ \A a, b, c \in BOOLEAN : [alive |-> a, api |-> b, relay |-> c] \in Readiness
  BY DEF Readiness, NotReady, ProcessReady, FullyReady

\* The attempt count can be set to one and raised up to its bound.
LEMMA AttemptTyped ==
  /\ MaxAttempts \in Nat /\ 0 \in 0 .. MaxAttempts /\ 1 \in 0 .. MaxAttempts
  /\ \A n \in 0 .. MaxAttempts : n < MaxAttempts => n + 1 \in 0 .. MaxAttempts
  BY ConstantsAssumption

\* So can the count of failed connectivity probes.
LEMMA ThresholdTyped ==
  /\ TunThreshold \in Nat /\ 0 \in 0 .. TunThreshold
  /\ \A n \in 0 .. TunThreshold : n < TunThreshold => n + 1 \in 0 .. TunThreshold
  BY ConstantsAssumption

\* Spending keeps the budget a function to the naturals.
LEMMA SpendTyped ==
  ASSUME ClientsTyped, NEW k \in BudgetKinds, Spend(k)
  PROVE  budget' \in [BudgetKinds -> Nat]
  BY DEF ClientsTyped, Spend

\* So does everything that may spend.
LEMMA BudgetUpdates ==
  ASSUME ClientsTyped
  PROVE  /\ \A k \in BudgetKinds : Spend(k) => budget' \in [BudgetKinds -> Nat]
         /\ \A f : Fault(f) => budget' \in [BudgetKinds -> Nat]
         /\ \A seen : Detect(seen) => budget' \in [BudgetKinds -> Nat]
         /\ {"submit", "crash", "tun", "probe", "live", "maint"} \subseteq BudgetKinds
<1>1. "fault" \in BudgetKinds /\ {"submit", "crash", "tun", "probe", "live", "maint"} \subseteq BudgetKinds
  BY DEF BudgetKinds
<1>2. \A k \in BudgetKinds : Spend(k) => budget' \in [BudgetKinds -> Nat]
  BY SpendTyped
<1>3. \A f : Fault(f) => budget' \in [BudgetKinds -> Nat]
  BY <1>1, <1>2 DEF Fault
<1>4. \A seen : Detect(seen) => budget' \in [BudgetKinds -> Nat]
  BY <1>3 DEF Detect, ClientsTyped
<1> QED BY <1>1, <1>2, <1>3, <1>4

-----------------------------------------------------------------------------
(* Type correctness. *)

\* The initial state has its types.
LEMMA InitTyped == Init => TypeOK
<1> SUFFICES ASSUME Init PROVE TypeOK
  OBVIOUS
<1>1. KernelTyped
  BY DEF Init, KernelTyped, KernelStates, DesiredStates, Readiness, NotReady
<1>2. SystemTyped
  BY ConstantsAssumption DEF Init, SystemTyped
<1>3. GuardTyped
  BY ThresholdTyped DEF Init, GuardTyped, GuardPcs, Answers
<1>4. QueueTyped
  BY DEF Init, QueueTyped
<1>5. WorkerTyped
  BY AttemptTyped DEF Init, WorkerTyped, WorkerPcs
<1>6. ClientsTyped
  BY ConstantsAssumption DEF Init, ClientsTyped, Answers
<1> QED
  BY <1>1, <1>2, <1>3, <1>4, <1>5, <1>6 DEF TypeOK

\* Every step keeps the types of the kernel state, the intent and the readiness.
LEMMA KernelTypedKept ==
  ASSUME TypeOK, [Next]_vars
  PROVE  KernelTyped'
<1> USE DEF TypeOK, KernelTyped, KernelStates, DesiredStates, NotReady, ProcessReady,
      FullyReady, kernel, process, guardVars, replies, clients
<1>1. CASE BeginStart
  BY <1>1, ReadinessUpdates DEF BeginStart
<1>2. CASE BeginStop
  BY <1>2, ReadinessUpdates DEF BeginStop, EnterStop
<1>3. CASE BeginRestart
  BY <1>3, ReadinessUpdates DEF BeginRestart
<1>4. CASE BeginReconcile("reconcile_run", "running")
  BY <1>4, ReadinessUpdates DEF BeginReconcile, EnterStop
<1>5. CASE BeginReconcile("reconcile_stop", "stopped")
  BY <1>5, ReadinessUpdates DEF BeginReconcile, EnterStop
<1>6. CASE BeginSuspend
  BY <1>6, ReadinessUpdates DEF BeginSuspend, EnterStop
<1>7. CASE Resolve
  BY <1>7, ReadinessUpdates DEF Resolve, EnterStop, EnterStart
<1>8. CASE Prepare
  BY <1>8, ReadinessUpdates DEF Prepare, MarkFailed
<1>9. CASE CheckRunning
  BY <1>9, ReadinessUpdates DEF CheckRunning
<1>10. CASE CleanConflict
  BY <1>10, ReadinessUpdates DEF CleanConflict, MarkFailed
<1>11. CASE Validate
  BY <1>11, ReadinessUpdates DEF Validate, MarkFailed
<1>12. CASE Spawn
  BY <1>12, ReadinessUpdates DEF Spawn, Retry, StartError, MarkFailed
<1>13. CASE Verify
  BY <1>13, ReadinessUpdates DEF Verify, Retry, StartError, MarkFailed
<1>14. CASE StabilityFresh
  BY <1>14, ReadinessUpdates DEF StabilityFresh, MarkFailed
<1>15. CASE StabilityRunning
  BY <1>15, ReadinessUpdates DEF StabilityRunning
<1>16. CASE Started
  BY <1>16, ReadinessUpdates DEF Started
<1>17. CASE StopKernel
  BY <1>17, ReadinessUpdates DEF StopKernel, StopFailed, MarkFailed
<1>18. CASE StopCheck
  BY <1>18, ReadinessUpdates DEF StopCheck, StopFailed, EnterStart, MarkFailed
<1>19. CASE ForceKill
  BY <1>19, ReadinessUpdates DEF ForceKill, EnterStart
<1>20. CASE GuardReact
  BY <1>20, ReadinessUpdates DEF GuardReact
<1>21. CASE GuardSubmit
  BY <1>21, ReadinessUpdates DEF GuardSubmit, MarkFailed
<1>22. CASE GuardAnswer
  BY <1>22, ReadinessUpdates DEF GuardAnswer, MarkFailed
<1>23. CASE ProbeWrite
  BY ZenonT(30), <1>23, ReadinessUpdates DEF ProbeWrite
<1>24. CASE BeginApply("apply_restart", "restart_if_running") \/
           BeginApply("apply_hot", "hot_apply") \/ BeginResume \/ BeginGuardOp
  BY <1>24 DEF BeginApply, BeginResume, BeginGuardOp
<1>25. CASE StopTimeout \/ CleanStop
  BY <1>25 DEF StopTimeout, CleanStop
<1>26. CASE GuardTick \/ GuardTun
  BY <1>26 DEF GuardTick, GuardTun
<1>27. CASE StartupReconcile \/ MaintSuspended \/ MaintReplace \/ MaintResumed \/ LiveApply
  BY <1>27 DEF StartupReconcile, MaintSuspended, MaintReplace, MaintResumed, LiveApply
<1>28. CASE (\E kind \in UserKinds : Submit(kind)) \/ MaintStart \/ ProbeRead \/ LiveCheck
           \/ Crash \/ ForeignExit
  BY <1>28 DEF Submit, MaintStart, ProbeRead, LiveCheck, Crash, ForeignExit
<1>29. CASE UNCHANGED vars
  BY <1>29 DEF vars
<1> QED
  BY <1>1, <1>2, <1>3, <1>4, <1>5, <1>6, <1>7, <1>8, <1>9, <1>10, <1>11, <1>12, <1>13,
      <1>14, <1>15, <1>16, <1>17, <1>18, <1>19, <1>20, <1>21, <1>22, <1>23, <1>24, <1>25,
      <1>26, <1>27, <1>28, <1>29 DEF Next, Worker, Guard, Clients, Maintenance, Environment

\* Every step keeps the types of the processes, the system proxy and the relay.
LEMMA SystemTypedKept ==
  ASSUME TypeOK, [Next]_vars
  PROVE  SystemTyped'
<1> USE DEF TypeOK, SystemTyped, kernel, process, guardVars, replies, clients
<1>1. CASE BeginStop
  BY <1>1 DEF BeginStop, EnterStop
<1>2. CASE BeginReconcile("reconcile_run", "running")
  BY <1>2 DEF BeginReconcile, EnterStop
<1>3. CASE BeginReconcile("reconcile_stop", "stopped")
  BY <1>3 DEF BeginReconcile, EnterStop
<1>4. CASE BeginSuspend
  BY <1>4 DEF BeginSuspend, EnterStop
<1>5. CASE Resolve
  BY <1>5 DEF Resolve, EnterStop
<1>6. CASE Prepare
  BY <1>6, ConstantsAssumption DEF Prepare
<1>7. CASE CleanConflict
  BY <1>7 DEF CleanConflict
<1>8. CASE Validate
  BY <1>8 DEF Validate
<1>9. CASE Spawn
  BY <1>9 DEF Spawn
<1>10. CASE Verify
  BY <1>10 DEF Verify
<1>11. CASE StabilityFresh
  BY <1>11 DEF StabilityFresh
<1>12. CASE StabilityRunning
  BY <1>12 DEF StabilityRunning
<1>13. CASE Started
  BY <1>13 DEF Started
<1>14. CASE StopKernel
  BY <1>14 DEF StopKernel, StopProcess
<1>15. CASE ForceKill
  BY <1>15 DEF ForceKill
<1>16. CASE CleanStop
  BY <1>16 DEF CleanStop, StopProcess
<1>17. CASE LiveApply
  BY <1>17 DEF LiveApply
<1>18. CASE Crash
  BY <1>18 DEF Crash
<1>19. CASE ForeignExit
  BY <1>19 DEF ForeignExit
<1>20. CASE BeginStart \/ BeginRestart \/ BeginApply("apply_restart", "restart_if_running")
           \/ BeginApply("apply_hot", "hot_apply") \/ BeginResume \/ BeginGuardOp
  BY <1>20 DEF BeginStart, BeginRestart, BeginApply, BeginResume, BeginGuardOp
<1>21. CASE CheckRunning \/ StopCheck \/ StopTimeout
  BY <1>21 DEF CheckRunning, StopCheck, StopTimeout
<1>22. CASE GuardTick \/ GuardTun \/ GuardReact \/ GuardSubmit \/ GuardAnswer
  BY <1>22 DEF GuardTick, GuardTun, GuardReact, GuardSubmit, GuardAnswer
<1>23. CASE StartupReconcile \/ MaintSuspended \/ MaintReplace \/ MaintResumed \/ ProbeWrite
  BY <1>23 DEF StartupReconcile, MaintSuspended, MaintReplace, MaintResumed, ProbeWrite
<1>24. CASE (\E kind \in UserKinds : Submit(kind)) \/ MaintStart \/ ProbeRead \/ LiveCheck
  BY <1>24 DEF Submit, MaintStart, ProbeRead, LiveCheck
<1>25. CASE UNCHANGED vars
  BY <1>25 DEF vars
<1> QED
  BY <1>1, <1>2, <1>3, <1>4, <1>5, <1>6, <1>7, <1>8, <1>9, <1>10, <1>11, <1>12, <1>13,
      <1>14, <1>15, <1>16, <1>17, <1>18, <1>19, <1>20, <1>21, <1>22, <1>23, <1>24, <1>25 DEF
      Next, Worker, Guard, Clients, Maintenance, Environment

\* Every step keeps the types of the guard's variables.
LEMMA GuardTypedKept ==
  ASSUME TypeOK, [Next]_vars
  PROVE  GuardTyped'
<1> USE DEF TypeOK, GuardTyped, GuardPcs, Answers, kernel, process, guardVars, replies,
      clients
<1>1. CASE BeginStop
  BY <1>1, ThresholdTyped DEF BeginStop, EnterStop
<1>2. CASE BeginRestart
  BY <1>2, ThresholdTyped DEF BeginRestart, Skip, Finish
<1>3. CASE BeginReconcile("reconcile_run", "running")
  BY <1>3, ThresholdTyped DEF BeginReconcile, EnterStop, Skip, Finish
<1>4. CASE BeginReconcile("reconcile_stop", "stopped")
  BY <1>4, ThresholdTyped DEF BeginReconcile, EnterStop, Skip, Finish
<1>5. CASE BeginApply("apply_restart", "restart_if_running")
  BY <1>5, ThresholdTyped DEF BeginApply, Skip, Finish
<1>6. CASE BeginApply("apply_hot", "hot_apply")
  BY <1>6, ThresholdTyped DEF BeginApply, Skip, Finish
<1>7. CASE BeginSuspend
  BY <1>7, ThresholdTyped DEF BeginSuspend, EnterStop, Skip, Finish
<1>8. CASE BeginResume
  BY <1>8, ThresholdTyped DEF BeginResume, Skip, Finish
<1>9. CASE BeginGuardOp
  BY <1>9, ThresholdTyped DEF BeginGuardOp, Skip, Finish
<1>10. CASE Resolve
  BY <1>10, ThresholdTyped DEF Resolve, Finish, EnterStop
<1>11. CASE Prepare
  BY <1>11, ThresholdTyped DEF Prepare, Finish, Goto
<1>12. CASE CleanConflict
  BY <1>12, ThresholdTyped DEF CleanConflict, Finish, Goto
<1>13. CASE Validate
  BY <1>13, ThresholdTyped DEF Validate, Finish, Goto
<1>14. CASE Spawn
  BY <1>14, ThresholdTyped DEF Spawn, Goto, Retry, StartError, Finish
<1>15. CASE Verify
  BY <1>15, ThresholdTyped DEF Verify, Goto, Retry, StartError, Finish
<1>16. CASE StabilityRunning
  BY <1>16, ThresholdTyped DEF StabilityRunning, Goto, Finish
<1>17. CASE Started
  BY <1>17, ThresholdTyped DEF Started, Finish
<1>18. CASE StopKernel
  BY <1>18, ThresholdTyped DEF StopKernel, StopFailed, Goto, Finish
<1>19. CASE StopCheck
  BY <1>19, ThresholdTyped DEF StopCheck, StopFailed, Finish, Goto
<1>20. CASE CleanStop
  BY <1>20, ThresholdTyped DEF CleanStop, Goto, Finish
<1>21. CASE GuardTick
  BY <1>21, ThresholdTyped DEF GuardTick
<1>22. CASE GuardTun
  BY <1>22, ThresholdTyped DEF GuardTun
<1>23. CASE GuardReact
  BY <1>23, ThresholdTyped DEF GuardReact, EndGuard
<1>24. CASE GuardSubmit
  BY <1>24, ThresholdTyped DEF GuardSubmit, EndGuard
<1>25. CASE GuardAnswer
  BY <1>25, ThresholdTyped DEF GuardAnswer, EndGuard
<1>26. CASE BeginStart
  BY <1>26 DEF BeginStart
<1>27. CASE CheckRunning \/ StabilityFresh \/ StopTimeout \/ ForceKill
  BY <1>27 DEF CheckRunning, Goto, StabilityFresh, StopTimeout, ForceKill
<1>28. CASE StartupReconcile \/ MaintSuspended \/ MaintReplace \/ MaintResumed \/ ProbeWrite
           \/ LiveApply
  BY <1>28 DEF StartupReconcile, MaintSuspended, MaintReplace, MaintResumed, ProbeWrite,
      LiveApply
<1>29. CASE (\E kind \in UserKinds : Submit(kind)) \/ MaintStart \/ ProbeRead \/ LiveCheck
           \/ Crash \/ ForeignExit
  BY <1>29 DEF Submit, MaintStart, ProbeRead, LiveCheck, Crash, ForeignExit
<1>30. CASE UNCHANGED vars
  BY <1>30 DEF vars
<1> QED
  BY <1>1, <1>2, <1>3, <1>4, <1>5, <1>6, <1>7, <1>8, <1>9, <1>10, <1>11, <1>12, <1>13,
      <1>14, <1>15, <1>16, <1>17, <1>18, <1>19, <1>20, <1>21, <1>22, <1>23, <1>24, <1>25,
      <1>26, <1>27, <1>28, <1>29, <1>30 DEF Next, Worker, Guard, Clients, Maintenance,
      Environment

\* Every step keeps the types of the queue and the operation being executed.
LEMMA QueueTypedKept ==
  ASSUME TypeOK, [Next]_vars
  PROVE  QueueTyped'
<1> USE DEF TypeOK, QueueTyped, kernel, process, guardVars, replies, clients
<1>1. CASE BeginStart
  BY <1>1, QueueUpdates DEF BeginStart, Begin, Take
<1>2. CASE BeginStop
  BY <1>2, QueueUpdates DEF BeginStop, Begin, Take, EnterStop
<1>3. CASE BeginRestart
  BY <1>3, QueueUpdates DEF BeginRestart, Begin, Take, Skip, Finish
<1>4. CASE BeginReconcile("reconcile_run", "running")
  BY <1>4, QueueUpdates DEF BeginReconcile, Begin, Take, EnterStop, Skip, Finish
<1>5. CASE BeginReconcile("reconcile_stop", "stopped")
  BY <1>5, QueueUpdates DEF BeginReconcile, Begin, Take, EnterStop, Skip, Finish
<1>6. CASE BeginApply("apply_restart", "restart_if_running")
  BY <1>6, QueueUpdates DEF BeginApply, Begin, Take, Skip, Finish
<1>7. CASE BeginApply("apply_hot", "hot_apply")
  BY <1>7, QueueUpdates DEF BeginApply, Begin, Take, Skip, Finish
<1>8. CASE BeginSuspend
  BY <1>8, QueueUpdates DEF BeginSuspend, Begin, Take, EnterStop, Skip, Finish
<1>9. CASE BeginResume
  BY <1>9, QueueUpdates DEF BeginResume, Begin, Skip, Take, Finish
<1>10. CASE BeginGuardOp
  BY <1>10, QueueUpdates DEF BeginGuardOp, Begin, Take, Skip, Finish
<1>11. CASE Resolve
  BY <1>11, QueueUpdates DEF Resolve, Finish, EnterStop
<1>12. CASE Prepare
  BY <1>12, QueueUpdates DEF Prepare, Finish, Goto
<1>13. CASE CleanConflict
  BY <1>13, QueueUpdates DEF CleanConflict, Finish, Goto
<1>14. CASE Validate
  BY <1>14, QueueUpdates DEF Validate, Finish, Goto
<1>15. CASE Spawn
  BY <1>15, QueueUpdates DEF Spawn, Goto, Retry, StartError, Finish
<1>16. CASE Verify
  BY <1>16, QueueUpdates DEF Verify, Goto, Retry, StartError, Finish
<1>17. CASE StabilityRunning
  BY <1>17, QueueUpdates DEF StabilityRunning, Goto, Finish
<1>18. CASE Started
  BY <1>18, QueueUpdates DEF Started, Finish
<1>19. CASE StopKernel
  BY <1>19, QueueUpdates DEF StopKernel, StopFailed, Goto, Finish
<1>20. CASE StopCheck
  BY <1>20, QueueUpdates DEF StopCheck, StopFailed, Finish, Goto
<1>21. CASE CleanStop
  BY <1>21, QueueUpdates DEF CleanStop, Goto, Finish
<1>22. CASE GuardTun
  BY <1>22, QueueUpdates DEF GuardTun
<1>23. CASE GuardSubmit
  BY <1>23, QueueUpdates DEF GuardSubmit
<1>24. CASE StartupReconcile
  BY <1>24, QueueUpdates DEF StartupReconcile, Enqueue
<1>25. CASE MaintReplace
  BY <1>25, QueueUpdates DEF MaintReplace, Enqueue
<1>26. ASSUME NEW kind \in UserKinds, Submit(kind) PROVE QueueTyped'
  BY <1>26, ConstantsAssumption, QueueUpdates DEF Submit, Enqueue
<1>27. CASE MaintStart
  BY <1>27, QueueUpdates DEF MaintStart, Enqueue
<1>28. CASE CheckRunning \/ StabilityFresh \/ StopTimeout \/ ForceKill
  BY <1>28 DEF CheckRunning, Goto, StabilityFresh, StopTimeout, ForceKill
<1>29. CASE GuardTick \/ GuardReact \/ GuardAnswer
  BY <1>29 DEF GuardTick, GuardReact, GuardAnswer
<1>30. CASE MaintSuspended \/ MaintResumed \/ ProbeWrite \/ LiveApply
  BY <1>30 DEF MaintSuspended, MaintResumed, ProbeWrite, LiveApply
<1>31. CASE ProbeRead \/ LiveCheck \/ Crash \/ ForeignExit
  BY <1>31 DEF ProbeRead, LiveCheck, Crash, ForeignExit
<1>32. CASE UNCHANGED vars
  BY <1>32 DEF vars
<1> QED
  BY <1>1, <1>2, <1>3, <1>4, <1>5, <1>6, <1>7, <1>8, <1>9, <1>10, <1>11, <1>12, <1>13,
      <1>14, <1>15, <1>16, <1>17, <1>18, <1>19, <1>20, <1>21, <1>22, <1>23, <1>24, <1>25,
      <1>26, <1>27, <1>28, <1>29, <1>30, <1>31, <1>32 DEF Next, Worker, Guard, Clients,
      Maintenance, Environment

\* Every step keeps the types of the worker's program counter and attempt count.
LEMMA WorkerTypedKept ==
  ASSUME TypeOK, [Next]_vars
  PROVE  WorkerTyped'
<1> USE DEF TypeOK, WorkerTyped, WorkerPcs, kernel, process, guardVars, replies, clients
<1>1. CASE BeginStart
  BY <1>1, AttemptTyped DEF BeginStart, Take
<1>2. CASE BeginStop
  BY <1>2, AttemptTyped DEF BeginStop, Take, EnterStop
<1>3. CASE BeginRestart
  BY <1>3, AttemptTyped DEF BeginRestart, Take, Skip, Finish
<1>4. CASE BeginReconcile("reconcile_run", "running")
  BY <1>4, AttemptTyped DEF BeginReconcile, Take, EnterStop, Skip, Finish
<1>5. CASE BeginReconcile("reconcile_stop", "stopped")
  BY <1>5, AttemptTyped DEF BeginReconcile, Take, EnterStop, Skip, Finish
<1>6. CASE BeginApply("apply_restart", "restart_if_running")
  BY <1>6, AttemptTyped DEF BeginApply, Take, Skip, Finish
<1>7. CASE BeginApply("apply_hot", "hot_apply")
  BY <1>7, AttemptTyped DEF BeginApply, Take, Skip, Finish
<1>8. CASE BeginSuspend
  BY <1>8, AttemptTyped DEF BeginSuspend, Take, EnterStop, Skip, Finish
<1>9. CASE BeginResume
  BY <1>9, AttemptTyped DEF BeginResume, Skip, Take, Finish
<1>10. CASE BeginGuardOp
  BY <1>10, AttemptTyped DEF BeginGuardOp, Take, Skip, Finish
<1>11. CASE Resolve
  BY <1>11 DEF Resolve, Finish, EnterStop, EnterStart
<1>12. CASE Prepare
  BY <1>12 DEF Prepare, Finish, Goto
<1>13. CASE CheckRunning
  BY <1>13 DEF CheckRunning, Goto
<1>14. CASE CleanConflict
  BY <1>14 DEF CleanConflict, Finish, Goto
<1>15. CASE Validate
  BY <1>15, AttemptTyped DEF Validate, Finish, Goto
<1>16. CASE Spawn
  BY <1>16, AttemptTyped DEF Spawn, Goto, Retry, StartError, Finish
<1>17. CASE Verify
  BY <1>17, AttemptTyped DEF Verify, Goto, Retry, StartError, Finish
<1>18. CASE StabilityFresh
  BY <1>18 DEF StabilityFresh, Goto
<1>19. CASE StabilityRunning
  BY <1>19 DEF StabilityRunning, Goto, Finish
<1>20. CASE Started
  BY <1>20 DEF Started, Finish
<1>21. CASE StopKernel
  BY <1>21 DEF StopKernel, StopFailed, Goto, Finish
<1>22. CASE StopCheck
  BY <1>22 DEF StopCheck, StopFailed, EnterStart, Finish, Goto
<1>23. CASE StopTimeout
  BY <1>23 DEF StopTimeout, Goto
<1>24. CASE ForceKill
  BY <1>24 DEF ForceKill, EnterStart
<1>25. CASE CleanStop
  BY <1>25 DEF CleanStop, Goto, Finish
<1>26. CASE GuardTick \/ GuardTun \/ GuardReact \/ GuardSubmit \/ GuardAnswer
  BY <1>26 DEF GuardTick, GuardTun, GuardReact, GuardSubmit, GuardAnswer
<1>27. CASE StartupReconcile \/ MaintSuspended \/ MaintReplace \/ MaintResumed \/ ProbeWrite
           \/ LiveApply
  BY <1>27 DEF StartupReconcile, MaintSuspended, MaintReplace, MaintResumed, ProbeWrite,
      LiveApply
<1>28. CASE (\E kind \in UserKinds : Submit(kind)) \/ MaintStart \/ ProbeRead \/ LiveCheck
           \/ Crash \/ ForeignExit
  BY <1>28 DEF Submit, MaintStart, ProbeRead, LiveCheck, Crash, ForeignExit
<1>29. CASE UNCHANGED vars
  BY <1>29 DEF vars
<1> QED
  BY <1>1, <1>2, <1>3, <1>4, <1>5, <1>6, <1>7, <1>8, <1>9, <1>10, <1>11, <1>12, <1>13,
      <1>14, <1>15, <1>16, <1>17, <1>18, <1>19, <1>20, <1>21, <1>22, <1>23, <1>24, <1>25,
      <1>26, <1>27, <1>28, <1>29 DEF Next, Worker, Guard, Clients, Maintenance, Environment

\* Every step keeps the types of the commands' variables, the history and the budget.
LEMMA ClientsTypedKept ==
  ASSUME TypeOK, [Next]_vars
  PROVE  ClientsTyped'
<1> USE DEF TypeOK, ClientsTyped, Answers, kernel, process, guardVars, replies, clients
<1>1. CASE BeginStart
  BY <1>1, BudgetUpdates DEF BeginStart, Take
<1>2. CASE BeginStop
  BY <1>2, BudgetUpdates DEF BeginStop, Take, EnterStop
<1>3. CASE BeginRestart
  BY <1>3, BudgetUpdates DEF BeginRestart, Take, Skip, Finish
<1>4. CASE BeginReconcile("reconcile_run", "running")
  BY ZenonT(30), <1>4, BudgetUpdates DEF BeginReconcile, Take, EnterStop, Skip, Finish
<1>5. CASE BeginReconcile("reconcile_stop", "stopped")
  BY <1>5, BudgetUpdates DEF BeginReconcile, Take, EnterStop, Skip, Finish
<1>6. CASE BeginApply("apply_restart", "restart_if_running")
  BY <1>6, BudgetUpdates DEF BeginApply, Take, Skip, Finish
<1>7. CASE BeginApply("apply_hot", "hot_apply")
  BY <1>7, BudgetUpdates DEF BeginApply, Take, Skip, Finish
<1>8. CASE BeginSuspend
  BY ZenonT(30), <1>8, BudgetUpdates DEF BeginSuspend, Take, EnterStop, Skip, Finish
<1>9. CASE BeginResume
  BY <1>9, BudgetUpdates DEF BeginResume, Skip, Take, Finish
<1>10. CASE BeginGuardOp
  BY <1>10, BudgetUpdates DEF BeginGuardOp, Take, Skip, Finish
<1>11. CASE Resolve
  BY <1>11, BudgetUpdates DEF Resolve, Finish, EnterStop
<1>12. CASE Prepare
  BY <1>12, BudgetUpdates DEF Prepare, Finish, Goto
<1>13. CASE CheckRunning
  BY <1>13, BudgetUpdates DEF CheckRunning, Goto
<1>14. CASE CleanConflict
  BY <1>14, BudgetUpdates DEF CleanConflict, Finish, Goto
<1>15. CASE Validate
  BY <1>15, BudgetUpdates DEF Validate, Finish, Goto
<1>16. CASE Spawn
  BY <1>16, BudgetUpdates DEF Spawn, Goto, Retry, StartError, Finish
<1>17. CASE Verify
  BY <1>17, BudgetUpdates DEF Verify, Goto, Retry, StartError, Finish
<1>18. CASE StabilityFresh
  BY <1>18, BudgetUpdates DEF StabilityFresh, Goto
<1>19. CASE StabilityRunning
  BY <1>19, BudgetUpdates DEF StabilityRunning, Goto, Finish
<1>20. CASE Started
  BY <1>20, BudgetUpdates DEF Started, Finish
<1>21. CASE StopKernel
  BY <1>21, BudgetUpdates DEF StopKernel, StopProcess, StopFailed, Goto, Finish
<1>22. CASE StopCheck
  BY <1>22, BudgetUpdates DEF StopCheck, StopFailed, Finish, Goto
<1>23. CASE StopTimeout
  BY <1>23, BudgetUpdates DEF StopTimeout, Goto
<1>24. CASE ForceKill
  BY <1>24, BudgetUpdates DEF ForceKill
<1>25. CASE CleanStop
  BY <1>25, BudgetUpdates DEF CleanStop, StopProcess, Goto, Finish
<1>26. CASE GuardTick
  BY <1>26, BudgetUpdates DEF GuardTick
<1>27. CASE GuardTun
  BY <1>27, BudgetUpdates DEF GuardTun
<1>28. CASE GuardSubmit
  BY <1>28, BudgetUpdates DEF GuardSubmit
<1>29. CASE GuardAnswer
  BY <1>29, BudgetUpdates DEF GuardAnswer
<1>30. CASE StartupReconcile
  BY <1>30, BudgetUpdates DEF StartupReconcile
<1>31. CASE MaintSuspended
  BY <1>31, BudgetUpdates DEF MaintSuspended
<1>32. CASE MaintReplace
  BY <1>32, BudgetUpdates DEF MaintReplace
<1>33. CASE MaintResumed
  BY <1>33, BudgetUpdates DEF MaintResumed
<1>34. CASE ProbeWrite
  BY <1>34, BudgetUpdates DEF ProbeWrite
<1>35. CASE LiveApply
  BY <1>35, BudgetUpdates DEF LiveApply
<1>36. ASSUME NEW kind \in UserKinds, Submit(kind) PROVE ClientsTyped'
  BY <1>36, ConstantsAssumption, BudgetUpdates DEF Submit
<1>37. CASE MaintStart
  BY <1>37, BudgetUpdates DEF MaintStart
<1>38. CASE ProbeRead
  BY <1>38, BudgetUpdates DEF ProbeRead
<1>39. CASE LiveCheck
  BY <1>39, BudgetUpdates DEF LiveCheck
<1>40. CASE Crash
  BY <1>40, BudgetUpdates DEF Crash
<1>41. CASE GuardReact
  BY <1>41 DEF GuardReact
<1>42. CASE ForeignExit
  BY <1>42 DEF ForeignExit
<1>43. CASE UNCHANGED vars
  BY <1>43 DEF vars
<1> QED
  BY <1>1, <1>2, <1>3, <1>4, <1>5, <1>6, <1>7, <1>8, <1>9, <1>10, <1>11, <1>12, <1>13,
      <1>14, <1>15, <1>16, <1>17, <1>18, <1>19, <1>20, <1>21, <1>22, <1>23, <1>24, <1>25,
      <1>26, <1>27, <1>28, <1>29, <1>30, <1>31, <1>32, <1>33, <1>34, <1>35, <1>36, <1>37,
      <1>38, <1>39, <1>40, <1>41, <1>42, <1>43 DEF Next, Worker, Guard, Clients,
      Maintenance, Environment

\* Every reachable state is well typed: the flags, the queue of operations, the attempt
\* count within its bound, the failure count within its threshold (state.rs, guard.rs:127-139,
\* manager.rs:471-534).
THEOREM TypeCorrect == Spec => []TypeOK
<1>1. TypeOK /\ [Next]_vars => TypeOK'
  BY KernelTypedKept, SystemTypedKept, GuardTypedKept, QueueTypedKept, WorkerTypedKept,
     ClientsTypedKept DEF TypeOK
<1> QED
  BY InitTyped, <1>1, PTL DEF Spec

-----------------------------------------------------------------------------
(* The user's stop wins. *)

\* Past its stop phase an operation works for a session that wants the kernel.
RunsOnlyWanted == pc \notin {"idle", "stop", "stopcheck"} => desired = "running"

\* In its stop phase a restart still wants the kernel, a stop does not.
StopMatchesIntent ==
  pc \in {"stop", "stopcheck"} =>
    /\ RestartsAfterStop => desired = "running"
    /\ op.kind \in StopKinds => desired = "stopped"

IntentInv == RunsOnlyWanted /\ StopMatchesIntent /\ UserStopWins

\* A reconcile starts only what is wanted, stops only what is not, and leaves an
\* unwanted kernel alone only if nothing is active (plan_kernel_transition).
LEMMA ReconcilePlans ==
  ASSUME NEW observed
  PROVE  /\ PlanKernelTransition("running", observed,
              [kind |-> "reconcile", auto_start |-> "running" = "running"]) \in {"noop", "start"}
         /\ PlanKernelTransition("stopped", observed,
              [kind |-> "reconcile", auto_start |-> "stopped" = "running"]) \in {"noop", "stop"}
         /\ IsProcessActive(observed) =>
              PlanKernelTransition("stopped", observed,
                [kind |-> "reconcile", auto_start |-> "stopped" = "running"]) = "stop"
  BY DEF PlanKernelTransition

\* A configuration change restarts a kernel only if the session wants one.
LEMMA ChangePlans ==
  ASSUME NEW wanted, NEW observed, NEW impact,
         PlanKernelTransition(wanted, observed, [kind |-> "apply", impact |-> impact]) = "restart"
  PROVE  wanted = "running"
  BY DEF PlanKernelTransition, PlanChange

\* Every step keeps the invariant of the user's stop.
LEMMA IntentInvKept ==
  ASSUME IntentInv, [Next]_vars
  PROVE  IntentInv'
<1> USE DEF IntentInv, RunsOnlyWanted, StopMatchesIntent, UserStopWins, RestartsAfterStop,
      StopKinds, GuardKinds, kernel, process, guardVars, replies, clients
<1>1. CASE BeginStart
  BY <1>1 DEF BeginStart, Begin, Take
<1>2. CASE BeginStop
  BY <1>2 DEF BeginStop, Begin, Take, EnterStop
<1>3. CASE BeginRestart
  BY <1>3 DEF BeginRestart, Begin, Take, Skip, Finish, NoOp
<1>4. CASE BeginReconcile("reconcile_run", "running")
  BY <1>4, ReconcilePlans DEF BeginReconcile, Begin, Take, EnterStop, Skip, Finish, NoOp
<1>5. CASE BeginReconcile("reconcile_stop", "stopped")
  <2>1. IsProcessActive("running")
    BY DEF IsProcessActive, IsRunning
  <2>2. desired' = "stopped" /\ managed' = managed
    BY <1>5 DEF BeginReconcile, process
  <2>3. ASSUME NEW seen \in BOOLEAN, Detect(seen), ~seen
        PROVE  ~managed
    BY <2>3 DEF Detect
  <2>4. \/ pc' = "stop" /\ op'.kind = "reconcile_stop"
        \/ pc' = "idle" /\ ~managed
    BY <1>5, <2>1, <2>3, ReconcilePlans DEF BeginReconcile, Begin, Take, Skip, Finish, EnterStop
  <2> QED
    BY <2>2, <2>4 DEF IntentInv, RunsOnlyWanted, StopMatchesIntent, UserStopWins,
      RestartsAfterStop, StopKinds
<1>6. CASE BeginApply("apply_restart", "restart_if_running")
  BY <1>6, ChangePlans DEF BeginApply, Begin, Take, Skip, Finish, NoOp
<1>7. CASE BeginApply("apply_hot", "hot_apply")
  BY <1>7, ChangePlans DEF BeginApply, Begin, Take, Skip, Finish, NoOp
<1>8. CASE BeginSuspend
  BY <1>8 DEF BeginSuspend, Begin, Take, EnterStop, Skip, Finish, NoOp
<1>9. CASE BeginResume
  BY <1>9 DEF BeginResume, Begin, Skip, Take, Finish, NoOp
<1>10. CASE BeginGuardOp
  BY <1>10 DEF BeginGuardOp, Begin, Take, Skip, Finish, NoOp
<1>11. CASE Resolve
  BY <1>11 DEF Resolve, At, Finish, EnterStop, EnterStart, NoOp
<1>12. CASE Prepare
  BY <1>12 DEF Prepare, At, Finish, Goto, NoOp
<1>13. CASE CheckRunning
  BY <1>13 DEF CheckRunning, At, Goto
<1>14. CASE CleanConflict
  BY <1>14 DEF CleanConflict, At, Finish, Goto, NoOp
<1>15. CASE Validate
  BY <1>15 DEF Validate, At, Finish, Goto, NoOp
<1>16. CASE Spawn
  BY <1>16 DEF Spawn, At, Goto, Retry, StartError, Finish, NoOp
<1>17. CASE Verify
  BY <1>17 DEF Verify, At, Goto, Retry, StartError, Finish, NoOp
<1>18. CASE StabilityFresh
  BY <1>18 DEF StabilityFresh, At, Goto
<1>19. CASE StabilityRunning
  BY <1>19 DEF StabilityRunning, At, Goto, Finish, NoOp
<1>20. CASE Started
  BY <1>20 DEF Started, At, Finish, NoOp
<1>21. CASE StopKernel
  BY <1>21 DEF StopKernel, At, StopProcess, StopFailed, Goto, Finish, NoOp
<1>22. CASE StopCheck
  BY <1>22 DEF StopCheck, At, StopFailed, EnterStart, Finish, Goto, NoOp
<1>23. CASE StopTimeout
  BY <1>23 DEF StopTimeout, At, Goto
<1>24. CASE ForceKill
  BY <1>24 DEF ForceKill, At, EnterStart
<1>25. CASE CleanStop
  BY <1>25 DEF CleanStop, At, StopProcess, Goto, Finish, NoOp
<1>26. CASE Crash
  BY <1>26 DEF Crash
<1>27. CASE GuardTick \/ GuardTun \/ GuardReact \/ GuardSubmit \/ GuardAnswer
  BY <1>27 DEF GuardTick, GuardTun, GuardReact, GuardSubmit, GuardAnswer
<1>28. CASE StartupReconcile \/ MaintSuspended \/ MaintReplace \/ MaintResumed \/ ProbeWrite
           \/ LiveApply
  BY <1>28 DEF StartupReconcile, MaintSuspended, MaintReplace, MaintResumed, ProbeWrite,
      LiveApply
<1>29. CASE (\E kind \in UserKinds : Submit(kind)) \/ MaintStart \/ ProbeRead \/ LiveCheck
           \/ ForeignExit
  BY <1>29 DEF Submit, MaintStart, ProbeRead, LiveCheck, ForeignExit
<1>30. CASE UNCHANGED vars
  BY <1>30 DEF vars
<1> QED
  BY <1>1, <1>2, <1>3, <1>4, <1>5, <1>6, <1>7, <1>8, <1>9, <1>10, <1>11, <1>12, <1>13,
      <1>14, <1>15, <1>16, <1>17, <1>18, <1>19, <1>20, <1>21, <1>22, <1>23, <1>24, <1>25,
      <1>26, <1>27, <1>28, <1>29, <1>30 DEF Next, Worker, Guard, Clients, Maintenance,
      Environment

LEMMA IntentInvariant == Spec => []IntentInv
<1>1. Init => IntentInv
  BY DEF Init, IntentInv, RunsOnlyWanted, StopMatchesIntent, UserStopWins
<1> QED
  BY <1>1, IntentInvKept, PTL DEF Spec

\* A kernel of ours is alive under a stop intent only until the stop that set the intent
\* kills it: no recovery, configuration change, resume or restart revives it
\* (lifecycle.rs:824-838, 932-985, 1011-1041; guard.rs:417-443).
THEOREM StopWins == Spec => []UserStopWins
  BY IntentInvariant, PTL DEF IntentInv

-----------------------------------------------------------------------------
(* The lifecycle implements KernelIntent. *)

\* What KernelIntent sees of the state.
view == <<desired, managed \/ foreign, acked>>

\* Without detection failures the answer of is_kernel_running is the truth.
LEMMA ExactDetection ==
  ASSUME "detect" \notin FaultKinds, NEW seen \in BOOLEAN, Detect(seen)
  PROVE  seen = (managed \/ foreign)
  BY DEF Detect, Fault

\* Every step of the lifecycle is a step of KernelIntent or leaves the session's view unchanged.
LEMMA IntentStep ==
  ASSUME TypeOK, IntentInv, [Next]_vars, "detect" \notin FaultKinds
  PROVE  [Intent!Next]_view
<1> USE DEF TypeOK, KernelTyped, SystemTyped, DesiredStates, view, IntentInv, Intent!Next,
      kernel, process, guardVars, replies, clients
<1>1. CASE BeginStart
  BY <1>1 DEF Intent!Decide, BeginStart, Take
<1>2. CASE BeginStop
  BY <1>2 DEF Intent!Decide, BeginStop, Take, EnterStop
<1>3. CASE BeginRestart
  BY <1>3 DEF Intent!Decide, BeginRestart, Take, Skip
<1>4. CASE BeginReconcile("reconcile_run", "running")
  BY <1>4 DEF Intent!Decide, BeginReconcile, Take, EnterStop, Skip
<1>5. CASE BeginReconcile("reconcile_stop", "stopped")
  BY <1>5 DEF Intent!Decide, BeginReconcile, Take, EnterStop, Skip
<1>6. CASE BeginApply("apply_restart", "restart_if_running")
  BY <1>6 DEF Intent!Decide, BeginApply, Take, Skip
<1>7. CASE BeginApply("apply_hot", "hot_apply")
  BY <1>7 DEF Intent!Decide, BeginApply, Take, Skip
<1>8. CASE BeginSuspend
  BY <1>8 DEF Intent!Decide, BeginSuspend, Take, EnterStop, Skip
<1>9. CASE BeginResume
  BY <1>9 DEF Intent!Decide, BeginResume, Skip, Take
<1>10. CASE BeginGuardOp
  BY <1>10 DEF Intent!Decide, BeginGuardOp, Take, Skip
<1>11. CASE CleanConflict
  BY <1>11 DEF Intent!GoDown, CleanConflict
<1>12. CASE Validate
  BY <1>12 DEF Intent!GoDown, Validate
<1>13. CASE Spawn
  BY <1>13 DEF RunsOnlyWanted, At, Intent!ComeUp, Spawn
<1>14. CASE StopKernel
  BY <1>14 DEF Intent!GoDown, StopKernel, StopProcess
<1>15. CASE StopCheck
  BY <1>15, ExactDetection DEF StopMatchesIntent, At, Intent!Confirm, StopCheck
<1>16. CASE ForceKill
  BY <1>16 DEF Intent!GoDown, ForceKill
<1>17. CASE CleanStop
  BY <1>17 DEF Intent!GoDown, CleanStop, StopProcess
<1>18. CASE Resolve \/ Prepare \/ CheckRunning \/ Verify \/ StabilityFresh \/
           StabilityRunning \/ Started \/ StopTimeout
  BY <1>18 DEF Resolve, Prepare, CheckRunning, Verify, StabilityFresh, StabilityRunning,
      Started, StopTimeout
<1>19. CASE GuardTick \/ GuardTun \/ GuardReact \/ GuardSubmit \/ GuardAnswer
  BY <1>19 DEF GuardTick, GuardTun, GuardReact, GuardSubmit, GuardAnswer
<1>20. CASE StartupReconcile \/ MaintSuspended \/ MaintReplace \/ MaintResumed \/ ProbeWrite
           \/ LiveApply
  BY <1>20 DEF StartupReconcile, MaintSuspended, MaintReplace, MaintResumed, ProbeWrite,
      LiveApply
<1>21. CASE Crash
  BY <1>21 DEF Intent!GoDown, Crash
<1>22. CASE ForeignExit
  BY <1>22 DEF Intent!GoDown, ForeignExit
<1>23. CASE (\E kind \in UserKinds : Submit(kind)) \/ MaintStart \/ ProbeRead \/ LiveCheck
  BY <1>23 DEF Submit, MaintStart, ProbeRead, LiveCheck
<1>24. CASE UNCHANGED vars
  BY <1>24 DEF vars
<1> QED
  BY <1>1, <1>2, <1>3, <1>4, <1>5, <1>6, <1>7, <1>8, <1>9, <1>10, <1>11, <1>12, <1>13,
      <1>14, <1>15, <1>16, <1>17, <1>18, <1>19, <1>20, <1>21, <1>22, <1>23, <1>24 DEF Next,
      Worker, Guard, Clients, Maintenance, Environment

\* The lifecycle implements KernelIntent when process detection does not fail: kernels come
\* up only while they are wanted, and a confirmed stop means that none is left
\* (lifecycle.rs:806-1041, 1151-1180).
THEOREM ImplementsKernelIntent ==
  ASSUME "detect" \notin FaultKinds
  PROVE  Spec => ImplementsIntent
<1>1. Init => Intent!Init
  BY ConstantsAssumption DEF Init, Intent!Init
<1>2. TypeOK /\ IntentInv /\ [Next]_vars => [Intent!Next]_view
  BY IntentStep
<1> QED
  BY <1>1, <1>2, TypeCorrect, IntentInvariant, PTL DEF Spec, ImplementsIntent, Intent!Spec, view

-----------------------------------------------------------------------------
(* A confirmed stop has left nothing. *)

\* The guard task exists exactly while its flag is set.
GuardFlag == keepAlive <=> guard # "none"

\* The stop phase begins by ending the guard and the relay; past process.stop the
\* system proxy is off.
StopPhaseClean ==
  /\ pc \in {"stop", "stopcheck"} => ~keepAlive /\ guard = "none" /\ ~relay
  /\ pc = "stopcheck" => ~sysproxy

\* A confirmation stands only between operations.
ConfirmedIsIdle == acked => pc = "idle"

\* No live proxy change is under way or to come.
NoLiveApply == live = "off" /\ budget["live"] = 0

CleanInv == GuardFlag /\ StopPhaseClean /\ ConfirmedIsIdle /\ NoLiveApply /\ StopLeavesNothing

\* Spending on anything else leaves the budget of live proxy changes alone.
LEMMA LiveBudgetKept ==
  ASSUME ClientsTyped
  PROVE  /\ \A k \in BudgetKinds \ {"live"} : Spend(k) => budget'["live"] = budget["live"]
         /\ \A f : Fault(f) => budget'["live"] = budget["live"]
         /\ \A seen : Detect(seen) => budget'["live"] = budget["live"]
         /\ {"submit", "crash", "tun", "probe", "maint"} \subseteq BudgetKinds \ {"live"}
         /\ budget["live"] = 0 => ~Spend("live")
<1>1. {"fault", "submit", "crash", "tun", "probe", "maint"} \subseteq BudgetKinds \ {"live"}
  BY DEF BudgetKinds
<1>2. \A k \in BudgetKinds \ {"live"} : Spend(k) => budget'["live"] = budget["live"]
  BY DEF Spend, ClientsTyped, BudgetKinds
<1>3. \A f : Fault(f) => budget'["live"] = budget["live"]
  BY <1>1, <1>2 DEF Fault
<1>4. \A seen : Detect(seen) => budget'["live"] = budget["live"]
  BY <1>3 DEF Detect
<1>5. budget["live"] = 0 => ~Spend("live")
  BY DEF Spend
<1> QED
  BY <1>1, <1>2, <1>3, <1>4, <1>5

\* Every step keeps the invariant of a confirmed stop.
LEMMA CleanInvKept ==
  ASSUME TypeOK, IntentInv, CleanInv, [Next]_vars, "detect" \notin FaultKinds
  PROVE  CleanInv'
<1> USE DEF TypeOK, SystemTyped, GuardTyped, CleanInv, GuardFlag, StopPhaseClean,
      ConfirmedIsIdle, NoLiveApply, StopLeavesNothing, kernel, process, guardVars, replies,
      clients
<1>1. CASE BeginStart
  BY <1>1, LiveBudgetKept DEF BeginStart, Begin, Take
<1>2. CASE BeginStop
  BY <1>2, LiveBudgetKept DEF BeginStop, Begin, Take, EnterStop
<1>3. CASE BeginRestart
  BY <1>3, LiveBudgetKept DEF BeginRestart, Begin, Take, Skip, Finish
<1>4. CASE BeginReconcile("reconcile_run", "running")
  BY <1>4, LiveBudgetKept DEF BeginReconcile, Begin, Take, EnterStop, Skip, Finish
<1>5. CASE BeginReconcile("reconcile_stop", "stopped")
  BY <1>5, LiveBudgetKept DEF BeginReconcile, Begin, Take, EnterStop, Skip, Finish
<1>6. CASE BeginApply("apply_restart", "restart_if_running")
  BY <1>6, LiveBudgetKept DEF BeginApply, Begin, Take, Skip, Finish
<1>7. CASE BeginApply("apply_hot", "hot_apply")
  BY <1>7, LiveBudgetKept DEF BeginApply, Begin, Take, Skip, Finish
<1>8. CASE BeginSuspend
  BY <1>8, LiveBudgetKept DEF BeginSuspend, Begin, Take, EnterStop, Skip, Finish
<1>9. CASE BeginResume
  BY <1>9, LiveBudgetKept DEF BeginResume, Begin, Skip, Take, Finish
<1>10. CASE BeginGuardOp
  BY <1>10, LiveBudgetKept DEF BeginGuardOp, Begin, Take, Skip, Finish
<1>11. CASE Resolve
  BY <1>11, LiveBudgetKept DEF Resolve, At, Finish, EnterStop, EnterStart
<1>12. CASE Prepare
  BY <1>12, LiveBudgetKept DEF Prepare, At, Finish, Goto
<1>13. CASE CheckRunning
  BY <1>13, LiveBudgetKept DEF CheckRunning, At, Goto
<1>14. CASE CleanConflict
  BY <1>14, LiveBudgetKept DEF CleanConflict, At, Finish, Goto
<1>15. CASE Validate
  BY <1>15, LiveBudgetKept DEF Validate, At, Finish, Goto
<1>16. CASE Spawn
  BY <1>16, LiveBudgetKept DEF Spawn, At, Goto, Retry, StartError, Finish
<1>17. CASE Verify
  BY <1>17, LiveBudgetKept DEF Verify, At, Goto, Retry, StartError, Finish
<1>18. CASE StabilityFresh
  BY <1>18, LiveBudgetKept DEF StabilityFresh, At, Goto
<1>19. CASE StabilityRunning
  BY <1>19, LiveBudgetKept DEF StabilityRunning, At, Goto, Finish
<1>20. CASE Started
  BY <1>20, LiveBudgetKept DEF Started, At, Finish
<1>21. CASE StopKernel
  BY <1>21, LiveBudgetKept DEF StopKernel, At, StopProcess, StopFailed, Goto, Finish
<1>22. CASE StopCheck
  <2>1. sysproxy = FALSE /\ relay = FALSE /\ ~keepAlive /\ guard = "none"
    BY <1>22 DEF TypeOK, SystemTyped, CleanInv, StopPhaseClean, StopCheck, At
  <2>2. UNCHANGED <<desired, managed, foreign, sysproxy, relay, keepAlive, guard, live>>
    BY <1>22 DEF StopCheck, process, guardVars, clients
  <2>3. CASE acked' = TRUE
    <3>1. PICK seen \in BOOLEAN : Detect(seen) /\ ~seen
      BY <1>22, <2>3 DEF StopCheck, CleanInv, ConfirmedIsIdle, At
    <3>2. ~managed /\ ~foreign
      BY <3>1, ExactDetection
    <3>3. desired = "stopped" /\ pc' = "idle"
      BY <1>22, <2>3 DEF StopCheck, CleanInv, ConfirmedIsIdle, At, IntentInv, StopMatchesIntent,
         Finish
    <3> QED
      BY <2>1, <2>2, <3>1, <3>2, <3>3, LiveBudgetKept
      DEF CleanInv, GuardFlag, StopPhaseClean, ConfirmedIsIdle, NoLiveApply, StopLeavesNothing,
          TypeOK
  <2>4. CASE ~acked'
    <3>1. budget'["live"] = budget["live"]
      BY <1>22, LiveBudgetKept DEF StopCheck, TypeOK
    <3>2. pc' \notin {"stop", "stopcheck"}
      BY <1>22 DEF StopCheck, StopFailed, Finish, Goto, EnterStart
    <3> QED
      BY <2>1, <2>2, <2>4, <3>1, <3>2
      DEF CleanInv, GuardFlag, StopPhaseClean, ConfirmedIsIdle, NoLiveApply, StopLeavesNothing
  <2>5. acked' = TRUE \/ ~acked'
    BY <1>22 DEF StopCheck, TypeOK, ClientsTyped
  <2> QED
    BY <2>3, <2>4, <2>5
<1>23. CASE StopTimeout
  BY <1>23, LiveBudgetKept DEF StopTimeout, At, Goto
<1>24. CASE ForceKill
  BY <1>24, LiveBudgetKept DEF ForceKill, At, EnterStart
<1>25. CASE CleanStop
  BY <1>25, LiveBudgetKept DEF CleanStop, At, StopProcess, Goto, Finish
<1>26. CASE GuardTick
  BY <1>26, LiveBudgetKept DEF GuardTick
<1>27. CASE GuardTun
  BY <1>27, LiveBudgetKept DEF GuardTun
<1>28. CASE GuardReact
  BY <1>28, LiveBudgetKept DEF GuardReact, EndGuard
<1>29. CASE GuardSubmit
  BY <1>29, LiveBudgetKept DEF GuardSubmit, EndGuard
<1>30. CASE GuardAnswer
  <2>1. keepAlive /\ ~acked /\ pc \notin {"stop", "stopcheck"}
    BY <1>30 DEF GuardAnswer, CleanInv, GuardFlag, StopPhaseClean, StopLeavesNothing
  <2>2. UNCHANGED <<desired, managed, foreign, sysproxy, relay, pc, live, acked>>
    BY <1>30 DEF GuardAnswer, process, clients
  <2>3. keepAlive' <=> guard' # "none"
    BY <1>30, <2>1 DEF GuardAnswer, EndGuard
  <2>4. budget'["live"] = budget["live"]
    BY <1>30, LiveBudgetKept DEF GuardAnswer, TypeOK
  <2> QED
    BY <2>1, <2>2, <2>3, <2>4
    DEF CleanInv, GuardFlag, StopPhaseClean, ConfirmedIsIdle, NoLiveApply, StopLeavesNothing
<1>31. CASE MaintReplace
  BY <1>31, LiveBudgetKept DEF MaintReplace
<1>32. CASE LiveApply
  BY <1>32, LiveBudgetKept DEF LiveApply
<1>33. CASE MaintStart
  BY <1>33, LiveBudgetKept DEF MaintStart
<1>34. CASE ProbeRead
  BY <1>34, LiveBudgetKept DEF ProbeRead
<1>35. CASE LiveCheck
  BY <1>35, LiveBudgetKept DEF LiveCheck
<1>36. CASE Crash
  BY <1>36, LiveBudgetKept DEF Crash
<1>37. CASE ForeignExit
  BY <1>37, LiveBudgetKept DEF ForeignExit
<1>38. CASE StartupReconcile \/ MaintSuspended \/ MaintResumed \/ ProbeWrite
  BY <1>38, LiveBudgetKept DEF StartupReconcile, MaintSuspended, MaintResumed, ProbeWrite
<1>39. CASE (\E kind \in UserKinds : Submit(kind))
  BY <1>39, LiveBudgetKept DEF Submit
<1>40. CASE UNCHANGED vars
  BY <1>40 DEF vars
<1> QED
  BY <1>1, <1>2, <1>3, <1>4, <1>5, <1>6, <1>7, <1>8, <1>9, <1>10, <1>11, <1>12, <1>13,
      <1>14, <1>15, <1>16, <1>17, <1>18, <1>19, <1>20, <1>21, <1>22, <1>23, <1>24, <1>25,
      <1>26, <1>27, <1>28, <1>29, <1>30, <1>31, <1>32, <1>33, <1>34, <1>35, <1>36, <1>37,
      <1>38, <1>39, <1>40 DEF Next, Worker, Guard, Clients, Maintenance, Environment

\* Once a stop has reported success nothing it is responsible for is left, until another
\* operation begins; detection must not fail and the live proxy command must not be used,
\* for each of them breaks it (lifecycle.rs:1151-1180, manager.rs:879-939).
THEOREM ConfirmedStopIsClean ==
  ASSUME "detect" \notin FaultKinds, Budget["live"] = 0
  PROVE  Spec => []StopLeavesNothing
<1>1. Init => CleanInv
  BY DEF Init, CleanInv, GuardFlag, StopPhaseClean, ConfirmedIsIdle, NoLiveApply,
         StopLeavesNothing
<1>2. TypeOK /\ IntentInv /\ CleanInv /\ [Next]_vars => CleanInv'
  BY CleanInvKept
<1>3. CleanInv => StopLeavesNothing
  BY DEF CleanInv
<1> QED
  BY <1>1, <1>2, <1>3, TypeCorrect, IntentInvariant, PTL DEF Spec

-----------------------------------------------------------------------------
(* The guard's request is neither lost nor doubled. *)

Owed(q) == {i \in DOMAIN q : q[i].reply = "guard"}

\* Only the guard's own operations answer to it, and an idle worker has none.
OwnedByGuard ==
  /\ \A i \in DOMAIN queue : queue[i].reply = "guard" => queue[i].kind \in GuardKinds
  /\ op.reply = "guard" => op.kind \in GuardKinds
  /\ pc = "idle" => op = NoOp

\* Where the answer to a waiting guard will come from: the operation that runs, the
\* channel, or one place in the queue.
OneSource ==
  /\ guard # "waiting" => op.reply # "guard" /\ guardReply = "none" /\ Owed(queue) = {}
  /\ guard = "waiting" =>
       \/ op.reply = "guard" /\ guardReply = "none" /\ Owed(queue) = {}
       \/ op.reply # "guard" /\ guardReply # "none" /\ Owed(queue) = {}
       \/ op.reply # "guard" /\ guardReply = "none" /\ \E i : Owed(queue) = {i}

AccountInv == GuardFlag /\ OwnedByGuard /\ OneSource

\* What taking, adding and orphaning do to the places owed to the guard.
LEMMA OwedTail ==
  ASSUME NEW q \in Seq(Ops), q # <<>>
  PROVE  /\ Head(q) = q[1] /\ 1 \in DOMAIN q
         /\ Owed(q) = {} => Head(q).reply # "guard" /\ Owed(Tail(q)) = {}
         /\ \A i : Owed(q) = {i} => IF Head(q).reply = "guard" THEN Owed(Tail(q)) = {}
                                    ELSE Owed(Tail(q)) = {i - 1}
         /\ \A i \in DOMAIN Tail(q) : i + 1 \in DOMAIN q /\ Tail(q)[i] = q[i + 1]
<1>1. /\ Len(q) \in Nat \ {0} /\ DOMAIN q = 1 .. Len(q) /\ DOMAIN Tail(q) = 1 .. (Len(q) - 1)
      /\ \A i \in 1 .. (Len(q) - 1) : Tail(q)[i] = q[i + 1]
      /\ Head(q) = q[1]
  OBVIOUS
<1>2. \A i \in Owed(Tail(q)) : i + 1 \in Owed(q)
  BY <1>1 DEF Owed
<1>3. \A i \in Owed(q) : i # 1 => i - 1 \in Owed(Tail(q))
  BY <1>1 DEF Owed
<1>4. 1 \in Owed(q) <=> Head(q).reply = "guard"
  BY <1>1 DEF Owed
<1>5. Owed(q) \subseteq Nat /\ Owed(Tail(q)) \subseteq Nat
  BY <1>1 DEF Owed
<1>6. ASSUME NEW i, Owed(q) = {i}
      PROVE  IF Head(q).reply = "guard" THEN Owed(Tail(q)) = {} ELSE Owed(Tail(q)) = {i - 1}
  <2>1. i \in Nat /\ \A k \in Owed(Tail(q)) : k \in Nat /\ k + 1 = i
    BY <1>2, <1>5, <1>6
  <2>2. CASE Head(q).reply = "guard"
    <3>1. i = 1
      BY <1>4, <1>6, <2>2
    <3>2. 0 \notin Owed(Tail(q))
      BY <1>1 DEF Owed
    <3> QED
      BY <2>1, <2>2, <3>1, <3>2
  <2>3. CASE Head(q).reply # "guard"
    <3>1. i - 1 \in Owed(Tail(q))
      BY <1>3, <1>4, <1>6, <2>3
    <3>2. \A k \in Owed(Tail(q)) : k = i - 1
      BY <2>1
    <3> QED
      BY <2>3, <3>1, <3>2
  <2> QED
    BY <2>2, <2>3
<1>7. Owed(q) = {} => Head(q).reply # "guard" /\ Owed(Tail(q)) = {}
  BY <1>2, <1>4
<1>8. \A i \in DOMAIN Tail(q) : i + 1 \in DOMAIN q /\ Tail(q)[i] = q[i + 1]
  BY <1>1
<1>9. \A i : Owed(q) = {i} => IF Head(q).reply = "guard" THEN Owed(Tail(q)) = {}
                              ELSE Owed(Tail(q)) = {i - 1}
  BY <1>6
<1> QED
  BY <1>1, <1>7, <1>8, <1>9

LEMMA OwedAppend ==
  ASSUME NEW q \in Seq(Ops), NEW o \in Ops
  PROVE  /\ o.reply # "guard" => Owed(Append(q, o)) = Owed(q)
         /\ o.reply = "guard" /\ Owed(q) = {} => \E i : Owed(Append(q, o)) = {i}
         /\ \A i \in DOMAIN Append(q, o) : Append(q, o)[i] = o \/ (i \in DOMAIN q /\ Append(q, o)[i] = q[i])
<1>1. /\ Len(q) \in Nat /\ DOMAIN q = 1 .. Len(q) /\ DOMAIN Append(q, o) = 1 .. (Len(q) + 1)
      /\ \A i \in 1 .. Len(q) : Append(q, o)[i] = q[i]
      /\ Append(q, o)[Len(q) + 1] = o
  OBVIOUS
<1>2. Owed(Append(q, o)) = IF o.reply = "guard" THEN Owed(q) \cup {Len(q) + 1} ELSE Owed(q)
  BY <1>1 DEF Owed
<1>3. o.reply = "guard" /\ Owed(q) = {} => Owed(Append(q, o)) = {Len(q) + 1}
  BY <1>2
<1>4. \A i \in 1 .. (Len(q) + 1) : i = Len(q) + 1 \/ i \in 1 .. Len(q)
  BY <1>1
<1> QED
  BY <1>1, <1>2, <1>3, <1>4

LEMMA OwedOrphaned ==
  ASSUME NEW q \in Seq(Ops)
  PROVE  /\ Owed(Orphaned(q)) = {}
         /\ \A i \in DOMAIN Orphaned(q) : Orphaned(q)[i].reply # "guard"
<1>1. Orphaned(q) \in Seq(Ops) /\ Len(Orphaned(q)) = Len(q)
      /\ \A i \in 1 .. Len(q) : Orphaned(q)[i].reply # "guard"
  BY OrphanedQueue
<1>2. DOMAIN Orphaned(q) = 1 .. Len(q)
  BY <1>1
<1> QED
  BY <1>1, <1>2 DEF Owed

LEMMA AccountInit ==
  ASSUME Init
  PROVE  AccountInv
BY DEF Init, AccountInv, GuardFlag, OwnedByGuard, OneSource, Owed, NoOp

\* The kinds of steps.  Nothing of the accounts is touched.
LEMMA AccountSame ==
  ASSUME AccountInv, UNCHANGED <<op, guardReply, queue>>, pc' = "idle" => pc = "idle",
         guard' = guard \/ (guard # "waiting" /\ guard' # "waiting"),
         keepAlive' <=> guard' # "none"
  PROVE  AccountInv'
BY DEF AccountInv, GuardFlag, OwnedByGuard, OneSource

\* The worker takes the head of the queue and keeps it.
LEMMA AccountTake ==
  ASSUME TypeOK, AccountInv, pc = "idle", queue # <<>>,
         op' = Head(queue), queue' = Tail(queue), pc' # "idle",
         UNCHANGED <<guard, keepAlive, guardReply>>
  PROVE  AccountInv'
<1>1. queue \in Seq(Ops) /\ op.reply # "guard"
  BY DEF TypeOK, QueueTyped, AccountInv, OwnedByGuard, NoOp
<1>2. GuardFlag'
  BY DEF AccountInv, GuardFlag
<1>3. OwnedByGuard'
  BY <1>1, OwedTail DEF AccountInv, OwnedByGuard
<1>4. OneSource'
  BY <1>1, OwedTail DEF AccountInv, OneSource
<1> QED
  BY <1>2, <1>3, <1>4 DEF AccountInv

\* The worker takes it and is done with it.
LEMMA AccountSkip ==
  ASSUME TypeOK, AccountInv, pc = "idle", queue # <<>>, NEW answer \in {"ok", "err", "skipped"},
         queue' = Tail(queue), Finish(Head(queue), answer), UNCHANGED <<guard, keepAlive>>
  PROVE  AccountInv'
<1>1. queue \in Seq(Ops) /\ op.reply # "guard"
  BY DEF TypeOK, QueueTyped, AccountInv, OwnedByGuard, NoOp
<1>2. op' = NoOp /\ op'.reply # "guard" /\ op'.kind \notin GuardKinds
  BY DEF Finish, NoOp, GuardKinds
<1>3. GuardFlag'
  BY DEF AccountInv, GuardFlag
<1>4. OwnedByGuard'
  BY <1>1, <1>2, OwedTail DEF AccountInv, OwnedByGuard
<1>5. guardReply' = IF Head(queue).reply = "guard" THEN answer ELSE guardReply
  BY DEF Finish
<1>6. OneSource'
  BY <1>1, <1>2, <1>5, OwedTail DEF AccountInv, OneSource
<1> QED
  BY <1>3, <1>4, <1>6 DEF AccountInv

\* The worker is done with the operation it ran.
LEMMA AccountFinish ==
  ASSUME AccountInv, NEW answer \in {"ok", "err", "skipped"}, Finish(op, answer),
         UNCHANGED <<queue, guard, keepAlive>>
  PROVE  AccountInv'
<1>1. op' = NoOp /\ op'.reply # "guard" /\ op'.kind \notin GuardKinds
  BY DEF Finish, NoOp, GuardKinds
<1>2. guardReply' = IF op.reply = "guard" THEN answer ELSE guardReply
  BY DEF Finish
<1> QED
  BY <1>1, <1>2 DEF AccountInv, GuardFlag, OwnedByGuard, OneSource

\* A stop phase begins, of an operation taken now or before, and ends the guard: only
\* the guard's operations answer to it, and no stop phase is one.
LEMMA AccountStop ==
  ASSUME AccountInv, NEW q \in Seq(Ops), EnterStop(q),
         \A i \in DOMAIN q : q[i].reply = "guard" => q[i].kind \in GuardKinds,
         Owed(queue) = {} => Owed(q) = {},
         op'.reply # "guard"
  PROVE  AccountInv'
<1>1. ~keepAlive' /\ pc' # "idle"
  BY DEF EnterStop
<1>2. CASE keepAlive
  BY <1>1, <1>2, OwedOrphaned DEF EnterStop, AccountInv, GuardFlag, OwnedByGuard, OneSource
<1>3. CASE ~keepAlive
  BY <1>1, <1>3 DEF EnterStop, AccountInv, GuardFlag, OwnedByGuard, OneSource
<1> QED
  BY <1>2, <1>3

LEMMA AccountTakeStop ==
  ASSUME TypeOK, AccountInv, pc = "idle", queue # <<>>, Head(queue).kind \notin GuardKinds,
         op' = Head(queue), EnterStop(Tail(queue))
  PROVE  AccountInv'
<1>1. queue \in Seq(Ops)
  BY DEF TypeOK, QueueTyped
<1>2. op'.reply # "guard"
  BY <1>1, OwedTail DEF AccountInv, OwnedByGuard
<1>3. \A i \in DOMAIN Tail(queue) :
         Tail(queue)[i].reply = "guard" => Tail(queue)[i].kind \in GuardKinds
  BY <1>1, OwedTail DEF AccountInv, OwnedByGuard
<1>4. Owed(queue) = {} => Owed(Tail(queue)) = {}
  BY <1>1, OwedTail
<1>5. Tail(queue) \in Seq(Ops)
  BY <1>1, QueueTake
<1> QED
  BY <1>2, <1>3, <1>4, <1>5, AccountStop

\* A request of somebody else, or of the guard, is added.
LEMMA AccountSubmit ==
  ASSUME TypeOK, AccountInv, NEW o \in Ops, queue' = Append(queue, o),
         o.reply = "guard" => o.kind \in GuardKinds /\ guard # "waiting" /\ guard' = "waiting",
         o.reply # "guard" => guard' = guard,
         keepAlive' <=> guard' # "none", UNCHANGED <<op, pc, guardReply>>
  PROVE  AccountInv'
<1>1. queue \in Seq(Ops)
  BY DEF TypeOK, QueueTyped
<1>2. GuardFlag' /\ OwnedByGuard'
  BY <1>1, OwedAppend DEF AccountInv, GuardFlag, OwnedByGuard
<1>3. OneSource'
  BY <1>1, OwedAppend DEF AccountInv, OneSource
<1> QED
  BY <1>2, <1>3 DEF AccountInv

LEMMA AccountKept ==
  ASSUME TypeOK, AccountInv, [Next]_vars
  PROVE  AccountInv'
<1> USE DEF kernel, process, guardVars, replies, clients
<1>0. /\ \A kind \in OpKinds, reply \in {"nobody", "guard", "maint"} : Request(kind, reply) \in Ops
      /\ {"recover", "heal", "reconcile_run", "reconcile_stop", "suspend", "resume"} \subseteq OpKinds
      /\ SubmitKinds \subseteq OpKinds
      /\ \A kind, reply : Request(kind, reply).kind = kind /\ Request(kind, reply).reply = reply
  BY QueueUpdates DEF Request
<1>1. CASE BeginStart
  BY <1>1, AccountTake DEF BeginStart, Begin, Take
<1>2. CASE BeginStop
  BY <1>2, AccountTakeStop DEF BeginStop, Begin, Take, GuardKinds
<1>3. CASE BeginRestart
  <2>1. pc = "idle" /\ queue # <<>> /\ UNCHANGED <<guard, keepAlive>>
    BY <1>3 DEF BeginRestart, Begin
  <2>2. \/ Finish(Head(queue), "err") /\ queue' = Tail(queue)
        \/ op' = Head(queue) /\ queue' = Tail(queue) /\ pc' = "resolve" /\ guardReply' = guardReply
    BY <1>3 DEF BeginRestart, Take, Skip
  <2> QED
    BY <2>1, <2>2, AccountTake, AccountSkip
<1>4. ASSUME NEW kind \in {"reconcile_run", "reconcile_stop"}, NEW wanted, BeginReconcile(kind, wanted)
      PROVE  AccountInv'
  <2>1. pc = "idle" /\ queue # <<>> /\ Head(queue).kind \notin GuardKinds
    BY <1>4 DEF BeginReconcile, Begin, GuardKinds
  <2>2. \/ /\ op' = Head(queue) /\ queue' = Tail(queue) /\ pc' = "resolve"
           /\ UNCHANGED <<guardReply, guard, keepAlive>>
        \/ op' = Head(queue) /\ EnterStop(Tail(queue))
        \/ /\ Finish(Head(queue), "ok") /\ queue' = Tail(queue)
           /\ UNCHANGED <<guard, keepAlive>>
    BY <1>4 DEF BeginReconcile, Take, Skip
  <2> QED
    BY <2>1, <2>2, AccountTake, AccountSkip, AccountTakeStop
<1>5. ASSUME NEW kind, NEW impact, BeginApply(kind, impact)
      PROVE  AccountInv'
  <2>1. pc = "idle" /\ queue # <<>> /\ UNCHANGED <<guard, keepAlive>>
    BY <1>5 DEF BeginApply, Begin
  <2>2. \/ Finish(Head(queue), "ok") /\ queue' = Tail(queue)
        \/ op' = Head(queue) /\ queue' = Tail(queue) /\ pc' = "resolve" /\ guardReply' = guardReply
    BY <1>5 DEF BeginApply, Take, Skip
  <2> QED
    BY <2>1, <2>2, AccountTake, AccountSkip
<1>6. CASE BeginSuspend
  <2>1. pc = "idle" /\ queue # <<>> /\ Head(queue).kind \notin GuardKinds
    BY <1>6 DEF BeginSuspend, Begin, GuardKinds
  <2>2. \/ op' = Head(queue) /\ EnterStop(Tail(queue))
        \/ /\ Finish(Head(queue), "ok") /\ queue' = Tail(queue)
           /\ UNCHANGED <<guard, keepAlive>>
    BY <1>6 DEF BeginSuspend, Take, Skip
  <2> QED
    BY <2>1, <2>2, AccountSkip, AccountTakeStop
<1>7. CASE BeginResume
  <2>1. pc = "idle" /\ queue # <<>> /\ UNCHANGED <<guard, keepAlive>>
    BY <1>7 DEF BeginResume, Begin
  <2>2. \/ Finish(Head(queue), "ok") /\ queue' = Tail(queue)
        \/ op' = Head(queue) /\ queue' = Tail(queue) /\ pc' = "resolve" /\ guardReply' = guardReply
    BY <1>7 DEF BeginResume, Take, Skip
  <2> QED
    BY <2>1, <2>2, AccountTake, AccountSkip
<1>8. CASE BeginGuardOp
  <2>1. pc = "idle" /\ queue # <<>> /\ UNCHANGED <<guard, keepAlive>>
    BY <1>8 DEF BeginGuardOp, Begin
  <2>2. \/ Finish(Head(queue), "skipped") /\ queue' = Tail(queue)
        \/ op' = Head(queue) /\ queue' = Tail(queue) /\ pc' # "idle" /\ guardReply' = guardReply
    BY <1>8 DEF BeginGuardOp, Take, Skip
  <2> QED
    BY <2>1, <2>2, AccountTake, AccountSkip
<1>9. CASE Resolve
  <2>1. \/ Finish(op, "err") /\ UNCHANGED <<queue, guard, keepAlive>>
        \/ RestartsAfterStop /\ EnterStop(queue) /\ op' = op
        \/ UNCHANGED <<op, guardReply, queue, guard, keepAlive>> /\ pc' = "prepare"
    BY <1>9 DEF Resolve, EnterStart
  <2>2. RestartsAfterStop => op.reply # "guard"
    BY DEF RestartsAfterStop, AccountInv, OwnedByGuard, GuardKinds
  <2>3. queue \in Seq(Ops)
    BY DEF TypeOK, QueueTyped
  <2>4. CASE RestartsAfterStop /\ EnterStop(queue) /\ op' = op
    BY <2>2, <2>3, <2>4, AccountStop DEF AccountInv, OwnedByGuard
  <2> QED
    BY <2>1, <2>4, AccountFinish, AccountSame DEF AccountInv, GuardFlag
<1>10. CASE \/ Prepare \/ CheckRunning \/ CleanConflict \/ Validate \/ Spawn \/ Verify
            \/ StabilityFresh \/ StabilityRunning \/ StopKernel \/ StopCheck \/ StopTimeout
            \/ ForceKill \/ CleanStop
  <2>1. UNCHANGED <<queue, guard, keepAlive>>
    BY <1>10 DEF Prepare, CheckRunning, CleanConflict, Validate, Spawn, Verify, StabilityFresh,
       StabilityRunning, StopKernel, StopCheck, StopTimeout, ForceKill, CleanStop
  <2>2. \/ Finish(op, "err") \/ Finish(op, "ok")
        \/ UNCHANGED <<op, guardReply>> /\ pc' # "idle"
    BY <1>10 DEF Prepare, CheckRunning, CleanConflict, Validate, Spawn, Verify, StabilityFresh,
       StabilityRunning, StopKernel, StopCheck, StopTimeout, ForceKill, CleanStop, Goto,
       Retry, StartError, StopFailed, EnterStart
  <2> QED
    BY <2>1, <2>2, AccountFinish, AccountSame DEF AccountInv, GuardFlag
<1>11. CASE Started
  <2>1. Finish(op, "ok") /\ queue' = queue
    BY <1>11 DEF Started
  <2>2. CASE op.kind \in GuardKinds
    BY <1>11, <2>1, <2>2, AccountFinish DEF Started
  <2>3. CASE op.kind \notin GuardKinds
    <3>1. op.reply # "guard" /\ guardReply = "none"
      BY <1>11, <2>3 DEF Started, At, AccountInv, OwnedByGuard
    <3>2. keepAlive' /\ guard' = IF keepAlive THEN guard ELSE "sleep"
      BY <1>11, <2>3 DEF Started
    <3>3. op' = NoOp /\ op'.reply # "guard" /\ guardReply' = guardReply
      BY <2>1, <3>1 DEF Finish, NoOp
    <3> QED
      BY <2>1, <3>1, <3>2, <3>3 DEF AccountInv, GuardFlag, OwnedByGuard, OneSource
  <2> QED
    BY <2>2, <2>3
<1>12. CASE GuardTick
  BY <1>12, AccountSame DEF GuardTick, AccountInv, GuardFlag
<1>13. CASE GuardTun
  <2>1. CASE guard' = "sleep"
    BY <1>13, <2>1, AccountSame DEF GuardTun, AccountInv, GuardFlag
  <2>2. CASE guard' # "sleep"
    <3>1. /\ guard = "tun" /\ queue' = Append(queue, Request("heal", "guard")) /\ guard' = "waiting"
          /\ UNCHANGED <<op, pc, guardReply, keepAlive>>
      BY <1>13, <2>2 DEF GuardTun
    <3>2. /\ Request("heal", "guard") \in Ops /\ Request("heal", "guard").kind \in GuardKinds
          /\ Request("heal", "guard").reply = "guard"
      BY <1>0 DEF GuardKinds
    <3> QED
      BY <3>1, <3>2, AccountSubmit DEF AccountInv, GuardFlag
  <2> QED
    BY <2>1, <2>2
<1>14. CASE GuardReact
  BY <1>14, AccountSame DEF GuardReact, EndGuard, AccountInv, GuardFlag
<1>15. CASE GuardSubmit
  <2>1. CASE EndGuard /\ UNCHANGED queue
    BY <1>15, <2>1, AccountSame DEF GuardSubmit, EndGuard
  <2>2. CASE queue' = Append(queue, Request("recover", "guard")) /\ guard' = "waiting"
             /\ keepAlive' = keepAlive
    <3>1. guard = "preflight" /\ UNCHANGED <<op, pc, guardReply>>
      BY <1>15 DEF GuardSubmit
    <3>2. /\ Request("recover", "guard") \in Ops /\ Request("recover", "guard").kind \in GuardKinds
          /\ Request("recover", "guard").reply = "guard"
      BY <1>0 DEF GuardKinds
    <3> QED
      BY <2>2, <3>1, <3>2, AccountSubmit DEF AccountInv, GuardFlag
  <2> QED
    BY <1>15, <2>1, <2>2 DEF GuardSubmit
<1>16. CASE GuardAnswer
  <2>1. /\ guard = "waiting" /\ guardReply # "none" /\ guardReply' = "none"
        /\ UNCHANGED <<op, pc, queue>>
    BY <1>16 DEF GuardAnswer
  <2>2. \/ ~keepAlive' /\ guard' = "none"
        \/ keepAlive' = keepAlive /\ guard' = "sleep"
    BY <1>16 DEF GuardAnswer, EndGuard
  <2> QED
    BY <2>1, <2>2 DEF AccountInv, GuardFlag, OwnedByGuard, OneSource
<1>17. ASSUME NEW kind \in UserKinds, Submit(kind)
       PROVE  AccountInv'
  <2>1. kind \in OpKinds
    BY <1>0, ConstantsAssumption DEF ConstantsAssumption
  <2>2. Request(kind, "nobody") \in Ops /\ Request(kind, "nobody").reply # "guard"
    BY <1>0, <2>1
  <2>3. queue' = Append(queue, Request(kind, "nobody"))
        /\ UNCHANGED <<op, pc, guardReply, guard, keepAlive>>
    BY <1>17 DEF Submit, Enqueue
  <2> QED
    BY <2>2, <2>3, AccountSubmit DEF AccountInv, GuardFlag
<1>18. CASE \/ StartupReconcile \/ MaintStart \/ MaintReplace
  <2>1. UNCHANGED <<op, pc, guardReply, guard, keepAlive>>
    BY <1>18 DEF StartupReconcile, MaintStart, MaintReplace
  <2>2. \/ queue' = queue
        \/ \E kind \in OpKinds, reply \in {"nobody", "maint"} :
             queue' = Append(queue, Request(kind, reply))
    <3>1. CASE StartupReconcile
      BY <1>0, <3>1 DEF StartupReconcile, Enqueue
    <3>2. CASE MaintStart
      BY <1>0, <3>2 DEF MaintStart, Enqueue
    <3>3. CASE MaintReplace
      BY <1>0, <3>3 DEF MaintReplace, Enqueue
    <3> QED
      BY <1>18, <3>1, <3>2, <3>3
  <2>3. CASE queue' = queue
    BY <2>1, <2>3, AccountSame DEF AccountInv, GuardFlag
  <2>4. ASSUME NEW kind \in OpKinds, NEW reply \in {"nobody", "maint"},
               queue' = Append(queue, Request(kind, reply))
        PROVE  AccountInv'
    <3>1. Request(kind, reply) \in Ops /\ Request(kind, reply).reply # "guard"
      BY <1>0, <2>4
    <3> QED
      BY <2>1, <2>4, <3>1, AccountSubmit DEF AccountInv, GuardFlag
  <2> QED
    BY <2>2, <2>3, <2>4
<1>19. CASE \/ MaintSuspended \/ MaintResumed \/ ProbeRead \/ ProbeWrite \/ LiveCheck \/ LiveApply
            \/ Crash \/ ForeignExit \/ UNCHANGED vars
  <2>1. UNCHANGED <<op, pc, guardReply, guard, keepAlive, queue>>
    BY <1>19 DEF MaintSuspended, MaintResumed, ProbeRead, ProbeWrite, LiveCheck, LiveApply, Crash,
       ForeignExit, vars
  <2> QED
    BY <2>1, AccountSame DEF AccountInv, GuardFlag
<1> QED
  BY <1>1, <1>2, <1>3, <1>4, <1>5, <1>6, <1>7, <1>8, <1>9, <1>10, <1>11, <1>12, <1>13, <1>14,
     <1>15, <1>16, <1>17, <1>18, <1>19
     DEF Next, Worker, Guard, Clients, Maintenance, Environment

\* A guard task exists exactly while its flag is set, one that waits has exactly one
\* operation or answer to wait for, one that does not wait has none, whatever aborts,
\* skips or fails its operations (guard.rs:204, 511-522).
THEOREM GuardIsAccounted == Spec => []GuardAccounting
<1>1. Init => AccountInv
  BY AccountInit
<1>2. TypeOK /\ AccountInv /\ [Next]_vars => AccountInv'
  BY AccountKept
<1>3. AccountInv => GuardAccounting
  BY DEF AccountInv, GuardFlag, OneSource, Owed, GuardAccounting
<1> QED
  BY <1>1, <1>2, <1>3, TypeCorrect, PTL DEF Spec
====
