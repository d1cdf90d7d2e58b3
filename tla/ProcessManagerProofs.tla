----------------------- MODULE ProcessManagerProofs -----------------------
(***************************************************************************)
(* Proofs about ProcessManager, for every set of process ids, failure set  *)
(* and budget.  Whatever a PID file has outlived, nothing but a kernel is  *)
(* ever killed.  Without TUN no kernel is lost, doubled or left by a stop, *)
(* whatever operations run.  With TUN a kernel belongs to root and a stop  *)
(* may lose it; as long as only starts run there is still one at most.     *)
(***************************************************************************)
EXTENDS ProcessManager, FiniteSetTheorems, TLAPS

-----------------------------------------------------------------------------
(* The inductive invariant.  A process dies because a kill reaches it or    *)
(* because it is a sudo whose kernel died, so the invariant says which      *)
(* processes bear the PID of the handle and which are parents.              *)

ProcessesTyped == procs \subseteq Process /\ fresh \subseteq Pids /\ tun \in BOOLEAN

\* Processes that run have different PIDs, and none is handed out twice.
OnePerPid ==
  /\ \A p, q \in procs : p.pid = q.pid => p = q
  /\ \A q \in procs : q.pid \notin fresh

\* A sudo belongs to root and was not forked by another.
SudoShape == \A s \in Named("sudo") : s.root /\ s.parent = NoPid

\* Only a sudo is a parent, and of one process only.
ParentIsSudo ==
  /\ \A k \in procs : k.parent # NoPid => \E s \in Named("sudo") : s.pid = k.parent
  /\ \A k, l \in procs : k.parent = l.parent /\ k.parent # NoPid => k = l

\* The handle dies with the application and never names an unrelated program.
HandleOurs ==
  /\ ~app => handle = NoPid
  /\ \A q \in procs : q.pid = handle => q.name # "other"

ProcessInv == ProcessesTyped /\ OnePerPid /\ SudoShape /\ ParentIsSudo /\ HandleOurs

-----------------------------------------------------------------------------
(* What a step can do to the processes. *)

\* What a kill of kernels leaves: every unrelated program, and the invariant.
LEMMA Survivors ==
  ASSUME ProcessAssumption, ProcessInv,
         NEW dead, dead \subseteq Named("sing-box"),
         procs' = Without(dead), fresh' = fresh,
         handle' \in {handle, NoPid}, app' = app, tun' \in BOOLEAN
  PROVE  ProcessInv' /\ Named("other") \subseteq procs'
<1>1. procs' \subseteq procs /\ \A q \in procs' : q \notin dead /\ ~\E k \in dead : k.parent = q.pid
  BY DEF Without
<1>2. \A k \in dead : k \in procs /\ k.name = "sing-box"
  BY DEF Named
<1>3. \A q \in procs : q.pid \in Pids /\ q.pid # NoPid /\ q.name \in {"sing-box", "sudo", "other"}
  BY DEF ProcessInv, ProcessesTyped, Process, ProcessAssumption
<1>4. \A k \in procs, q \in procs : k.parent = q.pid => q.name = "sudo"
  <2> SUFFICES ASSUME NEW k \in procs, NEW q \in procs, k.parent = q.pid
               PROVE  q.name = "sudo"
    OBVIOUS
  <2>1. PICK s \in procs : s.name = "sudo" /\ s.pid = k.parent
    BY <1>3 DEF ProcessInv, ParentIsSudo, Named
  <2> QED
    BY <2>1 DEF ProcessInv, OnePerPid
<1>5. Named("other") \subseteq procs'
  BY <1>2, <1>4 DEF Named, Without
<1>6. ProcessesTyped' /\ OnePerPid'
  BY <1>1 DEF ProcessInv, ProcessesTyped, OnePerPid
<1>7. SudoShape'
  BY <1>1 DEF ProcessInv, SudoShape, Named
<1>8. ParentIsSudo'
  <2>1. \A k, l \in procs' : k.parent = l.parent /\ k.parent # NoPid => k = l
    BY <1>1 DEF ProcessInv, ParentIsSudo
  <2>2. ASSUME NEW k \in procs', k.parent # NoPid
        PROVE  \E s \in Named("sudo")' : s.pid = k.parent
    <3>1. PICK s \in procs : s.name = "sudo" /\ s.pid = k.parent
      BY <1>1, <2>2 DEF ProcessInv, ParentIsSudo, Named
    <3>2. s \notin dead
      BY <1>2, <3>1
    <3>3. ~\E l \in dead : l.parent = s.pid
      BY <1>1, <1>2, <2>2, <3>1 DEF ProcessInv, ParentIsSudo
    <3>4. s \in procs'
      BY <3>1, <3>2, <3>3 DEF Without
    <3> QED
      BY <3>1, <3>4 DEF Named
  <2> QED
    BY <2>1, <2>2 DEF ParentIsSudo
<1>9. HandleOurs'
  BY <1>1, <1>3 DEF ProcessInv, HandleOurs
<1> QED
  BY <1>5, <1>6, <1>7, <1>8, <1>9 DEF ProcessInv

\* A step that leaves the processes alone.
LEMMA NobodyDies ==
  ASSUME ProcessAssumption, ProcessInv,
         procs' = procs, fresh' = fresh, handle' \in {handle, NoPid},
         app' = app \/ handle' = NoPid, tun' \in BOOLEAN
  PROVE  ProcessInv' /\ Named("other") \subseteq procs'
<1>1. \A q \in procs : q.pid # NoPid
  BY DEF ProcessInv, ProcessesTyped, Process, ProcessAssumption
<1> QED
  BY <1>1 DEF ProcessInv, ProcessesTyped, OnePerPid, SudoShape, ParentIsSudo, HandleOurs, Named

\* A process that appears with a PID that nobody has.
LEMMA SomebodyStarts ==
  ASSUME ProcessAssumption, ProcessInv,
         NEW n \in Process, \A q \in procs : q.pid # n.pid,
         procs' = procs \cup {n}, fresh' = fresh \ {n.pid}, app' = app, tun' = tun,
         n.name = "sudo" => n.root /\ n.parent = NoPid,
         n.parent # NoPid => \E s \in Pending : s.pid = n.parent,
         handle' = handle \/ (app /\ handle' = n.pid),
         n.name = "other" => handle' # n.pid
  PROVE  ProcessInv' /\ Named("other") \subseteq procs'
<1>1. ProcessesTyped' /\ OnePerPid'
  BY DEF ProcessInv, ProcessesTyped, OnePerPid
<1>2. SudoShape'
  BY DEF ProcessInv, SudoShape, Named
<1>3. ParentIsSudo'
  BY DEF ProcessInv, ParentIsSudo, Named, Pending
<1>4. HandleOurs'
  BY DEF ProcessInv, HandleOurs
<1> QED
  BY <1>1, <1>2, <1>3, <1>4 DEF ProcessInv, Named

\* The plain kill of the handle's child can only reach a kernel.
LEMMA HandleVictims ==
  ASSUME ProcessInv
  PROVE  {q \in WithPid(handle) : ~q.root} \subseteq Named("sing-box")
BY DEF ProcessInv, ProcessesTyped, Process, SudoShape, HandleOurs, WithPid, Named

\* A recorded PID that is the PID of an active kernel names that kernel.
LEMMA RecordVictims ==
  ASSUME ProcessInv, record \in Active
  PROVE  {q \in WithPid(record) : ~q.root} \subseteq Named("sing-box")
BY DEF ProcessInv, OnePerPid, WithPid, Named, Active

-----------------------------------------------------------------------------
(* Every step. *)

LEMMA ProcessInit ==
  ASSUME ProcessAssumption, Init
  PROVE  ProcessInv
BY DEF Init, ProcessInv, ProcessesTyped, OnePerPid, SudoShape, ParentIsSudo, HandleOurs, Named

LEMMA RunningStep ==
  ASSUME NEW running, IsRunning(running)
  PROVE  handle' \in {handle, NoPid}
BY DEF IsRunning

\* The operation's TUN setting is a Boolean, whatever step is taken.
LEMMA TunTyped ==
  ASSUME ProcessAssumption, ProcessInv, [Next]_vars
  PROVE  tun' \in BOOLEAN
<1>1. tun \in BOOLEAN
  BY DEF ProcessInv, ProcessesTyped
<1>2. tun' \in BOOLEAN \/ tun' = tun
  BY DEF Next, vars, worker, Worker, Startup, Environment, BeginStart, BeginStop, BeginRecover,
         ForceKill, ForceVerify, ForceAgain, Validate, StopHandle, KillExisting, KillCheck,
         ReplaceHandle, Spawn, Persist, Verify, ReaderRead, ReaderCompare, AppDies, AppStarts,
         SudoRuns, KernelExits, ProgramStarts, DropChild, Continue, End, AfterKill, Retry, Begin,
         ProcessAssumption
<1> QED
  BY <1>1, <1>2

LEMMA KillExistingStep ==
  ASSUME ProcessAssumption, ProcessInv, NEW a \in Actors, KillExisting(a), tun' \in BOOLEAN
  PROVE  ProcessInv' /\ Named("other") \subseteq procs'
<1>1. CASE record \notin Active
  BY <1>1, NobodyDies DEF KillExisting
<1>2. CASE record \in Active
  <2> DEFINE dead == {q \in WithPid(record) : ~q.root}
  <2>1. procs' = Without(dead) /\ fresh' = fresh /\ handle' = handle /\ app' = app
    BY <1>2 DEF KillExisting, PlainKill
  <2>2. dead \subseteq Named("sing-box")
    BY <1>2, RecordVictims
  <2> HIDE DEF dead
  <2> QED
    BY <2>1, <2>2, Survivors
<1> QED
  BY <1>1, <1>2

LEMMA KillCheckStep ==
  ASSUME ProcessAssumption, ProcessInv, NEW a \in Actors, KillCheck(a), tun' \in BOOLEAN
  PROVE  ProcessInv' /\ Named("other") \subseteq procs'
<1> DEFINE dead == {q \in Named("sing-box") : q.pid = target[a]}
<1>1. procs' = Without(dead) \/ procs' = procs
  BY DEF KillCheck, SudoKill
<1>2. fresh' = fresh /\ handle' = handle /\ app' = app
  BY DEF KillCheck
<1>3. dead \subseteq Named("sing-box")
  OBVIOUS
<1> HIDE DEF dead
<1> QED
  BY <1>1, <1>2, <1>3, Survivors, NobodyDies

LEMMA ProcessStep ==
  ASSUME ProcessAssumption, ProcessInv, [Next]_vars
  PROVE  ProcessInv' /\ Named("other") \subseteq procs'
<1>0. tun' \in BOOLEAN
  BY TunTyped
<1>1. ASSUME NEW withTun \in Tuns, BeginStart(withTun)
      PROVE  ProcessInv' /\ Named("other") \subseteq procs'
  <2>1. handle' \in {handle, NoPid}
    BY <1>1, RunningStep DEF BeginStart
  <2> QED
    BY <1>0, <1>1, <2>1, NobodyDies DEF BeginStart
<1>2. ASSUME NEW kind \in OpKinds \cup {"stop", "heal"}, BeginStop(kind)
      PROVE  ProcessInv' /\ Named("other") \subseteq procs'
  BY <1>0, <1>2, NobodyDies DEF BeginStop
<1>3. CASE BeginRecover
  BY <1>0, <1>3, NobodyDies DEF BeginRecover
<1>4. CASE ForceKill
  <2> DEFINE dead == {q \in Named("sing-box") : ~q.root}
  <2>1. procs' = Without(dead) /\ fresh' = fresh /\ handle' = NoPid /\ app' = app
    BY <1>4 DEF ForceKill, PlainKill
  <2>2. dead \subseteq Named("sing-box")
    OBVIOUS
  <2> HIDE DEF dead
  <2> QED
    BY <1>0, <2>1, <2>2, Survivors
<1>5. CASE ForceVerify
  <2>1. procs' = Without(Named("sing-box")) \/ procs' = procs
    BY <1>5 DEF ForceVerify, SudoKill
  <2>2. fresh' = fresh /\ handle' = handle /\ app' = app
    BY <1>5 DEF ForceVerify
  <2> QED
    BY <1>0, <2>1, <2>2, Survivors, NobodyDies
<1>6. CASE ForceAgain
  BY <1>0, <1>6, NobodyDies DEF ForceAgain
<1>7. CASE Validate
  BY <1>0, <1>7, NobodyDies DEF Validate
<1>8. CASE StopHandle \/ ReplaceHandle
  <2> DEFINE dead == {q \in WithPid(handle) : ~q.root}
  <2>1. procs' = Without(dead) /\ fresh' = fresh /\ handle' = NoPid /\ app' = app
    BY <1>8 DEF StopHandle, ReplaceHandle, PlainKill
  <2>2. dead \subseteq Named("sing-box")
    BY HandleVictims
  <2> HIDE DEF dead
  <2> QED
    BY <1>0, <2>1, <2>2, Survivors
<1>9. CASE Spawn
  <2>1. CASE procs' = procs /\ fresh' = fresh /\ handle' = handle
    BY <1>0, <1>9, <2>1, NobodyDies DEF Spawn
  <2>2. CASE \E p \in fresh :
               /\ procs' = procs \cup
                    {[pid |-> p, name |-> IF tun THEN "sudo" ELSE "sing-box", root |-> tun,
                      origin |-> "manager", parent |-> NoPid]}
               /\ fresh' = fresh \ {p} /\ handle' = p
    <3>1. PICK p \in fresh :
            /\ procs' = procs \cup
                 {[pid |-> p, name |-> IF tun THEN "sudo" ELSE "sing-box", root |-> tun,
                   origin |-> "manager", parent |-> NoPid]}
            /\ fresh' = fresh \ {p} /\ handle' = p
      BY <2>2
    <3> DEFINE n == [pid |-> p, name |-> IF tun THEN "sudo" ELSE "sing-box", root |-> tun,
                     origin |-> "manager", parent |-> NoPid]
    <3>2. n \in Process /\ n.pid = p /\ n.parent = NoPid /\ n.root = tun
      BY DEF Process, ProcessInv, ProcessesTyped
    <3>3. (n.name = "sudo" /\ tun) \/ n.name = "sing-box"
      OBVIOUS
    <3>4. \A q \in procs : q.pid # p
      BY DEF ProcessInv, OnePerPid
    <3>5. app /\ app' = app /\ tun' = tun
      BY <1>9 DEF Spawn, DropChild, At, Continue, Retry, End, worker
    <3> HIDE DEF n
    <3>6. procs' = procs \cup {n} /\ fresh' = fresh \ {n.pid}
      BY <3>1, <3>2 DEF n
    <3> QED
      BY <3>1, <3>2, <3>3, <3>4, <3>5, <3>6, SomebodyStarts
  <2>3. CASE DropChild
    <3>1. PICK p \in fresh :
            /\ procs' = procs \cup
                 {[pid |-> p, name |-> "sing-box", root |-> FALSE, origin |-> "dropped",
                   parent |-> NoPid]}
            /\ fresh' = fresh \ {p} /\ handle' = handle
      BY <2>3 DEF DropChild
    <3> DEFINE n == [pid |-> p, name |-> "sing-box", root |-> FALSE, origin |-> "dropped",
                     parent |-> NoPid]
    <3>2. n \in Process /\ n.pid = p /\ n.parent = NoPid /\ n.name = "sing-box"
      BY DEF Process, ProcessInv, ProcessesTyped
    <3>3. \A q \in procs : q.pid # p
      BY DEF ProcessInv, OnePerPid
    <3>4. app' = app /\ tun' = tun
      BY <1>9, <2>3 DEF Spawn, DropChild, Retry, End, worker
    <3> HIDE DEF n
    <3>5. procs' = procs \cup {n} /\ fresh' = fresh \ {n.pid}
      BY <3>1, <3>2 DEF n
    <3> QED
      BY <3>1, <3>2, <3>3, <3>4, <3>5, SomebodyStarts
  <2> QED
    BY <1>9, <2>1, <2>2, <2>3 DEF Spawn
<1>10. CASE Persist
  BY <1>0, <1>10, NobodyDies DEF Persist
<1>11. CASE Verify
  <2>1. handle' \in {handle, NoPid}
    BY <1>11, RunningStep DEF Verify
  <2> QED
    BY <1>0, <1>11, <2>1, NobodyDies DEF Verify
<1>12. CASE ReaderRead \/ ReaderCompare
  BY <1>0, <1>12, NobodyDies DEF ReaderRead, ReaderCompare
<1>13. CASE AppDies
  BY <1>0, <1>13, NobodyDies DEF AppDies
<1>14. CASE AppStarts
  <2>1. procs' = procs /\ fresh' = Pids \ Live /\ handle' = handle /\ app' /\ ~app /\ tun' = tun
    BY <1>14 DEF AppStarts, worker
  <2> QED
    BY <2>1 DEF ProcessInv, ProcessesTyped, OnePerPid, SudoShape, ParentIsSudo, HandleOurs,
                Named, Live
<1>15. CASE SudoRuns
  <2>1. PICK s \in Pending :
          \/ /\ procs' = (procs \ {s}) \cup {[s EXCEPT !.name = "sing-box"]}
             /\ fresh' = fresh
          \/ \E p \in fresh :
               /\ procs' = procs \cup
                    {[pid |-> p, name |-> "sing-box", root |-> TRUE, origin |-> "manager",
                      parent |-> s.pid]}
               /\ fresh' = fresh \ {p}
    BY <1>15 DEF SudoRuns
  <2>2. app' = app /\ handle' = handle /\ tun' = tun
    BY <1>15 DEF SudoRuns, worker
  <2>3. s \in procs /\ s.name = "sudo" /\ s \in Process /\ \A k \in procs : k.parent # s.pid
    BY DEF Pending, Named, ProcessInv, ProcessesTyped
  <2>4. CASE procs' = (procs \ {s}) \cup {[s EXCEPT !.name = "sing-box"]} /\ fresh' = fresh
    <3> DEFINE k == [s EXCEPT !.name = "sing-box"]
    <3>1. /\ k \in Process /\ k.pid = s.pid /\ k.name = "sing-box"
          /\ k.parent = NoPid
      BY <2>3 DEF Process, ProcessInv, SudoShape, Named
    <3>2. \A q \in procs' : (q \in procs /\ q # s) \/ q = k
      BY <2>4
    <3>3. \A q \in procs : q # s => q \in procs' /\ q.pid # s.pid
      BY <2>3, <2>4 DEF ProcessInv, OnePerPid
    <3> HIDE DEF k
    <3>4. ProcessesTyped' /\ OnePerPid'
      BY <2>2, <2>3, <2>4, <3>1, <3>2, <3>3 DEF ProcessInv, ProcessesTyped, OnePerPid
    <3>5. SudoShape'
      BY <3>1, <3>2 DEF ProcessInv, SudoShape, Named
    <3>6. ParentIsSudo'
      BY <2>3, <3>1, <3>2, <3>3 DEF ProcessInv, ParentIsSudo, Named
    <3>7. HandleOurs'
      BY <2>2, <3>1, <3>2 DEF ProcessInv, HandleOurs
    <3>8. Named("other") \subseteq procs'
      BY <2>3, <3>3 DEF Named
    <3> QED
      BY <3>4, <3>5, <3>6, <3>7, <3>8 DEF ProcessInv
  <2>5. CASE \E p \in fresh :
               /\ procs' = procs \cup
                    {[pid |-> p, name |-> "sing-box", root |-> TRUE, origin |-> "manager",
                      parent |-> s.pid]}
               /\ fresh' = fresh \ {p}
    <3>1. PICK p \in fresh :
            /\ procs' = procs \cup
                 {[pid |-> p, name |-> "sing-box", root |-> TRUE, origin |-> "manager",
                   parent |-> s.pid]}
            /\ fresh' = fresh \ {p}
      BY <2>5
    <3> DEFINE n == [pid |-> p, name |-> "sing-box", root |-> TRUE, origin |-> "manager",
                     parent |-> s.pid]
    <3>2. n \in Process /\ \A q \in procs : q.pid # n.pid
      BY <2>3 DEF Process, ProcessInv, ProcessesTyped, OnePerPid
    <3>3. n.pid = p /\ n.name = "sing-box" /\ n.parent = s.pid
      OBVIOUS
    <3> HIDE DEF n
    <3>4. procs' = procs \cup {n} /\ fresh' = fresh \ {n.pid}
      BY <3>1, <3>3 DEF n
    <3>5. /\ n.name = "sudo" => n.root /\ n.parent = NoPid
          /\ n.parent # NoPid => \E r \in Pending : r.pid = n.parent
          /\ n.name = "other" => handle' # n.pid
      BY <3>3
    <3> QED
      BY <2>2, <3>2, <3>4, <3>5, SomebodyStarts
  <2> QED
    BY <2>1, <2>4, <2>5
<1>16. CASE KernelExits
  <2>1. PICK q \in Named("sing-box") : procs' = Without({q})
    BY <1>16 DEF KernelExits
  <2>2. fresh' = fresh /\ handle' = handle /\ app' = app
    BY <1>16 DEF KernelExits
  <2> QED
    BY <1>0, <2>1, <2>2, Survivors
<1>17. CASE ProgramStarts
  <2>1. PICK p \in IF app THEN fresh ELSE Pids \ Live, name \in {"sing-box", "other"} :
          /\ app => name = "sing-box"
          /\ procs' = procs \cup
               {[pid |-> p, name |-> name, root |-> FALSE, origin |-> "user", parent |-> NoPid]}
          /\ fresh' = fresh \ {p}
    BY <1>17 DEF ProgramStarts
  <2>2. app' = app /\ handle' = handle /\ tun' = tun
    BY <1>17 DEF ProgramStarts, worker
  <2> DEFINE n == [pid |-> p, name |-> name, root |-> FALSE, origin |-> "user", parent |-> NoPid]
  <2>3. p \in Pids /\ p # NoPid /\ \A q \in procs : q.pid # p
    BY DEF ProcessInv, ProcessesTyped, OnePerPid, Live, ProcessAssumption
  <2>4. n \in Process /\ n.pid = p /\ n.name = name /\ n.parent = NoPid
    BY <2>3 DEF Process
  <2>5. name = "other" => handle' # p
    BY <2>1, <2>2, <2>3 DEF ProcessInv, HandleOurs
  <2> HIDE DEF n
  <2>6. procs' = procs \cup {n} /\ fresh' = fresh \ {n.pid}
    BY <2>1, <2>4 DEF n
  <2>7. /\ n.name = "sudo" => n.root /\ n.parent = NoPid
        /\ n.name = "other" => handle' # n.pid
        /\ \A q \in procs : q.pid # n.pid
    BY <2>1, <2>3, <2>4, <2>5
  <2> QED
    BY <2>2, <2>4, <2>6, <2>7, SomebodyStarts
<1>18. CASE UNCHANGED vars
  BY <1>0, <1>18, NobodyDies DEF vars
<1> QED
  BY <1>0, <1>1, <1>2, <1>3, <1>4, <1>5, <1>6, <1>7, <1>8, <1>9, <1>10, <1>11, <1>12, <1>13, <1>14,
     <1>15, <1>16, <1>17, <1>18, KillExistingStep, KillCheckStep
     DEF Next, Worker, Startup, Environment, Actors

-----------------------------------------------------------------------------
(* The theorem. *)

\* Nothing but a kernel is ever killed: a PID file that outlived its kernel costs no
\* unrelated program its life (manager.rs:731-776).
THEOREM OtherProgramsSpared == Spec => SparesOtherPrograms
<1>1. Init => ProcessInv
  BY ProcessInit, ProcessAssumption
<1>2. ProcessInv /\ [Next]_vars => ProcessInv'
  BY ProcessStep, ProcessAssumption
<1>3. ProcessInv /\ [Next]_vars => [Named("other") \subseteq procs']_vars
  BY ProcessStep, ProcessAssumption
<1> QED
  BY <1>1, <1>2, <1>3, PTL DEF Spec, SparesOtherPrograms

\* What counts as one kernel at most.
LEMMA AtMostOne ==
  ASSUME \A q, r \in OurKernels : q = r
  PROVE  Cardinality(OurKernels) <= 1
<1>1. CASE OurKernels = {}
  <2>1. Cardinality({}) = 0
    BY FS_EmptySet, Zenon
  <2> QED
    BY <1>1, <2>1
<1>2. CASE \E q : OurKernels = {q}
  <2>1. PICK q : OurKernels = {q}
    BY <1>2
  <2>2. Cardinality({q}) = 1
    BY FS_Singleton, Zenon
  <2> QED
    BY <2>1, <2>2
<1> QED
  BY <1>1, <1>2

-----------------------------------------------------------------------------
(* Without TUN nothing runs as root, and the manager accounts for every     *)
(* kernel it has spawned.                                                   *)

\* No sudo, nothing of root, and no start or heal with TUN.
PlainProcesses ==
  /\ ~tun /\ guarded # "tun"
  /\ \A q \in procs : /\ ~q.root /\ q.parent = NoPid /\ q.name # "sudo"
                      /\ q.origin = "manager" => q.name = "sing-box"

\* While the application does not run, it holds and does nothing.
NoApp ==
  ~app => /\ reader = NoPid /\ guarded = "off" /\ result = "none"
          /\ \A a \in Actors : pc[a] = "idle"

\* There is one kernel of ours at most; a handle, dead or alive, is not handed out
\* again, and a PID file names our kernel or none of our kernels at all.
OneKernel ==
  /\ \A q, r \in OurKernels : q = r
  /\ handle \notin fresh
  /\ \A q \in procs : q.pid = handle => q.origin = "manager"
  /\ \A q \in OurKernels : record \in {NoPid, q.pid}
  /\ \A q \in OurKernels : record = q.pid => handle \in {NoPid, record}

\* Every kernel of ours was there when the application started or is held.
KernelsHeld == app => \A q \in OurKernels : q.pid \in left \cup {handle}

\* A recorded kernel that is not held is not forgotten by a status query or by the
\* second half of a kill.
RecordKept ==
  \A q \in OurKernels : record = q.pid /\ handle # record
    => reader \in {NoPid, record} /\ \A a \in Actors : pc[a] # "killcheck"

\* While the guard is on, our kernel is held or recorded.
GuardKnows == guarded # "off" => \A q \in OurKernels : q.pid \in {handle, record}

\* Where the worker can be, and what has been killed by then.
WorkerTyped == pc \in [Actors -> Pcs] /\ target \in [Actors -> Pids \cup {NoPid}]

WorkerInv ==
  LET at == pc["worker"] IN
  /\ at # "idle" => result = "none"
  /\ at = "stop" => op = "stop"
  /\ at \in {"force", "forceverify", "forceagain"} => op = "start"
  /\ at \in {"kill", "killcheck"} => op \in {"start", "stop", "recover"}
  /\ at \in {"validate", "replace", "spawn", "persist", "verify"} => op \in {"start", "recover"}
  /\ at \in {"replace", "spawn", "persist"} => record = NoPid
  /\ at = "spawn" => handle = NoPid /\ OurKernels = {}
  /\ at \in {"persist", "verify"} => \A q \in OurKernels : q.pid = handle
  /\ at = "persist" => target["worker"] = handle \/ OurKernels = {}
  /\ (/\ op = "start"
      /\ at \in {"forceverify", "forceagain", "validate", "kill", "killcheck", "replace"})
     => OurKernels = {}
  /\ (op = "recover" /\ at \in {"validate", "kill", "killcheck", "replace"}) => guarded # "off"

\* What a stop still has to kill.
StopInv ==
  /\ pc["worker"] = "stop" => \A q \in OurKernels : q.pid \in owed => q.pid \in {handle, record}
  /\ op = "stop" /\ pc["worker"] = "kill"
       => handle = NoPid /\ \A q \in OurKernels : q.pid \in owed => q.pid = record
  /\ op = "stop" /\ pc["worker"] = "killcheck" => \A q \in OurKernels : q.pid \notin owed
  /\ StopKillsManaged

PlainInv == /\ PlainProcesses /\ NoApp /\ OneKernel /\ KernelsHeld /\ RecordKept /\ GuardKnows
            /\ WorkerTyped /\ WorkerInv /\ StopInv

-----------------------------------------------------------------------------
(* What the steps do to our kernels. *)

LEMMA KernelFacts ==
  ASSUME ProcessAssumption, ProcessInv, PlainProcesses, OneKernel
  PROVE  /\ OurKernels = {q \in procs : q.origin = "manager"}
         /\ \A q \in OurKernels : /\ q.pid \in Live /\ q.pid \in Active
                                  /\ q.pid \in Pids /\ q.pid # NoPid /\ q.pid \notin fresh
         /\ handle \in Live => \E q \in OurKernels : q.pid = handle
BY DEF ProcessAssumption, ProcessInv, ProcessesTyped, OnePerPid, Process, PlainProcesses, OneKernel,
       OurKernels, Named, Live, Active

\* Without a sudo nothing dies with a kernel, and every plain kill reaches its victims.
LEMMA PlainDeath ==
  ASSUME ProcessAssumption, ProcessInv, PlainProcesses, NEW dead, dead \subseteq procs
  PROVE  Without(dead) = procs \ dead
<1>1. \A k \in dead, q \in procs : k.parent # q.pid
  BY DEF ProcessAssumption, ProcessInv, ProcessesTyped, Process, PlainProcesses
<1> QED
  BY <1>1 DEF Without

LEMMA PlainKills ==
  ASSUME ProcessAssumption, ProcessInv, PlainProcesses, NEW victims, victims \subseteq procs,
         PlainKill(victims)
  PROVE  procs' = procs \ victims
<1>1. {q \in victims : ~q.root} = victims
  BY DEF PlainProcesses
<1> QED
  BY <1>1, PlainDeath DEF PlainKill

\* A death leaves the kernels that did not die.
LEMMA Remaining ==
  ASSUME NEW dead, procs' = procs \ dead
  PROVE  OurKernels' = OurKernels \ dead
BY DEF OurKernels, Named

\* Nothing that is true of every process becomes false when processes die.
LEMMA DeathsKeepPlain ==
  ASSUME PlainProcesses, procs' \subseteq procs, ~tun', guarded' \in {guarded, "off", "plain"}
  PROVE  PlainProcesses'
BY DEF PlainProcesses

LEMMA Running ==
  ASSUME ProcessAssumption, ProcessInv, PlainProcesses, OneKernel, NEW running, IsRunning(running)
  PROVE  /\ handle' \in {handle, NoPid}
         /\ \A q \in OurKernels : q.pid = handle => handle' = handle
         /\ running => record' = record /\ \A q \in OurKernels : q.pid \in {handle', record'}
         /\ ~running => /\ handle' = NoPid /\ record' = NoPid
                        /\ \A q \in OurKernels : q.pid # handle /\ q.pid # record
<1>1. /\ \A q \in OurKernels : q.pid \in Live /\ q.pid \in Active /\ q.pid # NoPid
      /\ handle \in Live => \E q \in OurKernels : q.pid = handle
  BY KernelFacts
<1>2. NoPid \notin Active
  BY DEF ProcessAssumption, ProcessInv, ProcessesTyped, Process, Active, Named
<1>3. \/ running /\ handle \in Live /\ handle' = handle /\ record' = record
      \/ running /\ handle \notin Live /\ record \in Active /\ handle' = NoPid /\ record' = record
      \/ ~running /\ handle \notin Live /\ record \notin Active /\ handle' = NoPid /\ record' = NoPid
  BY DEF IsRunning
<1> QED
  BY <1>1, <1>2, <1>3 DEF OneKernel

\* The worker, or the cleanup at startup, goes on.
Went(a, p) == /\ pc' \in [Actors -> Pcs] /\ pc'[a] = p
              /\ \A b \in Actors : b # a => pc'[b] = pc[b]

LEMMA Going ==
  ASSUME WorkerTyped, NEW a \in Actors, NEW p \in Pcs, Goto(a, p)
  PROVE  Went(a, p)
BY DEF WorkerTyped, Goto, Went

-----------------------------------------------------------------------------
(* Every step without TUN: the facts about our kernels, what the step does to *)
(* them and to the rest, then one step per part of the invariant.             *)

LEMMA PlainBeginStart ==
  ASSUME ProcessAssumption, ProcessInv, PlainInv, BeginStart(FALSE)
  PROVE  PlainInv'
<1> /\ PlainProcesses /\ NoApp /\ OneKernel /\ KernelsHeld /\ RecordKept /\ GuardKnows
    /\ WorkerTyped /\ WorkerInv /\ StopInv
  BY DEF PlainInv
<1>1. /\ \A q \in OurKernels : /\ q.pid \in Live /\ q.pid \in Active
                               /\ q.pid \in Pids /\ q.pid # NoPid /\ q.pid \notin fresh
      /\ NoPid \notin fresh /\ \A q \in procs : q.pid # NoPid
      /\ ~app => handle = NoPid
  BY KernelFacts DEF ProcessAssumption, ProcessInv, ProcessesTyped, Process, HandleOurs
<1>2. OurKernels' = OurKernels
  BY DEF OurKernels, Named, BeginStart
<1>3. /\ ~tun'
      /\ procs' = procs /\ fresh' = fresh /\ app' = app /\ target' = target /\ reader' = reader
      /\ left' = left /\ owed' = owed
  BY DEF BeginStart, worker, history, Continue, End, Retry, AfterKill, PlainProcesses
<1>4. /\ app /\ pc["worker"] = "idle"
      /\ handle' \in {handle, NoPid} /\ \A q \in OurKernels : q.pid = handle => handle' = handle
      /\ \/ /\ pc' = pc /\ op' = "none" /\ result' = "started" /\ guarded' = "plain"
            /\ record' = record /\ \A q \in OurKernels : q.pid \in {handle', record'}
         \/ /\ Went("worker", "force") \/ (Went("worker", "validate") /\ OurKernels = {})
            /\ op' = "start" /\ result' = "none" /\ guarded' = guarded
            /\ handle' = NoPid /\ record' = NoPid
            /\ \A q \in OurKernels : q.pid # handle /\ q.pid # record
  <2>1. PICK running \in BOOLEAN :
          /\ IsRunning(running)
          /\ IF running
               THEN op' = "none" /\ result' = "started" /\ guarded' = "plain" /\ pc' = pc
               ELSE /\ op' = "start" /\ result' = "none" /\ guarded' = guarded
                    /\ Goto("worker", IF Active = {} THEN "validate" ELSE "force")
    BY DEF BeginStart, Guarded
  <2>2. /\ handle' \in {handle, NoPid}
        /\ \A q \in OurKernels : q.pid = handle => handle' = handle
        /\ running => record' = record /\ \A q \in OurKernels : q.pid \in {handle', record'}
        /\ ~running => /\ handle' = NoPid /\ record' = NoPid
                       /\ \A q \in OurKernels : q.pid # handle /\ q.pid # record
    BY <2>1, Running
  <2>3. Active = {} => OurKernels = {}
    BY <1>1
  <2>4. ~running => Went("worker", IF Active = {} THEN "validate" ELSE "force")
    BY <2>1, Going DEF Actors, Pcs
  <2> QED
    BY <2>1, <2>2, <2>3, <2>4 DEF BeginStart, Begin, At
<1>5. PlainProcesses'
  BY <1>1, <1>2, <1>3, <1>4 DEF PlainProcesses, NoApp, OneKernel, Went, WorkerTyped, Actors
<1>6. NoApp'
  BY <1>1, <1>2, <1>3, <1>4 DEF NoApp, OneKernel, Went, WorkerTyped, Actors
<1>7. OneKernel'
  BY <1>1, <1>2, <1>3, <1>4 DEF OneKernel, WorkerInv, NoApp, Went, WorkerTyped, Actors
<1>8. KernelsHeld'
  BY <1>1, <1>2, <1>3, <1>4 DEF KernelsHeld, WorkerInv, NoApp, OneKernel, Went, WorkerTyped, Actors
<1>9. RecordKept'
  BY <1>1, <1>2, <1>3, <1>4 DEF RecordKept, WorkerInv, NoApp, OneKernel, Went, WorkerTyped, Actors
<1>10. GuardKnows'
  BY <1>1, <1>2, <1>3, <1>4 DEF GuardKnows, WorkerInv, NoApp, OneKernel, Went, WorkerTyped, Actors
<1>11. WorkerTyped'
  BY <1>1, <1>2, <1>3, <1>4 DEF WorkerTyped, NoApp, OneKernel, Went, Actors
<1>12. WorkerInv'
  BY <1>1, <1>2, <1>3, <1>4
     DEF WorkerInv, GuardKnows, KernelsHeld, RecordKept, NoApp, OneKernel, Went, WorkerTyped,
         Actors
<1>13. StopInv'
  BY <1>1, <1>2, <1>3, <1>4
     DEF StopInv, StopKillsManaged, WorkerInv, NoApp, OneKernel, Went, WorkerTyped, Actors
<1> QED
  BY <1>5, <1>6, <1>7, <1>8, <1>9, <1>10, <1>11, <1>12, <1>13 DEF PlainInv

LEMMA PlainBeginStop ==
  ASSUME ProcessAssumption, ProcessInv, PlainInv, NEW kind \in {"stop", "heal"}, BeginStop(kind)
  PROVE  PlainInv'
<1> /\ PlainProcesses /\ NoApp /\ OneKernel /\ KernelsHeld /\ RecordKept /\ GuardKnows
    /\ WorkerTyped /\ WorkerInv /\ StopInv
  BY DEF PlainInv
<1>1. /\ \A q \in OurKernels : /\ q.pid \in Live /\ q.pid \in Active
                               /\ q.pid \in Pids /\ q.pid # NoPid /\ q.pid \notin fresh
      /\ NoPid \notin fresh /\ \A q \in procs : q.pid # NoPid
      /\ ~app => handle = NoPid
  BY KernelFacts DEF ProcessAssumption, ProcessInv, ProcessesTyped, Process, HandleOurs
<1>2. OurKernels' = OurKernels
  BY DEF OurKernels, Named, BeginStop
<1>3. /\ ~tun'
      /\ procs' = procs /\ fresh' = fresh /\ app' = app /\ handle' = handle /\ record' = record
      /\ target' = target /\ reader' = reader /\ guarded' = guarded /\ left' = left
  BY DEF BeginStop, worker, history, Continue, End, Retry, AfterKill, PlainProcesses
<1>4. /\ app /\ op' = "stop" /\ result' = "none" /\ Went("worker", "stop")
      /\ \A q \in OurKernels : q.pid \in owed' => q.pid \in {handle, record}
  BY Going DEF BeginStop, Begin, At, PlainProcesses, Actors, Pcs
<1>5. PlainProcesses'
  BY <1>1, <1>2, <1>3, <1>4 DEF PlainProcesses, NoApp, OneKernel, Went, WorkerTyped, Actors
<1>6. NoApp'
  BY <1>1, <1>2, <1>3, <1>4 DEF NoApp, OneKernel, Went, WorkerTyped, Actors
<1>7. OneKernel'
  BY <1>1, <1>2, <1>3, <1>4 DEF OneKernel, WorkerInv, NoApp, Went, WorkerTyped, Actors
<1>8. KernelsHeld'
  BY <1>1, <1>2, <1>3, <1>4 DEF KernelsHeld, WorkerInv, NoApp, OneKernel, Went, WorkerTyped, Actors
<1>9. RecordKept'
  BY <1>1, <1>2, <1>3, <1>4 DEF RecordKept, WorkerInv, NoApp, OneKernel, Went, WorkerTyped, Actors
<1>10. GuardKnows'
  BY <1>1, <1>2, <1>3, <1>4 DEF GuardKnows, WorkerInv, NoApp, OneKernel, Went, WorkerTyped, Actors
<1>11. WorkerTyped'
  BY <1>1, <1>2, <1>3, <1>4 DEF WorkerTyped, NoApp, OneKernel, Went, Actors
<1>12. WorkerInv'
  BY <1>1, <1>2, <1>3, <1>4
     DEF WorkerInv, GuardKnows, KernelsHeld, RecordKept, NoApp, OneKernel, Went, WorkerTyped,
         Actors
<1>13. StopInv'
  BY <1>1, <1>2, <1>3, <1>4
     DEF StopInv, StopKillsManaged, WorkerInv, NoApp, OneKernel, Went, WorkerTyped, Actors
<1> QED
  BY <1>5, <1>6, <1>7, <1>8, <1>9, <1>10, <1>11, <1>12, <1>13 DEF PlainInv

LEMMA PlainBeginRecover ==
  ASSUME ProcessAssumption, ProcessInv, PlainInv, BeginRecover
  PROVE  PlainInv'
<1> /\ PlainProcesses /\ NoApp /\ OneKernel /\ KernelsHeld /\ RecordKept /\ GuardKnows
    /\ WorkerTyped /\ WorkerInv /\ StopInv
  BY DEF PlainInv
<1>1. /\ \A q \in OurKernels : /\ q.pid \in Live /\ q.pid \in Active
                               /\ q.pid \in Pids /\ q.pid # NoPid /\ q.pid \notin fresh
      /\ NoPid \notin fresh /\ \A q \in procs : q.pid # NoPid
      /\ ~app => handle = NoPid
  BY KernelFacts DEF ProcessAssumption, ProcessInv, ProcessesTyped, Process, HandleOurs
<1>2. OurKernels' = OurKernels
  BY DEF OurKernels, Named, BeginRecover
<1>3. /\ ~tun'
      /\ procs' = procs /\ fresh' = fresh /\ app' = app /\ handle' = handle /\ record' = record
      /\ target' = target /\ reader' = reader /\ guarded' = guarded /\ left' = left /\ owed' = owed
  BY DEF BeginRecover, worker, history, Continue, End, Retry, AfterKill, PlainProcesses
<1>4. /\ app /\ op' = "recover" /\ result' = "none" /\ Went("worker", "validate") /\ guarded # "off"
  BY Going DEF BeginRecover, Begin, At, Actors, Pcs
<1>5. PlainProcesses'
  BY <1>1, <1>2, <1>3, <1>4 DEF PlainProcesses, NoApp, OneKernel, Went, WorkerTyped, Actors
<1>6. NoApp'
  BY <1>1, <1>2, <1>3, <1>4 DEF NoApp, OneKernel, Went, WorkerTyped, Actors
<1>7. OneKernel'
  BY <1>1, <1>2, <1>3, <1>4 DEF OneKernel, WorkerInv, NoApp, Went, WorkerTyped, Actors
<1>8. KernelsHeld'
  BY <1>1, <1>2, <1>3, <1>4 DEF KernelsHeld, WorkerInv, NoApp, OneKernel, Went, WorkerTyped, Actors
<1>9. RecordKept'
  BY <1>1, <1>2, <1>3, <1>4 DEF RecordKept, WorkerInv, NoApp, OneKernel, Went, WorkerTyped, Actors
<1>10. GuardKnows'
  BY <1>1, <1>2, <1>3, <1>4 DEF GuardKnows, WorkerInv, NoApp, OneKernel, Went, WorkerTyped, Actors
<1>11. WorkerTyped'
  BY <1>1, <1>2, <1>3, <1>4 DEF WorkerTyped, NoApp, OneKernel, Went, Actors
<1>12. WorkerInv'
  BY <1>1, <1>2, <1>3, <1>4
     DEF WorkerInv, GuardKnows, KernelsHeld, RecordKept, NoApp, OneKernel, Went, WorkerTyped,
         Actors
<1>13. StopInv'
  BY <1>1, <1>2, <1>3, <1>4
     DEF StopInv, StopKillsManaged, WorkerInv, NoApp, OneKernel, Went, WorkerTyped, Actors
<1> QED
  BY <1>5, <1>6, <1>7, <1>8, <1>9, <1>10, <1>11, <1>12, <1>13 DEF PlainInv

LEMMA PlainForceKill ==
  ASSUME ProcessAssumption, ProcessInv, PlainInv, ForceKill
  PROVE  PlainInv'
<1> /\ PlainProcesses /\ NoApp /\ OneKernel /\ KernelsHeld /\ RecordKept /\ GuardKnows
    /\ WorkerTyped /\ WorkerInv /\ StopInv
  BY DEF PlainInv
<1>1. /\ \A q \in OurKernels : /\ q.pid \in Live /\ q.pid \in Active
                               /\ q.pid \in Pids /\ q.pid # NoPid /\ q.pid \notin fresh
      /\ NoPid \notin fresh /\ \A q \in procs : q.pid # NoPid
      /\ ~app => handle = NoPid
  BY KernelFacts DEF ProcessAssumption, ProcessInv, ProcessesTyped, Process, HandleOurs
<1>2. procs' \subseteq procs /\ OurKernels' = {}
  <2>1. procs' = procs \ Named("sing-box")
    BY PlainKills DEF ForceKill, Named
  <2> QED
    BY <2>1, Remaining DEF OurKernels
<1>3. /\ ~tun'
      /\ fresh' = fresh /\ app' = app /\ op' = op /\ target' = target /\ reader' = reader
      /\ guarded' = guarded /\ left' = left /\ owed' = owed /\ result' = result
  BY DEF ForceKill, worker, history, Continue, End, Retry, AfterKill, PlainProcesses
<1>4. /\ app /\ Went("worker", "forceverify") /\ op = "start" /\ result = "none"
      /\ handle' = NoPid /\ record' = NoPid
  BY Going DEF ForceKill, At, Continue, WorkerInv, Actors, Pcs
<1>5. PlainProcesses'
  BY <1>1, <1>2, <1>3, <1>4 DEF PlainProcesses, NoApp, OneKernel, Went, WorkerTyped, Actors
<1>6. NoApp'
  BY <1>1, <1>2, <1>3, <1>4 DEF NoApp, OneKernel, Went, WorkerTyped, Actors
<1>7. OneKernel'
  BY <1>1, <1>2, <1>3, <1>4 DEF OneKernel, WorkerInv, NoApp, Went, WorkerTyped, Actors
<1>8. KernelsHeld'
  BY <1>1, <1>2, <1>3, <1>4 DEF KernelsHeld, WorkerInv, NoApp, OneKernel, Went, WorkerTyped, Actors
<1>9. RecordKept'
  BY <1>1, <1>2, <1>3, <1>4 DEF RecordKept, WorkerInv, NoApp, OneKernel, Went, WorkerTyped, Actors
<1>10. GuardKnows'
  BY <1>1, <1>2, <1>3, <1>4 DEF GuardKnows, WorkerInv, NoApp, OneKernel, Went, WorkerTyped, Actors
<1>11. WorkerTyped'
  BY <1>1, <1>2, <1>3, <1>4 DEF WorkerTyped, NoApp, OneKernel, Went, Actors
<1>12. WorkerInv'
  BY <1>1, <1>2, <1>3, <1>4
     DEF WorkerInv, GuardKnows, KernelsHeld, RecordKept, NoApp, OneKernel, Went, WorkerTyped,
         Actors
<1>13. StopInv'
  BY <1>1, <1>2, <1>3, <1>4
     DEF StopInv, StopKillsManaged, WorkerInv, NoApp, OneKernel, Went, WorkerTyped, Actors
<1> QED
  BY <1>5, <1>6, <1>7, <1>8, <1>9, <1>10, <1>11, <1>12, <1>13 DEF PlainInv

LEMMA PlainForceVerify ==
  ASSUME ProcessAssumption, ProcessInv, PlainInv, ForceVerify
  PROVE  PlainInv'
<1> /\ PlainProcesses /\ NoApp /\ OneKernel /\ KernelsHeld /\ RecordKept /\ GuardKnows
    /\ WorkerTyped /\ WorkerInv /\ StopInv
  BY DEF PlainInv
<1>1. /\ \A q \in OurKernels : /\ q.pid \in Live /\ q.pid \in Active
                               /\ q.pid \in Pids /\ q.pid # NoPid /\ q.pid \notin fresh
      /\ NoPid \notin fresh /\ \A q \in procs : q.pid # NoPid
      /\ ~app => handle = NoPid
  BY KernelFacts DEF ProcessAssumption, ProcessInv, ProcessesTyped, Process, HandleOurs
<1>2. procs' \subseteq procs /\ OurKernels' = {}
  <2>1. procs' \subseteq procs
    BY PlainDeath DEF ForceVerify, SudoKill, Named
  <2> QED
    BY <2>1 DEF ForceVerify, OurKernels, Named, WorkerInv, At
<1>3. /\ ~tun'
      /\ fresh' = fresh /\ app' = app /\ handle' = handle /\ record' = record /\ op' = op
      /\ target' = target /\ reader' = reader /\ guarded' = guarded /\ left' = left /\ owed' = owed
      /\ result' = result
  BY DEF ForceVerify, worker, history, Continue, End, Retry, AfterKill, PlainProcesses
<1>4. /\ app /\ (Went("worker", "validate") \/ Went("worker", "forceagain")) /\ op = "start"
      /\ result = "none" /\ OurKernels = {}
  BY Going DEF ForceVerify, At, Continue, WorkerInv, Actors, Pcs
<1>5. PlainProcesses'
  BY <1>1, <1>2, <1>3, <1>4 DEF PlainProcesses, NoApp, OneKernel, Went, WorkerTyped, Actors
<1>6. NoApp'
  BY <1>1, <1>2, <1>3, <1>4 DEF NoApp, OneKernel, Went, WorkerTyped, Actors
<1>7. OneKernel'
  BY <1>1, <1>2, <1>3, <1>4 DEF OneKernel, WorkerInv, NoApp, Went, WorkerTyped, Actors
<1>8. KernelsHeld'
  BY <1>1, <1>2, <1>3, <1>4 DEF KernelsHeld, WorkerInv, NoApp, OneKernel, Went, WorkerTyped, Actors
<1>9. RecordKept'
  BY <1>1, <1>2, <1>3, <1>4 DEF RecordKept, WorkerInv, NoApp, OneKernel, Went, WorkerTyped, Actors
<1>10. GuardKnows'
  BY <1>1, <1>2, <1>3, <1>4 DEF GuardKnows, WorkerInv, NoApp, OneKernel, Went, WorkerTyped, Actors
<1>11. WorkerTyped'
  BY <1>1, <1>2, <1>3, <1>4 DEF WorkerTyped, NoApp, OneKernel, Went, Actors
<1>12. WorkerInv'
  BY <1>1, <1>2, <1>3, <1>4
     DEF WorkerInv, GuardKnows, KernelsHeld, RecordKept, NoApp, OneKernel, Went, WorkerTyped,
         Actors
<1>13. StopInv'
  BY <1>1, <1>2, <1>3, <1>4
     DEF StopInv, StopKillsManaged, WorkerInv, NoApp, OneKernel, Went, WorkerTyped, Actors
<1> QED
  BY <1>5, <1>6, <1>7, <1>8, <1>9, <1>10, <1>11, <1>12, <1>13 DEF PlainInv

LEMMA PlainForceAgain ==
  ASSUME ProcessAssumption, ProcessInv, PlainInv, ForceAgain
  PROVE  PlainInv'
<1> /\ PlainProcesses /\ NoApp /\ OneKernel /\ KernelsHeld /\ RecordKept /\ GuardKnows
    /\ WorkerTyped /\ WorkerInv /\ StopInv
  BY DEF PlainInv
<1>1. /\ \A q \in OurKernels : /\ q.pid \in Live /\ q.pid \in Active
                               /\ q.pid \in Pids /\ q.pid # NoPid /\ q.pid \notin fresh
      /\ NoPid \notin fresh /\ \A q \in procs : q.pid # NoPid
      /\ ~app => handle = NoPid
  BY KernelFacts DEF ProcessAssumption, ProcessInv, ProcessesTyped, Process, HandleOurs
<1>2. OurKernels' = OurKernels
  BY DEF OurKernels, Named, ForceAgain
<1>3. /\ ~tun'
      /\ procs' = procs /\ fresh' = fresh /\ app' = app /\ handle' = handle /\ record' = record
      /\ target' = target /\ reader' = reader /\ guarded' = guarded /\ left' = left /\ owed' = owed
  BY DEF ForceAgain, worker, history, Continue, End, Retry, AfterKill, PlainProcesses
<1>4. /\ app /\ result = "none" /\ OurKernels = {}
      /\ \/ Went("worker", "validate") /\ op' = "start" /\ result' = "none"
         \/ Went("worker", "idle") /\ op' = "none" /\ result' = "failed"
  BY Going DEF ForceAgain, At, Continue, End, worker, WorkerInv, Actors, Pcs
<1>5. PlainProcesses'
  BY <1>1, <1>2, <1>3, <1>4 DEF PlainProcesses, NoApp, OneKernel, Went, WorkerTyped, Actors
<1>6. NoApp'
  BY <1>1, <1>2, <1>3, <1>4 DEF NoApp, OneKernel, Went, WorkerTyped, Actors
<1>7. OneKernel'
  BY <1>1, <1>2, <1>3, <1>4 DEF OneKernel, WorkerInv, NoApp, Went, WorkerTyped, Actors
<1>8. KernelsHeld'
  BY <1>1, <1>2, <1>3, <1>4 DEF KernelsHeld, WorkerInv, NoApp, OneKernel, Went, WorkerTyped, Actors
<1>9. RecordKept'
  BY <1>1, <1>2, <1>3, <1>4 DEF RecordKept, WorkerInv, NoApp, OneKernel, Went, WorkerTyped, Actors
<1>10. GuardKnows'
  BY <1>1, <1>2, <1>3, <1>4 DEF GuardKnows, WorkerInv, NoApp, OneKernel, Went, WorkerTyped, Actors
<1>11. WorkerTyped'
  BY <1>1, <1>2, <1>3, <1>4 DEF WorkerTyped, NoApp, OneKernel, Went, Actors
<1>12. WorkerInv'
  BY <1>1, <1>2, <1>3, <1>4
     DEF WorkerInv, GuardKnows, KernelsHeld, RecordKept, NoApp, OneKernel, Went, WorkerTyped,
         Actors
<1>13. StopInv'
  BY <1>1, <1>2, <1>3, <1>4
     DEF StopInv, StopKillsManaged, WorkerInv, NoApp, OneKernel, Went, WorkerTyped, Actors
<1> QED
  BY <1>5, <1>6, <1>7, <1>8, <1>9, <1>10, <1>11, <1>12, <1>13 DEF PlainInv

LEMMA PlainValidate ==
  ASSUME ProcessAssumption, ProcessInv, PlainInv, Validate
  PROVE  PlainInv'
<1> /\ PlainProcesses /\ NoApp /\ OneKernel /\ KernelsHeld /\ RecordKept /\ GuardKnows
    /\ WorkerTyped /\ WorkerInv /\ StopInv
  BY DEF PlainInv
<1>1. /\ \A q \in OurKernels : /\ q.pid \in Live /\ q.pid \in Active
                               /\ q.pid \in Pids /\ q.pid # NoPid /\ q.pid \notin fresh
      /\ NoPid \notin fresh /\ \A q \in procs : q.pid # NoPid
      /\ ~app => handle = NoPid
  BY KernelFacts DEF ProcessAssumption, ProcessInv, ProcessesTyped, Process, HandleOurs
<1>2. OurKernels' = OurKernels
  BY DEF OurKernels, Named, Validate
<1>3. /\ ~tun'
      /\ procs' = procs /\ fresh' = fresh /\ app' = app /\ handle' = handle /\ record' = record
      /\ target' = target /\ reader' = reader /\ guarded' = guarded /\ left' = left /\ owed' = owed
  BY DEF Validate, worker, history, Continue, End, Retry, AfterKill, PlainProcesses
<1>4. /\ app /\ pc["worker"] = "validate" /\ op \in {"start", "recover"}
      /\ \/ Went("worker", "kill") /\ op' = op /\ result' = "none"
         \/ Went("worker", "idle") /\ op' = "none" /\ result' = "failed"
  BY Going DEF Validate, At, Continue, End, worker, WorkerInv, Actors, Pcs
<1>5. PlainProcesses'
  BY <1>1, <1>2, <1>3, <1>4 DEF PlainProcesses, NoApp, OneKernel, Went, WorkerTyped, Actors
<1>6. NoApp'
  BY <1>1, <1>2, <1>3, <1>4 DEF NoApp, OneKernel, Went, WorkerTyped, Actors
<1>7. OneKernel'
  BY <1>1, <1>2, <1>3, <1>4 DEF OneKernel, WorkerInv, NoApp, Went, WorkerTyped, Actors
<1>8. KernelsHeld'
  BY <1>1, <1>2, <1>3, <1>4 DEF KernelsHeld, WorkerInv, NoApp, OneKernel, Went, WorkerTyped, Actors
<1>9. RecordKept'
  BY <1>1, <1>2, <1>3, <1>4 DEF RecordKept, WorkerInv, NoApp, OneKernel, Went, WorkerTyped, Actors
<1>10. GuardKnows'
  BY <1>1, <1>2, <1>3, <1>4 DEF GuardKnows, WorkerInv, NoApp, OneKernel, Went, WorkerTyped, Actors
<1>11. WorkerTyped'
  BY <1>1, <1>2, <1>3, <1>4 DEF WorkerTyped, NoApp, OneKernel, Went, Actors
<1>12. WorkerInv'
  BY <1>1, <1>2, <1>3, <1>4
     DEF WorkerInv, GuardKnows, KernelsHeld, RecordKept, NoApp, OneKernel, Went, WorkerTyped,
         Actors
<1>13. StopInv'
  BY <1>1, <1>2, <1>3, <1>4
     DEF StopInv, StopKillsManaged, WorkerInv, NoApp, OneKernel, Went, WorkerTyped, Actors
<1> QED
  BY <1>5, <1>6, <1>7, <1>8, <1>9, <1>10, <1>11, <1>12, <1>13 DEF PlainInv

LEMMA PlainStopHandle ==
  ASSUME ProcessAssumption, ProcessInv, PlainInv, StopHandle
  PROVE  PlainInv'
<1> /\ PlainProcesses /\ NoApp /\ OneKernel /\ KernelsHeld /\ RecordKept /\ GuardKnows
    /\ WorkerTyped /\ WorkerInv /\ StopInv
  BY DEF PlainInv
<1>1. /\ \A q \in OurKernels : /\ q.pid \in Live /\ q.pid \in Active
                               /\ q.pid \in Pids /\ q.pid # NoPid /\ q.pid \notin fresh
      /\ NoPid \notin fresh /\ \A q \in procs : q.pid # NoPid
      /\ ~app => handle = NoPid
  BY KernelFacts DEF ProcessAssumption, ProcessInv, ProcessesTyped, Process, HandleOurs
<1>2. procs' \subseteq procs /\ \A q : q \in OurKernels' <=> q \in OurKernels /\ q.pid # handle
  <2>1. procs' = procs \ WithPid(handle)
    BY PlainKills DEF StopHandle, WithPid
  <2> QED
    BY <2>1, Remaining DEF OurKernels, Named, WithPid
<1>3. /\ ~tun'
      /\ fresh' = fresh /\ app' = app /\ op' = op /\ target' = target /\ reader' = reader
      /\ guarded' = guarded /\ left' = left /\ owed' = owed /\ result' = result
  BY DEF StopHandle, worker, history, Continue, End, Retry, AfterKill, PlainProcesses
<1>4. /\ app /\ pc["worker"] = "stop" /\ op = "stop" /\ result = "none"
      /\ Went("worker", "kill") /\ handle' = NoPid
      /\ record' = IF handle = NoPid THEN record ELSE NoPid
  BY Going DEF StopHandle, At, Continue, WorkerInv, Actors, Pcs
<1>5. PlainProcesses'
  BY <1>1, <1>2, <1>3, <1>4 DEF PlainProcesses, NoApp, OneKernel, Went, WorkerTyped, Actors
<1>6. NoApp'
  BY <1>1, <1>2, <1>3, <1>4 DEF NoApp, OneKernel, Went, WorkerTyped, Actors
<1>7. OneKernel'
  BY <1>1, <1>2, <1>3, <1>4 DEF OneKernel, WorkerInv, NoApp, Went, WorkerTyped, Actors
<1>8. KernelsHeld'
  BY <1>1, <1>2, <1>3, <1>4 DEF KernelsHeld, WorkerInv, NoApp, OneKernel, Went, WorkerTyped, Actors
<1>9. RecordKept'
  BY <1>1, <1>2, <1>3, <1>4 DEF RecordKept, WorkerInv, NoApp, OneKernel, Went, WorkerTyped, Actors
<1>10. GuardKnows'
  BY <1>1, <1>2, <1>3, <1>4 DEF GuardKnows, WorkerInv, NoApp, OneKernel, Went, WorkerTyped, Actors
<1>11. WorkerTyped'
  BY <1>1, <1>2, <1>3, <1>4 DEF WorkerTyped, NoApp, OneKernel, Went, Actors
<1>12. WorkerInv'
  BY <1>1, <1>2, <1>3, <1>4
     DEF WorkerInv, GuardKnows, KernelsHeld, RecordKept, NoApp, OneKernel, Went, WorkerTyped,
         Actors
<1>13. StopInv'
  BY <1>1, <1>2, <1>3, <1>4
     DEF StopInv, StopKillsManaged, WorkerInv, NoApp, OneKernel, Went, WorkerTyped, Actors
<1> QED
  BY <1>5, <1>6, <1>7, <1>8, <1>9, <1>10, <1>11, <1>12, <1>13 DEF PlainInv

LEMMA PlainReplaceHandle ==
  ASSUME ProcessAssumption, ProcessInv, PlainInv, ReplaceHandle
  PROVE  PlainInv'
<1> /\ PlainProcesses /\ NoApp /\ OneKernel /\ KernelsHeld /\ RecordKept /\ GuardKnows
    /\ WorkerTyped /\ WorkerInv /\ StopInv
  BY DEF PlainInv
<1>1. /\ \A q \in OurKernels : /\ q.pid \in Live /\ q.pid \in Active
                               /\ q.pid \in Pids /\ q.pid # NoPid /\ q.pid \notin fresh
      /\ NoPid \notin fresh /\ \A q \in procs : q.pid # NoPid
      /\ ~app => handle = NoPid
  BY KernelFacts DEF ProcessAssumption, ProcessInv, ProcessesTyped, Process, HandleOurs
<1>2. procs' \subseteq procs /\ \A q : q \in OurKernels' <=> q \in OurKernels /\ q.pid # handle
  <2>1. procs' = procs \ WithPid(handle)
    BY PlainKills DEF ReplaceHandle, WithPid
  <2> QED
    BY <2>1, Remaining DEF OurKernels, Named, WithPid
<1>3. /\ ~tun'
      /\ fresh' = fresh /\ app' = app /\ target' = target /\ reader' = reader /\ guarded' = guarded
      /\ left' = left /\ owed' = owed
  BY DEF ReplaceHandle, worker, history, Continue, End, Retry, AfterKill, PlainProcesses
<1>4. /\ app /\ pc["worker"] = "replace" /\ record = NoPid /\ result = "none"
      /\ op \in {"start", "recover"}
      /\ handle' = NoPid /\ record' = NoPid /\ OurKernels' = {}
      /\ \/ Went("worker", "spawn") /\ op' = op /\ result' = result
         \/ Went("worker", "idle") /\ op' = "none" /\ result' = "failed"
  <2>1. /\ app /\ pc["worker"] = "replace" /\ handle' = NoPid
        /\ record' = IF handle = NoPid THEN record ELSE NoPid
        /\ \/ Goto("worker", "spawn") /\ UNCHANGED <<op, result>>
           \/ End("failed")
    BY DEF ReplaceHandle, At
  <2>2. record = NoPid /\ result = "none" /\ op \in {"start", "recover"}
    BY <2>1 DEF WorkerInv
  <2>3. \A q \in OurKernels : q.pid = handle
    BY <1>1, <2>1, <2>2 DEF WorkerInv, GuardKnows
  <2>4. OurKernels' = {}
    BY <1>2, <2>3
  <2>5. \/ Went("worker", "spawn") /\ op' = op /\ result' = result
        \/ Went("worker", "idle") /\ op' = "none" /\ result' = "failed"
    BY <2>1, Going DEF End, Actors, Pcs
  <2> QED
    BY <2>1, <2>2, <2>4, <2>5
<1>5. PlainProcesses'
  BY <1>1, <1>2, <1>3, <1>4 DEF PlainProcesses, NoApp, OneKernel, Went, WorkerTyped, Actors
<1>6. NoApp'
  BY <1>1, <1>2, <1>3, <1>4 DEF NoApp, OneKernel, Went, WorkerTyped, Actors
<1>7. OneKernel'
  BY <1>1, <1>2, <1>3, <1>4 DEF OneKernel, WorkerInv, NoApp, Went, WorkerTyped, Actors
<1>8. KernelsHeld'
  BY <1>1, <1>2, <1>3, <1>4 DEF KernelsHeld, WorkerInv, NoApp, OneKernel, Went, WorkerTyped, Actors
<1>9. RecordKept'
  BY <1>1, <1>2, <1>3, <1>4 DEF RecordKept, WorkerInv, NoApp, OneKernel, Went, WorkerTyped, Actors
<1>10. GuardKnows'
  BY <1>1, <1>2, <1>3, <1>4 DEF GuardKnows, WorkerInv, NoApp, OneKernel, Went, WorkerTyped, Actors
<1>11. WorkerTyped'
  BY <1>1, <1>2, <1>3, <1>4 DEF WorkerTyped, NoApp, OneKernel, Went, Actors
<1>12. WorkerInv'
  BY <1>1, <1>2, <1>3, <1>4
     DEF WorkerInv, GuardKnows, KernelsHeld, RecordKept, NoApp, OneKernel, Went, WorkerTyped,
         Actors
<1>13. StopInv'
  BY <1>1, <1>2, <1>3, <1>4
     DEF StopInv, StopKillsManaged, WorkerInv, NoApp, OneKernel, Went, WorkerTyped, Actors
<1> QED
  BY <1>5, <1>6, <1>7, <1>8, <1>9, <1>10, <1>11, <1>12, <1>13 DEF PlainInv

\* What follows a kill without TUN.
After(a) == \/ /\ a = "startup" /\ Went("startup", "done")
               /\ op' = op /\ result' = result /\ guarded' = guarded
            \/ /\ a = "worker" /\ op = "stop" /\ Went("worker", "idle")
               /\ op' = "none" /\ result' = "stopped" /\ guarded' = "off"
            \/ /\ a = "worker" /\ op \in {"start", "recover"} /\ Went("worker", "replace")
               /\ op' = op /\ result' = result /\ guarded' = guarded

LEMMA AfterKilling ==
  ASSUME WorkerTyped, WorkerInv, NEW a \in Actors, pc[a] \in {"kill", "killcheck"}, AfterKill(a)
  PROVE  After(a)
<1>1. a = "worker" => op \in {"start", "stop", "recover"}
  BY DEF WorkerInv
<1>2. CASE a = "startup"
  BY <1>2, Going DEF AfterKill, After, worker, Actors, Pcs
<1>3. CASE a = "worker" /\ op = "stop"
  BY <1>3, Going DEF AfterKill, After, End, Actors, Pcs
<1>4. CASE a = "worker" /\ op \in {"start", "recover"}
  BY <1>4, Going DEF AfterKill, After, Continue, worker, Actors, Pcs
<1> QED
  BY <1>1, <1>2, <1>3, <1>4 DEF Actors

LEMMA PlainKillExisting ==
  ASSUME ProcessAssumption, ProcessInv, PlainInv, NEW a \in Actors, KillExisting(a)
  PROVE  PlainInv'
<1> /\ PlainProcesses /\ NoApp /\ OneKernel /\ KernelsHeld /\ RecordKept /\ GuardKnows
    /\ WorkerTyped /\ WorkerInv /\ StopInv
  BY DEF PlainInv
<1>1. /\ \A q \in OurKernels : /\ q.pid \in Live /\ q.pid \in Active
                               /\ q.pid \in Pids /\ q.pid # NoPid /\ q.pid \notin fresh
      /\ NoPid \notin fresh /\ \A q \in procs : q.pid # NoPid
      /\ ~app => handle = NoPid
  BY KernelFacts DEF ProcessAssumption, ProcessInv, ProcessesTyped, Process, HandleOurs
<1>2. /\ procs' \subseteq procs /\ OurKernels' \subseteq OurKernels
      /\ record \in Active => \A q \in OurKernels' : q.pid # record
  <2>1. CASE record \notin Active
    BY <2>1 DEF KillExisting, OurKernels, Named
  <2>2. CASE record \in Active
    <3>1. procs' = procs \ WithPid(record)
      BY <2>2, PlainKills DEF KillExisting, WithPid
    <3> QED
      BY <2>2, <3>1, Remaining DEF KillExisting, OurKernels, Named, WithPid
  <2> QED
    BY <2>1, <2>2
<1>3. /\ ~tun'
      /\ fresh' = fresh /\ app' = app /\ handle' = handle /\ reader' = reader /\ left' = left
      /\ owed' = owed
  BY DEF KillExisting, worker, history, Continue, End, Retry, AfterKill, PlainProcesses
<1>4. /\ app /\ pc[a] = "kill" /\ OurKernels' \subseteq OurKernels /\ procs' \subseteq procs
      /\ \/ /\ \A q \in OurKernels : q.pid # record
            /\ record' = NoPid /\ After(a) /\ target' = target
         \/ /\ \A q \in OurKernels' : q.pid # record
            /\ record' = record /\ Went(a, "killcheck") /\ target' \in [Actors -> Pids \cup {NoPid}]
            /\ \A b \in Actors : b # a => target'[b] = target[b]
            /\ op' = op /\ result' = result /\ guarded' = guarded
  <2>1. CASE record \notin Active
    BY <1>1, <1>2, <2>1, AfterKilling DEF KillExisting, At
  <2>2. CASE record \in Active
    BY <1>1, <1>2, <2>2, Going
       DEF KillExisting, At, Actors, Pcs, worker, WorkerTyped, Active, Named,
       ProcessInv, ProcessesTyped, Process
  <2> QED
    BY <2>1, <2>2
<1>5. PlainProcesses'
  BY <1>1, <1>2, <1>3, <1>4 DEF PlainProcesses, NoApp, OneKernel, Went, WorkerTyped, Actors, After
<1>6. NoApp'
  BY <1>1, <1>2, <1>3, <1>4 DEF NoApp, OneKernel, Went, WorkerTyped, Actors, After
<1>7. OneKernel'
  BY <1>1, <1>2, <1>3, <1>4 DEF OneKernel, WorkerInv, NoApp, Went, WorkerTyped, Actors, After
<1>8. KernelsHeld'
  BY <1>1, <1>2, <1>3, <1>4
     DEF KernelsHeld, WorkerInv, NoApp, OneKernel, Went, WorkerTyped, Actors, After
<1>9. RecordKept'
  BY <1>1, <1>2, <1>3, <1>4
     DEF RecordKept, WorkerInv, NoApp, OneKernel, Went, WorkerTyped, Actors, After
<1>10. GuardKnows'
  BY <1>1, <1>2, <1>3, <1>4
     DEF GuardKnows, WorkerInv, NoApp, OneKernel, Went, WorkerTyped, Actors, After
<1>11. WorkerTyped'
  BY <1>1, <1>2, <1>3, <1>4 DEF WorkerTyped, NoApp, OneKernel, Went, Actors, After
<1>12. WorkerInv'
  <2>1. CASE a = "startup"
    BY <1>1, <1>2, <1>3, <1>4, <2>1 DEF WorkerInv, WorkerTyped, Went, After, Actors
  <2>2. CASE a = "worker" /\ op = "stop"
    BY <1>1, <1>2, <1>3, <1>4, <2>2 DEF WorkerInv, WorkerTyped, Went, After, Actors
  <2>3. CASE a = "worker" /\ op = "start"
    BY <1>1, <1>2, <1>3, <1>4, <2>3
       DEF WorkerInv, WorkerTyped, Went, After, Actors, GuardKnows, KernelsHeld, RecordKept
  <2>4. CASE a = "worker" /\ op = "recover"
    BY <1>1, <1>2, <1>3, <1>4, <2>4
       DEF WorkerInv, WorkerTyped, Went, After, Actors, GuardKnows, KernelsHeld, RecordKept
  <2> QED
    BY <1>4, <2>1, <2>2, <2>3, <2>4 DEF WorkerInv, Actors
<1>13. StopInv'
  BY <1>1, <1>2, <1>3, <1>4
     DEF StopInv, StopKillsManaged, WorkerInv, NoApp, OneKernel, Went, WorkerTyped, Actors, After
<1> QED
  BY <1>5, <1>6, <1>7, <1>8, <1>9, <1>10, <1>11, <1>12, <1>13 DEF PlainInv

LEMMA PlainKillCheck ==
  ASSUME ProcessAssumption, ProcessInv, PlainInv, NEW a \in Actors, KillCheck(a)
  PROVE  PlainInv'
<1> /\ PlainProcesses /\ NoApp /\ OneKernel /\ KernelsHeld /\ RecordKept /\ GuardKnows
    /\ WorkerTyped /\ WorkerInv /\ StopInv
  BY DEF PlainInv
<1>1. /\ \A q \in OurKernels : /\ q.pid \in Live /\ q.pid \in Active
                               /\ q.pid \in Pids /\ q.pid # NoPid /\ q.pid \notin fresh
      /\ NoPid \notin fresh /\ \A q \in procs : q.pid # NoPid
      /\ ~app => handle = NoPid
  BY KernelFacts DEF ProcessAssumption, ProcessInv, ProcessesTyped, Process, HandleOurs
<1>2. procs' \subseteq procs /\ OurKernels' \subseteq OurKernels
  <2>1. procs' \subseteq procs
    BY PlainDeath DEF KillCheck, SudoKill, Named
  <2> QED
    BY <2>1 DEF OurKernels, Named
<1>3. /\ ~tun'
      /\ fresh' = fresh /\ app' = app /\ handle' = handle /\ reader' = reader /\ left' = left
      /\ owed' = owed
  BY DEF KillCheck, worker, history, Continue, End, Retry, AfterKill, PlainProcesses
<1>4. /\ app /\ pc[a] = "killcheck" /\ record' = NoPid /\ After(a)
      /\ \A q \in OurKernels : q.pid = record => q.pid = handle
      /\ target' \in [Actors -> Pids \cup {NoPid}] /\ \A b \in Actors : b # a => target'[b] = target[b]
  BY AfterKilling DEF KillCheck, At, WorkerTyped, RecordKept
<1>5. PlainProcesses'
  BY <1>1, <1>2, <1>3, <1>4 DEF PlainProcesses, NoApp, OneKernel, Went, WorkerTyped, Actors, After
<1>6. NoApp'
  BY <1>1, <1>2, <1>3, <1>4 DEF NoApp, OneKernel, Went, WorkerTyped, Actors, After
<1>7. OneKernel'
  BY <1>1, <1>2, <1>3, <1>4 DEF OneKernel, WorkerInv, NoApp, Went, WorkerTyped, Actors, After
<1>8. KernelsHeld'
  BY <1>1, <1>2, <1>3, <1>4
     DEF KernelsHeld, WorkerInv, NoApp, OneKernel, Went, WorkerTyped, Actors, After
<1>9. RecordKept'
  BY <1>1, <1>2, <1>3, <1>4
     DEF RecordKept, WorkerInv, NoApp, OneKernel, Went, WorkerTyped, Actors, After
<1>10. GuardKnows'
  BY <1>1, <1>2, <1>3, <1>4
     DEF GuardKnows, WorkerInv, NoApp, OneKernel, Went, WorkerTyped, Actors, After
<1>11. WorkerTyped'
  BY <1>1, <1>2, <1>3, <1>4 DEF WorkerTyped, NoApp, OneKernel, Went, Actors, After
<1>12. WorkerInv'
  <2>1. CASE a = "startup"
    BY <1>1, <1>2, <1>3, <1>4, <2>1 DEF WorkerInv, WorkerTyped, Went, After, Actors
  <2>2. CASE a = "worker" /\ op = "stop"
    BY <1>1, <1>2, <1>3, <1>4, <2>2 DEF WorkerInv, WorkerTyped, Went, After, Actors
  <2>3. CASE a = "worker" /\ op = "start"
    BY <1>1, <1>2, <1>3, <1>4, <2>3
       DEF WorkerInv, WorkerTyped, Went, After, Actors, GuardKnows, KernelsHeld, RecordKept
  <2>4. CASE a = "worker" /\ op = "recover"
    BY <1>1, <1>2, <1>3, <1>4, <2>4
       DEF WorkerInv, WorkerTyped, Went, After, Actors, GuardKnows, KernelsHeld, RecordKept
  <2> QED
    BY <1>4, <2>1, <2>2, <2>3, <2>4 DEF WorkerInv, Actors
<1>13. StopInv'
  <2>1. CASE a = "startup"
    BY <1>1, <1>2, <1>3, <1>4, <2>1
       DEF StopInv, StopKillsManaged, WorkerInv, WorkerTyped, Went, After, Actors
  <2>2. CASE a = "worker" /\ op = "stop"
    BY <1>1, <1>2, <1>3, <1>4, <2>2
       DEF StopInv, StopKillsManaged, WorkerInv, WorkerTyped, Went, After, Actors
  <2>3. CASE a = "worker" /\ op \in {"start", "recover"}
    BY <1>1, <1>2, <1>3, <1>4, <2>3
       DEF StopInv, StopKillsManaged, WorkerInv, WorkerTyped, Went, After, Actors
  <2> QED
    BY <1>4, <2>1, <2>2, <2>3 DEF WorkerInv, Actors
<1> QED
  BY <1>5, <1>6, <1>7, <1>8, <1>9, <1>10, <1>11, <1>12, <1>13 DEF PlainInv

\* A dropped child is a kernel like a user's: the manager neither holds nor counts it.
LEMMA PlainDrop ==
  ASSUME ProcessAssumption, ProcessInv, PlainInv, Spawn, DropChild
  PROVE  PlainInv'
<1> /\ PlainProcesses /\ NoApp /\ OneKernel /\ KernelsHeld /\ RecordKept /\ GuardKnows
    /\ WorkerTyped /\ WorkerInv /\ StopInv
  BY DEF PlainInv
<1>1. /\ \A q \in OurKernels : /\ q.pid \in Live /\ q.pid \in Active
                               /\ q.pid \in Pids /\ q.pid # NoPid /\ q.pid \notin fresh
      /\ NoPid \notin fresh /\ \A q \in procs : q.pid # NoPid
  BY KernelFacts DEF ProcessAssumption, ProcessInv, ProcessesTyped, Process
<1>2. OurKernels' = OurKernels
  BY DEF OurKernels, Named, DropChild
<1>3. /\ ~tun'
      /\ app' = app /\ handle' = handle /\ record' = record /\ target' = target
      /\ reader' = reader /\ guarded' = guarded /\ left' = left /\ owed' = owed
  BY DEF Spawn, DropChild, worker, history, End, Retry, PlainProcesses
<1>4. /\ app /\ pc["worker"] = "spawn" /\ op \in {"start", "recover"} /\ result = "none"
      /\ record = NoPid /\ handle = NoPid /\ OurKernels = {}
      /\ \/ Went("worker", "spawn") /\ op' = op /\ result' = "none"
         \/ Went("worker", "idle") /\ op' = "none" /\ result' = "failed"
  <2>1. app /\ pc["worker"] = "spawn"
    BY DEF Spawn, At
  <2> QED
    BY <2>1, Going DEF DropChild, Retry, End, WorkerInv, Actors, Pcs
<1>5. \E n : /\ procs' = procs \cup {n} /\ ~n.root /\ n.origin # "manager" /\ n.parent = NoPid
             /\ n.name # "sudo" /\ fresh' = fresh \ {n.pid} /\ n.pid # handle
  <2>1. PICK p \in fresh :
          /\ procs' = procs \cup
               {[pid |-> p, name |-> "sing-box", root |-> FALSE, origin |-> "dropped",
                 parent |-> NoPid]}
          /\ fresh' = fresh \ {p}
    BY DEF DropChild
  <2> DEFINE n == [pid |-> p, name |-> "sing-box", root |-> FALSE, origin |-> "dropped",
                   parent |-> NoPid]
  <2>2. n.pid = p /\ n.name = "sing-box" /\ ~n.root /\ n.origin # "manager" /\ n.parent = NoPid
    OBVIOUS
  <2>3. procs' = procs \cup {n}
    BY <2>1
  <2>4. p # handle
    BY DEF OneKernel
  <2> HIDE DEF n
  <2> QED
    BY <2>1, <2>2, <2>3, <2>4
<1>6. PlainProcesses'
  BY <1>1, <1>2, <1>3, <1>4, <1>5 DEF PlainProcesses
<1>7. NoApp'
  BY <1>3, <1>4 DEF NoApp
<1>8. OneKernel'
  BY <1>1, <1>2, <1>3, <1>4, <1>5 DEF OneKernel
<1>9. KernelsHeld' /\ RecordKept' /\ GuardKnows'
  BY <1>2, <1>4 DEF KernelsHeld, RecordKept, GuardKnows
<1>10. WorkerTyped'
  BY <1>1, <1>3, <1>4 DEF WorkerTyped, Went, Actors
<1>11. WorkerInv'
  BY <1>1, <1>2, <1>3, <1>4 DEF WorkerInv, Went, WorkerTyped, Actors
<1>12. StopInv'
  BY <1>1, <1>2, <1>3, <1>4
     DEF StopInv, StopKillsManaged, WorkerInv, Went, WorkerTyped, Actors
<1> QED
  BY <1>6, <1>7, <1>8, <1>9, <1>10, <1>11, <1>12 DEF PlainInv

LEMMA PlainSpawn ==
  ASSUME ProcessAssumption, ProcessInv, PlainInv, Spawn
  PROVE  PlainInv'
<1> SUFFICES ASSUME ~DropChild PROVE PlainInv'
  BY PlainDrop
<1> /\ PlainProcesses /\ NoApp /\ OneKernel /\ KernelsHeld /\ RecordKept /\ GuardKnows
    /\ WorkerTyped /\ WorkerInv /\ StopInv
  BY DEF PlainInv
<1>1. /\ \A q \in OurKernels : /\ q.pid \in Live /\ q.pid \in Active
                               /\ q.pid \in Pids /\ q.pid # NoPid /\ q.pid \notin fresh
      /\ NoPid \notin fresh /\ \A q \in procs : q.pid # NoPid
      /\ ~app => handle = NoPid
  BY KernelFacts DEF ProcessAssumption, ProcessInv, ProcessesTyped, Process, HandleOurs
<1>2. \/ UNCHANGED <<procs, fresh, handle>> /\ OurKernels' = OurKernels
      \/ \E n : /\ procs' = procs \cup {n} /\ OurKernels' = OurKernels \cup {n} /\ n.pid = handle'
              /\ ~n.root /\ n.parent = NoPid /\ n.name = "sing-box" /\ n.origin = "manager"
  <2>1. CASE UNCHANGED <<procs, fresh, handle>>
    BY <2>1 DEF OurKernels, Named
  <2>2. ASSUME NEW p \in fresh,
               procs' = procs \cup
                 {[pid |-> p, name |-> IF tun THEN "sudo" ELSE "sing-box", root |-> tun,
                   origin |-> "manager", parent |-> NoPid]},
               handle' = p
        PROVE  \E n : /\ procs' = procs \cup {n} /\ OurKernels' = OurKernels \cup {n} /\ n.pid = handle'
                      /\ ~n.root /\ n.parent = NoPid /\ n.name = "sing-box" /\ n.origin = "manager"
    <3> DEFINE n == [pid |-> p, name |-> IF tun THEN "sudo" ELSE "sing-box", root |-> tun,
                     origin |-> "manager", parent |-> NoPid]
    <3>1. n.pid = p /\ n.name = "sing-box" /\ ~n.root /\ n.origin = "manager" /\ n.parent = NoPid
      BY DEF PlainProcesses
    <3>2. procs' = procs \cup {n}
      BY <2>2
    <3> HIDE DEF n
    <3>3. OurKernels' = OurKernels \cup {n}
      BY <3>1, <3>2 DEF OurKernels, Named
    <3> QED
      BY <2>2, <3>1, <3>2, <3>3
  <2> QED
    BY <2>1, <2>2 DEF Spawn
<1>3. /\ ~tun'
      /\ app' = app /\ record' = record /\ reader' = reader /\ guarded' = guarded /\ left' = left
      /\ owed' = owed
  BY DEF Spawn, worker, history, Continue, End, Retry, AfterKill, PlainProcesses
<1>4. /\ app /\ pc["worker"] = "spawn" /\ op \in {"start", "recover"} /\ result = "none" /\ record = NoPid
      /\ handle = NoPid /\ OurKernels = {}
      /\ \/ /\ UNCHANGED <<procs, fresh, handle, target>>
            /\ \/ Went("worker", "spawn") /\ op' = op /\ result' = "none"
               \/ Went("worker", "idle") /\ op' = "none" /\ result' = "failed"
         \/ /\ handle' \in fresh /\ fresh' = fresh \ {handle'} /\ Went("worker", "persist")
            /\ op' = op /\ result' = "none" /\ target'["worker"] = handle'
            /\ target' \in [Actors -> Pids \cup {NoPid}]
  <2>1. app /\ pc["worker"] = "spawn" /\ fresh \subseteq Pids
    BY DEF Spawn, At, ProcessInv, ProcessesTyped
  <2>2. CASE UNCHANGED <<procs, fresh, handle, target>> /\ Retry
    BY <2>1, <2>2, Going DEF Retry, End, WorkerInv, Actors, Pcs
  <2>3. CASE handle' \in fresh /\ fresh' = fresh \ {handle'} /\ Continue("persist")
             /\ target' = [target EXCEPT !["worker"] = handle']
    BY <2>1, <2>3, Going DEF Continue, worker, WorkerInv, WorkerTyped, Actors, Pcs
  <2> QED
    BY <2>1, <2>2, <2>3 DEF Spawn
<1>5. PlainProcesses'
  BY <1>1, <1>2, <1>3, <1>4 DEF PlainProcesses, NoApp, OneKernel, Went, WorkerTyped, Actors
<1>6. NoApp'
  BY <1>1, <1>2, <1>3, <1>4 DEF NoApp, OneKernel, Went, WorkerTyped, Actors
<1>7. OneKernel'
  <2>1. CASE UNCHANGED <<procs, fresh, handle>> /\ OurKernels' = OurKernels
    BY <1>1, <1>3, <2>1 DEF OneKernel
  <2>2. ASSUME NEW n, procs' = procs \cup {n}, OurKernels' = OurKernels \cup {n},
               n.pid = handle', n.origin = "manager", handle' \in fresh, fresh' = fresh \ {handle'}
        PROVE  OneKernel'
    <3>1. OurKernels' = {n}
      BY <1>4, <2>2
    <3>2. \A q \in procs : q.pid # handle'
      BY <2>2 DEF ProcessInv, OnePerPid
    <3> QED
      BY <1>1, <1>3, <1>4, <2>2, <3>1, <3>2 DEF OneKernel
  <2> QED
    BY <1>1, <1>2, <1>4, <2>1, <2>2
<1>8. KernelsHeld'
  BY <1>1, <1>2, <1>3, <1>4 DEF KernelsHeld, WorkerInv, NoApp, OneKernel, Went, WorkerTyped, Actors
<1>9. RecordKept'
  BY <1>1, <1>2, <1>3, <1>4 DEF RecordKept, WorkerInv, NoApp, OneKernel, Went, WorkerTyped, Actors
<1>10. GuardKnows'
  BY <1>1, <1>2, <1>3, <1>4 DEF GuardKnows, WorkerInv, NoApp, OneKernel, Went, WorkerTyped, Actors
<1>11. WorkerTyped'
  BY <1>1, <1>2, <1>3, <1>4 DEF WorkerTyped, NoApp, OneKernel, Went, Actors
<1>12. WorkerInv'
  BY <1>1, <1>2, <1>3, <1>4
     DEF WorkerInv, GuardKnows, KernelsHeld, RecordKept, NoApp, OneKernel, Went, WorkerTyped,
         Actors
<1>13. StopInv'
  BY <1>1, <1>2, <1>3, <1>4
     DEF StopInv, StopKillsManaged, WorkerInv, NoApp, OneKernel, Went, WorkerTyped, Actors
<1> QED
  BY <1>5, <1>6, <1>7, <1>8, <1>9, <1>10, <1>11, <1>12, <1>13 DEF PlainInv

LEMMA PlainPersist ==
  ASSUME ProcessAssumption, ProcessInv, PlainInv, Persist
  PROVE  PlainInv'
<1> /\ PlainProcesses /\ NoApp /\ OneKernel /\ KernelsHeld /\ RecordKept /\ GuardKnows
    /\ WorkerTyped /\ WorkerInv /\ StopInv
  BY DEF PlainInv
<1>1. /\ \A q \in OurKernels : /\ q.pid \in Live /\ q.pid \in Active
                               /\ q.pid \in Pids /\ q.pid # NoPid /\ q.pid \notin fresh
      /\ NoPid \notin fresh /\ \A q \in procs : q.pid # NoPid
      /\ ~app => handle = NoPid
  BY KernelFacts DEF ProcessAssumption, ProcessInv, ProcessesTyped, Process, HandleOurs
<1>2. OurKernels' = OurKernels
  BY DEF OurKernels, Named, Persist
<1>3. /\ ~tun'
      /\ procs' = procs /\ fresh' = fresh /\ app' = app /\ handle' = handle /\ op' = op
      /\ reader' = reader /\ guarded' = guarded /\ left' = left /\ owed' = owed /\ result' = result
  BY DEF Persist, worker, history, Continue, End, Retry, AfterKill, PlainProcesses
<1>4. /\ app /\ pc["worker"] = "persist" /\ Went("worker", "verify") /\ op \in {"start", "recover"} /\ result = "none"
      /\ record = NoPid /\ record' \in {target["worker"], NoPid}
      /\ target["worker"] = handle \/ OurKernels = {}
      /\ \A q \in OurKernels : q.pid = handle
      /\ target' \in [Actors -> Pids \cup {NoPid}]
  BY Going DEF Persist, At, Continue, WorkerInv, WorkerTyped, PlainProcesses, Actors, Pcs
<1>5. PlainProcesses'
  BY <1>1, <1>2, <1>3, <1>4 DEF PlainProcesses, NoApp, OneKernel, Went, WorkerTyped, Actors
<1>6. NoApp'
  BY <1>1, <1>2, <1>3, <1>4 DEF NoApp, OneKernel, Went, WorkerTyped, Actors
<1>7. OneKernel'
  BY <1>1, <1>2, <1>3, <1>4 DEF OneKernel, WorkerInv, NoApp, Went, WorkerTyped, Actors
<1>8. KernelsHeld'
  BY <1>1, <1>2, <1>3, <1>4 DEF KernelsHeld, WorkerInv, NoApp, OneKernel, Went, WorkerTyped, Actors
<1>9. RecordKept'
  BY <1>1, <1>2, <1>3, <1>4 DEF RecordKept, WorkerInv, NoApp, OneKernel, Went, WorkerTyped, Actors
<1>10. GuardKnows'
  BY <1>1, <1>2, <1>3, <1>4 DEF GuardKnows, WorkerInv, NoApp, OneKernel, Went, WorkerTyped, Actors
<1>11. WorkerTyped'
  BY <1>1, <1>2, <1>3, <1>4 DEF WorkerTyped, NoApp, OneKernel, Went, Actors
<1>12. WorkerInv'
  BY <1>1, <1>2, <1>3, <1>4
     DEF WorkerInv, GuardKnows, KernelsHeld, RecordKept, NoApp, OneKernel, Went, WorkerTyped,
         Actors
<1>13. StopInv'
  BY <1>1, <1>2, <1>3, <1>4
     DEF StopInv, StopKillsManaged, WorkerInv, NoApp, OneKernel, Went, WorkerTyped, Actors
<1> QED
  BY <1>5, <1>6, <1>7, <1>8, <1>9, <1>10, <1>11, <1>12, <1>13 DEF PlainInv

LEMMA PlainVerify ==
  ASSUME ProcessAssumption, ProcessInv, PlainInv, Verify
  PROVE  PlainInv'
<1> /\ PlainProcesses /\ NoApp /\ OneKernel /\ KernelsHeld /\ RecordKept /\ GuardKnows
    /\ WorkerTyped /\ WorkerInv /\ StopInv
  BY DEF PlainInv
<1>1. /\ \A q \in OurKernels : /\ q.pid \in Live /\ q.pid \in Active
                               /\ q.pid \in Pids /\ q.pid # NoPid /\ q.pid \notin fresh
      /\ NoPid \notin fresh /\ \A q \in procs : q.pid # NoPid
      /\ ~app => handle = NoPid
  BY KernelFacts DEF ProcessAssumption, ProcessInv, ProcessesTyped, Process, HandleOurs
<1>2. OurKernels' = OurKernels
  BY DEF OurKernels, Named, Verify
<1>3. /\ ~tun'
      /\ procs' = procs /\ fresh' = fresh /\ app' = app /\ target' = target /\ reader' = reader
      /\ left' = left /\ owed' = owed
  BY DEF Verify, worker, history, Continue, End, Retry, AfterKill, PlainProcesses
<1>4. /\ app /\ pc["worker"] = "verify" /\ \A q \in OurKernels : q.pid = handle
      /\ handle' \in {handle, NoPid} /\ \A q \in OurKernels : q.pid = handle => handle' = handle
      /\ op \in {"start", "recover"} /\ result = "none"
      /\ \/ /\ Went("worker", "idle") /\ op' = "none" /\ result' = "started"
            /\ guarded' \in {guarded, "plain"} /\ record' = record
         \/ /\ OurKernels = {} /\ handle' = NoPid /\ record' = NoPid /\ guarded' = guarded
            /\ \/ Went("worker", "spawn") /\ op' = op /\ result' = "none"
               \/ Went("worker", "idle") /\ op' = "none" /\ result' = "failed"
  <2>1. PICK running \in BOOLEAN : IsRunning(running) /\ IF running THEN End("started") ELSE Retry
    BY DEF Verify
  <2>2. /\ handle' \in {handle, NoPid}
        /\ \A q \in OurKernels : q.pid = handle => handle' = handle
        /\ running => record' = record
        /\ ~running => /\ handle' = NoPid /\ record' = NoPid
                       /\ \A q \in OurKernels : q.pid # handle
    BY <2>1, Running
  <2>3. app /\ pc["worker"] = "verify" /\ op \in {"start", "recover"} /\ result = "none"
        /\ \A q \in OurKernels : q.pid = handle
    BY DEF Verify, At, WorkerInv
  <2>4. running => /\ Went("worker", "idle") /\ op' = "none" /\ result' = "started"
                   /\ guarded' \in {guarded, "plain"}
    BY <2>1, Going DEF End, Guarded, PlainProcesses, Actors, Pcs
  <2>5. ~running => /\ guarded' = guarded
                    /\ \/ Went("worker", "spawn") /\ op' = op /\ result' = result
                       \/ Went("worker", "idle") /\ op' = "none" /\ result' = "failed"
    BY <2>1, Going DEF Retry, End, Actors, Pcs
  <2> QED
    BY <2>2, <2>3, <2>4, <2>5
<1>5. PlainProcesses'
  BY <1>1, <1>2, <1>3, <1>4 DEF PlainProcesses, NoApp, OneKernel, Went, WorkerTyped, Actors
<1>6. NoApp'
  BY <1>1, <1>2, <1>3, <1>4 DEF NoApp, OneKernel, Went, WorkerTyped, Actors
<1>7. OneKernel'
  BY <1>1, <1>2, <1>3, <1>4 DEF OneKernel, WorkerInv, NoApp, Went, WorkerTyped, Actors
<1>8. KernelsHeld'
  BY <1>1, <1>2, <1>3, <1>4 DEF KernelsHeld, WorkerInv, NoApp, OneKernel, Went, WorkerTyped, Actors
<1>9. RecordKept'
  BY <1>1, <1>2, <1>3, <1>4 DEF RecordKept, WorkerInv, NoApp, OneKernel, Went, WorkerTyped, Actors
<1>10. GuardKnows'
  BY <1>1, <1>2, <1>3, <1>4 DEF GuardKnows, WorkerInv, NoApp, OneKernel, Went, WorkerTyped, Actors
<1>11. WorkerTyped'
  BY <1>1, <1>2, <1>3, <1>4 DEF WorkerTyped, NoApp, OneKernel, Went, Actors
<1>12. WorkerInv'
  BY <1>1, <1>2, <1>3, <1>4
     DEF WorkerInv, GuardKnows, KernelsHeld, RecordKept, NoApp, OneKernel, Went, WorkerTyped,
         Actors
<1>13. StopInv'
  BY <1>1, <1>2, <1>3, <1>4
     DEF StopInv, StopKillsManaged, WorkerInv, NoApp, OneKernel, Went, WorkerTyped, Actors
<1> QED
  BY <1>5, <1>6, <1>7, <1>8, <1>9, <1>10, <1>11, <1>12, <1>13 DEF PlainInv

LEMMA PlainReaderRead ==
  ASSUME ProcessAssumption, ProcessInv, PlainInv, ReaderRead
  PROVE  PlainInv'
<1> /\ PlainProcesses /\ NoApp /\ OneKernel /\ KernelsHeld /\ RecordKept /\ GuardKnows
    /\ WorkerTyped /\ WorkerInv /\ StopInv
  BY DEF PlainInv
<1>1. /\ \A q \in OurKernels : /\ q.pid \in Live /\ q.pid \in Active
                               /\ q.pid \in Pids /\ q.pid # NoPid /\ q.pid \notin fresh
      /\ NoPid \notin fresh /\ \A q \in procs : q.pid # NoPid
      /\ ~app => handle = NoPid
  BY KernelFacts DEF ProcessAssumption, ProcessInv, ProcessesTyped, Process, HandleOurs
<1>2. OurKernels' = OurKernels
  BY DEF OurKernels, Named, ReaderRead
<1>3. /\ ~tun'
      /\ procs' = procs /\ fresh' = fresh /\ app' = app /\ record' = record /\ op' = op
      /\ pc' = pc /\ target' = target /\ guarded' = guarded /\ left' = left /\ owed' = owed
      /\ result' = result
  BY DEF ReaderRead, worker, history, Continue, End, Retry, AfterKill, PlainProcesses
<1>4. /\ app /\ handle' = NoPid /\ reader' = record
      /\ \A q \in OurKernels : q.pid # handle
  BY <1>1 DEF ReaderRead
<1>5. PlainProcesses'
  BY <1>1, <1>2, <1>3, <1>4 DEF PlainProcesses, NoApp, OneKernel, Went, WorkerTyped, Actors
<1>6. NoApp'
  BY <1>1, <1>2, <1>3, <1>4 DEF NoApp, OneKernel, Went, WorkerTyped, Actors
<1>7. OneKernel'
  BY <1>1, <1>2, <1>3, <1>4 DEF OneKernel, WorkerInv, NoApp, Went, WorkerTyped, Actors
<1>8. KernelsHeld'
  BY <1>1, <1>2, <1>3, <1>4 DEF KernelsHeld, WorkerInv, NoApp, OneKernel, Went, WorkerTyped, Actors
<1>9. RecordKept'
  BY <1>1, <1>2, <1>3, <1>4 DEF RecordKept, WorkerInv, NoApp, OneKernel, Went, WorkerTyped, Actors
<1>10. GuardKnows'
  BY <1>1, <1>2, <1>3, <1>4 DEF GuardKnows, WorkerInv, NoApp, OneKernel, Went, WorkerTyped, Actors
<1>11. WorkerTyped'
  BY <1>1, <1>2, <1>3, <1>4 DEF WorkerTyped, NoApp, OneKernel, Went, Actors
<1>12. WorkerInv'
  BY <1>1, <1>2, <1>3, <1>4
     DEF WorkerInv, GuardKnows, KernelsHeld, RecordKept, NoApp, OneKernel, Went, WorkerTyped,
         Actors
<1>13. StopInv'
  BY <1>1, <1>2, <1>3, <1>4
     DEF StopInv, StopKillsManaged, WorkerInv, NoApp, OneKernel, Went, WorkerTyped, Actors
<1> QED
  BY <1>5, <1>6, <1>7, <1>8, <1>9, <1>10, <1>11, <1>12, <1>13 DEF PlainInv

LEMMA PlainReaderCompare ==
  ASSUME ProcessAssumption, ProcessInv, PlainInv, ReaderCompare
  PROVE  PlainInv'
<1> /\ PlainProcesses /\ NoApp /\ OneKernel /\ KernelsHeld /\ RecordKept /\ GuardKnows
    /\ WorkerTyped /\ WorkerInv /\ StopInv
  BY DEF PlainInv
<1>1. /\ \A q \in OurKernels : /\ q.pid \in Live /\ q.pid \in Active
                               /\ q.pid \in Pids /\ q.pid # NoPid /\ q.pid \notin fresh
      /\ NoPid \notin fresh /\ \A q \in procs : q.pid # NoPid
      /\ ~app => handle = NoPid
  BY KernelFacts DEF ProcessAssumption, ProcessInv, ProcessesTyped, Process, HandleOurs
<1>2. OurKernels' = OurKernels
  BY DEF OurKernels, Named, ReaderCompare
<1>3. /\ ~tun'
      /\ procs' = procs /\ fresh' = fresh /\ app' = app /\ handle' = handle /\ op' = op
      /\ pc' = pc /\ target' = target /\ guarded' = guarded /\ left' = left /\ owed' = owed
      /\ result' = result
  BY DEF ReaderCompare, worker, history, Continue, End, Retry, AfterKill, PlainProcesses
<1>4. /\ app /\ reader' = NoPid /\ record' \in {record, NoPid}
      /\ \A q \in OurKernels : q.pid = record /\ handle # record => record' = record
  BY <1>1 DEF ReaderCompare, RecordKept
<1>5. PlainProcesses'
  BY <1>1, <1>2, <1>3, <1>4 DEF PlainProcesses, NoApp, OneKernel, Went, WorkerTyped, Actors
<1>6. NoApp'
  BY <1>1, <1>2, <1>3, <1>4 DEF NoApp, OneKernel, Went, WorkerTyped, Actors
<1>7. OneKernel'
  BY <1>1, <1>2, <1>3, <1>4 DEF OneKernel, WorkerInv, NoApp, Went, WorkerTyped, Actors
<1>8. KernelsHeld'
  BY <1>1, <1>2, <1>3, <1>4 DEF KernelsHeld, WorkerInv, NoApp, OneKernel, Went, WorkerTyped, Actors
<1>9. RecordKept'
  BY <1>1, <1>2, <1>3, <1>4 DEF RecordKept, WorkerInv, NoApp, OneKernel, Went, WorkerTyped, Actors
<1>10. GuardKnows'
  BY <1>1, <1>2, <1>3, <1>4 DEF GuardKnows, WorkerInv, NoApp, OneKernel, Went, WorkerTyped, Actors
<1>11. WorkerTyped'
  BY <1>1, <1>2, <1>3, <1>4 DEF WorkerTyped, NoApp, OneKernel, Went, Actors
<1>12. WorkerInv'
  BY <1>1, <1>2, <1>3, <1>4
     DEF WorkerInv, GuardKnows, KernelsHeld, RecordKept, NoApp, OneKernel, Went, WorkerTyped,
         Actors
<1>13. StopInv'
  BY <1>1, <1>2, <1>3, <1>4
     DEF StopInv, StopKillsManaged, WorkerInv, NoApp, OneKernel, Went, WorkerTyped, Actors
<1> QED
  BY <1>5, <1>6, <1>7, <1>8, <1>9, <1>10, <1>11, <1>12, <1>13 DEF PlainInv

LEMMA PlainAppDies ==
  ASSUME ProcessAssumption, ProcessInv, PlainInv, AppDies
  PROVE  PlainInv'
<1> /\ PlainProcesses /\ NoApp /\ OneKernel /\ KernelsHeld /\ RecordKept /\ GuardKnows
    /\ WorkerTyped /\ WorkerInv /\ StopInv
  BY DEF PlainInv
<1>1. /\ \A q \in OurKernels : /\ q.pid \in Live /\ q.pid \in Active
                               /\ q.pid \in Pids /\ q.pid # NoPid /\ q.pid \notin fresh
      /\ NoPid \notin fresh /\ \A q \in procs : q.pid # NoPid
      /\ ~app => handle = NoPid
  BY KernelFacts DEF ProcessAssumption, ProcessInv, ProcessesTyped, Process, HandleOurs
<1>2. OurKernels' = OurKernels
  BY DEF OurKernels, Named, AppDies
<1>3. /\ ~tun'
      /\ procs' = procs /\ fresh' = fresh /\ record' = record
  BY DEF AppDies, worker, history, Continue, End, Retry, AfterKill, PlainProcesses
<1>4. /\ ~app' /\ handle' = NoPid /\ reader' = NoPid /\ guarded' = "off" /\ op' = "none" /\ result' = "none"
      /\ \A a \in Actors : pc'[a] = "idle"
      /\ pc' \in [Actors -> Pcs] /\ target' \in [Actors -> Pids \cup {NoPid}]
  BY DEF AppDies, Pcs, Actors
<1>5. PlainProcesses'
  BY <1>1, <1>2, <1>3, <1>4 DEF PlainProcesses, NoApp, OneKernel, Went, WorkerTyped, Actors
<1>6. NoApp'
  BY <1>1, <1>2, <1>3, <1>4 DEF NoApp, OneKernel, Went, WorkerTyped, Actors
<1>7. OneKernel'
  BY <1>1, <1>2, <1>3, <1>4 DEF OneKernel, WorkerInv, NoApp, Went, WorkerTyped, Actors
<1>8. KernelsHeld'
  BY <1>1, <1>2, <1>3, <1>4 DEF KernelsHeld, WorkerInv, NoApp, OneKernel, Went, WorkerTyped, Actors
<1>9. RecordKept'
  BY <1>1, <1>2, <1>3, <1>4 DEF RecordKept, WorkerInv, NoApp, OneKernel, Went, WorkerTyped, Actors
<1>10. GuardKnows'
  BY <1>1, <1>2, <1>3, <1>4 DEF GuardKnows, WorkerInv, NoApp, OneKernel, Went, WorkerTyped, Actors
<1>11. WorkerTyped'
  BY <1>1, <1>2, <1>3, <1>4 DEF WorkerTyped, NoApp, OneKernel, Went, Actors
<1>12. WorkerInv'
  BY <1>1, <1>2, <1>3, <1>4
     DEF WorkerInv, GuardKnows, KernelsHeld, RecordKept, NoApp, OneKernel, Went, WorkerTyped,
         Actors
<1>13. StopInv'
  BY <1>1, <1>2, <1>3, <1>4
     DEF StopInv, StopKillsManaged, WorkerInv, NoApp, OneKernel, Went, WorkerTyped, Actors
<1> QED
  BY <1>5, <1>6, <1>7, <1>8, <1>9, <1>10, <1>11, <1>12, <1>13 DEF PlainInv

LEMMA PlainAppStarts ==
  ASSUME ProcessAssumption, ProcessInv, PlainInv, AppStarts
  PROVE  PlainInv'
<1> /\ PlainProcesses /\ NoApp /\ OneKernel /\ KernelsHeld /\ RecordKept /\ GuardKnows
    /\ WorkerTyped /\ WorkerInv /\ StopInv
  BY DEF PlainInv
<1>1. /\ \A q \in OurKernels : /\ q.pid \in Live /\ q.pid \in Active
                               /\ q.pid \in Pids /\ q.pid # NoPid /\ q.pid \notin fresh
      /\ NoPid \notin fresh /\ \A q \in procs : q.pid # NoPid
      /\ ~app => handle = NoPid
  BY KernelFacts DEF ProcessAssumption, ProcessInv, ProcessesTyped, Process, HandleOurs
<1>2. OurKernels' = OurKernels
  BY DEF OurKernels, Named, AppStarts
<1>3. /\ ~tun'
      /\ procs' = procs /\ handle' = handle /\ record' = record /\ op' = op /\ target' = target
      /\ reader' = reader /\ guarded' = guarded /\ owed' = owed /\ result' = result
  BY DEF AppStarts, worker, history, Continue, End, Retry, AfterKill, PlainProcesses
<1>4. /\ ~app /\ app' /\ Went("startup", "kill") /\ handle = NoPid /\ guarded = "off" /\ result = "none"
      /\ fresh' = Pids \ Live /\ \A q \in OurKernels : q.pid \in left'
      /\ pc["worker"] = "idle" /\ NoPid \notin Pids
  BY <1>1, Going DEF AppStarts, NoApp, Actors, Pcs, ProcessAssumption
<1>5. PlainProcesses'
  BY <1>1, <1>2, <1>3, <1>4 DEF PlainProcesses, NoApp, OneKernel, Went, WorkerTyped, Actors
<1>6. NoApp'
  BY <1>1, <1>2, <1>3, <1>4 DEF NoApp, OneKernel, Went, WorkerTyped, Actors
<1>7. OneKernel'
  BY <1>1, <1>2, <1>3, <1>4 DEF OneKernel, WorkerInv, NoApp, Went, WorkerTyped, Actors
<1>8. KernelsHeld'
  BY <1>1, <1>2, <1>3, <1>4 DEF KernelsHeld, WorkerInv, NoApp, OneKernel, Went, WorkerTyped, Actors
<1>9. RecordKept'
  BY <1>1, <1>2, <1>3, <1>4 DEF RecordKept, WorkerInv, NoApp, OneKernel, Went, WorkerTyped, Actors
<1>10. GuardKnows'
  BY <1>1, <1>2, <1>3, <1>4 DEF GuardKnows, WorkerInv, NoApp, OneKernel, Went, WorkerTyped, Actors
<1>11. WorkerTyped'
  BY <1>1, <1>2, <1>3, <1>4 DEF WorkerTyped, NoApp, OneKernel, Went, Actors
<1>12. WorkerInv'
  BY <1>1, <1>2, <1>3, <1>4
     DEF WorkerInv, GuardKnows, KernelsHeld, RecordKept, NoApp, OneKernel, Went, WorkerTyped,
         Actors
<1>13. StopInv'
  BY <1>1, <1>2, <1>3, <1>4
     DEF StopInv, StopKillsManaged, WorkerInv, NoApp, OneKernel, Went, WorkerTyped, Actors
<1> QED
  BY <1>5, <1>6, <1>7, <1>8, <1>9, <1>10, <1>11, <1>12, <1>13 DEF PlainInv

LEMMA PlainKernelExits ==
  ASSUME ProcessAssumption, ProcessInv, PlainInv, KernelExits
  PROVE  PlainInv'
<1> /\ PlainProcesses /\ NoApp /\ OneKernel /\ KernelsHeld /\ RecordKept /\ GuardKnows
    /\ WorkerTyped /\ WorkerInv /\ StopInv
  BY DEF PlainInv
<1>1. /\ \A q \in OurKernels : /\ q.pid \in Live /\ q.pid \in Active
                               /\ q.pid \in Pids /\ q.pid # NoPid /\ q.pid \notin fresh
      /\ NoPid \notin fresh /\ \A q \in procs : q.pid # NoPid
      /\ ~app => handle = NoPid
  BY KernelFacts DEF ProcessAssumption, ProcessInv, ProcessesTyped, Process, HandleOurs
<1>2. procs' \subseteq procs /\ OurKernels' \subseteq OurKernels
  <2>1. procs' \subseteq procs
    BY PlainDeath DEF KernelExits, Named
  <2> QED
    BY <2>1 DEF OurKernels, Named
<1>3. /\ ~tun'
      /\ fresh' = fresh /\ app' = app /\ handle' = handle /\ record' = record /\ op' = op
      /\ pc' = pc /\ target' = target /\ reader' = reader /\ guarded' = guarded /\ left' = left
      /\ owed' = owed /\ result' = result
  BY DEF KernelExits, worker, history, Continue, End, Retry, AfterKill, PlainProcesses
<1>4. /\ TRUE
  OBVIOUS
<1>5. PlainProcesses'
  BY <1>1, <1>2, <1>3, <1>4 DEF PlainProcesses, NoApp, OneKernel, Went, WorkerTyped, Actors
<1>6. NoApp'
  BY <1>1, <1>2, <1>3, <1>4 DEF NoApp, OneKernel, Went, WorkerTyped, Actors
<1>7. OneKernel'
  BY <1>1, <1>2, <1>3, <1>4 DEF OneKernel, WorkerInv, NoApp, Went, WorkerTyped, Actors
<1>8. KernelsHeld'
  BY <1>1, <1>2, <1>3, <1>4 DEF KernelsHeld, WorkerInv, NoApp, OneKernel, Went, WorkerTyped, Actors
<1>9. RecordKept'
  BY <1>1, <1>2, <1>3, <1>4 DEF RecordKept, WorkerInv, NoApp, OneKernel, Went, WorkerTyped, Actors
<1>10. GuardKnows'
  BY <1>1, <1>2, <1>3, <1>4 DEF GuardKnows, WorkerInv, NoApp, OneKernel, Went, WorkerTyped, Actors
<1>11. WorkerTyped'
  BY <1>1, <1>2, <1>3, <1>4 DEF WorkerTyped, NoApp, OneKernel, Went, Actors
<1>12. WorkerInv'
  BY <1>1, <1>2, <1>3, <1>4
     DEF WorkerInv, GuardKnows, KernelsHeld, RecordKept, NoApp, OneKernel, Went, WorkerTyped,
         Actors
<1>13. StopInv'
  BY <1>1, <1>2, <1>3, <1>4
     DEF StopInv, StopKillsManaged, WorkerInv, NoApp, OneKernel, Went, WorkerTyped, Actors
<1> QED
  BY <1>5, <1>6, <1>7, <1>8, <1>9, <1>10, <1>11, <1>12, <1>13 DEF PlainInv

LEMMA PlainProgramStarts ==
  ASSUME ProcessAssumption, ProcessInv, PlainInv, ProgramStarts
  PROVE  PlainInv'
<1> /\ PlainProcesses /\ NoApp /\ OneKernel /\ KernelsHeld /\ RecordKept /\ GuardKnows
    /\ WorkerTyped /\ WorkerInv /\ StopInv
  BY DEF PlainInv
<1>1. /\ \A q \in OurKernels : /\ q.pid \in Live /\ q.pid \in Active
                               /\ q.pid \in Pids /\ q.pid # NoPid /\ q.pid \notin fresh
      /\ NoPid \notin fresh /\ \A q \in procs : q.pid # NoPid
      /\ ~app => handle = NoPid
  BY KernelFacts DEF ProcessAssumption, ProcessInv, ProcessesTyped, Process, HandleOurs
<1>2. OurKernels' = OurKernels
  BY DEF OurKernels, Named, ProgramStarts
<1>3. /\ ~tun'
      /\ app' = app /\ handle' = handle /\ record' = record /\ op' = op /\ pc' = pc
      /\ target' = target /\ reader' = reader /\ guarded' = guarded /\ left' = left /\ owed' = owed
      /\ result' = result
  BY DEF ProgramStarts, worker, history, Continue, End, Retry, AfterKill, PlainProcesses
<1>4. /\ \E n : /\ procs' = procs \cup {n} /\ ~n.root /\ n.origin # "manager" /\ n.parent = NoPid
                /\ n.name # "sudo" /\ fresh' = fresh \ {n.pid} /\ n.pid # handle
  <2>1. PICK p \in IF app THEN fresh ELSE Pids \ Live, name \in {"sing-box", "other"} :
          /\ procs' = procs \cup
               {[pid |-> p, name |-> name, root |-> FALSE, origin |-> "user", parent |-> NoPid]}
          /\ fresh' = fresh \ {p}
    BY DEF ProgramStarts
  <2> DEFINE n == [pid |-> p, name |-> name, root |-> FALSE, origin |-> "user", parent |-> NoPid]
  <2>2. n.pid = p /\ n.name = name /\ ~n.root /\ n.origin # "manager" /\ n.parent = NoPid
    OBVIOUS
  <2>3. procs' = procs \cup {n}
    BY <2>1
  <2>4. p # handle
    BY <1>1 DEF OneKernel, ProcessAssumption
  <2> HIDE DEF n
  <2> QED
    BY <2>1, <2>2, <2>3, <2>4
<1>5. PlainProcesses'
  BY <1>1, <1>2, <1>3, <1>4 DEF PlainProcesses, NoApp, OneKernel, Went, WorkerTyped, Actors
<1>6. NoApp'
  BY <1>1, <1>2, <1>3, <1>4 DEF NoApp, OneKernel, Went, WorkerTyped, Actors
<1>7. OneKernel'
  BY <1>1, <1>2, <1>3, <1>4 DEF OneKernel, WorkerInv, NoApp, Went, WorkerTyped, Actors
<1>8. KernelsHeld'
  BY <1>1, <1>2, <1>3, <1>4 DEF KernelsHeld, WorkerInv, NoApp, OneKernel, Went, WorkerTyped, Actors
<1>9. RecordKept'
  BY <1>1, <1>2, <1>3, <1>4 DEF RecordKept, WorkerInv, NoApp, OneKernel, Went, WorkerTyped, Actors
<1>10. GuardKnows'
  BY <1>1, <1>2, <1>3, <1>4 DEF GuardKnows, WorkerInv, NoApp, OneKernel, Went, WorkerTyped, Actors
<1>11. WorkerTyped'
  BY <1>1, <1>2, <1>3, <1>4 DEF WorkerTyped, NoApp, OneKernel, Went, Actors
<1>12. WorkerInv'
  BY <1>1, <1>2, <1>3, <1>4
     DEF WorkerInv, GuardKnows, KernelsHeld, RecordKept, NoApp, OneKernel, Went, WorkerTyped,
         Actors
<1>13. StopInv'
  BY <1>1, <1>2, <1>3, <1>4
     DEF StopInv, StopKillsManaged, WorkerInv, NoApp, OneKernel, Went, WorkerTyped, Actors
<1> QED
  BY <1>5, <1>6, <1>7, <1>8, <1>9, <1>10, <1>11, <1>12, <1>13 DEF PlainInv

LEMMA PlainStays ==
  ASSUME PlainInv, UNCHANGED vars
  PROVE  PlainInv'
<1>1. OurKernels' = OurKernels
  BY DEF vars, OurKernels, Named
<1>2. UNCHANGED <<procs, fresh, app, handle, record, op, tun, pc>>
  BY DEF vars, worker
<1>3. UNCHANGED <<target, reader, guarded, left, owed, result>>
  BY DEF vars, history
<1> QED
  BY <1>1, <1>2, <1>3
     DEF PlainInv, PlainProcesses, NoApp, OneKernel, KernelsHeld, RecordKept, GuardKnows,
         WorkerTyped, WorkerInv, StopInv, StopKillsManaged

LEMMA PlainInit ==
  ASSUME ProcessAssumption, Init
  PROVE  PlainInv
<1>1. OurKernels = {} /\ pc \in [Actors -> Pcs] /\ pc["worker"] = "idle"
      /\ \A a \in Actors : pc[a] = "idle"
  BY DEF Init, OurKernels, Named, Actors, Pcs
<1>2. handle \notin fresh /\ target \in [Actors -> Pids \cup {NoPid}]
  BY DEF Init, ProcessAssumption
<1> QED
  BY <1>1, <1>2
     DEF Init, PlainInv, PlainProcesses, NoApp, OneKernel, KernelsHeld, RecordKept, GuardKnows,
         WorkerTyped, WorkerInv, StopInv, StopKillsManaged

LEMMA PlainStep ==
  ASSUME ProcessAssumption, Tuns \subseteq {FALSE}, ProcessInv, PlainInv, [Next]_vars
  PROVE  PlainInv'
<1>1. ASSUME NEW withTun \in Tuns, BeginStart(withTun) PROVE PlainInv'
  <2>1. withTun = FALSE
    OBVIOUS
  <2>2. BeginStart(FALSE)
    BY <1>1, <2>1
  <2> QED
    BY <2>2, PlainBeginStart
<1>2. Worker => PlainInv'
  BY <1>1, PlainBeginStop, PlainBeginRecover, PlainForceKill, PlainForceVerify, PlainForceAgain,
     PlainValidate, PlainStopHandle, PlainKillExisting, PlainKillCheck, PlainReplaceHandle,
     PlainSpawn, PlainPersist, PlainVerify
     DEF Worker, Actors
<1>3. Startup => PlainInv'
  BY PlainKillExisting, PlainKillCheck DEF Startup, Actors
<1>4. ~SudoRuns
  BY DEF SudoRuns, Pending, Named, PlainInv, PlainProcesses
<1>5. Environment => PlainInv'
  BY <1>4, PlainAppDies, PlainAppStarts, PlainKernelExits, PlainProgramStarts DEF Environment
<1> QED
  BY <1>2, <1>3, <1>5, PlainReaderRead, PlainReaderCompare, PlainStays DEF Next

LEMMA PlainHolds ==
  ASSUME Tuns \subseteq {FALSE}
  PROVE  Spec => [](ProcessInv /\ PlainInv)
<1>1. Init => ProcessInv /\ PlainInv
  BY ProcessInit, PlainInit, ProcessAssumption
<1>2. ProcessInv /\ PlainInv /\ [Next]_vars => (ProcessInv /\ PlainInv)'
  BY ProcessStep, PlainStep, ProcessAssumption
<1> QED
  BY <1>1, <1>2, PTL DEF Spec

-----------------------------------------------------------------------------
(* The theorems about kernels without TUN. *)

\* Without TUN there is never more than one kernel that the manager took when a start has
\* succeeded, whatever died, failed or was dropped alive on the way
\* (lifecycle.rs:461-545, manager.rs:384-536, 621-625).
THEOREM OneKernelAfterStart ==
  ASSUME Tuns \subseteq {FALSE}
  PROVE  Spec => []StartLeavesOne
<1>1. PlainInv => StartLeavesOne
  BY AtMostOne DEF PlainInv, OneKernel, StartLeavesOne
<1> QED
  BY <1>1, PlainHolds, PTL

\* Without TUN no kernel that this session spawned and took is lost: between operations it
\* is held, whatever attempt, stop or status query failed, and whatever child an attempt
\* dropped before it was taken (manager.rs:405-536, 621-625, 879-939).
THEOREM NoKernelIsLost ==
  ASSUME Tuns \subseteq {FALSE}
  PROVE  Spec => []NoStrayKernel
<1>1. PlainInv => NoStrayKernel
  BY DEF PlainInv, KernelsHeld, NoStrayKernel
<1> QED
  BY <1>1, PlainHolds, PTL

\* Without TUN a stop that reports success has killed the kernels whose PID the manager
\* held or had recorded when it began (manager.rs:879-939).
THEOREM StopsKill ==
  ASSUME Tuns \subseteq {FALSE}
  PROVE  Spec => []StopKillsManaged
<1>1. PlainInv => StopKillsManaged
  BY DEF PlainInv, StopInv
<1> QED
  BY <1>1, PlainHolds, PTL

-----------------------------------------------------------------------------
(* With starts alone, TUN or not.  A kernel of root may survive every kill,  *)
(* but a start that could not kill it gives up before it spawns another.     *)

\* Our kernels, and the sudo that will be one.
Units == OurKernels \cup Pending

StartsTyped == pc \in [Actors -> Pcs] /\ (app \/ pc["worker"] = "idle")

OneUnit == \A u, v \in Units : u = v

\* While the application runs, a sudo whose kernel does not run yet is held.
PendingHeld == app => \A s \in Pending : s.pid = handle

\* Where a start is, and what is left of our kernels by then: no sudo once is_running
\* has denied everything, nothing once no kernel is listed, and what was spawned, or
\* was forked by what was spawned, afterwards.
StartInv ==
  LET at == pc["worker"] IN
  /\ at # "idle" => op = "start"
  /\ at # "stop"
  /\ at \in {"force", "forceverify", "forceagain"} => Pending = {}
  /\ at \in {"validate", "kill", "killcheck", "replace", "spawn"} => Units = {}
  /\ at \in {"persist", "verify"} => \A u \in Units : handle # NoPid /\ handle \in {u.pid, u.parent}

StartsInv == StartsTyped /\ OneUnit /\ PendingHeld /\ StartInv

\* Deaths, and programs of others, bring no kernel of ours and no sudo that waits for
\* its kernel: a sudo dies with it.
LEMMA DeathsOfUnits ==
  ASSUME ProcessAssumption, ProcessInv,
         NEW dead, dead \subseteq Named("sing-box"), procs' = Without(dead)
  PROVE  OurKernels' \subseteq OurKernels /\ Pending' \subseteq Pending
<1>1. procs' \subseteq procs
  BY DEF Without
<1>2. ASSUME NEW s \in Pending', NEW k \in procs PROVE k.parent # s.pid
  <2>1. s \in procs' /\ s \in procs /\ s.name = "sudo" /\ \A l \in procs' : l.parent # s.pid
    BY <1>1, <1>2 DEF Pending, Named
  <2>2. SUFFICES ASSUME k.parent = s.pid PROVE FALSE
    OBVIOUS
  <2>3. k \notin dead
    BY <2>1, <2>2 DEF Without
  <2>4. k \notin procs'
    BY <2>1, <2>2
  <2>5. PICK l \in dead : l.parent = k.pid
    BY <2>3, <2>4 DEF Without
  <2>6. l \in procs /\ l.parent # NoPid
    BY <2>5 DEF Named, ProcessInv, ProcessesTyped, Process, ProcessAssumption
  <2>7. PICK t \in procs : t.name = "sudo" /\ t.pid = k.pid
    BY <2>5, <2>6 DEF ProcessInv, ParentIsSudo, Named
  <2>8. k.name = "sudo"
    BY <2>7 DEF ProcessInv, OnePerPid
  <2>9. k.parent = NoPid
    BY <2>8 DEF ProcessInv, SudoShape, Named
  <2> QED
    BY <2>1, <2>2, <2>9 DEF ProcessInv, ProcessesTyped, Process, ProcessAssumption
<1> QED
  BY <1>1, <1>2 DEF OurKernels, Pending, Named

LEMMA PlainDeathsOfUnits ==
  ASSUME ProcessAssumption, ProcessInv,
         NEW victims, {q \in victims : ~q.root} \subseteq Named("sing-box"), PlainKill(victims)
  PROVE  OurKernels' \subseteq OurKernels /\ Pending' \subseteq Pending
<1> DEFINE dead == {q \in victims : ~q.root}
<1>1. procs' = Without(dead) /\ dead \subseteq Named("sing-box")
  BY DEF PlainKill
<1> HIDE DEF dead
<1> QED
  BY <1>1, DeathsOfUnits

LEMMA SudoDeathsOfUnits ==
  ASSUME ProcessAssumption, ProcessInv,
         NEW victims, victims \subseteq Named("sing-box"), SudoKill(victims)
  PROVE  OurKernels' \subseteq OurKernels /\ Pending' \subseteq Pending
<1>1. CASE procs' = procs
  BY <1>1 DEF OurKernels, Pending, Named
<1>2. CASE procs' = Without(victims)
  BY <1>2, DeathsOfUnits
<1> QED
  BY <1>1, <1>2 DEF SudoKill

\* Every unit runs, under its PID or the one of the sudo that forked it.
LEMMA UnitsLive ==
  ASSUME ProcessAssumption, ProcessInv
  PROVE  /\ \A u \in Units : handle \in {u.pid, u.parent} => handle \in Live \/ handle = NoPid
         /\ \A u \in Units : u.pid \in Live /\ u.pid # NoPid
         /\ NoPid \notin Live
         /\ \A q \in OurKernels : q.pid \in Active
<1>1. \A u \in Units : u \in procs /\ u.pid # NoPid
  BY DEF Units, OurKernels, Pending, Named, ProcessInv, ProcessesTyped, Process, ProcessAssumption
<1>2. \A u \in Units : u.parent # NoPid => u.parent \in Live
  BY <1>1 DEF ProcessInv, ParentIsSudo, Named, Live
<1> QED
  BY <1>1, <1>2
     DEF Live, OurKernels, Active, Named, ProcessInv, ProcessesTyped, Process, ProcessAssumption

\* The worker stays where it is: processes may die, and a dead child be forgotten.
LEMMA StartStays ==
  ASSUME ProcessAssumption, ProcessInv, StartsInv,
         OurKernels' \subseteq OurKernels, Pending' \subseteq Pending,
         app' = app, op' = op, pc' \in [Actors -> Pcs], pc'["worker"] = pc["worker"],
         handle' = handle \/ (handle \notin Live /\ Pending = {})
  PROVE  StartsInv'
<1>1. Units' \subseteq Units
  BY DEF Units
<1>2. handle' # handle => \A u \in Units : handle # NoPid => handle \notin {u.pid, u.parent}
  BY UnitsLive
<1>3. StartsTyped' /\ OneUnit' /\ PendingHeld'
  BY <1>1 DEF StartsInv, StartsTyped, OneUnit, PendingHeld
<1>4. StartInv'
  BY <1>1, <1>2 DEF StartsInv, StartInv
<1> QED
  BY <1>3, <1>4 DEF StartsInv

\* The worker moves on to p.
LEMMA StartMoves ==
  ASSUME ProcessAssumption, ProcessInv, StartsInv,
         OurKernels' \subseteq OurKernels, Pending' \subseteq Pending,
         app, app' = app, NEW p \in Pcs \ {"stop"}, Goto("worker", p),
         p # "idle" => op' = "start",
         handle' = handle \/ Pending' = {},
         p \in {"force", "forceverify", "forceagain"} => Pending' = {},
         p \in {"validate", "kill", "killcheck", "replace", "spawn"} => Units' = {},
         p \in {"persist", "verify"} => /\ pc["worker"] \in {"persist", "verify"}
                                        /\ handle' = handle
  PROVE  StartsInv'
<1>1. Units' \subseteq Units
  BY DEF Units
<1>2. pc' \in [Actors -> Pcs] /\ pc'["worker"] = p
  BY DEF StartsInv, StartsTyped, Goto, Actors
<1>3. StartsTyped' /\ OneUnit' /\ PendingHeld'
  BY <1>1, <1>2 DEF StartsInv, StartsTyped, OneUnit, PendingHeld
<1>4. StartInv'
  BY <1>1, <1>2 DEF StartsInv, StartInv
<1> QED
  BY <1>3, <1>4 DEF StartsInv

\* The processes are left alone.
LEMMA SameUnits ==
  ASSUME procs' = procs
  PROVE  OurKernels' = OurKernels /\ Pending' = Pending /\ Units' = Units
BY DEF Units, OurKernels, Pending, Named

-----------------------------------------------------------------------------
(* Every step with starts alone. *)

LEMMA StartsInit ==
  ASSUME Init
  PROVE  StartsInv
<1>1. Units = {} /\ Pending = {}
  BY DEF Init, Units, OurKernels, Pending, Named
<1> QED
  BY <1>1 DEF Init, StartsInv, StartsTyped, OneUnit, PendingHeld, StartInv, Actors, Pcs

LEMMA StartsBegin ==
  ASSUME ProcessAssumption, ProcessInv, StartsInv, NEW withTun, BeginStart(withTun)
  PROVE  StartsInv'
<1>1. PICK running \in BOOLEAN :
        /\ IsRunning(running)
        /\ IF running
             THEN op' = "none" /\ pc' = pc
             ELSE op' = "start" /\ Goto("worker", IF Active = {} THEN "validate" ELSE "force")
  BY DEF BeginStart
<1>2. app /\ app' = app /\ procs' = procs /\ pc["worker"] = "idle"
  BY DEF BeginStart, Begin, At
<1>3. handle' # handle => handle \notin Live
  BY <1>1 DEF IsRunning
<1>4. handle \notin Live => Pending = {}
  BY <1>2, UnitsLive DEF StartsInv, PendingHeld, Units
<1>5. CASE running
  <2>1. pc' \in [Actors -> Pcs] /\ pc'["worker"] = "idle"
    BY <1>1, <1>2, <1>5 DEF StartsInv, StartsTyped
  <2> QED
    BY <1>2, <1>3, <1>4, <2>1, SameUnits
       DEF StartsInv, StartsTyped, OneUnit, PendingHeld, StartInv
<1>6. CASE ~running
  <2>1. handle \notin Live
    BY <1>1, <1>6 DEF IsRunning
  <2>2. Active = {} => Units = {}
    BY <1>4, <2>1, UnitsLive DEF Units
  <2> DEFINE p == IF Active = {} THEN "validate" ELSE "force"
  <2>3. p \in Pcs \ {"stop"} /\ Goto("worker", p) /\ op' = "start"
    BY <1>1, <1>6 DEF Pcs
  <2>4. p = "validate" => Units' = {}
    BY <1>2, <2>2, SameUnits
  <2>5. p \in {"validate", "force"}
    OBVIOUS
  <2> HIDE DEF p
  <2> QED
    BY <1>2, <1>4, <2>1, <2>3, <2>4, <2>5, SameUnits, StartMoves
<1> QED
  BY <1>1, <1>5, <1>6

LEMMA StartsForceKill ==
  ASSUME ProcessAssumption, ProcessInv, StartsInv, ForceKill
  PROVE  StartsInv'
<1>1. OurKernels' \subseteq OurKernels /\ Pending' \subseteq Pending
  BY PlainDeathsOfUnits DEF ForceKill, Named
<1>2. Pending = {} /\ op = "start"
  BY DEF ForceKill, At, StartsInv, StartInv
<1>3. app /\ app' = app /\ op' = op /\ Goto("worker", "forceverify")
  BY DEF ForceKill, At, Continue, worker
<1> QED
  BY <1>1, <1>2, <1>3, StartMoves DEF Pcs

LEMMA StartsForceVerify ==
  ASSUME ProcessAssumption, ProcessInv, StartsInv, ForceVerify
  PROVE  StartsInv'
<1>1. Pending = {} /\ op = "start"
  BY DEF ForceVerify, At, StartsInv, StartInv
<1>2. app /\ app' = app /\ handle' = handle /\ op' = op
  BY DEF ForceVerify, At, Continue, worker
<1>3. CASE Active = {}
  <2>1. procs' = procs /\ Goto("worker", "validate")
    BY <1>3 DEF ForceVerify, Continue
  <2>2. Units' = {}
    BY <1>1, <1>3, <2>1, UnitsLive, SameUnits DEF Units
  <2> QED
    BY <1>1, <1>2, <2>1, <2>2, SameUnits, StartMoves DEF Pcs
<1>4. CASE Active # {}
  <2>1. SudoKill(Named("sing-box")) /\ Goto("worker", "forceagain")
    BY <1>4 DEF ForceVerify, Continue
  <2>2. OurKernels' \subseteq OurKernels /\ Pending' \subseteq Pending
    BY <2>1, SudoDeathsOfUnits
  <2> QED
    BY <1>1, <1>2, <2>1, <2>2, StartMoves DEF Pcs
<1> QED
  BY <1>3, <1>4

LEMMA StartsForceAgain ==
  ASSUME ProcessAssumption, ProcessInv, StartsInv, ForceAgain
  PROVE  StartsInv'
<1>1. Pending = {} /\ op = "start"
  BY DEF ForceAgain, At, StartsInv, StartInv
<1>2. app /\ app' = app /\ handle' = handle /\ procs' = procs
  BY DEF ForceAgain, At
<1>3. CASE Active = {}
  <2>1. op' = op /\ Goto("worker", "validate")
    BY <1>3 DEF ForceAgain, Continue, worker
  <2>2. Units' = {}
    BY <1>1, <1>2, <1>3, UnitsLive, SameUnits DEF Units
  <2> QED
    BY <1>1, <1>2, <2>1, <2>2, SameUnits, StartMoves DEF Pcs
<1>4. CASE Active # {}
  <2>1. Goto("worker", "idle")
    BY <1>4 DEF ForceAgain, End
  <2> QED
    BY <1>1, <1>2, <2>1, SameUnits, StartMoves DEF Pcs
<1> QED
  BY <1>3, <1>4

LEMMA StartsValidate ==
  ASSUME ProcessAssumption, ProcessInv, StartsInv, Validate
  PROVE  StartsInv'
<1>1. app /\ app' = app /\ handle' = handle /\ procs' = procs
  BY DEF Validate, At
<1>2. Units = {} /\ op = "start"
  BY DEF Validate, At, StartsInv, StartInv
<1>3. (Goto("worker", "kill") /\ op' = op) \/ Goto("worker", "idle")
  BY DEF Validate, Continue, End, worker
<1> QED
  BY <1>1, <1>2, <1>3, SameUnits, StartMoves DEF Pcs

LEMMA StartsKillExisting ==
  ASSUME ProcessAssumption, ProcessInv, StartsInv, NEW a \in Actors, KillExisting(a)
  PROVE  StartsInv'
<1>1. app /\ app' = app /\ handle' = handle /\ pc[a] = "kill"
  BY DEF KillExisting, At
<1>2. OurKernels' \subseteq OurKernels /\ Pending' \subseteq Pending
  <2>1. CASE record \notin Active
    BY <2>1, SameUnits DEF KillExisting
  <2>2. CASE record \in Active
    BY <2>2, RecordVictims, PlainDeathsOfUnits DEF KillExisting
  <2> QED
    BY <2>1, <2>2
<1>3. CASE a = "worker"
  <2>1. Units = {} /\ op = "start"
    BY <1>1, <1>3 DEF StartsInv, StartInv
  <2>2. Units' = {}
    BY <1>2, <2>1 DEF Units
  <2>3. op' = op /\ (Goto("worker", "replace") \/ Goto("worker", "killcheck"))
    BY <1>3, <2>1 DEF KillExisting, AfterKill, Continue, worker
  <2> QED
    BY <1>1, <1>2, <2>1, <2>2, <2>3, StartMoves DEF Pcs
<1>4. CASE a = "startup"
  <2>1. op' = op /\ (Goto("startup", "done") \/ Goto("startup", "killcheck"))
    BY <1>4 DEF KillExisting, AfterKill, worker
  <2>2. pc' \in [Actors -> Pcs] /\ pc'["worker"] = pc["worker"]
    BY <2>1 DEF Goto, StartsInv, StartsTyped, Actors, Pcs
  <2> QED
    BY <1>1, <1>2, <2>1, <2>2, StartStays
<1> QED
  BY <1>3, <1>4 DEF Actors

LEMMA StartsKillCheck ==
  ASSUME ProcessAssumption, ProcessInv, StartsInv, NEW a \in Actors, KillCheck(a)
  PROVE  StartsInv'
<1>1. app /\ app' = app /\ handle' = handle /\ pc[a] = "killcheck"
  BY DEF KillCheck, At
<1>2. OurKernels' \subseteq OurKernels /\ Pending' \subseteq Pending
  <2>1. {q \in Named("sing-box") : q.pid = target[a]} \subseteq Named("sing-box")
    OBVIOUS
  <2>2. SudoKill({q \in Named("sing-box") : q.pid = target[a]})
    BY DEF KillCheck
  <2> QED
    BY <2>1, <2>2, SudoDeathsOfUnits
<1>3. CASE a = "worker"
  <2>1. Units = {} /\ op = "start"
    BY <1>1, <1>3 DEF StartsInv, StartInv
  <2>2. Units' = {}
    BY <1>2, <2>1 DEF Units
  <2>3. op' = op /\ Goto("worker", "replace")
    BY <1>3, <2>1 DEF KillCheck, AfterKill, Continue, worker
  <2> QED
    BY <1>1, <1>2, <2>1, <2>2, <2>3, StartMoves DEF Pcs
<1>4. CASE a = "startup"
  <2>1. op' = op /\ Goto("startup", "done")
    BY <1>4 DEF KillCheck, AfterKill, worker
  <2>2. pc' \in [Actors -> Pcs] /\ pc'["worker"] = pc["worker"]
    BY <2>1 DEF Goto, StartsInv, StartsTyped, Actors, Pcs
  <2> QED
    BY <1>1, <1>2, <2>1, <2>2, StartStays
<1> QED
  BY <1>3, <1>4 DEF Actors

LEMMA StartsReplace ==
  ASSUME ProcessAssumption, ProcessInv, StartsInv, ReplaceHandle
  PROVE  StartsInv'
<1>1. OurKernels' \subseteq OurKernels /\ Pending' \subseteq Pending
  BY HandleVictims, PlainDeathsOfUnits DEF ReplaceHandle
<1>2. app /\ app' = app /\ Units = {} /\ op = "start"
  BY DEF ReplaceHandle, At, StartsInv, StartInv
<1>3. Units' = {} /\ Pending' = {}
  BY <1>1, <1>2 DEF Units
<1>4. (Goto("worker", "spawn") /\ op' = op) \/ Goto("worker", "idle")
  BY DEF ReplaceHandle, End
<1> QED
  BY <1>1, <1>2, <1>3, <1>4, StartMoves DEF Pcs

LEMMA StartsSpawn ==
  ASSUME ProcessAssumption, ProcessInv, StartsInv, Spawn
  PROVE  StartsInv'
<1>1. app /\ app' = app /\ Units = {} /\ op = "start" /\ pc["worker"] = "spawn"
  BY DEF Spawn, At, StartsInv, StartInv
<1>2. CASE UNCHANGED <<procs, handle>> /\ Retry
  <2>1. (Goto("worker", "spawn") /\ op' = op) \/ Goto("worker", "idle")
    BY <1>2 DEF Retry, End
  <2> QED
    BY <1>1, <1>2, <2>1, SameUnits, StartMoves DEF Pcs
<1>3. CASE \E p \in fresh :
             /\ procs' = procs \cup
                  {[pid |-> p, name |-> IF tun THEN "sudo" ELSE "sing-box", root |-> tun,
                    origin |-> "manager", parent |-> NoPid]}
             /\ handle' = p /\ Continue("persist")
  <2>1. PICK p \in fresh :
          /\ procs' = procs \cup
               {[pid |-> p, name |-> IF tun THEN "sudo" ELSE "sing-box", root |-> tun,
                 origin |-> "manager", parent |-> NoPid]}
          /\ handle' = p /\ Continue("persist")
    BY <1>3
  <2> DEFINE n == [pid |-> p, name |-> IF tun THEN "sudo" ELSE "sing-box", root |-> tun,
                   origin |-> "manager", parent |-> NoPid]
  <2>2. n.pid = handle' /\ n.parent = NoPid /\ procs' = procs \cup {n} /\ handle' # NoPid
    BY <2>1 DEF ProcessInv, ProcessesTyped, ProcessAssumption
  <2> HIDE DEF n
  <2>3. OurKernels = {} /\ Pending = {}
    BY <1>1 DEF Units
  <2>4. Units' \subseteq {n} /\ Pending' \subseteq {n}
    BY <2>2, <2>3 DEF Units, OurKernels, Pending, Named
  <2>5. pc' \in [Actors -> Pcs] /\ pc'["worker"] = "persist" /\ op' = op
    BY <2>1 DEF StartsInv, StartsTyped, Continue, Goto, worker, Actors, Pcs
  <2> QED
    BY <1>1, <2>2, <2>4, <2>5 DEF StartsInv, StartsTyped, OneUnit, PendingHeld, StartInv
<1>4. CASE DropChild
  <2>1. (Goto("worker", "spawn") /\ op' = op) \/ Goto("worker", "idle")
    BY <1>4 DEF DropChild, Retry, End
  <2>2. PICK p \in fresh :
          procs' = procs \cup
            {[pid |-> p, name |-> "sing-box", root |-> FALSE, origin |-> "dropped",
              parent |-> NoPid]}
    BY <1>4 DEF DropChild
  <2> DEFINE n == [pid |-> p, name |-> "sing-box", root |-> FALSE, origin |-> "dropped",
                   parent |-> NoPid]
  <2>3. n.name # "sudo" /\ n.origin # "manager" /\ procs' = procs \cup {n}
    BY <2>2
  <2> HIDE DEF n
  <2>4. OurKernels' \subseteq OurKernels /\ Pending' \subseteq Pending
    BY <2>3 DEF OurKernels, Pending, Named
  <2>5. Units' = {} /\ Pending' = {}
    BY <1>1, <2>4 DEF Units
  <2> QED
    BY <1>1, <2>1, <2>4, <2>5, StartMoves DEF Pcs
<1> QED
  BY <1>2, <1>3, <1>4 DEF Spawn

LEMMA StartsPersist ==
  ASSUME ProcessAssumption, ProcessInv, StartsInv, Persist
  PROVE  StartsInv'
<1>1. /\ app /\ app' = app /\ procs' = procs /\ handle' = handle
      /\ pc["worker"] = "persist" /\ op = "start" /\ op' = op /\ Goto("worker", "verify")
  BY DEF Persist, At, Continue, worker, StartsInv, StartInv
<1> QED
  BY <1>1, SameUnits, StartMoves DEF Pcs

LEMMA StartsVerify ==
  ASSUME ProcessAssumption, ProcessInv, StartsInv, Verify
  PROVE  StartsInv'
<1>1. PICK running \in BOOLEAN : IsRunning(running) /\ IF running THEN End("started") ELSE Retry
  BY DEF Verify
<1>2. app /\ app' = app /\ procs' = procs /\ pc["worker"] = "verify" /\ op = "start"
  BY DEF Verify, At, StartsInv, StartInv
<1>3. handle \notin Live => Units = {}
  BY <1>2, UnitsLive DEF StartsInv, StartInv
<1>4. handle' = handle \/ Pending' = {}
  BY <1>1, <1>2, <1>3, SameUnits DEF IsRunning, Units
<1>5. CASE running
  <2>1. Goto("worker", "idle")
    BY <1>1, <1>5 DEF End
  <2> QED
    BY <1>2, <1>4, <2>1, SameUnits, StartMoves DEF Pcs
<1>6. CASE ~running
  <2>1. Units' = {}
    BY <1>1, <1>2, <1>3, <1>6, SameUnits DEF IsRunning
  <2>2. (Goto("worker", "spawn") /\ op' = op) \/ Goto("worker", "idle")
    BY <1>1, <1>6 DEF Retry, End
  <2> QED
    BY <1>2, <1>4, <2>1, <2>2, SameUnits, StartMoves DEF Pcs
<1> QED
  BY <1>1, <1>5, <1>6

LEMMA StartsSudoRuns ==
  ASSUME ProcessAssumption, ProcessInv, StartsInv, SudoRuns
  PROVE  StartsInv'
<1>1. PICK s \in Pending :
        \/ procs' = (procs \ {s}) \cup {[s EXCEPT !.name = "sing-box"]}
        \/ \E p \in fresh :
             procs' = procs \cup
               {[pid |-> p, name |-> "sing-box", root |-> TRUE, origin |-> "manager",
                 parent |-> s.pid]}
  BY DEF SudoRuns
<1>2. app' = app /\ handle' = handle /\ op' = op /\ pc' = pc
  BY DEF SudoRuns, worker
<1>3. Units = {s} /\ OurKernels = {} /\ Pending = {s} /\ s.name = "sudo"
  BY DEF Units, StartsInv, OneUnit, OurKernels, Pending, Named
<1>4. /\ s.pid # NoPid /\ \A k \in procs : k.parent # s.pid
      /\ s.parent = NoPid /\ \A q \in procs : q.pid # NoPid
  BY DEF Pending, Named, ProcessInv, ProcessesTyped, Process, SudoShape, ProcessAssumption
<1>5. PICK n :
        /\ Units' \subseteq {n} /\ Pending' = {}
        /\ s.pid \in {n.pid, n.parent}
  <2>1. CASE procs' = (procs \ {s}) \cup {[s EXCEPT !.name = "sing-box"]}
    <3> DEFINE n == [s EXCEPT !.name = "sing-box"]
    <3>1. n.pid = s.pid /\ n.name = "sing-box" /\ n.parent = NoPid
      BY DEF Pending, Named, ProcessInv, ProcessesTyped, Process, SudoShape
    <3>2. procs' = (procs \ {s}) \cup {n}
      BY <2>1
    <3> HIDE DEF n
    <3>3. Units' \subseteq {n} /\ Pending' = {}
      BY <1>3, <1>4, <3>1, <3>2 DEF Units, OurKernels, Pending, Named
    <3> QED
      BY <3>1, <3>3
  <2>2. ASSUME NEW p \in fresh,
               procs' = procs \cup
                 {[pid |-> p, name |-> "sing-box", root |-> TRUE, origin |-> "manager", parent |-> s.pid]}
        PROVE  \E n : /\ Units' \subseteq {n} /\ Pending' = {}
                      /\ s.pid \in {n.pid, n.parent}
    <3> DEFINE n == [pid |-> p, name |-> "sing-box", root |-> TRUE, origin |-> "manager",
                     parent |-> s.pid]
    <3>1. n.parent = s.pid /\ n.name = "sing-box" /\ procs' = procs \cup {n}
      BY <2>2
    <3> HIDE DEF n
    <3>2. Units' \subseteq {n} /\ Pending' = {}
      BY <1>3, <3>1 DEF Units, OurKernels, Pending, Named
    <3> QED
      BY <3>1, <3>2
  <2> QED
    BY <1>1, <2>1, <2>2
<1>6. pc["worker"] \in {"persist", "verify"} => handle = s.pid
  BY <1>3 DEF StartsInv, StartInv, ProcessInv, SudoShape, Pending
<1>7. StartInv'
  BY <1>2, <1>3, <1>4, <1>5, <1>6 DEF StartsInv, StartInv
<1> QED
  BY <1>2, <1>5, <1>7 DEF StartsInv, StartsTyped, OneUnit, PendingHeld

LEMMA StartsOthers ==
  ASSUME ProcessAssumption, ProcessInv, StartsInv,
         ReaderRead \/ ReaderCompare \/ KernelExits \/ ProgramStarts
  PROVE  StartsInv'
<1>1. app' = app /\ op' = op /\ pc' = pc
  BY DEF ReaderRead, ReaderCompare, KernelExits, ProgramStarts, worker
<1>2. OurKernels' \subseteq OurKernels /\ Pending' \subseteq Pending
  <2>1. CASE ReaderRead \/ ReaderCompare
    BY <2>1, SameUnits DEF ReaderRead, ReaderCompare
  <2>2. CASE KernelExits
    <3>1. PICK q \in Named("sing-box") : procs' = Without({q})
      BY <2>2 DEF KernelExits
    <3>2. {q} \subseteq Named("sing-box")
      OBVIOUS
    <3> QED
      BY <3>1, <3>2, DeathsOfUnits
  <2>3. CASE ProgramStarts
    <3>1. PICK p \in Pids, name \in {"sing-box", "other"} :
            procs' = procs \cup
              {[pid |-> p, name |-> name, root |-> FALSE, origin |-> "user", parent |-> NoPid]}
      BY <2>3 DEF ProgramStarts, ProcessInv, ProcessesTyped
    <3> DEFINE n == [pid |-> p, name |-> name, root |-> FALSE, origin |-> "user", parent |-> NoPid]
    <3>2. n.name # "sudo" /\ n.origin # "manager" /\ procs' = procs \cup {n}
      BY <3>1
    <3> HIDE DEF n
    <3> QED
      BY <3>2 DEF OurKernels, Pending, Named
  <2> QED
    BY <2>1, <2>2, <2>3
<1>3. handle' = handle \/ (handle \notin Live /\ Pending = {})
  <2>1. CASE ReaderRead
    BY <2>1, UnitsLive DEF ReaderRead, StartsInv, PendingHeld, Units
  <2>2. CASE ~ReaderRead
    BY <2>2 DEF ReaderCompare, KernelExits, ProgramStarts
  <2> QED
    BY <2>1, <2>2
<1> QED
  BY <1>1, <1>2, <1>3, StartStays DEF StartsInv, StartsTyped

LEMMA StartsSessions ==
  ASSUME ProcessAssumption, ProcessInv, StartsInv, AppDies \/ AppStarts
  PROVE  StartsInv'
<1>1. Units' = Units /\ Pending' = Pending
  BY SameUnits DEF AppDies, AppStarts
<1>2. pc' \in [Actors -> Pcs] /\ pc'["worker"] = "idle"
  BY DEF AppDies, AppStarts, Goto, StartsInv, StartsTyped, Actors, Pcs
<1>3. app' => Pending' = {}
  BY <1>1 DEF AppDies, AppStarts
<1> QED
  BY <1>1, <1>2, <1>3 DEF StartsInv, StartsTyped, OneUnit, PendingHeld, StartInv

LEMMA StartsStep ==
  ASSUME ProcessAssumption, OpKinds \subseteq {"start"}, ProcessInv, StartsInv, [Next]_vars
  PROVE  StartsInv'
<1>1. ~BeginStop("stop") /\ ~BeginStop("heal") /\ ~BeginRecover
  BY DEF BeginStop, BeginRecover, Begin
<1>2. ~StopHandle
  BY DEF StopHandle, At, StartsInv, StartInv
<1>3. Worker => StartsInv'
  BY <1>1, <1>2, StartsBegin, StartsForceKill, StartsForceVerify, StartsForceAgain, StartsValidate,
     StartsKillExisting, StartsKillCheck, StartsReplace, StartsSpawn, StartsPersist, StartsVerify
     DEF Worker, Actors
<1>4. Startup => StartsInv'
  BY StartsKillExisting, StartsKillCheck DEF Startup, Actors
<1>5. UNCHANGED vars => StartsInv'
  BY SameUnits, StartStays DEF vars, worker, StartsInv, StartsTyped
<1> QED
  BY <1>3, <1>4, <1>5, StartsSudoRuns, StartsOthers, StartsSessions DEF Next, Environment

\* With TUN or without, one kernel of ours at most runs after a start has succeeded, as
\* long as the session only starts: a kernel of root that survives its kill fails the
\* start (lifecycle.rs:461-545, manager.rs:384-536).
THEOREM OneKernelWithRoot ==
  ASSUME OpKinds \subseteq {"start"}
  PROVE  Spec => []StartLeavesOne
<1>1. Init => ProcessInv /\ StartsInv
  BY ProcessInit, StartsInit, ProcessAssumption
<1>2. ProcessInv /\ StartsInv /\ [Next]_vars => (ProcessInv /\ StartsInv)'
  BY ProcessStep, StartsStep, ProcessAssumption
<1>3. StartsInv => StartLeavesOne
  BY AtMostOne DEF StartsInv, OneUnit, Units, StartLeavesOne
<1> QED
  BY <1>1, <1>2, <1>3, PTL DEF Spec
=============================================================================
