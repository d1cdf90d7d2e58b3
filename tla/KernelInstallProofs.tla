------------------------- MODULE KernelInstallProofs -------------------------
(***************************************************************************)
(* Proofs about KernelInstall, for any number of downloads and imports, any *)
(* set of versions and bundled kernels, and any budget of faults and       *)
(* crashes: a kernel is kept, an installation that reports success or      *)
(* failure left on the disk what it says, and the next start repairs what  *)
(* the database remembers.                                                 *)
(***************************************************************************)
EXTENDS KernelInstall, FiniteSetTheorems, TLAPS

-----------------------------------------------------------------------------
(* Types, what a job's place says of it, and whom an operation belongs to.  *)

DownloadPlaces == {"open", "stream", "check", "extract", "swap", "move"}
ImportPlaces   == {"backup", "place", "wait", "restore", "rollback", "failed"}
SharedPlaces   == {"new", "suspend", "resume", "resuming", "save", "done", "dead"}

JobRecord ==
  [kind : {"none", "download", "import"}, pc : DownloadPlaces \cup ImportPlaces \cup SharedPlaces,
   ver : Versions \cup {None}, src : Content, was : BOOLEAN,
   next : {"done", "save", "wait", "rollback", "failed"}, ok : BOOLEAN,
   slips : SUBSET {"probe", "save", "restore", "discard"}]

FilesTyped ==
  /\ bundle \in Bundles
  /\ bin \in Content /\ old \in Content /\ bak \in [Jobs -> Content]
  /\ temp \in [archive : [Jobs -> {None, Torn, 1}], out : SUBSET Versions]

StateTyped ==
  /\ db \in Versions \cup {None} /\ run \in Versions \cup {None} /\ desired \in BOOLEAN
  /\ op \in [kind : {"none", "start", "spawn"}, by : {"nobody", "user"} \cup Jobs, unsaved : BOOLEAN]
  /\ ensure \in [Ensurers -> [pc : {"idle", "decide", "copy", "write", "save"}, found : Versions \cup {None}]]
  /\ page \in [ver : Versions \cup {None}, check : {"idle", "due", "read"}]
  /\ mixed \in BOOLEAN /\ had \in BOOLEAN

JobsTyped == job \in [Jobs -> JobRecord]

\* An import has no backup before it has moved the kernel aside, a download
\* none at all; what is about to be moved in is a version.
Placed(j) ==
  /\ job[j].pc = "new" <=> job[j].kind = "none"
  /\ job[j].pc \in DownloadPlaces => job[j].kind = "download"
  /\ job[j].pc \in ImportPlaces => job[j].kind = "import"
  /\ job[j].pc = "resuming" => job[j].next \in IF job[j].kind = "download" THEN {"save"} ELSE {"wait", "failed"}
  /\ job[j].pc = "restore" => job[j].next \in {"done", "rollback"} /\ bak[j] # None
  /\ job[j].kind # "none" => job[j].ver \in Versions
  /\ job[j].pc \in {"swap", "move"} => job[j].src \in Versions
  /\ job[j].ok => job[j].pc = "done"
  /\ job[j].kind # "import" \/ job[j].pc \in {"suspend", "backup"} => bak[j] = None

\* Without a bundled kernel no check writes anything.
NoBundleNoCopy ==
  bundle.file = None => \A a \in Ensurers : ensure[a].pc \notin {"copy", "write"}

\* A job waits for the operation that is its own, and the start's check of the
\* bundled kernel belongs to the start.
Waited ==
  /\ op.kind = "none" <=> op.by = "nobody"
  /\ \A j \in Jobs : op.by = j <=> job[j].pc = "resuming"
  /\ ensure["start"].pc # "idle" => op.kind = "start"
  /\ NoBundleNoCopy

AllPlaced == \A j \in Jobs : Placed(j)

TypeInv == FilesTyped /\ StateTyped /\ JobsTyped /\ AllPlaced /\ Waited

-----------------------------------------------------------------------------
(* What KernelInstall promises, strengthened to what every step preserves.  *)

\* Nobody has discarded an executable.
NoDiscard == \A j \in Jobs : "discard" \notin job[j].slips

\* Then what a download has put aside is a kernel.
AsideRuns == NoDiscard /\ bundle.file = None => old # Torn

KeptInv == AsideRuns /\ SomeKernelKept

\* What it means that two of those at work never were so at once.
OneAtATime ==
  /\ \A i, j \in Jobs : Working(i) /\ Working(j) => i = j
  /\ \A j \in Jobs : Working(j) => op.by # "user" /\ ensure["check"].pc = "idle"
  /\ op.by = "user" => ensure["check"].pc = "idle"

AloneInv == ~mixed => OneAtATime

\* The start's check of the bundled kernel, undisturbed: wherever it ends, the
\* database remembers the executable's version or the executable is unusable.
RepairInv ==
  ~mixed =>
    /\ \A a \in Ensurers : ensure[a].pc = "write" => bin = Torn
    /\ bundle.label # None =>
         /\ ensure["start"].pc \in {"copy", "write"} => ensure["start"].found = bundle.label
         /\ ensure["start"].pc = "save" /\ Usable(bin) => ensure["start"].found = bin
         /\ op.kind # "none" /\ ensure["start"].pc = "idle" /\ Usable(bin)
              => db = bin \/ op.unsaved \/ ~Comparable(bin, bundle.label)

\* No other job has begun.
Sole(j) == \A i \in Jobs \ {j} : job[i].pc = "new"

\* The checks of the bundled kernel leave version v alone.
Spares(a, v) == \/ ensure[a].pc \in {"idle", "decide"}
                \/ ensure[a].pc = "save" /\ ensure[a].found = v

\* The job's kernel is the executable.
InPlace(j) == job[j].pc \in {"resume", "save", "wait"} \/ (job[j].pc = "resuming" /\ job[j].next # "failed")

\* What job j, alone so far, has reached.
Effective(j) ==
  /\ job[j].pc \in {"open", "stream", "check", "suspend", "extract"} => temp.out = {}
  /\ job[j].pc \in {"swap", "move"} => job[j].src = job[j].ver
  /\ job[j].pc \in {"extract", "swap", "move", "backup", "place", "resume", "resuming"}
       => run = None \/ "probe" \in job[j].slips
  /\ InPlace(j) => /\ bin = job[j].ver /\ Spares("start", bin)
                   /\ run \in {None, bin} \/ "probe" \in job[j].slips
  /\ job[j].ok => /\ bin = job[j].ver /\ \A a \in Ensurers : Spares(a, bin)
                  /\ db = bin \/ "save" \in job[j].slips
                  /\ run \in {None, bin} \/ "probe" \in job[j].slips

EffectInv ==   \* a bundled kernel that is not newer does not undo it
  \A j \in Jobs : ~mixed /\ Sole(j) /\ ~Newer(bundle.label, job[j].ver) => Effective(j)

\* The kernel an import found is back, or the bundled one has replaced it since,
\* or it is still in the backup that could not be restored.
Leaves(j) == \/ bin \in {job[j].src, bundle.file, Torn} /\ bak[j] = None
             \/ "restore" \in job[j].slips /\ bak[j] = job[j].src

\* The import waits, or is about to wait, for its kernel.
Trying(j) == job[j].pc \in {"resume", "wait"} \/ (job[j].pc = "resuming" /\ job[j].next = "wait")

\* It has given up after it had replaced the kernel, or before.
Undone(j) == \/ job[j].pc \in {"rollback", "failed"}
             \/ job[j].pc = "resuming" /\ job[j].next = "failed"
             \/ job[j].pc = "done" /\ ~job[j].ok

\* What import j, alone so far, has kept of the kernel it found.
Reverted(j) ==
  /\ job[j].pc = "suspend" => job[j].was
  /\ job[j].was => job[j].src # None
  /\ job[j].pc \in {"suspend", "backup"} => bin = job[j].src
  /\ job[j].pc = "place" => bin = None
  /\ Trying(j) => job[j].src # None
  /\ job[j].pc = "place" \/ Trying(j) => bak[j] = job[j].src
  /\ job[j].pc = "restore" => bak[j] = job[j].src /\ job[j].src # None
  /\ Undone(j) /\ job[j].src # None => Leaves(j)

\* Only a download moves a kernel to .old.
OldFromDownload == (\A j \in Jobs : job[j].kind # "download") => old = None

\* Before any job, a kernel that runs has a file.
FirstHasFile == (\A j \in Jobs : job[j].pc = "new") => (bin = None => run = None)

ImportsRevert == \A j \in Jobs : ~mixed /\ Sole(j) /\ job[j].kind = "import" => Reverted(j)

RevertInv == OldFromDownload /\ FirstHasFile /\ ImportsRevert

-----------------------------------------------------------------------------
LEMMA TypesInit ==
  ASSUME Init
  PROVE  TypeInv
<1>1. had \in BOOLEAN
  <2>1. had = Usable(bin)
    BY DEF Init
  <2> QED
    BY <2>1 DEF Usable
<1> USE VersionsAssumption, BundlesAssumption, InstalledAssumption, JobsAssumption DEF Init, Content
<1>2. FilesTyped
  BY DEF FilesTyped, EmptyTemp, VersionsAssumption, InstalledAssumption
<1>3. StateTyped
  <2>1. db \in Versions \cup {None} /\ run \in Versions \cup {None} /\ desired \in BOOLEAN
    BY DEF VersionsAssumption, InstalledAssumption
  <2>2. mixed \in BOOLEAN
    OBVIOUS
  <2> QED
    BY <1>1, <2>1, <2>2 DEF StateTyped, NoOp, NoEnsure
<1>4. JobsTyped /\ AllPlaced /\ Waited
  BY DEF JobsTyped, JobRecord, AllPlaced, Placed, Waited, NoBundleNoCopy, NewJob, NoOp, NoEnsure, Ensurers, JobsAssumption,
         DownloadPlaces, ImportPlaces, SharedPlaces
<1> QED
  BY <1>2, <1>3, <1>4 DEF TypeInv

\* What is moved and extracted are versions, whoever interferes.
LEMMA FilesStayTyped ==
  ASSUME FilesTyped, JobsTyped, AllPlaced, System \/ User \/ Crash
  PROVE  FilesTyped'
<1> USE VersionsAssumption, BundlesAssumption DEF FilesTyped, JobsTyped, JobRecord,
   AllPlaced, Placed, Content, files, VersionsAssumption, BundlesAssumption
<1>1. ASSUME NEW a \in Ensurers, EnsureBegin(a) \/ EnsureTruncate(a) \/
   EnsureWrite(a) \/ EnsureSave(a)
      PROVE  FilesTyped'
  BY <1>1 DEF EnsureBegin, NoEnsure, Decision, InstalledVersion, EnsureTruncate,
     EnsureWrite, Landed, EnsureSave, Decided, Comparable
<1>2. ASSUME Prepared \/ Spawn \/ CheckBegin \/ CheckRead \/ UserStart \/ UserStop
   \/ PageOpen \/ Crash
      PROVE  FilesTyped'
  BY <1>2 DEF Prepared, Spawn, NoOp, CheckBegin, CheckRead, UserStart, Prepare,
     UserStop, PageOpen, Crash, NoEnsure, Working
<1>3. ASSUME NEW j \in Jobs, NEW v \in Offered, DownloadBegin(j, v) \/
   ImportBegin(j, v)
      PROVE  FilesTyped'
  BY <1>3 DEF DownloadBegin, EmptyTemp, ImportBegin
<1>4. ASSUME NEW j \in Jobs, DownloadOpen(j) \/ DownloadStream(j) \/
   DownloadCheck(j) \/ DownloadExtract(j) \/ DownloadSwap(j) \/ DownloadMove(j)
      PROVE  FilesTyped'
  BY <1>4 DEF DownloadOpen, Archive, Go, DownloadStream, EmptyTemp, Fail,
     DownloadCheck, DownloadExtract, DownloadSwap, DownloadMove, Probe, Slip, DiscardIf
<1>5. ASSUME NEW j \in Jobs, (job[j].kind = "download" /\ Suspend(j, "extract")) \/
   (job[j].kind = "download" /\ Resume(j, "resume", "save")) \/ (job[j].kind =
   "import" /\ Suspend(j, "backup")) \/ (job[j].kind = "import" /\ Resume(j,
   "resume", "wait")) \/ Resume(j, "rollback", "failed")
      PROVE  FilesTyped'
  BY <1>5 DEF Suspend, Go, Fail, Resume, Prepare
<1>6. ASSUME NEW j \in Jobs, ImportBackup(j) \/ ImportWait(j) \/ Restore(j) \/ ImportFailed(j) \/
   SaveVersion(j)
      PROVE  FilesTyped'
  BY <1>6 DEF ImportBackup, Go, ImportWait, Restore, Fail, ImportFailed, SaveVersion, GiveUp, Slip, DiscardIf
<1>7. ASSUME NEW j \in Jobs, ImportPlace(j)
      PROVE  FilesTyped'
  <2>1. job[j].ver \in Content /\ old' = old /\ temp' = temp /\ bundle' = bundle
    BY <1>7 DEF ImportPlace, Restore, GiveUp, Slip, DiscardIf
  <2>2. bin' \in Content /\ bak' \in [Jobs -> Content]
    BY <1>7, <2>1 DEF ImportPlace, Restore, GiveUp, Slip, DiscardIf
  <2> QED
    BY <2>1, <2>2
<1> HIDE DEF FilesTyped, JobsTyped, JobRecord, AllPlaced, Placed, Content
<1> QED
  BY <1>1, <1>2, <1>3, <1>4, <1>5, <1>6, <1>7 DEF System, User, Ensure, Download, Import

LEMMA StateStaysTyped ==
  ASSUME FilesTyped, StateTyped, JobsTyped, AllPlaced, System \/ User \/ Crash,
     mixed' \in BOOLEAN, had' \in BOOLEAN
  PROVE  StateTyped'
<1> USE VersionsAssumption, BundlesAssumption DEF FilesTyped, StateTyped, JobsTyped,
   JobRecord, AllPlaced, Placed, Content, Usable, Ensurers, files,
   VersionsAssumption, BundlesAssumption
<1>1. ASSUME NEW a \in Ensurers, EnsureBegin(a) \/ EnsureTruncate(a) \/
   EnsureWrite(a) \/ EnsureSave(a)
      PROVE  StateTyped'
  <2>1. CASE EnsureBegin(a)
    BY <2>1 DEF EnsureBegin, Decided, NoEnsure, Decision, InstalledVersion, Comparable, Newer
  <2>2. CASE EnsureTruncate(a)
    BY <2>2 DEF EnsureTruncate
  <2>3. CASE EnsureWrite(a)
    BY <2>3 DEF EnsureWrite, Landed, NoEnsure
  <2>4. CASE EnsureSave(a)
    <3>1. op' = op \/ op' = [op EXCEPT !.unsaved = TRUE]
      BY <2>4 DEF EnsureSave
    <3>2. op' \in [kind : {"none", "start", "spawn"}, by : {"nobody", "user"} \cup Jobs, unsaved : BOOLEAN]
      BY ZenonT(30), <3>1
    <3> QED
      BY <2>4, <3>2 DEF EnsureSave, NoEnsure
  <2> QED
    BY <1>1, <2>1, <2>2, <2>3, <2>4
<1>2. ASSUME Prepared
      PROVE  StateTyped'
  BY <1>2 DEF Prepared
<1>3. ASSUME Spawn
      PROVE  StateTyped'
  BY <1>3 DEF Spawn, NoOp
<1>4. ASSUME CheckBegin
      PROVE  StateTyped'
  BY <1>4 DEF CheckBegin
<1>5. ASSUME CheckRead
      PROVE  StateTyped'
  BY <1>5 DEF CheckRead
<1>6. ASSUME UserStart
      PROVE  StateTyped'
  BY <1>6 DEF UserStart, Prepare
<1>7. ASSUME UserStop
      PROVE  StateTyped'
  BY <1>7 DEF UserStop
<1>8. ASSUME PageOpen
      PROVE  StateTyped'
  BY <1>8 DEF PageOpen
<1>9. ASSUME Crash
      PROVE  StateTyped'
  BY <1>9 DEF Crash, NoOp, NoEnsure, Working
<1>10. ASSUME NEW j \in Jobs, NEW v \in Offered, DownloadBegin(j, v) \/
   ImportBegin(j, v)
      PROVE  StateTyped'
  BY <1>10 DEF DownloadBegin, EmptyTemp, ImportBegin
<1>11. ASSUME NEW j \in Jobs, DownloadOpen(j) \/ DownloadStream(j) \/
   DownloadCheck(j) \/ DownloadExtract(j) \/ DownloadSwap(j) \/ DownloadMove(j)
      PROVE  StateTyped'
  BY <1>11 DEF DownloadOpen, Archive, Go, DownloadStream, EmptyTemp, Fail,
     DownloadCheck, DownloadExtract, DownloadSwap, DownloadMove, Probe, Slip, DiscardIf
<1>12. ASSUME NEW j \in Jobs, (job[j].kind = "download" /\ Suspend(j, "extract")) \/
   (job[j].kind = "download" /\ Resume(j, "resume", "save")) \/ (job[j].kind =
   "import" /\ Suspend(j, "backup")) \/ (job[j].kind = "import" /\ Resume(j,
   "resume", "wait")) \/ Resume(j, "rollback", "failed")
      PROVE  StateTyped'
  <2>1. op' = op \/ op' = [kind |-> "start", by |-> j, unsaved |-> FALSE]
    BY <1>12 DEF Suspend, Resume
  <2>2. op' \in [kind : {"none", "start", "spawn"}, by : {"nobody", "user"} \cup Jobs, unsaved : BOOLEAN]
    <3>1. CASE op' = op
      BY <3>1
    <3>2. CASE op' = [kind |-> "start", by |-> j, unsaved |-> FALSE]
      BY Zenon, <3>2
    <3> QED
      BY <2>1, <3>1, <3>2
  <2>3. /\ ensure' \in [Ensurers -> [pc : {"idle", "decide", "copy", "write", "save"}, found : Versions \cup {None}]]
        /\ db' = db /\ run' \in {run, None} /\ desired' = desired /\ page' = page
    BY <1>12 DEF Suspend, Resume, Prepare
  <2> QED
    BY <2>2, <2>3
<1>13. ASSUME NEW j \in Jobs, ImportBackup(j) \/ ImportPlace(j) \/ ImportWait(j) \/ Restore(j) \/
   ImportFailed(j) \/ SaveVersion(j)
      PROVE  StateTyped'
  BY <1>13 DEF ImportBackup, Go, ImportPlace, Restore, Fail, ImportWait,
     ImportFailed, SaveVersion, GiveUp, Slip, DiscardIf
<1> HIDE DEF FilesTyped, StateTyped, JobsTyped, JobRecord, AllPlaced, Placed, Content, Usable,
   Ensurers
<1> QED
  BY <1>1, <1>2, <1>3, <1>4, <1>5, <1>6, <1>7, <1>8, <1>9, <1>10, <1>11, <1>12,
     <1>13 DEF System, User, Ensure, Download, Import

LEMMA JobsStayTyped ==
  ASSUME FilesTyped, JobsTyped, System \/ User \/ Crash
  PROVE  JobsTyped'
<1> USE DEF JobsTyped, JobRecord, DownloadPlaces, ImportPlaces, SharedPlaces
<1>1. ASSUME NEW a \in Ensurers, EnsureBegin(a) \/ EnsureTruncate(a) \/
   EnsureWrite(a) \/ EnsureSave(a)
      PROVE  JobsTyped'
  BY <1>1 DEF EnsureBegin, NoEnsure, Decision, InstalledVersion, EnsureTruncate,
     EnsureWrite, Landed, EnsureSave, Decided, Comparable
<1>2. ASSUME Prepared \/ Spawn \/ CheckBegin \/ CheckRead \/ UserStart \/ UserStop
   \/ PageOpen \/ Crash
      PROVE  JobsTyped'
  BY <1>2 DEF Prepared, Spawn, NoOp, CheckBegin, CheckRead, UserStart, Prepare,
     UserStop, PageOpen, Crash, NoEnsure, Working
<1>3. ASSUME NEW j \in Jobs, NEW v \in Offered, DownloadBegin(j, v) \/
   ImportBegin(j, v)
      PROVE  JobsTyped'
  BY <1>3, VersionsAssumption DEF DownloadBegin, EmptyTemp, VersionsAssumption,
     ImportBegin, FilesTyped
<1>4. ASSUME NEW j \in Jobs, DownloadOpen(j)
      PROVE  JobsTyped'
  BY <1>4 DEF DownloadOpen, Archive, Go
<1>5. ASSUME NEW j \in Jobs, DownloadStream(j)
      PROVE  JobsTyped'
  BY <1>5 DEF DownloadStream, Archive, EmptyTemp, Go, Fail
<1>6. ASSUME NEW j \in Jobs, DownloadCheck(j)
      PROVE  JobsTyped'
  BY <1>6 DEF DownloadCheck, EmptyTemp, Fail, Probe, Slip
<1>7. ASSUME NEW j \in Jobs, DownloadExtract(j)
      PROVE  JobsTyped'
  BY <1>7 DEF DownloadExtract, EmptyTemp, Fail, Content, FilesTyped
<1>8. ASSUME NEW j \in Jobs, DownloadSwap(j)
      PROVE  JobsTyped'
  BY <1>8 DEF DownloadSwap, EmptyTemp, Go, Fail, Slip, DiscardIf
<1>9. ASSUME NEW j \in Jobs, DownloadMove(j)
      PROVE  JobsTyped'
  BY <1>9 DEF DownloadMove, EmptyTemp, Go, Fail, Slip, DiscardIf
<1>10. ASSUME NEW j \in Jobs, (job[j].kind = "download" /\ Suspend(j, "extract")) \/
   (job[j].kind = "download" /\ Resume(j, "resume", "save")) \/ (job[j].kind =
   "import" /\ Suspend(j, "backup")) \/ (job[j].kind = "import" /\ Resume(j,
   "resume", "wait")) \/ Resume(j, "rollback", "failed")
      PROVE  JobsTyped'
  BY <1>10 DEF Suspend, Go, Fail, Resume, Prepare
<1>11. ASSUME NEW j \in Jobs, ImportBackup(j) \/ ImportPlace(j) \/ ImportWait(j) \/ Restore(j)
      PROVE  JobsTyped'
  BY <1>11 DEF ImportBackup, Go, ImportPlace, Restore, Fail, ImportWait, GiveUp, Slip, DiscardIf
<1>12. ASSUME NEW j \in Jobs, ImportFailed(j)
      PROVE  JobsTyped'
  <2>1. [job[j] EXCEPT !.pc = "done", !.ok = FALSE] \in JobRecord
    BY ZenonT(30), <1>12
  <2> QED
    BY <1>12, <2>1 DEF ImportFailed, Fail
<1>13. ASSUME NEW j \in Jobs, SaveVersion(j)
      PROVE  JobsTyped'
  <2>1. [job[j] EXCEPT !.pc = "done", !.ok = TRUE] \in JobRecord
    BY ZenonT(30), <1>13
  <2> QED
    BY <1>13, <2>1 DEF SaveVersion
<1> HIDE DEF JobsTyped, JobRecord, DownloadPlaces, ImportPlaces, SharedPlaces
<1> QED
  BY <1>1, <1>2, <1>3, <1>4, <1>5, <1>6, <1>7, <1>8, <1>9, <1>10, <1>11, <1>12,
     <1>13 DEF System, User, Ensure, Download, Import

\* A job's place goes with what it is.
LEMMA JobsStayPlaced ==
  ASSUME FilesTyped, JobsTyped, AllPlaced, Waited, System \/ User \/ Crash
  PROVE  AllPlaced'
<1> USE DEF FilesTyped, JobsTyped, JobRecord, AllPlaced, Placed, files,
   DownloadPlaces, ImportPlaces, SharedPlaces
<1>1. ASSUME NEW a \in Ensurers, EnsureBegin(a) \/ EnsureTruncate(a) \/
   EnsureWrite(a) \/ EnsureSave(a)
      PROVE  AllPlaced'
  <2>1. CASE EnsureBegin(a)
    BY <2>1 DEF EnsureBegin, Decided, NoEnsure, Decision, InstalledVersion, Comparable, Newer, None, Torn
  <2>2. CASE EnsureTruncate(a)
    BY <2>2 DEF EnsureTruncate, None, Torn
  <2>3. CASE EnsureWrite(a)
    BY <2>3 DEF EnsureWrite, Landed, NoEnsure, None, Torn, Waited, NoBundleNoCopy
  <2>4. CASE EnsureSave(a)
    BY <2>4 DEF EnsureSave, NoEnsure, None, Torn
  <2> QED
    BY <1>1, <2>1, <2>2, <2>3, <2>4
<1>2. ASSUME Prepared \/ Spawn \/ CheckBegin \/ CheckRead \/ UserStart \/ UserStop
   \/ PageOpen \/ Crash
      PROVE  AllPlaced'
  BY <1>2 DEF Prepared, Spawn, NoOp, Waited, CheckBegin, CheckRead, UserStart,
     Prepare, UserStop, PageOpen, Crash, NoEnsure, Working
<1>3. ASSUME NEW j \in Jobs, NEW v \in Offered, DownloadBegin(j, v) \/
   ImportBegin(j, v)
      PROVE  AllPlaced'
  BY <1>3, VersionsAssumption DEF DownloadBegin, EmptyTemp, VersionsAssumption,
     None, ImportBegin
<1>4. ASSUME NEW j \in Jobs, DownloadOpen(j) \/ DownloadStream(j) \/
   DownloadCheck(j) \/ DownloadExtract(j) \/ DownloadSwap(j) \/ DownloadMove(j)
      PROVE  AllPlaced'
  BY <1>4 DEF DownloadOpen, Archive, Go, DownloadStream, EmptyTemp, Fail,
     DownloadCheck, DownloadExtract, None, DownloadSwap, DownloadMove, Probe, Slip, DiscardIf
<1>5. ASSUME NEW j \in Jobs, (job[j].kind = "download" /\ Suspend(j, "extract")) \/
   (job[j].kind = "import" /\ Suspend(j, "backup")) \/ (job[j].kind = "import" /\
   Resume(j, "resume", "wait")) \/ Resume(j, "rollback", "failed")
      PROVE  AllPlaced'
  BY <1>5 DEF Suspend, Go, Fail, Resume, Prepare
<1>6. ASSUME NEW j \in Jobs, job[j].kind = "download" /\ Resume(j, "resume", "save")
      PROVE  AllPlaced'
  <2>1. /\ job'[j].pc \in {"resuming", job[j].next, "save"} /\ job'[j].ok = job[j].ok
        /\ job[j].pc = "resume" /\ job'[j].kind = job[j].kind /\ job'[j].ver = job[j].ver
        /\ job'[j].pc = "resuming" => job'[j].next = "save"
        /\ job'[j].pc # "resuming" => job'[j].pc = "save"
        /\ bak' = bak /\ \A i \in Jobs \ {j} : job'[i] = job[i]
    BY <1>6 DEF Resume, Go
  <2> QED
    BY <1>6, <2>1
<1>7. ASSUME NEW j \in Jobs, ImportBackup(j) \/ ImportPlace(j) \/ ImportWait(j) \/ Restore(j) \/
   ImportFailed(j) \/ SaveVersion(j)
      PROVE  AllPlaced'
  BY <1>7 DEF ImportBackup, Go, ImportPlace, Restore, Fail, ImportWait,
     ImportFailed, SaveVersion, GiveUp, Slip, DiscardIf
<1> HIDE DEF FilesTyped, JobsTyped, JobRecord, AllPlaced, Placed, DownloadPlaces, ImportPlaces,
   SharedPlaces
<1> QED
  BY <1>1, <1>2, <1>3, <1>4, <1>5, <1>6, <1>7 DEF System, User, Ensure, Download, Import

\* The operation in progress is the one its job waits for.
LEMMA JobsStayWaited ==
  ASSUME StateTyped, JobsTyped, AllPlaced, Waited, System \/ User \/ Crash
  PROVE  Waited'
<1> USE JobsAssumption DEF StateTyped, JobsTyped, JobRecord, AllPlaced, Placed,
   Waited, NoBundleNoCopy, Ensurers, JobsAssumption, DownloadPlaces, ImportPlaces, SharedPlaces
<1>1. ASSUME NEW a \in Ensurers, EnsureBegin(a) \/ EnsureTruncate(a) \/
   EnsureWrite(a) \/ EnsureSave(a)
      PROVE  Waited'
  BY <1>1 DEF EnsureBegin, NoEnsure, Decision, InstalledVersion, EnsureTruncate,
     EnsureWrite, Landed, EnsureSave, Decided, Comparable
<1>2. ASSUME Prepared \/ Spawn \/ CheckBegin \/ CheckRead \/ UserStart \/ UserStop
   \/ PageOpen \/ Crash
      PROVE  Waited'
  BY <1>2 DEF Prepared, Spawn, NoOp, CheckBegin, CheckRead, UserStart, Prepare,
     UserStop, PageOpen, Crash, NoEnsure, Working
<1>3. ASSUME NEW j \in Jobs, NEW v \in Offered, DownloadBegin(j, v) \/
   ImportBegin(j, v)
      PROVE  Waited'
  BY <1>3 DEF DownloadBegin, EmptyTemp, ImportBegin
<1>4. ASSUME NEW j \in Jobs, DownloadOpen(j) \/ DownloadStream(j) \/
   DownloadCheck(j) \/ DownloadExtract(j) \/ DownloadSwap(j) \/ DownloadMove(j)
      PROVE  Waited'
  BY SMTT(30), <1>4 DEF DownloadOpen, Archive, Go, DownloadStream, EmptyTemp, Fail,
     DownloadCheck, DownloadExtract, DownloadSwap, DownloadMove, Probe, Slip, DiscardIf
<1>5. ASSUME NEW j \in Jobs, (job[j].kind = "download" /\ Suspend(j, "extract")) \/
   (job[j].kind = "download" /\ Resume(j, "resume", "save")) \/ (job[j].kind =
   "import" /\ Suspend(j, "backup")) \/ (job[j].kind = "import" /\ Resume(j,
   "resume", "wait")) \/ Resume(j, "rollback", "failed")
      PROVE  Waited'
  BY <1>5 DEF Suspend, Go, Fail, Resume, Prepare
<1>6. ASSUME NEW j \in Jobs, ImportBackup(j) \/ ImportPlace(j) \/ ImportWait(j) \/ Restore(j) \/
   ImportFailed(j) \/ SaveVersion(j)
      PROVE  Waited'
  BY <1>6 DEF ImportBackup, Go, ImportPlace, Restore, Fail, ImportWait,
     ImportFailed, SaveVersion, GiveUp, Slip, DiscardIf
<1> HIDE DEF StateTyped, JobsTyped, JobRecord, AllPlaced, Placed, Waited, NoBundleNoCopy, Ensurers,
   DownloadPlaces, ImportPlaces, SharedPlaces
<1> QED
  BY <1>1, <1>2, <1>3, <1>4, <1>5, <1>6 DEF System, User, Ensure, Download, Import

LEMMA TypesStep ==
  ASSUME TypeInv, Next
  PROVE  TypeInv'
<1>1. (System \/ User \/ Crash) /\ mixed' \in BOOLEAN /\ had' \in BOOLEAN
  BY DEF Next
<1>2. FilesTyped' /\ StateTyped' /\ JobsTyped'
  BY <1>1, FilesStayTyped, StateStaysTyped, JobsStayTyped DEF TypeInv
<1>3. AllPlaced' /\ Waited'
  BY <1>1, JobsStayPlaced, JobsStayWaited DEF TypeInv
<1> QED
  BY <1>2, <1>3 DEF TypeInv

-----------------------------------------------------------------------------
(* A kernel is kept. *)

\* A file that runs is moved, never deleted, before another is in its place.
LEMMA KernelStaysKept ==
  ASSUME TypeInv, KeptInv, System \/ User \/ Crash, had' = (had \/ Usable(bin'))
  PROVE  KeptInv'
<1> USE VersionsAssumption, BundlesAssumption DEF KeptInv, NoBundleNoCopy, NoDiscard, AsideRuns,
   SomeKernelKept, TypeInv, FilesTyped, StateTyped, JobsTyped, JobRecord, AllPlaced,
   Placed, Waited, Content, Usable, Ensurers, None, Torn, VersionsAssumption,
   BundlesAssumption, DownloadPlaces, ImportPlaces, SharedPlaces, files
<1>1. ASSUME NEW a \in Ensurers, EnsureBegin(a) \/ EnsureTruncate(a) \/
   EnsureWrite(a) \/ EnsureSave(a)
      PROVE  KeptInv'
  BY <1>1 DEF EnsureBegin, NoEnsure, Decision, InstalledVersion, EnsureTruncate,
     EnsureWrite, Landed, EnsureSave, Decided, Comparable
<1>2. ASSUME Prepared \/ Spawn \/ CheckBegin \/ CheckRead \/ UserStart \/ UserStop
   \/ PageOpen \/ Crash
      PROVE  KeptInv'
  BY <1>2 DEF Prepared, Spawn, NoOp, CheckBegin, CheckRead, UserStart, Prepare,
     UserStop, PageOpen, Crash, NoEnsure, Working
<1>3. ASSUME NEW j \in Jobs, NEW v \in Offered, DownloadBegin(j, v) \/
   ImportBegin(j, v)
      PROVE  KeptInv'
  BY <1>3 DEF DownloadBegin, EmptyTemp, ImportBegin
<1>4. ASSUME NEW j \in Jobs, DownloadOpen(j) \/ DownloadStream(j) \/
   DownloadCheck(j) \/ DownloadExtract(j) \/ DownloadSwap(j) \/ DownloadMove(j)
      PROVE  KeptInv'
  <2>1. CASE DownloadOpen(j) \/ DownloadStream(j) \/ DownloadCheck(j) \/ DownloadExtract(j)
    <3>1. \A i \in Jobs : job[i].slips \subseteq job'[i].slips
      BY <2>1 DEF DownloadOpen, DownloadStream, Archive, Go, Fail, DownloadCheck, Probe, Slip, DownloadExtract
    <3>2. /\ bin' = bin /\ old' = old /\ bak' = bak /\ bundle' = bundle
      BY <2>1 DEF DownloadOpen, DownloadStream, DownloadCheck, DownloadExtract
    <3>3. NoDiscard' => NoDiscard
      BY <3>1
    <3> QED
      BY <3>2, <3>3
  <2>2. CASE DownloadSwap(j)
    <3>1. \A i \in Jobs : job[i].slips \subseteq job'[i].slips
      BY <2>2 DEF DownloadSwap, Slip, Go
    <3>2. bin = None => bin' = bin /\ old' = old
      BY <2>2 DEF DownloadSwap
    <3>3. bin # None /\ "discard" \notin job'[j].slips
            => \/ bin # Torn /\ old' = bin
               \/ old' = old /\ old # None /\ bin' = None
               \/ bin # Torn /\ bin' = bin /\ old' \in {old, None}
      BY <2>2 DEF DownloadSwap, Slip, DiscardIf
    <3>4. bak' = bak /\ bundle' = bundle /\ ensure' = ensure
      BY <2>2 DEF DownloadSwap
    <3> QED
      BY <3>1, <3>2, <3>3, <3>4
  <2>3. CASE DownloadMove(j)
    <3>1. \A i \in Jobs : job[i].slips \subseteq job'[i].slips
      <4>1. \A i \in Jobs : i # j => job'[i] = job[i]
        BY <2>3 DEF DownloadMove, Slip, Go, Fail
      <4>2. job[j].slips \subseteq job'[j].slips
        BY <2>3 DEF DownloadMove, Slip, Go, Fail
      <4> QED
        BY <4>1, <4>2
    <3>2. \/ bin' \in Versions \/ bin' = bin
          \/ bin = None \/ "discard" \in job'[j].slips
      BY <2>3 DEF DownloadMove, Slip, DiscardIf, Go, Fail
    <3>3. bak' = bak /\ old' = old /\ bundle' = bundle /\ ensure' = ensure
      BY <2>3 DEF DownloadMove
    <3> QED
      BY <3>1, <3>2, <3>3
  <2> QED
    BY <1>4, <2>1, <2>2, <2>3
<1>5. ASSUME NEW j \in Jobs, (job[j].kind = "download" /\ Suspend(j, "extract")) \/
   (job[j].kind = "download" /\ Resume(j, "resume", "save")) \/ (job[j].kind =
   "import" /\ Suspend(j, "backup")) \/ (job[j].kind = "import" /\ Resume(j,
   "resume", "wait")) \/ Resume(j, "rollback", "failed")
      PROVE  KeptInv'
  <2>1. \A i \in Jobs : job'[i].slips = job[i].slips
    BY <1>5 DEF Suspend, Go, Fail, Resume
  <2>2. /\ bin' = bin /\ old' = old /\ bak' = bak /\ bundle' = bundle
        /\ \A a \in Ensurers : ensure'[a].pc \in {ensure[a].pc, "decide"}
    BY <1>5 DEF Suspend, Resume, Prepare
  <2> QED
    BY <2>1, <2>2
<1>6. ASSUME NEW j \in Jobs, ImportBackup(j) \/ ImportPlace(j) \/ ImportWait(j) \/ Restore(j) \/
   ImportFailed(j) \/ SaveVersion(j)
      PROVE  KeptInv'
  <2>1. \A i \in Jobs : job[i].slips \subseteq job'[i].slips
    <3>1. \A i \in Jobs : i # j => job'[i] = job[i]
      BY <1>6 DEF ImportBackup, ImportPlace, ImportWait, Restore, GiveUp, ImportFailed, SaveVersion, Slip, Go, Fail
    <3>2. ASSUME ImportBackup(j) \/ ImportPlace(j) \/ ImportWait(j)
          PROVE  job[j].slips \subseteq job'[j].slips
      <4>1. ASSUME NEW next, NEW slips, GiveUp(j, next, slips)
            PROVE  job[j].slips \subseteq job'[j].slips
        BY <4>1 DEF GiveUp, Slip
      <4>2. ASSUME NEW pc, Go(j, pc)
            PROVE  job[j].slips \subseteq job'[j].slips
        BY <4>2 DEF Go
      <4>3. Fail(j) => job[j].slips \subseteq job'[j].slips
        BY DEF Fail
      <4>4. CASE ImportBackup(j)
        BY <4>2, <4>3, <4>4 DEF ImportBackup
      <4>5. CASE ImportPlace(j)
        <5>1. CASE bin' = job[j].ver /\ Go(j, IF job[j].was THEN "resume" ELSE "save")
          BY <5>1 DEF Go
        <5>2. CASE GiveUp(j, "done", DiscardIf(bin # None))
          BY <4>1, <5>2
        <5> QED
          BY <4>5, <5>1, <5>2 DEF ImportPlace
      <4>6. CASE ImportWait(j)
        BY <4>1, <4>2, <4>6 DEF ImportWait
      <4> QED
        BY <3>2, <4>4, <4>5, <4>6
    <3>3. ASSUME Restore(j) \/ ImportFailed(j) \/ SaveVersion(j)
          PROVE  job[j].slips \subseteq job'[j].slips
      BY <3>3 DEF Restore, ImportFailed, SaveVersion, Slip, Go, Fail
    <3>4. job[j].slips \subseteq job'[j].slips
      BY <1>6, <3>2, <3>3
    <3> QED
      BY <3>1, <3>4
  <2>2. old' = old /\ bundle' = bundle /\ ensure' = ensure
    BY <1>6 DEF ImportBackup, ImportPlace, ImportWait, Restore, ImportFailed, SaveVersion
  <2>3. \A i \in Jobs : i # j => bak'[i] = bak[i]
    BY <1>6 DEF ImportBackup, ImportPlace, ImportWait, Restore, ImportFailed, SaveVersion
  <2>4. ASSUME NoDiscard', NEW file \in {bin, bak[j]}, Usable(file)
        PROVE  Usable(bin') \/ Usable(bak'[j])
    <3>1. CASE ImportBackup(j)
      BY <2>4, <3>1 DEF ImportBackup
    <3>2. CASE ImportPlace(j)
      <4>1. "discard" \notin job'[j].slips
        BY <2>4
      <4> QED
        BY <2>4, <3>2, <4>1 DEF ImportPlace, GiveUp, Slip, DiscardIf
    <3>3. CASE Restore(j)
      <4>1. "discard" \notin job'[j].slips
        BY <2>4
      <4>2. bak[j] # Torn
        BY <3>3, <4>1 DEF Restore, Slip, DiscardIf
      <4> QED
        BY <3>3, <4>2 DEF Restore
    <3>4. CASE ImportWait(j) \/ ImportFailed(j) \/ SaveVersion(j)
      BY <2>4, <3>4 DEF ImportWait, ImportFailed, SaveVersion
    <3> QED
      BY <1>6, <3>1, <3>2, <3>3, <3>4
  <2>5. NoDiscard' => NoDiscard
    BY <2>1
  <2> QED
    BY <2>2, <2>3, <2>4, <2>5
<1> HIDE DEF KeptInv, NoBundleNoCopy, NoDiscard, AsideRuns, SomeKernelKept, TypeInv, FilesTyped, StateTyped,
   JobsTyped, JobRecord, AllPlaced, Placed, Waited, Content, Usable, Ensurers, None, Torn,
   DownloadPlaces, ImportPlaces, SharedPlaces
<1> QED
  BY <1>1, <1>2, <1>3, <1>4, <1>5, <1>6 DEF System, User, Ensure, Download, Import

-----------------------------------------------------------------------------
(* Nothing overlaps. *)

\* The count of those at work, read as a fact about any two of them.
LEMMA NoOverlap == ~Overlap => OneAtATime
<1> SUFFICES ASSUME ~Overlap PROVE OneAtATime
  OBVIOUS
<1> DEFINE busy == {j \in Jobs : Working(j)}
           user == {a \in {"user"} : op.by = a}
           check == {a \in {"check"} : ensure[a].pc # "idle"}
           all == busy \cup user \cup check
<1>1. IsFiniteSet(all)
  <2>1. IsFiniteSet(busy)
    BY JobsAssumption, FS_Subset DEF JobsAssumption
  <2>2. IsFiniteSet({"user"}) /\ IsFiniteSet({"check"})
    BY FS_Singleton
  <2>3. IsFiniteSet(user) /\ IsFiniteSet(check)
    BY <2>2, FS_Subset
  <2> QED
    BY <2>1, <2>3, FS_Union
<1>2. Cardinality(all) \in Nat /\ ~(Cardinality(all) > 1)
  BY <1>1, FS_CardinalityType DEF Overlap
<1>3. \A x, y \in all : x = y
  <2> SUFFICES ASSUME NEW x \in all, NEW y \in all, x # y PROVE FALSE
    OBVIOUS
  <2>1. Cardinality({x, y}) = 2 /\ IsFiniteSet({x, y})
    <3>1. IsFiniteSet({y}) /\ Cardinality({y}) = 1
      BY FS_Singleton
    <3>2. IsFiniteSet({y} \cup {x}) /\ Cardinality({y} \cup {x}) = Cardinality({y}) + 1
      BY <3>1, FS_AddElement, x \notin {y}
    <3> QED
      BY <3>1, <3>2, {y} \cup {x} = {x, y}
  <2>2. Cardinality({x, y}) <= Cardinality(all)
    BY <1>1, FS_Subset, {x, y} \subseteq all
  <2> QED
    BY <1>2, <2>1, <2>2
<1> QED
  BY <1>3, JobsAssumption DEF OneAtATime, JobsAssumption

\* Between the start's check of the bundled kernel and its spawn nobody else
\* touches the executable, and each way out of the check leaves the database
\* with the executable's version or the executable unusable.
LEMMA RepairHolds ==
  ASSUME TypeInv, AloneInv, AloneInv', RepairInv, System \/ User \/ Crash, mixed'
     \in BOOLEAN, mixed => mixed'
  PROVE  RepairInv'
<1> USE VersionsAssumption, BundlesAssumption, LabelsAssumption, JobsAssumption DEF
   TypeInv, FilesTyped, StateTyped, JobsTyped, JobRecord, AllPlaced, Placed, Waited,
   Content, AloneInv, OneAtATime, RepairInv, Usable, Working, Ensurers, None, Torn,
   files, LabelsAssumption, JobsAssumption, VersionsAssumption, BundlesAssumption,
   DownloadPlaces, ImportPlaces, SharedPlaces
<1>1. ASSUME NEW a \in Ensurers, EnsureBegin(a) \/ EnsureTruncate(a) \/
   EnsureWrite(a) \/ EnsureSave(a)
      PROVE  RepairInv'
  BY <1>1 DEF EnsureBegin, NoEnsure, Decision, InstalledVersion, EnsureTruncate,
     EnsureWrite, Landed, EnsureSave, Decided, Comparable
<1>2. ASSUME Prepared \/ Spawn \/ CheckBegin \/ CheckRead \/ UserStart \/ UserStop
   \/ PageOpen \/ Crash
      PROVE  RepairInv'
  BY SMTT(30), <1>2 DEF Prepared, Spawn, NoOp, CheckBegin, CheckRead, UserStart, Prepare,
     UserStop, PageOpen, Crash, NoEnsure, Working
<1>3. ASSUME NEW j \in Jobs, NEW v \in Offered, DownloadBegin(j, v) \/
   ImportBegin(j, v)
      PROVE  RepairInv'
  BY <1>3 DEF DownloadBegin, EmptyTemp, ImportBegin
<1>4. ASSUME NEW j \in Jobs, DownloadOpen(j) \/ DownloadStream(j) \/
   DownloadCheck(j) \/ DownloadExtract(j) \/ DownloadSwap(j) \/ DownloadMove(j)
      PROVE  RepairInv'
  BY ZenonT(30), <1>4 DEF DownloadOpen, Archive, Go, DownloadStream, EmptyTemp, Fail,
     DownloadCheck, DownloadExtract, DownloadSwap, DownloadMove, Probe, Slip, DiscardIf
<1>5. ASSUME NEW j \in Jobs, (job[j].kind = "download" /\ Suspend(j, "extract")) \/
   (job[j].kind = "download" /\ Resume(j, "resume", "save")) \/ (job[j].kind =
   "import" /\ Suspend(j, "backup")) \/ (job[j].kind = "import" /\ Resume(j,
   "resume", "wait")) \/ Resume(j, "rollback", "failed")
      PROVE  RepairInv'
  BY <1>5 DEF Suspend, Go, Fail, Resume, Prepare
<1>6. ASSUME NEW j \in Jobs, ImportBackup(j) \/ ImportPlace(j) \/ ImportWait(j) \/ Restore(j) \/
   ImportFailed(j) \/ SaveVersion(j)
      PROVE  RepairInv'
  BY SMTT(30), <1>6 DEF ImportBackup, Go, ImportPlace, Restore, Fail, ImportWait,
     ImportFailed, SaveVersion, GiveUp, Slip, DiscardIf
<1> HIDE DEF TypeInv, FilesTyped, StateTyped, JobsTyped, JobRecord, AllPlaced, Placed, Waited,
   Content, AloneInv, OneAtATime, RepairInv, Usable, Working, Ensurers, None, Torn,
   DownloadPlaces, ImportPlaces, SharedPlaces
<1> QED
  BY <1>1, <1>2, <1>3, <1>4, <1>5, <1>6 DEF System, User, Ensure, Download, Import

-----------------------------------------------------------------------------
(* A job alone. *)

LEMMA EffectHolds ==
  ASSUME TypeInv, AloneInv, AloneInv', EffectInv, System \/ User \/ Crash, mixed'
     \in BOOLEAN, mixed => mixed'
  PROVE  EffectInv'
<1> USE VersionsAssumption, BundlesAssumption, LabelsAssumption, JobsAssumption DEF
   TypeInv, FilesTyped, StateTyped, JobsTyped, JobRecord, AllPlaced, Placed, Waited,
   Content, AloneInv, OneAtATime, Effective, Spares, Sole, InPlace, Usable, Working,
   Ensurers, None, Torn, files, LabelsAssumption, JobsAssumption,
   VersionsAssumption, BundlesAssumption, DownloadPlaces, ImportPlaces, SharedPlaces
<1>1. ASSUME NEW a \in Ensurers, EnsureBegin(a) \/ EnsureTruncate(a) \/
   EnsureWrite(a) \/ EnsureSave(a)
      PROVE  EffectInv'
  <2>1. CASE EnsureBegin(a)
    BY <2>1 DEF EnsureBegin, Decided, NoEnsure, Decision, InstalledVersion, Comparable, Newer, EffectInv
  <2>2. CASE EnsureTruncate(a)
    BY <2>2 DEF EnsureTruncate, EffectInv
  <2>3. CASE EnsureWrite(a)
    BY <2>3 DEF EnsureWrite, Landed, NoEnsure, EffectInv
  <2>4. CASE EnsureSave(a)
    BY <2>4 DEF EnsureSave, NoEnsure, EffectInv
  <2> QED
    BY <1>1, <2>1, <2>2, <2>3, <2>4
<1>2. ASSUME Prepared \/ Spawn \/ CheckBegin \/ CheckRead \/ UserStart \/ UserStop
   \/ PageOpen \/ Crash
      PROVE  EffectInv'
  BY SMTT(30), <1>2 DEF Prepared, EffectInv, Spawn, NoOp, CheckBegin, CheckRead, UserStart,
     Prepare, UserStop, PageOpen, Crash, NoEnsure, Working
<1>3. ASSUME NEW j \in Jobs, NEW v \in Offered, DownloadBegin(j, v) \/
   ImportBegin(j, v)
      PROVE  EffectInv'
  BY <1>3 DEF DownloadBegin, EmptyTemp, EffectInv, ImportBegin
<1>4. ASSUME NEW j \in Jobs, DownloadOpen(j) \/ DownloadSwap(j)
      PROVE  EffectInv'
  BY SMTT(30), <1>4 DEF DownloadOpen, Archive, Go, EffectInv, DownloadSwap, EmptyTemp, Fail, Slip, DiscardIf
<1>5. ASSUME NEW j \in Jobs, DownloadStream(j)
      PROVE  EffectInv'
  <2>1. /\ bundle' = bundle /\ run' = run /\ bin' = bin /\ job[j].pc = "stream" /\ job'[j].pc \in {"check", "done"}
        /\ job'[j].ver = job[j].ver /\ ~job'[j].ok /\ temp'.out \in {temp.out, {}}
        /\ \A i \in Jobs \ {j} : job'[i].pc = job[i].pc
    BY <1>5 DEF DownloadStream, Archive, EmptyTemp, Go, Fail
  <2> SUFFICES ASSUME NEW k \in Jobs, (~mixed /\ Sole(k) /\ ~Newer(bundle.label, job[k].ver))'
               PROVE  Effective(k)'
    BY DEF EffectInv
  <2>2. k = j /\ ~mixed
    BY <2>1
  <2>3. Sole(j) /\ ~Newer(bundle.label, job[j].ver)
    BY <2>1, <2>2
  <2> QED
    BY <2>1, <2>2, <2>3 DEF EffectInv
<1>6. ASSUME NEW j \in Jobs, DownloadCheck(j)
      PROVE  EffectInv'
  <2>1. /\ bundle' = bundle /\ run' = run /\ bin' = bin /\ job[j].pc = "check" /\ job'[j].pc \in {"suspend", "extract", "done"}
        /\ job'[j].ver = job[j].ver /\ ~job'[j].ok /\ temp'.out \in {temp.out, {}} 
        /\ (job'[j].pc = "extract" => run = None \/ "probe" \in job'[j].slips)
        /\ \A i \in Jobs \ {j} : job'[i].pc = job[i].pc
    BY <1>6 DEF DownloadCheck, EmptyTemp, Fail, Probe, Slip
  <2> SUFFICES ASSUME NEW k \in Jobs, (~mixed /\ Sole(k) /\ ~Newer(bundle.label, job[k].ver))'
               PROVE  Effective(k)'
    BY DEF EffectInv
  <2>2. k = j /\ ~mixed
    BY <2>1
  <2>3. Sole(j) /\ ~Newer(bundle.label, job[j].ver)
    BY <2>1, <2>2
  <2> QED
    BY <2>1, <2>2, <2>3 DEF EffectInv
<1>7. ASSUME NEW j \in Jobs, DownloadExtract(j)
      PROVE  EffectInv'
  <2>1. /\ bundle' = bundle /\ run' = run /\ bin' = bin /\ job[j].pc = "extract" /\ job'[j].pc \in {"swap", "done"}
        /\ job'[j].ver = job[j].ver /\ ~job'[j].ok /\ (job'[j].pc = "swap" /\ temp.out = {} => job'[j].src = job[j].ver)
        /\ job'[j].slips = job[j].slips
        /\ \A i \in Jobs \ {j} : job'[i].pc = job[i].pc
    BY <1>7 DEF DownloadExtract, EmptyTemp, Fail
  <2> SUFFICES ASSUME NEW k \in Jobs, (~mixed /\ Sole(k) /\ ~Newer(bundle.label, job[k].ver))'
               PROVE  Effective(k)'
    BY DEF EffectInv
  <2>2. k = j /\ ~mixed
    BY <2>1
  <2>3. Sole(j) /\ ~Newer(bundle.label, job[j].ver)
    BY <2>1, <2>2
  <2> QED
    BY <2>1, <2>2, <2>3 DEF EffectInv
<1>8. ASSUME NEW j \in Jobs, DownloadMove(j)
      PROVE  EffectInv'
  <2>1. /\ bundle' = bundle /\ run' = run /\ ensure' = ensure /\ job[j].pc = "move"
    BY <1>8 DEF DownloadMove, Slip, DiscardIf
  <2>2. job'[j].pc \in {"resume", "done"} /\ job'[j].ver = job[j].ver /\ ~job'[j].ok
    BY <1>8 DEF DownloadMove, Go, Fail, Slip, DiscardIf
  <2>3. \A i \in Jobs \ {j} : job'[i].pc = job[i].pc
    BY <1>8 DEF DownloadMove, Go, Fail, Slip, DiscardIf
  <2>4. job'[j].pc = "resume" => bin' = job[j].src /\ job'[j].slips = job[j].slips
    BY <1>8 DEF DownloadMove, Go, Fail, Slip, DiscardIf
  <2> SUFFICES ASSUME NEW k \in Jobs, (~mixed /\ Sole(k) /\ ~Newer(bundle.label, job[k].ver))'
               PROVE  Effective(k)'
    BY DEF EffectInv
  <2>5. k = j /\ ~mixed
    BY <2>2
  <2>6. Sole(j) /\ ~Newer(bundle.label, job[j].ver)
    BY <2>1, <2>2, <2>3, <2>5
  <2>7. job[j].src = job[j].ver /\ (run = None \/ "probe" \in job[j].slips)
    BY <2>1, <2>5, <2>6 DEF EffectInv
  <2>8. ensure["start"].pc = "idle"
    BY <2>1, <2>5
  <2> QED
    BY <2>1, <2>2, <2>4, <2>5, <2>7, <2>8
<1>9. ASSUME NEW j \in Jobs, (job[j].kind = "download" /\ Resume(j, "resume",
   "save")) \/ (job[j].kind = "import" /\ Suspend(j, "backup")) \/ (job[j].kind =
   "import" /\ Resume(j, "resume", "wait")) \/ Resume(j, "rollback", "failed")
      PROVE  EffectInv'
  BY SMTT(30), <1>9 DEF Resume, Prepare, Go, EffectInv, Suspend, Fail
<1>10. ASSUME NEW j \in Jobs, job[j].kind = "download" /\ Suspend(j, "extract")
      PROVE  EffectInv'
  <2> SUFFICES ASSUME NEW k \in Jobs, (~mixed /\ Sole(k) /\ ~Newer(bundle.label, job[k].ver))'
               PROVE  Effective(k)'
    BY DEF EffectInv
  <2>1. k = j /\ ~mixed
    BY <1>10 DEF Suspend, Go, Fail
  <2>2. CASE job[j].pc = "new"
    BY <1>10, <2>1, <2>2 DEF Suspend, Go, Fail
  <2>3. CASE job[j].pc # "new"
    <3>1. Sole(j) /\ ~Newer(bundle.label, job[j].ver)
      BY SMTT(20), <1>10, <2>1, <2>3 DEF Suspend, Go, Fail
    <3> QED
      BY SMTT(20), <1>10, <2>1, <2>3, <3>1 DEF Suspend, Go, Fail, EffectInv
  <2> QED
    BY <2>2, <2>3
<1>11. ASSUME NEW j \in Jobs, ImportBackup(j) \/ ImportPlace(j) \/ ImportWait(j) \/ Restore(j) \/
   ImportFailed(j) \/ SaveVersion(j)
      PROVE  EffectInv'
  BY <1>11 DEF ImportBackup, Go, EffectInv, ImportPlace, Restore, Fail, ImportWait,
     ImportFailed, SaveVersion, GiveUp, Slip, DiscardIf
<1> HIDE DEF TypeInv, FilesTyped, StateTyped, JobsTyped, JobRecord, AllPlaced, Placed, Waited,
   Content, AloneInv, OneAtATime, Effective, Spares, Sole, InPlace, Usable, Working, Ensurers,
   None, Torn, DownloadPlaces, ImportPlaces, SharedPlaces
<1> QED
  BY <1>1, <1>2, <1>3, <1>4, <1>5, <1>6, <1>7, <1>8, <1>9, <1>10, <1>11 DEF System, User, Ensure, Download, Import

LEMMA OldStaysTheirs ==
  ASSUME TypeInv, RevertInv, System \/ User \/ Crash
  PROVE  OldFromDownload'
<1> USE VersionsAssumption, BundlesAssumption DEF TypeInv, FilesTyped, StateTyped,
   JobsTyped, JobRecord, AllPlaced, Placed, Waited, Content, RevertInv,
   OldFromDownload, FirstHasFile,  Usable, Ensurers, None, Torn, files,
   VersionsAssumption, BundlesAssumption, DownloadPlaces, ImportPlaces, SharedPlaces
<1>1. ASSUME NEW a \in Ensurers, EnsureBegin(a) \/ EnsureTruncate(a) \/
   EnsureWrite(a) \/ EnsureSave(a)
      PROVE  OldFromDownload'
  BY <1>1 DEF EnsureBegin, NoEnsure, Decision, InstalledVersion, EnsureTruncate,
     EnsureWrite, Landed, EnsureSave, Decided, Comparable
<1>2. ASSUME Prepared \/ Spawn \/ CheckBegin \/ CheckRead \/ UserStart \/ UserStop
   \/ PageOpen \/ Crash
      PROVE  OldFromDownload'
  BY <1>2 DEF Prepared, Spawn, NoOp, CheckBegin, CheckRead, UserStart, Prepare,
     UserStop, PageOpen, Crash, NoEnsure, Working
<1>3. ASSUME NEW j \in Jobs, NEW v \in Offered, DownloadBegin(j, v) \/
   ImportBegin(j, v)
      PROVE  OldFromDownload'
  BY <1>3 DEF DownloadBegin, EmptyTemp, ImportBegin
<1>4. ASSUME NEW j \in Jobs, DownloadOpen(j) \/ DownloadStream(j) \/
   DownloadCheck(j) \/ DownloadExtract(j) \/ DownloadSwap(j) \/ DownloadMove(j)
      PROVE  OldFromDownload'
  BY <1>4 DEF DownloadOpen, Archive, Go, DownloadStream, EmptyTemp, Fail,
     DownloadCheck, DownloadExtract, DownloadSwap, DownloadMove, Probe, Slip, DiscardIf
<1>5. ASSUME NEW j \in Jobs, job[j].kind = "download" /\ Suspend(j, "extract")
      PROVE  OldFromDownload'
  BY <1>5 DEF Suspend, Go, Fail
<1>6. ASSUME NEW j \in Jobs, job[j].kind = "download" /\ Resume(j, "resume", "save")
      PROVE  OldFromDownload'
  BY <1>6 DEF Resume, Prepare, Go
<1>7. ASSUME NEW j \in Jobs, job[j].kind = "import" /\ Suspend(j, "backup")
      PROVE  OldFromDownload'
  <2>1. old' = old
    BY <1>7 DEF Suspend, Go, Fail
  <2>2. \A i \in Jobs \ {j} : job'[i] = job[i]
    BY <1>7 DEF Suspend, Go, Fail
  <2>3. job'[j].kind = job[j].kind
    BY <1>7 DEF Suspend, Go, Fail
  <2> QED
    BY <2>1, <2>2, <2>3
<1>8. ASSUME NEW j \in Jobs, job[j].kind = "import" /\ Resume(j, "resume", "wait")
      PROVE  OldFromDownload'
  BY SMTT(30), <1>8 DEF Resume, Prepare, Go
<1>9. ASSUME NEW j \in Jobs, Resume(j, "rollback", "failed")
      PROVE  OldFromDownload'
  BY SMTT(30), <1>9 DEF Resume, Prepare, Go
<1>10. ASSUME NEW j \in Jobs, ImportBackup(j) \/ ImportWait(j) \/ Restore(j) \/ ImportFailed(j) \/
   SaveVersion(j)
      PROVE  OldFromDownload'
  <2>1. old' = old
    BY <1>10 DEF ImportBackup, ImportWait, Restore, ImportFailed, SaveVersion
  <2>2. \A i \in Jobs \ {j} : job'[i] = job[i]
    BY <1>10 DEF ImportBackup, ImportWait, GiveUp, Slip, Restore, ImportFailed, SaveVersion, Go, Fail
  <2>3. job'[j].kind = job[j].kind
    BY <1>10 DEF ImportBackup, ImportWait, GiveUp, Slip, Restore, ImportFailed, SaveVersion, Go, Fail
  <2> QED
    BY <2>1, <2>2, <2>3
<1>11. ASSUME NEW j \in Jobs, ImportPlace(j)
      PROVE  OldFromDownload'
  <2>1. old' = old
    BY <1>11 DEF ImportPlace, Restore, Go, Fail, GiveUp, Slip, DiscardIf
  <2>2. \A i \in Jobs \ {j} : job'[i] = job[i]
    BY <1>11 DEF ImportPlace, Restore, Go, Fail, GiveUp, Slip, DiscardIf
  <2>3. job'[j].kind = job[j].kind
    BY <1>11 DEF ImportPlace, Restore, Go, Fail, GiveUp, Slip, DiscardIf
  <2> QED
    BY <2>1, <2>2, <2>3
<1> HIDE DEF TypeInv, FilesTyped, StateTyped, JobsTyped, JobRecord, AllPlaced, Placed, Waited,
   Content, RevertInv, OldFromDownload, FirstHasFile, Usable, Ensurers, None, Torn,
   DownloadPlaces, ImportPlaces, SharedPlaces
<1> QED
  BY <1>1, <1>2, <1>3, <1>4, <1>5, <1>6, <1>7, <1>8, <1>9, <1>10, <1>11 DEF System, User, Ensure, Download, Import

LEMMA FirstStaysOnDisk ==
  ASSUME TypeInv, NoBundleNoCopy, RevertInv, System \/ User \/ Crash
  PROVE  FirstHasFile'
<1> USE VersionsAssumption, BundlesAssumption DEF TypeInv, FilesTyped, StateTyped,
   JobsTyped, JobRecord, AllPlaced, Placed, Waited, Content, RevertInv,
   OldFromDownload, FirstHasFile,  Usable, Ensurers, None, Torn, files,
   NoBundleNoCopy, VersionsAssumption, BundlesAssumption, DownloadPlaces,
   ImportPlaces, SharedPlaces
<1>1. ASSUME NEW a \in Ensurers, EnsureBegin(a) \/ EnsureTruncate(a) \/
   EnsureWrite(a) \/ EnsureSave(a)
      PROVE  FirstHasFile'
  BY <1>1 DEF EnsureBegin, NoEnsure, Decision, InstalledVersion, EnsureTruncate,
     EnsureWrite, Landed, EnsureSave, Decided, Comparable
<1>2. ASSUME Prepared \/ Spawn \/ CheckBegin \/ CheckRead \/ UserStart \/ UserStop
   \/ PageOpen \/ Crash
      PROVE  FirstHasFile'
  BY <1>2 DEF Prepared, Spawn, NoOp, CheckBegin, CheckRead, UserStart, Prepare,
     UserStop, PageOpen, Crash, NoEnsure, Working
<1>3. ASSUME NEW j \in Jobs, NEW v \in Offered, DownloadBegin(j, v) \/
   ImportBegin(j, v)
      PROVE  FirstHasFile'
  BY <1>3 DEF DownloadBegin, EmptyTemp, ImportBegin
<1>4. ASSUME NEW j \in Jobs, DownloadOpen(j) \/ DownloadStream(j) \/
   DownloadCheck(j) \/ DownloadExtract(j) \/ DownloadSwap(j) \/ DownloadMove(j)
      PROVE  FirstHasFile'
  BY <1>4 DEF DownloadOpen, Archive, Go, DownloadStream, EmptyTemp, Fail,
     DownloadCheck, DownloadExtract, DownloadSwap, DownloadMove, Probe, Slip, DiscardIf
<1>5. ASSUME NEW j \in Jobs, (job[j].kind = "download" /\ Suspend(j, "extract")) \/
   (job[j].kind = "download" /\ Resume(j, "resume", "save")) \/ (job[j].kind =
   "import" /\ Suspend(j, "backup")) \/ (job[j].kind = "import" /\ Resume(j,
   "resume", "wait")) \/ Resume(j, "rollback", "failed")
      PROVE  FirstHasFile'
  BY <1>5 DEF Suspend, Go, Fail, Resume, Prepare
<1>6. ASSUME NEW j \in Jobs, ImportBackup(j) \/ ImportPlace(j) \/ ImportWait(j) \/ Restore(j) \/
   ImportFailed(j) \/ SaveVersion(j)
      PROVE  FirstHasFile'
  BY <1>6 DEF ImportBackup, Go, ImportPlace, Restore, Fail, ImportWait,
     ImportFailed, SaveVersion, GiveUp, Slip, DiscardIf
<1> HIDE DEF TypeInv, FilesTyped, StateTyped, JobsTyped, JobRecord, AllPlaced, Placed, Waited,
   Content, RevertInv, OldFromDownload, FirstHasFile, Usable, Ensurers, None, Torn,
   NoBundleNoCopy, DownloadPlaces, ImportPlaces, SharedPlaces
<1> QED
  BY <1>1, <1>2, <1>3, <1>4, <1>5, <1>6 DEF System, User, Ensure, Download, Import

LEMMA ImportReverts ==
  ASSUME TypeInv, AloneInv, AloneInv', RepairInv, RevertInv, System \/ User \/
     Crash, mixed' \in BOOLEAN, mixed => mixed'
  PROVE  ImportsRevert'
<1> USE VersionsAssumption, BundlesAssumption, JobsAssumption DEF TypeInv,
   FilesTyped, StateTyped, JobsTyped, JobRecord, AllPlaced, Placed, Waited, Content,
   AloneInv, OneAtATime, RepairInv, Reverted, Undone, Trying, Leaves, Sole, Usable,
   Working, Ensurers, None, Torn, files, JobsAssumption, VersionsAssumption,
   BundlesAssumption, DownloadPlaces, ImportPlaces, SharedPlaces
<1>1. ASSUME NEW a \in Ensurers, EnsureBegin(a) \/ EnsureTruncate(a) \/
   EnsureWrite(a) \/ EnsureSave(a)
      PROVE  ImportsRevert'
  BY <1>1 DEF EnsureBegin, NoEnsure, Decision, InstalledVersion, RevertInv,
     ImportsRevert, EnsureTruncate, EnsureWrite, Landed, EnsureSave, Decided, Comparable
<1>2. ASSUME Prepared
      PROVE  ImportsRevert'
  BY <1>2 DEF Prepared, RevertInv, ImportsRevert
<1>3. ASSUME Spawn
      PROVE  ImportsRevert'
  BY SMTT(30), <1>3 DEF Spawn, NoOp, RevertInv, ImportsRevert
<1>4. ASSUME CheckBegin
      PROVE  ImportsRevert'
  BY <1>4 DEF CheckBegin, RevertInv, ImportsRevert
<1>5. ASSUME CheckRead
      PROVE  ImportsRevert'
  BY <1>5 DEF CheckRead, RevertInv, ImportsRevert
<1>6. ASSUME UserStart
      PROVE  ImportsRevert'
  BY <1>6 DEF UserStart, Prepare, RevertInv, ImportsRevert
<1>7. ASSUME UserStop
      PROVE  ImportsRevert'
  BY <1>7 DEF UserStop, RevertInv, ImportsRevert
<1>8. ASSUME PageOpen
      PROVE  ImportsRevert'
  BY <1>8 DEF PageOpen, RevertInv, ImportsRevert
<1>9. ASSUME Crash
      PROVE  ImportsRevert'
  BY <1>9 DEF Crash, NoOp, NoEnsure, Working, RevertInv, ImportsRevert
<1>10. ASSUME NEW j \in Jobs, NEW v \in Offered, DownloadBegin(j, v) \/
   ImportBegin(j, v)
      PROVE  ImportsRevert'
  BY <1>10 DEF DownloadBegin, EmptyTemp, RevertInv, ImportsRevert, ImportBegin
<1>11. ASSUME NEW j \in Jobs, DownloadOpen(j) \/ DownloadStream(j) \/
   DownloadCheck(j) \/ DownloadExtract(j) \/ DownloadSwap(j) \/ DownloadMove(j)
      PROVE  ImportsRevert'
  BY <1>11 DEF DownloadOpen, Archive, Go, RevertInv, ImportsRevert, DownloadStream,
     EmptyTemp, Fail, DownloadCheck, DownloadExtract, DownloadSwap, DownloadMove, Probe, Slip, DiscardIf
<1>12. ASSUME NEW j \in Jobs, (job[j].kind = "download" /\ Suspend(j, "extract")) \/
   (job[j].kind = "import" /\ Suspend(j, "backup")) \/ Resume(j, "rollback",
   "failed")
      PROVE  ImportsRevert'
  BY SMTT(20), <1>12 DEF Suspend, Go, Fail, RevertInv, ImportsRevert, Resume, Prepare
<1>13. ASSUME NEW j \in Jobs, job[j].kind = "download" /\ Resume(j, "resume",
   "save")
      PROVE  ImportsRevert'
  <2> SUFFICES ASSUME NEW k \in Jobs, (~mixed /\ Sole(k) /\ job[k].kind = "import")'
               PROVE  Reverted(k)'
    BY DEF ImportsRevert
  <2>1. k = j /\ ~mixed
    BY <1>13 DEF Resume, Prepare, Go
  <2>2. CASE job[j].pc = "new"
    BY <1>13, <2>1, <2>2 DEF Resume, Prepare, Go
  <2>3. CASE job[j].pc # "new"
    <3>1. Sole(j) /\ job[j].kind = "import"
      BY <1>13, <2>1, <2>3 DEF Resume, Prepare, Go
    <3> QED
      BY <1>13, <2>1, <2>3, <3>1 DEF Resume, Prepare, Go, RevertInv, ImportsRevert
  <2> QED
    BY <2>2, <2>3
<1>14. ASSUME NEW j \in Jobs, job[j].kind = "import" /\ Resume(j, "resume", "wait")
      PROVE  ImportsRevert'
  <2> SUFFICES ASSUME NEW k \in Jobs, (~mixed /\ Sole(k) /\ job[k].kind = "import")'
               PROVE  Reverted(k)'
    BY DEF ImportsRevert
  <2>1. k = j /\ ~mixed
    BY <1>14 DEF Resume, Prepare, Go
  <2>2. CASE job[j].pc = "new"
    BY <1>14, <2>1, <2>2 DEF Resume, Prepare, Go
  <2>3. CASE job[j].pc # "new"
    <3>1. Sole(j) /\ job[j].kind = "import"
      BY <1>14, <2>1, <2>3 DEF Resume, Prepare, Go
    <3> QED
      BY <1>14, <2>1, <2>3, <3>1 DEF Resume, Prepare, Go, RevertInv, ImportsRevert
  <2> QED
    BY <2>2, <2>3
<1>15. ASSUME NEW j \in Jobs, ImportBackup(j) \/ ImportPlace(j) \/ SaveVersion(j)
      PROVE  ImportsRevert'
  BY SMTT(30), <1>15 DEF ImportBackup, Go, RevertInv, ImportsRevert, ImportPlace, Restore,
     Fail, SaveVersion, GiveUp, Slip, DiscardIf
<1>16. ASSUME NEW j \in Jobs, ImportWait(j)
      PROVE  ImportsRevert'
  <2> SUFFICES ASSUME NEW k \in Jobs, (~mixed /\ Sole(k) /\ job[k].kind = "import")'
               PROVE  Reverted(k)'
    BY DEF ImportsRevert
  <2>1. k = j /\ ~mixed
    BY <1>16 DEF ImportWait, Restore, Go, Fail, GiveUp, Slip, DiscardIf
  <2>2. CASE job[j].pc = "new"
    BY <1>16, <2>1, <2>2 DEF ImportWait, Restore, Go, Fail, GiveUp, Slip, DiscardIf
  <2>3. CASE job[j].pc # "new"
    <3>1. Sole(j) /\ job[j].kind = "import"
      BY <1>16, <2>1, <2>3 DEF ImportWait, Restore, Go, Fail, GiveUp, Slip, DiscardIf
    <3> QED
      BY <1>16, <2>1, <2>3, <3>1 DEF ImportWait, Restore, Go, Fail, RevertInv, ImportsRevert, GiveUp, Slip, DiscardIf
  <2> QED
    BY <2>2, <2>3
<1>17. ASSUME NEW j \in Jobs, ImportFailed(j)
      PROVE  ImportsRevert'
  <2> SUFFICES ASSUME NEW k \in Jobs, (~mixed /\ Sole(k) /\ job[k].kind = "import")'
               PROVE  Reverted(k)'
    BY DEF ImportsRevert
  <2>1. k = j /\ ~mixed
    BY <1>17 DEF ImportFailed, Fail
  <2>2. CASE job[j].pc = "new"
    BY <1>17, <2>1, <2>2 DEF ImportFailed, Fail
  <2>3. CASE job[j].pc # "new"
    <3>1. Sole(j) /\ job[j].kind = "import"
      BY <1>17, <2>1, <2>3 DEF ImportFailed, Fail
    <3> QED
      BY <1>17, <2>1, <2>3, <3>1 DEF ImportFailed, Fail, RevertInv, ImportsRevert
  <2> QED
    BY <2>2, <2>3
<1>18. ASSUME NEW j \in Jobs, Restore(j)
      PROVE  ImportsRevert'
  <2> SUFFICES ASSUME NEW k \in Jobs, (~mixed /\ Sole(k) /\ job[k].kind = "import")'
               PROVE  Reverted(k)'
    BY DEF ImportsRevert
  <2>1. k = j /\ ~mixed /\ job[j].pc = "restore"
    BY <1>18 DEF Restore, Slip
  <2>2. Sole(j) /\ job[j].kind = "import"
    BY <1>18, <2>1 DEF Restore, Slip
  <2>3. bak[j] = job[j].src /\ job[j].src # None /\ job[j].next \in {"done", "rollback"}
    BY <2>1, <2>2 DEF RevertInv, ImportsRevert
  <2> QED
    BY <1>18, <2>1, <2>2, <2>3 DEF Restore, Slip, DiscardIf
<1> HIDE DEF TypeInv, FilesTyped, StateTyped, JobsTyped, JobRecord, AllPlaced, Placed, Waited,
   Content, AloneInv, OneAtATime, RepairInv, Reverted, Undone, Trying, Leaves, Sole, Usable,
   Working, Ensurers, None, Torn, DownloadPlaces, ImportPlaces, SharedPlaces
<1> QED
  BY <1>1, <1>2, <1>3, <1>4, <1>5, <1>6, <1>7, <1>8, <1>9, <1>10, <1>11, <1>12,
     <1>13, <1>14, <1>15, <1>16, <1>17, <1>18 DEF System, User, Ensure, Download, Import

-----------------------------------------------------------------------------
(* The invariant, and the theorems. *)

InstallInv == TypeInv /\ KeptInv /\ AloneInv /\ RepairInv /\ EffectInv /\ RevertInv

LEMMA InstallInit ==
  ASSUME Init
  PROVE  InstallInv
<1>1. TypeInv
  BY TypesInit
<1>2. \A j \in Jobs : job[j] = NewJob
  BY DEF Init
<1>3. op = NoOp /\ \A a \in Ensurers : ensure[a] = NoEnsure
  BY DEF Init
<1>4. KeptInv
  BY <1>3, VersionsAssumption, InstalledAssumption
     DEF Init, KeptInv, NoBundleNoCopy, NoDiscard, AsideRuns, SomeKernelKept, NoEnsure, VersionsAssumption,
         InstalledAssumption, None, Torn
<1>5. AloneInv /\ RepairInv
  BY <1>2, <1>3 DEF AloneInv, OneAtATime, RepairInv, Working, NewJob, NoOp, NoEnsure, Ensurers
<1>6. EffectInv /\ RevertInv
  BY <1>2, <1>3 DEF Init, EffectInv, Effective, InPlace, RevertInv, OldFromDownload, FirstHasFile, ImportsRevert, Reverted, Trying, Undone,
              NewJob
<1> QED
  BY <1>1, <1>4, <1>5, <1>6 DEF InstallInv

LEMMA InstallStep ==
  ASSUME InstallInv, Next, (~Overlap => OneAtATime)'
  PROVE  InstallInv'
<1>1. /\ System \/ User \/ Crash
      /\ mixed' = (mixed \/ Overlap') /\ had' = (had \/ Usable(bin'))
  BY DEF Next
<1>2. mixed' \in BOOLEAN /\ (mixed => mixed')
  BY <1>1
<1>3. TypeInv'
  BY TypesStep DEF InstallInv
<1>4. AloneInv'
  BY <1>1 DEF AloneInv
<1>5. KeptInv'
  BY <1>1, KernelStaysKept DEF InstallInv
<1>6. RepairInv' /\ EffectInv'
  BY <1>1, <1>2, <1>4, RepairHolds, EffectHolds DEF InstallInv
<1>7. RevertInv'
  BY <1>1, <1>2, <1>4, OldStaysTheirs, FirstStaysOnDisk, ImportReverts DEF InstallInv, RevertInv, TypeInv, Waited
<1> QED
  BY <1>3, <1>4, <1>5, <1>6, <1>7 DEF InstallInv

LEMMA InstallStutter ==
  ASSUME InstallInv, UNCHANGED vars
  PROVE  InstallInv'
BY DEF vars, InstallInv, TypeInv, FilesTyped, StateTyped, JobsTyped, AllPlaced, Placed, Waited,
       KeptInv, NoBundleNoCopy, NoDiscard, AsideRuns, SomeKernelKept, AloneInv, OneAtATime, Working, RepairInv,
       EffectInv, Effective, InPlace, Spares, Sole, RevertInv, OldFromDownload, FirstHasFile, ImportsRevert,
       Reverted, Trying, Undone, Leaves, Usable

LEMMA InstallInvariant == Spec => []InstallInv
<1>1. Init => InstallInv
  BY InstallInit
<1>2. (~Overlap => OneAtATime)'
  BY NoOverlap, PTL
<1>3. InstallInv /\ [Next]_vars => InstallInv'
  BY <1>2, InstallStep, InstallStutter
<1> QED
  BY <1>1, <1>3, PTL DEF Spec

\* The files hold versions there are, or a torn copy, and every actor is at a
\* place of its own.
THEOREM TypeCorrect == Spec => []TypeOK
<1>1. InstallInv => TypeOK
  BY DEF InstallInv, TypeInv, FilesTyped, StateTyped, JobsTyped, JobRecord, TypeOK
<1> QED
  BY <1>1, InstallInvariant, PTL

\* Whatever the downloads, imports, checks, faults and crashes, for any number
\* of jobs: once there has been a kernel, some file is one that runs, as long as
\* no job has had to discard an executable.
THEOREM KernelIsKept == Spec => []SomeKernelKept
<1>1. InstallInv => SomeKernelKept
  BY DEF InstallInv, KeptInv
<1> QED
  BY <1>1, InstallInvariant, PTL

\* A job that was alone and reports success has installed its version, and
\* recorded it unless the database failed; the bundled kernel's checks do not
\* undo that.
THEOREM InstallsTakeEffect == Spec => []InstallTakesEffect
<1>1. InstallInv => InstallTakesEffect
  BY DEF InstallInv, EffectInv, Effective, Sole, InstallTakesEffect
<1> QED
  BY <1>1, InstallInvariant, PTL

\* An import that was alone and reports failure has put the old kernel back, or
\* still has it in its backup.
THEOREM FailedImportsLeaveOld == Spec => []FailedImportLeavesOld
<1>1. InstallInv => FailedImportLeavesOld
  BY DEF InstallInv, RevertInv, ImportsRevert, Reverted, Undone, Leaves, Sole,
         FailedImportLeavesOld
<1> QED
  BY <1>1, InstallInvariant, PTL

\* Only the spawn, or a crash, ends an operation that has come to its spawn.
LEMMA SpawnEnds ==
  ASSUME TypeInv, System \/ User \/ Crash, op.kind = "spawn", op' = NoOp
  PROVE  Spawn \/ Crash
<1>1. op' # op
  BY DEF NoOp
<1>2. ASSUME NEW a \in Ensurers, EnsureSave(a) PROVE FALSE
  <2>1. op'.kind = op.kind
    BY <1>2 DEF EnsureSave, TypeInv, StateTyped
  <2> QED
    BY <2>1 DEF NoOp
<1>6. ~(\E a \in Ensurers : Ensure(a)) /\ ~Prepared /\ ~CheckBegin /\ ~CheckRead
  BY <1>1, <1>2 DEF Ensure, EnsureBegin, EnsureTruncate, EnsureWrite, Prepared, CheckBegin, CheckRead
<1>3. ASSUME NEW j \in Jobs PROVE ~Download(j)
  BY <1>1 DEF Download, DownloadBegin, DownloadOpen, DownloadStream, DownloadCheck, Suspend, Resume,
              DownloadExtract, DownloadSwap, DownloadMove, Probe, Slip, DiscardIf
<1>4. ASSUME NEW j \in Jobs PROVE ~Import(j) /\ ~SaveVersion(j)
  BY <1>1 DEF Import, ImportBegin, ImportBackup, ImportPlace, ImportWait, ImportFailed, Suspend, Resume,
              SaveVersion, Restore, GiveUp, Slip, DiscardIf
<1>5. ~User
  BY <1>1 DEF User, UserStart, UserStop, PageOpen
<1> QED
  BY <1>3, <1>4, <1>5, <1>6 DEF System

\* A start that finds a bundled kernel with a version that compares with that of
\* the executable, undisturbed and able to write to the database, leaves the
\* database remembering the kernel that runs, whatever a crash, a failed copy
\* or a stale row had left before.
THEOREM StartsRepairVersion == Spec => StartRepairsVersion
<1> DEFINE Repairs == op.kind = "spawn" /\ op' = NoOp /\ run' # None /\ bundle.label # None
                       /\ ~op.unsaved /\ Comparable(run', bundle.label) /\ ~mixed => db' = run'
<1>1. InstallInv /\ [Next]_vars => [Repairs]_vars
  <2> SUFFICES ASSUME InstallInv, Next, op.kind = "spawn", op' = NoOp, run' # None,
                      bundle.label # None, ~op.unsaved, Comparable(run', bundle.label), ~mixed
               PROVE  db' = run'
    OBVIOUS
  <2>1. Spawn
    BY SpawnEnds DEF Next, Crash, InstallInv
  <2>2. ensure["start"].pc = "idle" /\ (Usable(bin) /\ Comparable(bin, bundle.label) => db = bin)
    BY DEF InstallInv, TypeInv, StateTyped, Waited, RepairInv, Ensurers
  <2> QED
    BY <2>1, <2>2 DEF Spawn
<1> QED
  BY <1>1, InstallInvariant, PTL DEF Spec, StartRepairsVersion
=============================================================================
