---------------------------- MODULE KernelInstall ----------------------------
(* The kernel's executable on disk and everyone who replaces it: the        *)
(* downloads, the manual imports, and the bundled kernel that every start   *)
(* and some version checks put in place when it is newer. Beside the file   *)
(* stand the version the database remembers and the kernel that is running. *)
(* The queue of kernel operations is KernelLifecycle's subject: here one    *)
(* start or stop runs at a time.                                            *)
EXTENDS Integers, FiniteSets

CONSTANTS
    Jobs,                \* calls of download_kernel and import_kernel_executable
    Versions, Offered,   \* versions there are of the kernel, and those a job may ask for
    Odd,                 \* versions that are not semantic ones: nothing is newer or older
    Installed,           \* versions installed at the start; None: none
    Bundles,             \* bundled kernels: a file and what its version.txt says
    FaultKinds,          \* faults that may happen
    Budget               \* bound: starts, stops, version checks, crashes and faults, all told

None == 0
Torn == -1   \* a file some copy has begun to write and not finished

ASSUME JobsAssumption == IsFiniteSet(Jobs) /\ {"user", "check", "nobody"} \cap Jobs = {}
ASSUME InstalledAssumption == Installed \subseteq Versions \cup {None}
ASSUME VersionsAssumption ==
    Versions \subseteq Nat \ {None} /\ Offered \subseteq Versions /\ Odd \subseteq Versions
ASSUME BundlesAssumption ==
    Bundles \subseteq [file : Versions \cup {None}, label : Versions \cup {None}]
\* scripts/fetch-kernel.mjs writes version.txt for the kernel it has fetched; a
\* bundle without it has no label.
ASSUME LabelsAssumption == \A b \in Bundles : b.label \in {None, b.file}

VARIABLES
    bundle,    \* the kernel in the application's resources
    bin, old,  \* the executable, and the file a download moved it to
    bak,       \* what each import moved it to
    temp,      \* update_temp: the archives, and the executables extracted from them
    db,        \* installed_kernel_version
    run,       \* the version of the kernel that runs
    desired,   \* the session wants the kernel
    op,        \* the kernel operation in progress, and who waits for it
    ensure,    \* ensure_embedded_kernel, for the start and for a version check
    job,       \* the downloads and imports
    page,      \* the settings page: the version it shows, and its version check
    mixed,     \* two of them have been at work at once
    had,       \* there has been an executable that runs
    budget

files == <<bin, old, bak, temp>>
vars  == <<bundle, bin, old, bak, temp, db, run, desired, op, ensure, job, page, mixed, had, budget>>

Content == Versions \cup {None, Torn}
Usable(file) == file \in Versions
Ensurers == {"start", "check"}

NoOp     == [kind |-> "none", by |-> "nobody", unsaved |-> FALSE]
NoEnsure == [pc |-> "idle", found |-> None]
NewJob   == [kind |-> "none", pc |-> "new", ver |-> None, src |-> None,
              was |-> FALSE, next |-> "done", ok |-> FALSE, slips |-> {}]
EmptyTemp == [archive |-> [j \in Jobs |-> None], out |-> {}]

Working(j)  == job[j].pc \notin {"new", "done", "dead"}
Quiet       == /\ \A j \in Jobs : ~Working(j)
               /\ op.kind = "none" /\ \A a \in Ensurers : ensure[a].pc = "idle"
               /\ page.check = "idle"
Spend == budget > 0 /\ budget' = budget - 1
Fault(kind) == kind \in FaultKinds /\ Spend
NoFault     == UNCHANGED budget

\* What a job has let pass without a word, or could not help:
\*   "probe"    it took the kernel that runs for stopped
\*   "save"     the database did not take its version
\*   "restore"  the backup could not be put back
\*   "discard"  it deleted the old kernel instead of moving it aside, moved a torn
\*              file aside in its place, restored a torn one or copied over
\*              an executable that somebody had put there in the meantime
Slip(j, pc, slips) == job' = [job EXCEPT ![j].pc = pc, ![j].slips = @ \cup slips]
Go(j, pc)          == job' = [job EXCEPT ![j].pc = pc]
Fail(j)            == job' = [job EXCEPT ![j].pc = "done", ![j].ok = FALSE]
DiscardIf(lossy)   == IF lossy THEN {"discard"} ELSE {}

TypeOK ==
    /\ bundle \in Bundles
    /\ {bin, old} \subseteq Content /\ \A j \in Jobs : bak[j] \in Content
    /\ \A j \in Jobs : temp.archive[j] \in {None, Torn, 1}
    /\ temp.out \subseteq Versions
    /\ {db, run, page.ver} \subseteq Versions \cup {None}
    /\ op.kind \in {"none", "start", "spawn"}
    /\ \A a \in Ensurers : ensure[a].pc \in {"idle", "decide", "copy", "write", "save"}
    /\ \A j \in Jobs : job[j].src \in Content

----------------------------------------------------------------------------
(* ensure_embedded_kernel. The start runs it inside the operation queue, a  *)
(* version check outside of it.                                             *)

\* Mutant of InstalledVersion: believes the database first.
InstalledVersionCached(row) == IF row # None THEN row ELSE bin

\* resolve_installed_version: what the executable says of itself; when it
\* cannot be run, what the row of the database says.
InstalledVersion(row) == IF Usable(bin) THEN bin ELSE IF bin = None THEN None ELSE row

\* is_embedded_newer, when it has an answer.
Comparable(current, target) == current = target \/ {current, target} \cap Odd = {}
Newer(target, current)      == Comparable(current, target) /\ target > current

\* Mutant of Decision: compares the wrong way round.
DecisionSwapped(exists, target, current) ==
    IF ~exists THEN "install"
    ELSE IF target = None THEN "missing_embedded_version"
    ELSE IF current = None THEN "unknown_version"
    ELSE IF ~Comparable(current, target) THEN "uncomparable"
    ELSE IF target < current THEN "install" ELSE "not_older"

\* decide_embedded_install
Decision(exists, target, current) ==
    IF ~exists THEN "install"
    ELSE IF target = None THEN "missing_embedded_version"
    ELSE IF current = None THEN "unknown_version"
    ELSE IF ~Comparable(current, target) THEN "uncomparable"
    ELSE IF target > current THEN "install" ELSE "not_older"

\* Where the check goes, by the row as it could be read.
Decided(row) ==
    IF bundle.file = None THEN NoEnsure
    ELSE CASE Decision(bin # None, bundle.label, InstalledVersion(row)) = "install"
                -> [pc |-> "copy", found |-> bundle.label]
           [] Decision(bin # None, bundle.label, InstalledVersion(row)) = "not_older"
                -> [pc |-> "save", found |-> InstalledVersion(row)]
           [] OTHER -> NoEnsure

EnsureBegin(a) ==
    /\ ensure[a].pc = "decide"
    /\ \/ NoFault /\ ensure' = [ensure EXCEPT ![a] = Decided(db)]
       \/ Fault("db") /\ ensure' = [ensure EXCEPT ![a] = Decided(None)]
    /\ UNCHANGED <<files, bundle, db, run, desired, op, job, page>>

\* copy_embedded_kernel_binary truncates the target and writes it in place.
EnsureTruncate(a) ==
    /\ ensure[a].pc = "copy" /\ bin' = Torn
    /\ ensure' = [ensure EXCEPT ![a].pc = "write"]
    /\ UNCHANGED <<old, bak, temp, bundle, db, run, desired, op, job, page, budget>>

\* The copy writes to the file it has opened, wherever that has been moved to
\* since. When it fails, the half-written file stays.
Landed(file) == IF file = Torn THEN bundle.file ELSE file
EnsureWrite(a) ==
    /\ ensure[a].pc = "write"
    /\ \/ /\ NoFault
          /\ bin' = Landed(bin)
          /\ old' = IF bin = Torn THEN old ELSE Landed(old)
          /\ bak' = IF Torn \in {bin, old} THEN bak ELSE [j \in Jobs |-> Landed(bak[j])]
          /\ ensure' = [ensure EXCEPT ![a].pc = IF bundle.label = None THEN "idle" ELSE "save"]
       \/ Fault("copy") /\ ensure' = [ensure EXCEPT ![a] = NoEnsure] /\ UNCHANGED <<bin, old, bak>>
    /\ UNCHANGED <<temp, bundle, db, run, desired, op, job, page>>

\* save_installed_version, whose failure nobody hears of.
EnsureSave(a) ==
    /\ ensure[a].pc = "save" /\ ensure' = [ensure EXCEPT ![a] = NoEnsure]
    /\ \/ NoFault /\ db' = ensure[a].found /\ UNCHANGED op
       \/ Fault("db") /\ op' = (IF a = "start" THEN [op EXCEPT !.unsaved = TRUE] ELSE op) /\ UNCHANGED db
    /\ UNCHANGED <<files, bundle, run, desired, job, page>>

Ensure(a) == EnsureBegin(a) \/ EnsureTruncate(a) \/ EnsureWrite(a) \/ EnsureSave(a)

----------------------------------------------------------------------------
(* The kernel operations the jobs wait for, and the user's own.             *)

Prepare == ensure' = [ensure EXCEPT !["start"].pc = "decide"]

UserStart ==
    /\ op.kind = "none" /\ run = None /\ Spend
    /\ desired' = TRUE /\ op' = [kind |-> "start", by |-> "user", unsaved |-> FALSE] /\ Prepare
    /\ UNCHANGED <<files, bundle, db, run, job, page>>

UserStop ==
    /\ op.kind = "none" /\ desired /\ Spend
    /\ desired' = FALSE /\ run' = None
    /\ UNCHANGED <<files, bundle, db, op, ensure, job, page>>

Prepared ==
    /\ op.kind = "start" /\ ensure["start"].pc = "idle"
    /\ op' = [op EXCEPT !.kind = "spawn"]
    /\ UNCHANGED <<files, bundle, db, run, desired, ensure, job, page, budget>>

\* The executable is run; a file that is missing or torn cannot be.
Spawn ==
    /\ op.kind = "spawn"
    /\ \/ Usable(bin) /\ run' = bin /\ NoFault
       \/ ~Usable(bin) /\ run' = None /\ NoFault
       \/ Fault("spawn") /\ run' = None
    /\ op' = NoOp
    /\ job' = [j \in Jobs |-> IF op.by = j THEN [job[j] EXCEPT !.pc = job[j].next] ELSE job[j]]
    /\ UNCHANGED <<files, bundle, db, desired, ensure, page>>

----------------------------------------------------------------------------
(* The settings page's version check: check_kernel_version_impl.            *)

PageOpen ==
    /\ page.check = "idle" /\ Spend /\ page' = [page EXCEPT !.check = "due"]
    /\ UNCHANGED <<files, bundle, db, run, desired, op, ensure, job>>

\* A remembered version is believed as long as there is a file. Without one
\* the bundled kernel is installed first.
CheckBegin ==
    /\ page.check = "due"
    /\ \/ /\ db # None /\ bin # None /\ NoFault
          /\ page' = [ver |-> db, check |-> "idle"] /\ UNCHANGED ensure
       \/ /\ IF db # None /\ bin # None THEN Fault("db") ELSE NoFault
          /\ page' = [page EXCEPT !.check = "read"]
          /\ ensure' = IF bin # None THEN ensure ELSE [ensure EXCEPT !["check"].pc = "decide"]
    /\ UNCHANGED <<files, bundle, db, run, desired, op, job>>

CheckRead ==
    /\ page.check = "read" /\ ensure["check"].pc = "idle"
    /\ \/ NoFault /\ db' = IF Usable(bin) THEN bin ELSE db
       \/ Usable(bin) /\ Fault("db") /\ UNCHANGED db
    /\ page' = [ver |-> IF Usable(bin) THEN bin ELSE page.ver, check |-> "idle"]
    /\ UNCHANGED <<files, bundle, run, desired, op, ensure, job>>

----------------------------------------------------------------------------
(* orchestrated_suspend_for_maintenance and resume, as the jobs call them.  *)

\* is_kernel_running as the jobs ask it: whatever fails on the way means no.
Probe(j, next) ==
    \/ /\ NoFault
       /\ job' = [job EXCEPT ![j].pc = IF run # None THEN "suspend" ELSE next, ![j].was = run # None]
    \/ run # None /\ Fault("probe") /\ Slip(j, next, {"probe"})

Suspend(j, next) ==
    /\ job[j].pc = "suspend" /\ op.kind = "none"
    /\ \/ run' = None /\ NoFault /\ Go(j, next)
       \/ run # None /\ Fault("stop") /\ Fail(j) /\ UNCHANGED run
    /\ UNCHANGED <<files, bundle, db, desired, op, ensure, page>>

\* Only a session that still wants the kernel gets it back.
Resume(j, pc, next) ==
    /\ job[j].pc = pc /\ op.kind = "none"
    /\ IF job[j].was /\ desired /\ run = None
       THEN /\ op' = [kind |-> "start", by |-> j, unsaved |-> FALSE] /\ Prepare
            /\ job' = [job EXCEPT ![j].pc = "resuming", ![j].next = next]
       ELSE Go(j, next) /\ UNCHANGED <<op, ensure>>
    /\ UNCHANGED <<files, bundle, db, run, desired, page, budget>>

\* The version into the row, whose other fields are not modelled. When the row
\* cannot be read or written the job succeeds all the same.
SaveVersion(j) ==
    /\ job[j].pc = "save"
    /\ \/ NoFault /\ db' = job[j].ver
          /\ job' = [job EXCEPT ![j].pc = "done", ![j].ok = TRUE]
       \/ Fault("db") /\ UNCHANGED db
          /\ job' = [job EXCEPT ![j].pc = "done", ![j].ok = TRUE, ![j].slips = @ \cup {"save"}]
    /\ page' = IF job[j].kind = "import" /\ page.check = "idle" THEN [page EXCEPT !.check = "due"] ELSE page
    /\ UNCHANGED <<files, bundle, run, desired, op, ensure>>

----------------------------------------------------------------------------
(* download_kernel. Two downloads share the directory update_temp; each     *)
(* asks for a version of its own, so their archives have different names.   *)

\* prepare_kernel_download_layout empties the directory, another download's
\* files with it.
DownloadBegin(j, v) ==
    /\ job[j].pc = "new" /\ \A other \in Jobs : job[other].ver # v
    /\ temp' = EmptyTemp
    /\ job' = [job EXCEPT ![j].kind = "download", ![j].pc = "open", ![j].ver = v]
    /\ UNCHANGED <<bin, old, bak, bundle, db, run, desired, op, ensure, page, budget>>

Archive(j, state) == temp' = [temp EXCEPT !.archive[j] = state]

DownloadOpen(j) ==
    /\ job[j].pc = "open" /\ Archive(j, Torn) /\ Go(j, "stream")
    /\ UNCHANGED <<bin, old, bak, bundle, db, run, desired, op, ensure, page, budget>>

\* try_download_from_urls over every mirror, twice. An archive that another
\* download has removed is written to no purpose. A mirror may also answer
\* with a page that is no archive: it counts as downloaded.
DownloadStream(j) ==
    /\ job[j].pc = "stream"
    /\ \/ /\ NoFault /\ Go(j, "check")
          /\ Archive(j, IF temp.archive[j] = Torn THEN 1 ELSE None)
       \/ Fault("page") /\ Go(j, "check") /\ UNCHANGED temp
       \/ Fault("mirrors") /\ Fail(j) /\ temp' = EmptyTemp
    /\ UNCHANGED <<bin, old, bak, bundle, db, run, desired, op, ensure, page>>

DownloadCheck(j) ==
    /\ job[j].pc = "check"
    /\ IF temp.archive[j] = None
       THEN Fail(j) /\ temp' = EmptyTemp /\ NoFault
       ELSE Probe(j, "extract") /\ UNCHANGED temp
    /\ UNCHANGED <<bin, old, bak, bundle, db, run, desired, op, ensure, page>>

\* extract_archive into update_temp itself and find_executable_file there: of
\* several executables the directory walk returns the first.
DownloadExtract(j) ==
    /\ job[j].pc = "extract"
    /\ IF temp.archive[j] = 1
       THEN LET out == temp.out \cup {job[j].ver}
            IN  /\ temp' = [archive |-> [temp.archive EXCEPT ![j] = None], out |-> out]
                /\ \E v \in out : job' = [job EXCEPT ![j].pc = "swap", ![j].src = v]
       ELSE Fail(j) /\ temp' = EmptyTemp
    /\ UNCHANGED <<bin, old, bak, bundle, db, run, desired, op, ensure, page, budget>>

\* Mutant of DownloadSwap: deletes the old executable.
DownloadSwapDeletes(j) ==
    /\ job[j].pc = "swap" /\ bin' = None /\ old' = None
    /\ Go(j, "move") /\ NoFault
    /\ UNCHANGED <<temp, bak, bundle, db, run, desired, op, ensure, page>>

\* deploy_kernel_from_extract_dir, up to the rename of the executable to .old.
\* The .old of before is removed first; when the rename fails the executable
\* is deleted, and when that fails too the download gives up.
DownloadSwap(j) ==
    /\ job[j].pc = "swap"
    /\ IF bin = None THEN Go(j, "move") /\ NoFault /\ UNCHANGED <<bin, old, temp>>
       ELSE \/ /\ NoFault /\ old' = bin /\ bin' = None
               /\ Slip(j, "move", DiscardIf(bin = Torn)) /\ UNCHANGED temp
            \/ /\ Fault("rename") /\ old' \in {old, None} /\ bin' = None
               /\ Slip(j, "move", DiscardIf(old' = None)) /\ UNCHANGED temp
            \/ /\ Fault("busy") /\ old' \in {old, None} /\ UNCHANGED bin
               /\ Slip(j, "done", DiscardIf(bin = Torn)) /\ temp' = EmptyTemp
    /\ UNCHANGED <<bak, bundle, db, run, desired, op, ensure, page>>

\* The rest of it: move the new executable in, or copy it when it cannot be
\* moved, and remove update_temp. Its failure leaves .old where it is and the
\* kernel suspended; a copy that breaks off leaves a torn executable, as does
\* a crash in the middle of one.
DownloadMove(j) ==
    /\ job[j].pc = "move" /\ temp' = EmptyTemp
    /\ \/ /\ job[j].src \in temp.out /\ NoFault
          /\ bin' = job[j].src /\ Go(j, "resume")
          /\ page' = [page EXCEPT !.check = IF @ = "idle" THEN "due" ELSE @]  \* "completed"
       \/ job[j].src \notin temp.out /\ NoFault /\ Fail(j) /\ UNCHANGED <<bin, page>>
       \/ /\ Fault("move") /\ bin' \in {bin, Torn}
          /\ Slip(j, "done", DiscardIf(bin # None)) /\ UNCHANGED page
    /\ UNCHANGED <<old, bak, bundle, db, run, desired, op, ensure>>

Download(j) ==
    \/ \E v \in Offered : DownloadBegin(j, v)
    \/ DownloadOpen(j) \/ DownloadStream(j) \/ DownloadCheck(j)
    \/ job[j].kind = "download" /\ (Suspend(j, "extract") \/ Resume(j, "resume", "save"))
    \/ DownloadExtract(j) \/ DownloadSwap(j) \/ DownloadMove(j)

----------------------------------------------------------------------------
(* import_kernel_executable_inner. A file or archive that does not hold a   *)
(* kernel is rejected before anything is touched (validate_kernel_binary).  *)

ImportBegin(j, v) ==
    /\ job[j].pc = "new"
    /\ \/ /\ NoFault
          /\ job' = [job EXCEPT ![j].kind = "import", ![j].pc = IF run # None THEN "suspend" ELSE "backup",
                                ![j].ver = v, ![j].src = bin, ![j].was = run # None]
       \/ /\ run # None /\ Fault("probe")
          /\ job' = [job EXCEPT ![j].kind = "import", ![j].pc = "backup",
                                ![j].ver = v, ![j].src = bin, ![j].slips = {"probe"}]
    /\ UNCHANGED <<files, bundle, db, run, desired, op, ensure, page>>

\* replace_installed_kernel: the old kernel aside, then the new one in.
ImportBackup(j) ==
    /\ job[j].pc = "backup"
    /\ \/ NoFault /\ Go(j, "place") /\ bak' = [bak EXCEPT ![j] = bin] /\ bin' = None
       \/ bin # None /\ Fault("rename") /\ Fail(j) /\ UNCHANGED <<bin, bak>>
    /\ UNCHANGED <<old, temp, bundle, db, run, desired, op, ensure, page>>

\* Back to the backup, and on with `next`; without one the import is over.
GiveUp(j, next, slips) ==
    IF bak[j] = None THEN Slip(j, "done", slips)
    ELSE job' = [job EXCEPT ![j].pc = "restore", ![j].next = next, ![j].slips = @ \cup slips]

\* move_file_with_fallback fails where it stands, in the middle of its copy,
\* or with a full copy made whose source cannot be removed.
ImportPlace(j) ==
    /\ job[j].pc = "place"
    /\ \/ NoFault /\ bin' = job[j].ver /\ Go(j, IF job[j].was THEN "resume" ELSE "save")
       \/ /\ Fault("move") /\ bin' \in {bin, Torn, job[j].ver}
          /\ GiveUp(j, "done", DiscardIf(bin # None))
    /\ UNCHANGED <<old, bak, temp, bundle, db, run, desired, op, ensure, page>>

\* restore_kernel_from_backup. It fails before or after it has deleted the
\* executable, or in or after the copy that stands in for the rename.
Restore(j) ==
    /\ job[j].pc = "restore"
    /\ \/ /\ NoFault /\ bin' = bak[j] /\ bak' = [bak EXCEPT ![j] = None]
          /\ Slip(j, job[j].next, DiscardIf(bak[j] = Torn))
       \/ /\ Fault("restore") /\ bin' \in {bin, None, Torn, bak[j]} /\ UNCHANGED bak
          /\ Slip(j, "done", {"restore"} \cup DiscardIf(bak[j] = Torn))
    /\ UNCHANGED <<old, temp, bundle, db, run, desired, op, ensure, page>>

\* Mutant of ImportWait: gives up with the new kernel in place.
ImportWaitKeeps(j) ==
    /\ job[j].pc = "wait"
    /\ \/ run # None /\ NoFault /\ Go(j, "save")
       \/ (IF run = None THEN NoFault ELSE Fault("probe")) /\ Fail(j)
    /\ UNCHANGED <<files, bundle, db, run, desired, op, ensure, page>>

\* wait_kernel_running, then on with the new kernel or back to the old one.
\* Without a backup the new kernel stays, and the error says the same.
ImportWait(j) ==
    /\ job[j].pc = "wait"
    /\ \/ run # None /\ NoFault /\ Go(j, "save")
       \/ (IF run = None THEN NoFault ELSE Fault("probe")) /\ GiveUp(j, "rollback", {})
    /\ UNCHANGED <<files, bundle, db, run, desired, op, ensure, page>>

ImportFailed(j) ==
    /\ job[j].pc = "failed" /\ Fail(j)
    /\ UNCHANGED <<files, bundle, db, run, desired, op, ensure, page, budget>>

Import(j) ==
    \/ \E v \in Offered : ImportBegin(j, v)
    \/ job[j].kind = "import" /\ (Suspend(j, "backup") \/ Resume(j, "resume", "wait"))
    \/ ImportBackup(j) \/ ImportPlace(j) \/ ImportWait(j) \/ Restore(j)
    \/ Resume(j, "rollback", "failed") \/ ImportFailed(j)

----------------------------------------------------------------------------
\* The application ends at any point; its next start finds the files as they
\* are, kills a kernel that was left running and begins with nothing to do.
Crash ==
    /\ Spend
    /\ run' = None /\ desired' = FALSE /\ op' = NoOp
    /\ ensure' = [a \in Ensurers |-> NoEnsure] /\ page' = [ver |-> None, check |-> "idle"]
    /\ job' = [j \in Jobs |-> IF Working(j) THEN [job[j] EXCEPT !.pc = "dead"] ELSE job[j]]
    /\ UNCHANGED <<files, bundle, db>>

Init ==
    /\ bundle \in Bundles /\ bin \in Installed /\ db \in {bin, None} \cup Offered
    /\ old = None /\ bak = [j \in Jobs |-> None] /\ temp = EmptyTemp
    /\ run \in {bin, None} /\ desired = (run # None)
    /\ run # None => ~Newer(bundle.label, run)  \* its start saw to that
    /\ op = NoOp /\ ensure = [a \in Ensurers |-> NoEnsure]
    /\ job = [j \in Jobs |-> NewJob] /\ page = [ver |-> None, check |-> "idle"]
    /\ had = Usable(bin) /\ mixed = FALSE /\ budget = Budget

System ==
    \/ \E a \in Ensurers : Ensure(a)
    \/ Prepared \/ Spawn \/ CheckBegin \/ CheckRead
    \/ \E j \in Jobs : Download(j) \/ Import(j) \/ SaveVersion(j)
User == UserStart \/ UserStop \/ PageOpen

\* Two of these at once: a job with the operations it asks for, the user's
\* start, a version check that installs.
Overlap ==
    Cardinality({j \in Jobs : Working(j)} \cup {a \in {"user"} : op.by = a}
                \cup {a \in {"check"} : ensure[a].pc # "idle"}) > 1

Next ==
    /\ System \/ User \/ Crash
    /\ mixed' = (mixed \/ Overlap') /\ had' = (had \/ Usable(bin'))

Spec == Init /\ [][Next]_vars

----------------------------------------------------------------------------
(* Safety                                                                   *)

\* As long as there has been a kernel, some file is one that runs: the
\* executable, the .old of a download, an import's backup, or the bundled
\* one. A download that fails between its renames, a copy cut short, two
\* downloads emptying each other's directory and a crash in any of these leave
\* at least the previous kernel somewhere on the disk, until a job discards one.
SomeKernelKept ==
    had /\ (\A j \in Jobs : "discard" \notin job[j].slips)
        => \E file \in {bin, old, bundle.file} \cup {bak[j] : j \in Jobs} : Usable(file)

\* A job that reports success, alone, with a version the bundled kernel is
\* not newer than, has put that version on the disk; the database has it too
\* unless it took no write, and the kernel that runs is it, unless the job
\* took the old one for stopped.
InstallTakesEffect ==
    \A j \in Jobs :
        Quiet /\ ~mixed /\ job[j].ok /\ ~Newer(bundle.label, job[j].ver)
            /\ (\A other \in Jobs \ {j} : job[other].pc = "new")
        => /\ bin = job[j].ver
           /\ db = bin \/ "save" \in job[j].slips
           /\ run \in {None, bin} \/ "probe" \in job[j].slips

\* When nobody is at work, nothing has overlapped and the kernel runs, beside a
\* bundled kernel with a version, the database remembers the version that runs.
InstalledVersionIsTrue == Quiet /\ ~mixed /\ run # None /\ bundle.label # None => db = run

\* An import that ran alone, found a kernel and reports failure has not left
\* its own in the place of the old one: that is the executable again, or, when
\* it could not be put back, still in the import's backup.
FailedImportLeavesOld ==
    \A j \in Jobs :
        Quiet /\ ~mixed /\ job[j].kind = "import" /\ job[j].pc = "done" /\ ~job[j].ok
            /\ job[j].src # None /\ (\A other \in Jobs \ {j} : job[other].pc = "new")
        => \/ bin \in {job[j].src, bundle.file, Torn} /\ bak[j] = None
           \/ "restore" \in job[j].slips /\ bak[j] = job[j].src

\* The stronger forms the code does not keep: a kernel is on the disk whatever
\* the jobs discard, a success is in the database whatever it answers, and an
\* import's error always means the old kernel is back.
SomeKernelAlways ==
    had => \E file \in {bin, old, bundle.file} \cup {bak[j] : j \in Jobs} : Usable(file)
SuccessIsRecorded ==
    \A j \in Jobs : Quiet /\ ~mixed /\ job[j].ok /\ ~Newer(bundle.label, job[j].ver)
                       /\ (\A other \in Jobs \ {j} : job[other].pc = "new") => db = bin
OldIsBack ==
    \A j \in Jobs : job[j].kind = "import" /\ job[j].pc = "done" /\ ~job[j].ok => bak[j] = None
----------------------------------------------------------------------------
(* Action properties                                                        *)

\* A start that finds a bundled kernel with a version it can compare, while no
\* job is at work and no version check installs anything, ends with the
\* database remembering what runs, unless this very start could not save: a
\* crash or a failed save of before is repaired.
StartRepairsVersion ==
    [][op.kind = "spawn" /\ ~op.unsaved /\ op' = NoOp /\ run' # None /\ bundle.label # None
         /\ Comparable(run', bundle.label) /\ ~mixed
       => db' = run']_vars
=============================================================================
