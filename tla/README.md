# Formal model of sing-box-windows

sing-box-windows is a Tauri application: a Rust backend that runs the `sing-box` proxy as a
child process (the *kernel*), and a Vue frontend.  This directory holds TLA+ modules of the
application, the TLC configurations that check them on small instances, and TLAPS proofs of
what matters most for instances of every size.  Paths below are relative to the repository;
`kernel_service/` stands for `src-tauri/src/app/core/kernel_service/`.

- [Inventory](#inventory): the system's parts, their state, how they interact, what is hard
- [Modules](#modules): what models what, and how
- [Runs](#runs): what is checked, with which bounds, and what it shows
- [Where the code and its documents disagree](#where-the-code-and-its-documents-disagree)
- [Known limits](#known-limits): statements about the code that the code does not satisfy
- [Proofs](#proofs): theorems, their invariants and assumptions
- [Not modelled](#not-modelled) and [Plan](#plan)

To repeat a result: `tlc -config MCCore.cfg MCKernelLifecycle`, `tlapm KernelLifecycleProofs.tla`.

## Inventory

### The kernel's life: what the modules here are about

| Part | State it keeps | Operations | Talks to |
|---|---|---|---|
| Operation queue, `orchestrator.rs` | bounded channel, `CURRENT_OPERATION`, one worker | `execute_kernel_operation`, `run_worker` | everybody who wants a lifecycle change submits and waits for a oneshot answer |
| Lifecycle operations, `lifecycle.rs` | none of its own | start, stop, restart, startup reconcile, apply change, suspend, resume; `apply_proxy_settings` outside the queue | process manager, guard, relay, system proxy, state manager |
| State manager and planner, `state.rs` | state, desired state, readiness flags, `state_version` | `mark_*`, `set_desired`, `update_readiness`, `plan_kernel_transition` | read by all, written by worker, guard and status command |
| Guard, `guard.rs` | `KEEP_ALIVE_ENABLED`, task handle, failure count | watch loop, crash recovery, TUN self-heal, `disable_kernel_guard` | submits to the queue, writes the state manager directly |
| Process manager, `process/manager.rs`, `platform/`, `sudo_service.rs` | child handle, `.managed-kernel.pid` | `start`, `stop`, `restart`, `kill_existing_processes`, `force_kill_kernel_processes_by_name`, `is_running` | the operating system; the file is shared with the cleanup at startup |
| Readiness and status, `readiness.rs`, `status.rs` | none | stability check, `kernel_get_status_enhanced` | reads the process, overwrites readiness |
| Event relay, `event.rs`, `core/event_relay.rs` | registered relay tasks | start, cleanup, reconnect | started and stopped by the lifecycle |
| Runtime proxy, `proxy_service.rs` | the operating system's proxy | `apply_system_proxy_for_state`, disable | prepare, stop, live apply |
| Update and import, `download.rs`, `import.rs` | kernel binary | suspend, replace, resume | submits to the queue |
| Startup, `lib.rs` | once-only sequence | restore, cleanup of a left-over kernel, subscription refresh, reconcile | process manager (its own instance), queue |

What is hard about it:

- **Interleaving.**  User commands, the guard, a kernel update and the startup task submit to one
  queue; the guard can be aborted while its operation is queued, running, or answered.  Status
  and live-proxy commands read before an `await` and act after it.
- **Stale requests.**  A recovery, an apply or a resume may run long after its reason has gone.
- **Partial failure.**  Every step of a start or stop can fail, after others took effect.
- **Crashes.**  The kernel dies at any time; the application dies and leaves kernel and PID file.
- **Privilege.**  With TUN the kernel belongs to root, behind a `sudo` that executes or forks it.

What makes it correct: the user's last word on running or stopped holds whatever is queued,
retried or recovering; a stop that reports success has left nothing; a kernel that dies while
wanted comes back; nobody waits for ever; at most one kernel of ours runs after a start; no
process but a kernel is ever killed.

### The rest of the application

| Part | State | Hard behaviour | What makes it correct | Module |
|---|---|---|---|---|
| Subscription lists and their updates, `network/subscription_service/`, `startup_refresh_service.rs`, `SubStore.ts` | list in one row; health, back-off; the page's copy of the list | every writer reads the whole list, downloads for minutes and saves the whole list | a round writes health only; a subscription is tried for ever; an upgrade is not forgotten; the page catches up | SubscriptionSchedule |
| Configuration files, `materializer.rs`, `proxy_service.rs`, `config_service.rs`, `app/runtime/` | one file and `.bak` for each subscription, custom rules, active path | file reads and writes with other commands in between; a write torn by a crash | rules never reach an original subscription; a command alone heals; an applied change is live | ConfigFiles |
| What is in them, `app/singbox/`, `parser.rs`, `mode.rs` | the generated JSON | patches and edits over a file with an unknown history | tags resolve, groups offer the nodes, user rules first, a patch equals a new generation | ConfigContent, SubscriptionParser |
| Kernel download, import and bundled kernel, `download.rs`, `import.rs`, `embedded.rs`, `versioning.rs` | executable, `.old`, backup, version in the database | renames with crashes in between; three writers outside one another's knowledge | a kernel is always on the disk, an installation takes effect, a failed import is undone | KernelInstall |
| Settings at rest, backup and restore, `app/storage/`, `backup_service.rs`, `persistence.ts` | the single-row tables, the preferences file, the page's copies | autosave from an old copy; a restore fails between tables; paths of another machine | restored paths are local, a restore is complete, the page follows it | BackupRestore |
| The application's update, `update_service.rs`, `background_tasks.rs`, `file_util.rs`, `UpdateStore.ts` | the update row, the page's copy and offer, one temporary file | check, background round, downloads and restore over one row and one file | the chosen, whole, newer package is installed; store and row agree | AppUpdate, on BackupRestore |
| Tray, window and page, `app/tray/`, `lib.rs`, `TrayStore.ts`, `WindowStore.ts`, boot | window and page, tray's state, saved row, exit flags | events to a page that does not listen yet; the page destroyed with its timers; exit against close | row, page and tray agree when quiet; only an exit exits; the page returns | Desktop |
| Snapshot and frontend kernel store | `state_version`, the store's status | equal versions overwrite each other in the order of arrival | - | - |

They meet in three places.  The active configuration path and the settings row are written by
the page, the tray, a restore and the subscription commands, and read by every start of the
kernel (ConfigFiles, Desktop, BackupRestore each have the row they share).  An installation
suspends and resumes the kernel through the queue (KernelLifecycle has both ends, KernelInstall
the files).  The automatic update and the user's commands end in the same download, whose effect
on the list is in SubscriptionSchedule and on the file in ConfigFiles.

`PROJECT.json` lists each part with its status, and the forty hazards that matter most at the
lines where they bite; others are under [Known limits](#known-limits).

## Modules

```
KernelState ─── KernelLifecycle ─── KernelLifecycleProofs        SubscriptionParser
KernelIntent ──────┘ (abstract)                                        │ EXTENDS
                                                                  ConfigContent ─── ConfigContentProofs
ProcessManager ─────── ProcessManagerProofs
ConfigFiles ────────── ConfigFilesProofs                          BackupRestore
SubscriptionSchedule ─ SubscriptionScheduleProofs                      │ EXTENDS
KernelInstall ──────── KernelInstallProofs                        AppUpdate ─── AppUpdateProofs
Desktop ────────────── DesktopProofs
```

Each has an `MC` module that holds its instances.  One convention holds in all of them: an action
is the code between two places where another task may run (an `await` that may suspend, the gap
between a read and a write of a file), and a command in flight is a record with the place where
it is (`pc`) and what it has read so far.

### KernelState

The values of `state.rs` and the pure planner `plan_kernel_transition`: kernel states, desired
states, readiness, observed states, requests and actions.  No variables.

### KernelIntent: what the lifecycle promises

Three variables: what the session wants, whether a kernel process exists, whether the session
was told that it is stopped.  A kernel comes up only while wanted; it may go down at any time; a
stop is confirmed only when no kernel exists, and holds until the next decision.
`KernelLifecycle` instantiates it with `alive <- managed \/ foreign` and `confirmed <- acked`
and is shown to implement it, by TLC and, for exact process detection, by proof.

### KernelLifecycle: queue, worker, guard and side commands

Variables are the shared state of the code: `state`, `desired` and `readiness` are
`KERNEL_STATE`; `managed` is the process this application spawned, `foreign` any other kernel
process; `keepAlive`, `guard` and `tunFails` are the guard's; `queue`, `op`, `pc` and `attempt`
the orchestrator's channel and the place of the worker in the operation it runs; `maint`,
`probe`, `live` and `reconciled` are where the commands outside the worker are.  `acked` is the
only history variable.

An action is the code between two points at which its task may be suspended, so each long
operation is a chain of actions named after its phases (`Resolve`, `Prepare`, `CheckRunning`,
`CleanConflict`, `Validate`, `Spawn`, `Verify`, `StabilityFresh`, `Started` ...; `StopProcess`,
`StopCheck`, `StopTimeout`, `ForceKill`).  Two points of the code's scheduling shape the model:

- The worker's operations, the guard task and the relay tasks share *one single-threaded*
  runtime.  A guard whose answer is ready runs before the worker's next resumption (`At`
  requires `guardReply = "none"`), but not before the first segment of the next operation
  (`Begin...` does not require it).  One step is more permissive than the code: an operation that
  awaits process detection and then skips may do so before the guard handles its answer.
- Tauri commands run on other threads and interleave everywhere.

A stop aborts the guard: `Orphaned` drops the guard's receiver from every queued operation, the
operation itself stays and will run with nobody listening.  Cool-down and warm-up deadlines of
the guard are nondeterministic choices; `Detect` reports an error of the process list as "not
running", as `status.rs:185` does.

### ProcessManager: handle, PID file and processes (Linux build)

The lifecycle model treats a kill and a spawn as atomic facts about `managed` and `foreign`.
This module opens them: `procs` is a set of processes with PID, name, owner (root or not, ours
or a user's) and parent; `handle` is the child that the manager holds and that dies with the
application; `record` is `.managed-kernel.pid`, which does not.  Actors:

- the lifecycle worker, one operation at a time: a start through the conflict check, a stop, a
  recovery (which calls `ProcessManager::start` and nothing before it), a self-heal;
- the cleanup at startup, on a `ProcessManager` of its own that shares only the file;
- `is_running` on another thread, split where it has read the file and not yet compared;
- the operating system: kernels exit, `sudo` executes its command or forks it, users start
  kernels, and between two sessions an unrelated program gets a PID that a kernel had.

Each process remembers where it comes from: a user, the manager, or a spawn whose child the
manager *dropped*.  Without TUN a child is spawned before the thread that drains its standard
error, and when that thread cannot start the attempt fails and its kernel runs on, neither held nor
recorded nor killed (`DropChild`, `manager.rs:621`).  A retry then spawns a second one.
`StartLeavesOne` and `NoStrayKernel` count the kernels that the manager took, with dropped ones
running beside them; `StartIsAlone` under *Known limits* counts all.

With TUN both `sudo` and kernel belong to root: a plain kill reaches neither.  Assumptions about
the environment, stated at the actions: a PID is not handed out twice within one session (the
child handle keeps its zombie); a `sudo` has started its kernel before the application is back;
the worker's own `is_running` is one step, since those it races with only remove the file.

### ConfigFiles: the files and their writers

`file` and `bak` hold for each path nothing, a torn file or a body: the download it came from,
whether this program generated it, the custom rules in it, the port and whether settings beyond
the ports were patched in.  `job` is the set of commands in flight (downloads, rule edits,
switches of the active configuration, saves of the settings), each with its own copies; `settings`
is the row, `uiActive` and `roundPath` are copies of the active path that outlive it.  A job that
nobody overlapped is `alone`, and the properties about healing speak of those.  A crash may tear
the file that was being written.  `Launch` is what a start of the kernel does to settings and file.

`original` is which subscriptions the list marks as kept in their original form.  Three things
bring rules into such a file or leave a file of the other form under the mark: the page's
configuration editor generates the file anew (`SubView.vue:857`), the edit dialogue toggles the mark
and leaves the file alone (`SubView.vue:564`), and a database error makes the look-up of the mark
answer "generated" (`Marked`, `proxy_service.rs:1154`).  The model has all three and `astray`
collects the files they happened to.

### ConfigContent and SubscriptionParser: what a file says

`SubscriptionParser` translates the parser as operators: three kinds of document, the wrappings
tried in turn, each protocol's converter.  `ConfigContent` has the generated skeleton, the node
injection with its renaming of clashing tags, every settings patch, the custom rules' insertion,
the mode and IP version switches and the start's inbounds.  Each command is one step; rules,
servers and outbounds are records of the few fields the properties tell apart.  A node may bring a
resolver and a detour of its own, which are kept (`config_generator.rs:508`) and may name what is
not in the file: `TagsResolve` is about what this program writes.  `PatchMatchesFresh`
uses `Generated` as the reference definition of `Patch`.  `Only` (the elements at some positions)
and `NodeOutbounds` are recursive functions, so that the proofs can unfold them.

### SubscriptionSchedule: who updates, and who writes the list

The update loop, the refresh after an upgrade with time-out and retries, the user's downloads and
the page's saves, over one stored list.  Time is a clock of ticks; an interval is off, one tick or
two.  `touched` remembers that the list was written since the loop read it.  A load of the page may
fail: on the update event the list is emptied and the watch saves the empty list over the stored
one (`UiAssign`, `SubStore.ts:111`), which loses every subscription; at launch it is emptied and not
saved.  The event at the end of a round is withheld whenever the active configuration cannot be
read, as often as that happens (`RoundEmit`); `ui.told` says that one was sent.

### KernelInstall: who replaces the executable

Files hold a version, nothing or a torn copy.  Two downloads or imports, the bundled kernel's copy
by a start and by a version check, starts and stops, the settings page.  `mixed` remembers that
two of them were at work at once: the properties about a *successful* installation are for one
at a time, `SomeKernelKept` for any overlap.  Error paths that the code swallows or that leave work
half done are steps of their own kind: the copy that replaces a rename that fails may break off and
leave a torn executable, a version may go unsaved, a restore may fail before, in or after its
removal, and the question whether the kernel runs may miss it (`is_kernel_running` answers `false`
when the platform's process list fails, `status.rs:190`).  A job remembers in `slips` which of these
happened to it, and each property names the slips it does not cover.  Versions that cannot be
compared (`Odd`) make the check for the bundled kernel leave everything as it is.

### BackupRestore and AppUpdate: settings at rest

`app` is the settings row, `others` the other single-row tables (a theme and the update settings
stand for four), `prefs` the preferences file, `ui` the page's copy with its save timer.  An
export reads table after table, a restore writes table after table.  Two automatic saves may be
under way and either may land first.  A load of the page may fail, which it swallows (`ui.stale`),
and a setting that the row leaves blank keeps the page's value (`Taken`, `persistence.ts:122`).
`AppUpdate` extends the module by the store of the settings page, whose row is one of these tables,
and adds releases, check, background round, downloads through a proxy or directly, installer and
relaunch.  Saves of the update row are commands of their own that nothing orders: any may land
last, or fail unheard; the choice of a channel sends two, the switch of the background check only
what the watcher sends, and none while the store is being loaded.  `store.parted` says that one of
these made store and row part.  A save that fails, or crosses a restore or another save, sets
`cut`, and the two *Follows* properties do not speak of such runs.

### Desktop: tray, window and page

`row` is the saved row, `tray` the tray's runtime state, `win` and `page` the window and the page
in it with its boot phase, timers and listeners, `chan` the events under way to it, `job` the tray
commands and the startup task, `quit` the exit.  An event that comes before the page listens is
lost; a window that is destroyed takes page, timers and events along.  Its destruction takes two
steps: the state is written and the destruction posted (`closing`), and the event loop takes it
later and asks then whether to exit (`WindowGoes`, `lib.rs:322`).  `page.out` is the tray sync under
way: while there is one, another sync is dropped, a forced one too, after the timer has been
cancelled; `page.owed` says that the last one was dropped or failed.  `sent` is the automatic save
under way; it may fail or be overtaken, as a load may fail, and `page.apart` says that page and row
parted that way.

Definitions marked *Mutant* change one definition of the model as a plausible mistake in the code
would; for each checked property `PROJECT.json` names one that TLC finds to break it.

## Runs

`CHECK_DEADLOCK FALSE` throughout: users may stop submitting, and the counters that bound a run
do get used up.  Every bound is an entry of `Budget` or `Budgets` (`MC*.tla`) or a constant of the
`.cfg`; `Budgets` is a set, from which a behaviour takes one.

| Run | Question | Bounds | Distinct states |
|---|---|---|---|
| MCCore | Does the user's stop win, does a confirmed stop leave nothing, is the guard's request neither lost nor doubled, is KernelIntent implemented? | 4 user operations, 3 crashes, 2 failures of 12 kinds, queue of 2, 2 spawn attempts, foreign kernel or none at startup | 770 k |
| MCCommands | Does the guard's request survive self-heal, kernel update, status probe and live proxy change? | 2 operations, 1 crash, 1 TUN failure with threshold 2, one of each side command | 3.1 M |
| MCLiveness | Does the queue drain, a crashed kernel come back, an update end? | 2 operations, 1 crash, 2 failures, 1 update | 146 k |
| MCProcess | Without TUN: one kernel after a start, none lost, stops kill, no other program killed? | 3 operations, 2 sessions, 1 exit, 1 foreign program, 1 status query, 1 failure of 6 kinds, 4 PIDs | 3.7 M |
| MCProcessSudo | With TUN, is a start that reports success alone, when sudo refuses and sessions end anywhere? | 4 starts, 3 sessions, 1 exit, 1 foreign program, 1 status query, 2 failures, 4 PIDs | 7.9 M |
| MCConfigFiles | Do rules stay out of original files, do files heal, is an applied change live? | 3 commands (2 at a time), 3 paths, 1 rule, 2 ports, 1 start, 1 crash, failed write or failed look-up | 6.3 M |
| MCSchedule | Is nothing forgotten, starved or overwritten in the list? | 2 subscriptions, 3 intervals, 1 retry, 1 of edit, download, database failure or crash | 2.1 M |
| MCContent | Is the file well formed and a patch as good as a new generation, after any history? | 2 groups, 4 documents, 2 rule lists, 10 settings of which 2 differ from the default at a time | 30 k |
| MCInstall | Is a kernel always on the disk, and is a finished installation what runs? | 2 jobs, 4 versions of which 1 compares with none, 4 bundles, 1 of start, stop, check, crash or 11 kinds of failure | 4.2 M |
| MCStorage | Are restores local and complete, do page and store follow, is the chosen package installed? | 3 actions on settings, or 4 on updates, or 1 and 2 (with in-application updates; else 2, or 1 and 1), a background round; 5 foreign backups, 3 feeds, 2 machines, 1 failure of 9 kinds, launches | 5.0 M |
| MCDesktop | Do row, page and tray agree, does only an exit exit, does the page return? | 3 window actions; or 2 and a failure; or one of each kind (window, change, failure); or 2 changes; 1 tray command beside the startup task, 2 routes, both close behaviours | 10.3 M |
| MCQuit | Does an exit end the application? (no) | 2 window actions, or 1 and a change | 75 k |

What the properties say, and what it takes to break them:

- `UserStopWins`: under a stop intent a kernel of ours lives only until the stop that set the
  intent kills it.  It takes a queued recovery, apply or resume and a stop to break it.
- `StopLeavesNothing`: from a stop's success to the next operation there is no process, guard,
  relay task or system proxy: the order of five clean-ups and every failure between them.
- `GuardAccounting`: the flag agrees with the task, and a waiting guard has exactly one queued
  operation, running operation or answer to wait for.
- `ImplementsIntent`: the refinement of KernelIntent.
- `EveryRequestServed`, `CrashRecovers`, `MaintenanceEnds`: liveness, see *Fairness*.
- `StartLeavesOne`, `NoStrayKernel`, `StopKillsManaged`: handle, file and processes agree enough
  for one kernel after a start, no kernel forgotten, and stops that reach what they recorded; of
  the kernels the manager took, with dropped ones running beside them.
  `SparesOtherPrograms`: a reused PID never costs another program its life.
- `OriginalNotInjected`: no interleaving of downloads, edits and switches puts a custom rule into
  a subscription kept in its original form, unless its mark was edited, its file generated anew
  from the page's editor, or its mark hidden by a database error (`astray`).
  `RulesHealed`: whatever overlapped or crashed before,
  a command that runs alone leaves exactly the enabled rules.  `AppliedConfigIsLive`: a change
  alone that restarts leaves the kernel with the file as it is after all its patches.  The
  `TypeOK` of ConfigFiles says in addition that a kernel has only ever loaded a complete file.
- `RoundWritesHealthOnly`, `UpgradeNotForgotten`: what a round and a refresh may write, over lists
  that change while they download.  `UpgradeSettles`, `EverySubscriptionIsTried` and
  `FrontendCatchesUp`: liveness over failures, back-offs, crashes, stale copies and failed loads;
  the last as long as rounds keep finding the active configuration readable.
- `TagsResolve`, `GroupsOfferNodes`, `UserRulesFirst`, `PatchMatchesFresh`: see ConfigContent.
- `SomeKernelKept`, `InstallTakesEffect`, `FailedImportLeavesOld`, `StartRepairsVersion`: a crash
  or failure in any of the renames, copies and saves, alone or overlapping as far as each says.  A
  kernel is kept until a job *discards* one (it deletes the old kernel where it cannot move it
  aside, or moves or restores a torn file over it); an installation is in the database unless that
  write failed;
  a failed import has the old kernel back, or still in its backup when that cannot be put back.
- `LocalPaths`, `RoundTrip`: paths of any origin.  `FrontendFollows`, `RestoreComplete`,
  `UpdateStoreFollows`: an autosave from an old copy never undoes a restore, and store and row end
  equal, while loads and saves succeed and do not cross.
  `ChosenPackageRuns`: after broken attempts, crashes and changed offers.
- `ShellAgrees`, `OnlyQuitExits`, `RouteReturns`: over overlapping commands, lost events, destroyed
  and recreated pages, dropped and failed syncs, saves and loads.

`TypeOK` is checked where it says more than shapes (MCCore, whose proofs rest on it, and
MCConfigFiles).  Those of the other modules hold on the same instances: add `TypeOK` to
`INVARIANTS`.

**Why the bounds are enough.**  The races in the lifecycle need at most a stop, a competing
operation and an orphaned one: two queue places with a third running.  Two attempts have a first
that is retried and a last that is not.  Two sessions are what a PID file needs to outlive its
kernel; three let a kernel of the first be missed by the second.  Four PIDs are an old kernel, a
`sudo`, its kernel and one program.  In ConfigFiles a third command is what a race of two leaves
its traces to; one rule suffices because rules are injected and stripped one by one.  Two
subscriptions are one that is due and one that shapes the loop's sleep.  Two settings at a time
cover every pair of patches, and the third document is what two earlier ones clash with.  Two
installations are the overlap; more share nothing new, and a fourth version is one that compares
with no other.  In the desktop one worker's command and the startup task already overlap; three
actions are a close, a show and a toggle or edit, and a failure takes the place of one.

**Simplifications that are bounds**, named at the definitions: the user's refresh waits for the
one after an upgrade (`UserRefresh`); updates wait for a running export, save or restore
(`Settled`, but not the check, which crosses them); two downloads of a package and two automatic
saves at a time, and loading the update store at a launch is one step; no subscription is switched
while a kernel starts (`Switch`); in Desktop the page's user changes the proxy switch and the close
behaviour only, one switch dialogue and one exit at a time, all switches off at the start, an event
waits until the handler before it has reached its first `await`, an automatic save that is sent
while another is under way lands at once before or after it, and the tray takes a sync in the step
in which its sender learns that it did.

**Fairness.**  `KernelLifecycle!FairSpec` has weak fairness of `Worker`, `Guard`,
`StartupReconcile`, `Maintenance`, `ProbeWrite` and `LiveApply`: the tokio runtime polls every ready
task and every wait in the code is a timer, a bounded poll or a channel whose other side is one of
these.  `CrashRecovers` allows the guard to give up where the code does (preflight or sudo
failure).  `SubscriptionSchedule!FairSpec` has it of the loop, the refresh, each download (every
request has a time-out), the page's handlers and the clock.  `Desktop!FairSpec` has it of the exit's
task, whose stop is cut off after four seconds.  Users, crashes, failures and the issue of a command have none.

## Where the code and its documents disagree

| Run | What happens |
|---|---|
| MCQuit | `request_app_exit` sets `allow_exit`, then waits up to four seconds for the stop of the kernel (`tray/service.rs:741`).  A lightweight close of the window in that time sets `keep_alive` and clears `allow_exit`; the `app.exit` that follows is prevented, and the application stays without a window.  `docs/CHANGELOG.md:120` promises that the tray's exit still stops the kernel and ends the program. |

## Known limits

Properties that a document, a comment or plain expectation suggests, stated in the modules, which
the code does not satisfy.  TLC finds each violated when it is the property of the run named, with
the change named.

| Property | Run, with | What happens |
|---|---|---|
| FailureClearsProxy | MCCore, `Budget <- BudgetOneStart` | `prepare` sets the system proxy before there is a process (`lifecycle.rs:304`); a start that then fails leaves it set. |
| MaintenanceExcludesKernel | MCCommands, `BudgetMaintenance`, `AutoStart = TRUE` | A recovery queued before the suspension of an update starts the kernel while its binary is replaced (`guard.rs:422`). |
| DesiredRunningIsGuarded | the same | The resume finds that kernel running and enables no guard (`lifecycle.rs:1028`). |
| StopClearsProxy | MCCommands, `BudgetLiveApply`, `AutoStart = TRUE` | `apply_proxy_settings` asks for a running kernel and sets the proxy later, outside the queue (`lifecycle.rs:1071`). |
| StopKillsManaged | MCProcess, `BudgetSingle`, `Tuns = {TRUE}` | With TUN `stop` removes the PID file after a plain kill that cannot reach root, then calls the clean-up that needs it (`manager.rs:930`). |
| StartupKillsLeftovers | MCProcess, `BudgetSingle` | The cleanup at startup can kill the kernel a user's start has just spawned (`lib.rs:156`). |
| StartIsAlone | MCProcess, `BudgetDrop` | The thread that drains the kernel's standard error cannot start: the attempt fails, the child runs on, and the retry spawns a second kernel and succeeds (`manager.rs:624`). |
| NoResidue | MCConfigFiles, `BudgetResidue` | An injection strips what bears its marker (`config_generator.rs:688`).  One that read the rules before a rule was deleted may write its file last (`proxy_service.rs:1117`); nothing locks, and the deleted rule stays until the next injection. |
| OriginalOnlyPorts | MCConfigFiles, `BudgetOriginal` | A switch reads the settings again before it patches (`orchestrator.rs:71`) and may find the path of another switch, to which it applies its own hint (`config_update.rs:64`; `docs/CHANGELOG.md:91`). |
| OriginalNeverInjected | MCConfigFiles | Saving the page's editor generates the file of an original subscription anew (`SubView.vue:857`); a database error makes it count as generated (`proxy_service.rs:1154`). |
| RuleSetsResolve | MCContent | Blocking advertisements again restores the rule and not its rule set (`settings_patch.rs:349`). |
| FakeDnsPersisted | MCContent | A mode switch drops the persisted fake-IP mapping (`mode.rs:146`). |
| BadEntrySkipped | MCContent, `Documents <- BlankDocuments` | One entry with a blank tag rejects the subscription (`config_generator.rs:464`; comment at `parser.rs:157`). |
| TagsResolve | MCContent, `Documents <- NamedDocuments` | With groups off, a provider's node called like a group is imported under that name (`config_generator.rs:476`); the next settings patch drops it as if it were the group (`settings_patch.rs:380`) and the selectors still list it. |
| NodesDialKnownTags | MCContent | A node keeps the resolver and the detour it came with, whatever this file calls its own (`config_generator.rs:508`). |
| SomeKernelAlways | MCInstall | A download has removed `.old` and the executable when both the rename and the copy of the new one fail (`download.rs:684`, `697`). |
| SuccessIsRecorded | MCInstall | A version that cannot be saved is a warning, and the job a success (`download.rs:331`, `import.rs:166`). |
| OldIsBack | MCInstall | The old kernel of a failed import cannot be put back (`import.rs:146`). |
| InstalledVersionIsTrue | MCInstall | A copy or crash between file and database, or a version that cannot be compared, leaves the wrong version until the next check (`embedded.rs:99`, `178`), also at the beginning of a session. |
| WholePackageRuns | MCStorage | A check frees the button of a download under way; two downloads write one temporary file (`file_util.rs:63`). |
| FrontendIsRestored | MCStorage | The load after a restore fails unheard (`persistence.ts:168`), or the restored row leaves a setting blank (`persistence.ts:122`): the page keeps the old value and its next save writes it over the row. |
| LastChoiceIsSaved | MCStorage, without faults | The saves of two choices are commands that nothing orders: the first may land last (`UpdateStore.ts:336`). |
| ShellAlwaysAgrees | MCDesktop | A forced sync is dropped while another is under way, after its timer was cancelled (`TrayStore.ts:103`, `126`); a failed sync, save or load is swallowed (`TrayStore.ts:115`, `persistence.ts:168`, `241`). |
| ClosingKeepsRunning | MCDesktop | A lightweight close posts the destruction of its window; a show before the event loop takes it clears `keep_alive`, and the application exits (`tray/service.rs:731`, `lib.rs:322`). |

Exceptions inside checked properties, each reachable in the model: `missed` in `ShellAgrees` (an
event before the page listens, a toggle that fails after the row was saved, `tray/service.rs:822`),
with `apart` and `owed`, which end with the next load, save or sync; `closing = "raced"` in
`OnlyQuitExits`; a second show during a boot in `RouteReturns` (`tray/service.rs:640`); `cut`,
`ui.stale` and `store.parted` in the storage properties; `astray` in ConfigFiles; the dropped
kernels of the process manager; `slips` of KernelInstall; `mixed` and `alone` as described.  StartIsAlone,
OriginalNeverInjected, NodesDialKnownTags and the rows from SomeKernelAlways on are the checked
properties without such exceptions.

Other hazards seen and not turned into properties, because nothing says what should happen: a
failed load of the subscription page empties the stored list (`SubStore.ts:111`); a list saved
between the two halves of a round's read and write is overwritten (`auto_update.rs:122`); a tray menu that
cannot be rebuilt stays as it was although the state behind it is new (`tray/service.rs:579`); a
recovery that follows a restart kills the healthy kernel (`guard.rs:422`); a failed update leaves
the suspended kernel down (`download.rs:295`); a self-heal does not enable the system proxy again
(`manager.rs:881`); a reconcile can undo an early user start (`lib.rs:177`); a crash of the
application leaves the system proxy (`lib.rs:157`); with TUN the PID recorded may be a user's
kernel (`manager.rs:346`) and a self-heal puts a second root kernel beside the first
(`manager.rs:957`); two subscriptions with one URL share a health patch (`auto_update.rs:92`); a
manual refresh writes its result by list index (`SubView.vue:648`); application groups switched off
are not put back by a patch (`settings_patch.rs:356`); a mirror that answers with a page ends a
download (`download.rs:353`); a failed export destroys the backup it overwrites
(`backup_service.rs:548`); a restore leaves the preferences file to the page's next save
(`enhanced_storage_service.rs:211`); a show during the boot of a hidden start leads to the blank
page (`useAppBootstrap.ts:78`); a lightweight close within 300 ms of an edit loses it
(`persistence.ts:233`).

## Proofs

TLC finds out whether a formula holds on a small instance; the proofs are for all queue
capacities, attempts, thresholds, jobs, versions, files, PIDs, fault sets, budgets, application
groups, documents and rule lists that satisfy
the modules' named assumptions.  Each component has a module of proofs of its own, and in each the
argument has the same form: an inductive invariant `IInv` (or one per theorem), a lemma for each
action that says what it does to it, and one temporal step at the end.  The properties are seldom
inductive: what follows says what had to be added, which is why they hold.

**Assumptions on constants.**  Naturals where the code counts, positive where its constant is
(`ConstantsAssumption`, `ProcessAssumption`, `IntervalsAssumption`, `BudgetAssumption`,
`DesktopAssumption`); names that do not clash (`JobsAssumption`, `PathsAssumption`); what a file of
the build or of another machine may hold (`BundlesAssumption`, `FeedsAssumption`,
`ForeignAssumption`); that the application groups differ from one another and from the built-in
outbounds (`GroupsAssumption`, `common.rs:8`); and shapes: documents have a sequence of entries,
stored rules are a sequence, there is a default range, a varied setting is a setting
(`DocumentsAssumption`, `RuleListsAssumption`, `RangeAssumption`, `VariedAssumption`).  Two say something of the world: `LabelsAssumption`, that the bundled
`version.txt` is of the bundled kernel or missing, since `scripts/fetch-kernel.mjs` writes it for the
file it has fetched; and the second part of `ForeignAssumption`, that a backup of another machine
does not claim to be one of this machine.

| Module | Theorem | Property | Hypothesis beside the assumptions |
|---|---|---|---|
| KernelLifecycleProofs | TypeCorrect | TypeOK | |
| | StopWins | UserStopWins | |
| | ImplementsKernelIntent | ImplementsIntent | process detection does not fail |
| | ConfirmedStopIsClean | StopLeavesNothing | the same, and no live proxy command |
| | GuardIsAccounted | GuardAccounting | |
| ProcessManagerProofs | OtherProgramsSpared | SparesOtherPrograms | |
| | OneKernelAfterStart | StartLeavesOne | no TUN |
| | OneKernelWithRoot | StartLeavesOne | starts only, with TUN or without |
| | NoKernelIsLost | NoStrayKernel | no TUN |
| | StopsKill | StopKillsManaged | no TUN |
| ConfigFilesProofs | TypeCorrect | TypeOK | |
| | OriginalsStayClean | OriginalNotInjected | |
| | RulesHeal | RulesHealed | |
| | AppliedConfigsAreLive | AppliedConfigIsLive | |
| SubscriptionScheduleProofs | UpgradesAreRefreshed | UpgradeNotForgotten | |
| | RoundsWriteHealthOnly | RoundWritesHealthOnly | |
| KernelInstallProofs | TypeCorrect | TypeOK | |
| | KernelIsKept | SomeKernelKept | |
| | InstallsTakeEffect | InstallTakesEffect | |
| | FailedImportsLeaveOld | FailedImportLeavesOld | |
| | StartsRepairVersion | StartRepairsVersion | |
| AppUpdateProofs | PathsAreLocal | LocalPaths | |
| | OwnBackupsRoundTrip | RoundTrip | |
| | FrontendIsRow | FrontendFollows | |
| | RestoresAreComplete | RestoreComplete | |
| | ChosenPackageIsRun | ChosenPackageRuns | |
| | StoreIsRow | UpdateStoreFollows | |
| DesktopProofs | ShellsAgree | ShellAgrees | |
| | OnlyQuitsExit | OnlyQuitExits | |
| | RoutesReturn | RouteReturns | |
| ConfigContentProofs | CustomRulesComeFirst | UserRulesFirst | |
| | EveryTagResolves | TagsResolve | `NamesApart` |
| | EveryGroupOffersTheNodes | GroupsOfferNodes | `NamesApart` |

**KernelLifecycle.**  `UserStopWins` is not inductive: a start under way when nobody is looking at
the intent would break it.  `IntentInv` adds `RunsOnlyWanted` (a worker in the start path runs
under the intent "running") and `StopMatchesIntent` (a stop operation runs under the intent it has
set).  The planner enters through a lemma on what a reconcile may plan.  The refinement maps each
step to a step of KernelIntent or a stutter; an error of the process list counts as "not running",
so without exact detection a stop may be confirmed while a foreign kernel lives.  `CleanInv` adds
what a stop has already cleaned at each of its places, that a confirmed stop is idle, and that the
flag agrees with the task; `StopClearsProxy` under *Known limits* shows why the live proxy command
is excluded.  `AccountInv` says where the answer to a waiting guard will come from: the running
operation, the channel, or *one* place in the queue (`OneSource`), and that only the guard's own
kinds of operation answer to it.  Its lemmas say what taking, appending and orphaning do to the set
of places owed to the guard (`Owed`), for a queue of any length.

**ProcessManager.**  A process dies because a kill reaches it or because it is a `sudo` whose kernel
died.  `ProcessInv` therefore says that PIDs are unique and not handed out twice, that a handle
never names an unrelated program, that only a `sudo` is a parent, of one process, and that a `sudo`
belongs to root (so the plain kill of the handle reaches kernels only).  Without TUN, `PlainInv`
adds that there is at most one kernel of ours and who knows of it: the handle, the record, or the
attempt that has spawned it and not yet recorded it, at each place of an operation.  A kernel
dropped by a failed attempt is a process of another origin, which these invariants let run, be
recorded or be killed.  With TUN a
plain kill reaches neither `sudo` nor kernel and a stop may lose both, so only starts are left:
`StartsInv` counts *units* (a kernel of ours, or a `sudo` that will become one) and says that a
start that meets one it cannot kill fails.  `StopKillsManaged` is false with TUN (*Known limits*).

**ConfigFiles.**  `FilesInv` is about the backups too, since a rollback writes one back.  `JobsInv`
says that no command reaches the injection with the path of an original file that is not `astray`, and
that whoever is about to write holds a complete body.
`AloneInv` gives, for each place of a command that nothing has overlapped, what its copies and
the file have in common; both action properties follow from it.

**SubscriptionSchedule.**  `CopyInv` is the core: what a round read before its save agrees with the
stored list, up to health, until somebody else writes.  `UpgradeNotForgotten` is inductive once the
shapes are.

**KernelInstall.**  For any number of jobs, `KeptInv` adds that, while nobody has discarded a kernel
and none is bundled, what a download put aside runs (`AsideRuns`); a bundled kernel is usable itself,
and without one no start waits to copy it (`NoBundleNoCopy`).  The three others hold for a job that
was alone, so `AloneInv` first says what `mixed` stands for; `EffectInv` and `RevertInv` then give
the files at every place of such a job, with what its slips change, and `RepairInv` those of a start.

**BackupRestore and AppUpdate** (one specification, `UpdSpec`, as in the run).  `Restorable` says of
every accepted backup what its decoding gives; lemmas on the path operators (`Encode`, `Localised`,
`Enforce`, `Stripped`) carry it.  `FollowInv` says for each phase of edit, save and restore who of
page, saves, row and file agrees with whom; `CompleteInv` how far a restore got; `StoreInv` that
*every* save of the update row under way is the store's row, which is what makes their order not
matter, unless the two have parted; `PackageInv` that a single download owns the temporary file.  A lemma
shows that every step of the update is a step of the storage, a save of its table, or none, so
that the storage's part of the invariant is proved once.

**Desktop.**  `ShellAgrees` speaks of a state in which nothing is under way, so the invariant says
for every disagreement on the way there what will repair it: a queued event, a command with a step
to go, a timer, a row that has been read, a save or a sync under way that carries what the page
shows (`RowInv`, `TrayInv`, `WindowInv`, `VisibleInv`).  `RouteInv` follows the route through close,
boot and fetch.  `ExitInv` says that while a destruction is posted and not overtaken the tray keeps
the application alive, or its exit was asked for.

**ConfigContent.**  `FirstInv` says that the rules are built-in ones and the user's (`RulesOK`), and
that no user's rule stands behind a built-in one that decides on a rule set or an address.  Every
list operation of the code has a lemma: what keeping some elements, inserting at a place,
removing, replacing and appending do to membership and order, for lists of any length.  The place
of insertion matters: `InsertBefore` finds the first *anchor*, every late built-in rule is one, so
nothing before it is late.  The other two properties need the whole file (`FileOK`), because each
command touches a part that others refer to.  Its outbounds split into groups and the nodes of the
last import, with different tags (`Split`); rules lead to groups that are in the file, so `RulesOK`
takes the set of groups as a parameter and a patch that removes the groups must remove their rules
in the same step; a fake DNS rule goes with the fake DNS server (`DnsPaired`); a resolver is never
the server itself.  That an import adds nodes under free tags is the pigeonhole principle: one of
one number more than there are tags is free, so the code's search ends (`FreeTagIsFree`,
`NodesArePlaced`).

The hypothesis `NamesApart` has two parts.  Numbered names of one node differ: true of the code's
`format!`, and nothing the provers know of strings.  No node is, or becomes by a number, named like
an application group: without it `TagsResolve` is false (*Known limits*).  `MCConfigContent` asks TLC
to evaluate it for the run's documents.  `CustomRulesComeFirst` does not need it.

What the attempts at proof showed of the model.  `RouteReturns` was false with one more action
than the run has: a hidden start that comes back while a re-shown page boots replaces the pending
route.  The property now forgets the route it waits for when the tray replaces it, as it does on
a second show.  The start of a path's encoding and the order of package kinds were stated by
overlapping `CASE`s, which TLC reads in order and the prover does not; they are chains of `IF` now,
in the order of the code.  `TagsResolve` could not be proved as it stood: an import of a node called like a
group was the reason.  In ConfigContent `SelectSeq` and `FoldLeft` became recursive functions,
which the provers can unfold.  Every invariant was checked with TLC on the module's run before it
was relied on (of `FileOK`, the split before the last `Len(nodes)` outbounds).

**Only model-checked:** the liveness properties, since fairness and `ENABLED` are outside the
prover's reach; `StartLeavesOne` with TUN under other operations than starts, `NoStrayKernel` and
`StopKillsManaged` being false there; `PatchMatchesFresh`, which compares two whole generations
element by element; what the parser computes for every input (the proofs use that it yields a
sequence of nodes); and the counterexamples.

## Not modelled

- In the lifecycle: operation ids, `state_version`, events, diagnosis texts, port and latency
  details of readiness, reconnection inside a relay task.  Its system proxy is one Boolean.
- The frontend's kernel store: `state_version` counts operations, so the snapshots within one
  operation carry the same number and the store takes them in the order in which the webview
  delivers them; an order promised by Tauri and not by this code.
- In the process manager: the Windows and macOS branches, the standard-error tail, the contents
  of the environment checks, the password store.
- In the configuration: every field the properties do not tell apart; the live API call of a mode
  switch; the HTTP client and its headers but the one that carries the quota.
- In installation and update: progress events, archive formats, the mirrors' names, macOS
  packages, the flag `accept_prerelease` (the channel decides), and `skipCurrentVersion`, which no
  window reaches since `show-update-modal` is emitted nowhere; a skipped version comes from a
  restored row.
- SQL, encryption, dialogues, labels and icons, styling, logs, node and connection pages: input and
  output or presentation, with no interleaving for a model to explore.

The modules translate about three tenths of the lines of the implementation; most of the rest are
tests, presentation, platform calls and message texts.

## Plan

Done: all modules, their runs, and proofs for every component.  What is left:

1. `PatchMatchesFresh` as a theorem.  It needs, for each part of a file, that patching from one
   setting to another and from the skeleton give the same sequence of managed elements: a normal
   form of the rules for each setting, beside the lemmas of ConfigContentProofs on order.
2. `StartLeavesOne` with TUN for restarts and stops whose kernel the record still names.
3. An abstract register for each setting, implemented by page, row and tray together (`ShellAgrees`
   as a refinement).
