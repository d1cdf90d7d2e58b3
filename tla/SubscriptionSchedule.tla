------------------------ MODULE SubscriptionSchedule ------------------------
(* Who updates the subscriptions, and who writes the stored list of them:   *)
(* the automatic update's endless loop, the refresh after an application    *)
(* upgrade with its retries, the user's own downloads, and the frontend,    *)
(* whose SubStore keeps a copy of the whole list and saves all of it.       *)
(* Every writer reads the whole list, changes its own fields and saves the  *)
(* whole list; nothing locks the list in between.                           *)
EXTENDS Naturals, FiniteSets

CONSTANTS
    Subs,         \* subscriptions, with distinct URLs and paths
    Active,       \* the one the active configuration belongs to
    WithHeader,   \* the servers that answer with a subscription-userinfo header
    Default,      \* DEFAULT_INTERVAL_MINUTES, in ticks
    MinInterval,  \* the least interval, in ticks
    MaxBackoff,   \* MAX_BACKOFF_MINUTES, in ticks
    MaxExp,       \* the cap of the backoff's exponent
    Intervals,    \* values of auto_update_interval_minutes; 0 is off
    Retries,      \* length of RETRY_DELAYS_SECONDS
    Budget        \* bound: edits, user downloads, database failures and crashes, all told

ASSUME IntervalsAssumption ==
    /\ Intervals \subseteq Nat /\ {Default, MinInterval} \subseteq Intervals \ {0}
    /\ MaxBackoff \in Nat \ {0} /\ MaxExp \in Nat
ASSUME ActiveAssumption == Active \in Subs /\ WithHeader \subseteq Subs

VARIABLES
    db,       \* the stored list
    ui,       \* the frontend: its list, a save and an event on their way, a list being
              \* loaded, and whether the last round could tell it
    loop,     \* the automatic update
    task,     \* the download each actor is in
    upgrade,  \* the refresh after an upgrade, and the stored version mark
    touched,  \* somebody has written the list since the loop last read it
    dbFailed, \* a database call has failed
    budget

calm == <<dbFailed, budget>>
vars == <<db, ui, loop, task, upgrade, touched, dbFailed, budget>>

Gone  == [kind |-> "gone"]
NoList == [s \in Subs |-> Gone]
MaxSet(S) == CHOOSE x \in S : \A y \in S : y <= x
AtMost(x, bound) == IF x <= bound THEN x ELSE bound
AtLeast(x, bound) == IF x >= bound THEN x ELSE bound
Less(x, y) == IF x <= y THEN 0 ELSE x - y

\* Ages count ticks up to the longest interval; past it they make no difference.
MaxAge == MaxSet(Intervals)
Never  == MaxAge + 1
MaxFails == MaxExp + 1
Older(age, by) == IF age = Never THEN Never ELSE AtMost(age + by, MaxAge)

\* tried: last_auto_update_attempt is set; since is its age, or before the
\* first attempt the age of last_update.
Fresh(interval) == [kind |-> "sub", interval |-> interval, tried |-> FALSE, since |-> Never,
                    backoff |-> 0, fails |-> 0, quota |-> "none"]
Present(list) == {s \in Subs : list[s] # Gone}

Actors == {"loop", "upgrade", "user"}
NoTask == [pc |-> "idle", sub |-> Active, quota |-> "none", copy |-> NoList, ok |-> FALSE]
NoPatch == [fails |-> 0, backoff |-> 0]
NoPatches == [s \in Subs |-> NoPatch]
NothingSeen == [s \in Subs |-> [fails |-> 0, interval |-> 0]]
LoopStart == [pc |-> "off", due |-> {}, seen |-> NothingSeen, patch |-> NoPatches,
              patched |-> {}, age |-> 0, copy |-> NoList, sleep |-> 0]
UiStart(list) == [list |-> list, dirty |-> FALSE, event |-> FALSE, loading |-> FALSE,
                  read |-> NoList, told |-> FALSE]

\* The second subscription starts with automatic updates off.
Init ==
    /\ db = [s \in Subs |-> Fresh(IF s = Active THEN Default ELSE 0)]
    /\ ui = UiStart(db)
    /\ loop = LoopStart
    /\ task = [a \in Actors |-> NoTask]
    /\ upgrade = [pc |-> "check", tries |-> 0, wait |-> 0, mark |-> "old",
                   refreshed |-> FALSE, none |-> FALSE, shown |-> FALSE]
    /\ touched = FALSE
    /\ dbFailed = FALSE
    /\ budget = Budget

Spend(kind) == /\ budget > 0
               /\ budget' = budget - 1
               /\ dbFailed' = (dbFailed \/ kind = "db")

----------------------------------------------------------------------------
(* The pure rules of auto_update.rs                                         *)

CalcBackoff(base, fail_count) ==
    AtMost(AtLeast(base, MinInterval) * 2^AtMost(Less(fail_count, 1), MaxExp), MaxBackoff)

ShouldRun(sub) ==
    /\ sub.interval # 0
    /\ sub.backoff = 0
    /\ sub.since = Never \/ sub.since >= AtLeast(sub.interval, MinInterval)

CalcMinInterval(list) ==
    LET on == {list[s].interval : s \in Present(list)} \ {0}
        least == CHOOSE x \in on \cup {Default} : \A y \in on \cup {Default} : x <= y
    IN AtLeast(least, MinInterval)

\* Mutant: the patch replaces the whole subscription, the quota with it.
PatchedWhole(sub, patch, age) ==
    [sub EXCEPT !.tried = TRUE, !.since = AtMost(age, MaxAge), !.quota = "none",
                !.fails = patch.fails, !.backoff = Less(patch.backoff, age)]

\* apply_health_patch, some ticks after the round has read its clock.
Patched(sub, patch, age) ==
    [sub EXCEPT !.tried = TRUE, !.since = AtMost(age, MaxAge),
                !.fails = patch.fails, !.backoff = Less(patch.backoff, age)]

\* apply_userinfo_to_subscriptions: last_update is now.
WithUserinfo(list, s, quota) ==
    IF list[s] = Gone THEN list
    ELSE [list EXCEPT ![s].quota = quota, ![s].since = IF list[s].tried THEN @ ELSE 0]

----------------------------------------------------------------------------
(* download_subscription_core, the part that concerns the list              *)

Download(a, s) == task' = [task EXCEPT ![a] = [NoTask EXCEPT !.pc = "fetch", !.sub = s]]
EndTask(a, ok) == task' = [task EXCEPT ![a].pc = "done", ![a].ok = ok, ![a].copy = NoList]

\* The request fails, or is answered with the quota or, every User-Agent
\* tried, without.
Fetch(a) ==
    /\ task[a].pc = "fetch"
    /\ \/ EndTask(a, FALSE)
       \/ task' = [task EXCEPT ![a].pc = "infoRead", ![a].quota =
                                   IF task[a].sub \in WithHeader THEN "new" ELSE "none"]
    /\ UNCHANGED <<db, ui, loop, upgrade, touched, dbFailed, budget>>

\* update_subscription_userinfo: a database error is only logged.
InfoRead(a) ==
    /\ task[a].pc = "infoRead"
    /\ \/ /\ task' = [task EXCEPT ![a].pc = "infoWrite", ![a].copy = db]
          /\ UNCHANGED calm
       \/ Spend("db") /\ EndTask(a, TRUE)
    /\ UNCHANGED <<db, ui, loop, upgrade, touched>>

InfoWrite(a) ==
    /\ task[a].pc = "infoWrite"
    /\ IF task[a].copy[task[a].sub] = Gone THEN UNCHANGED <<db, touched>>
       ELSE /\ db' = WithUserinfo(task[a].copy, task[a].sub, task[a].quota)
            /\ touched' = (loop.pc = "patchWrite")
    /\ EndTask(a, TRUE)
    /\ UNCHANGED <<ui, loop, upgrade, dbFailed, budget>>

----------------------------------------------------------------------------
(* start_subscription_auto_update and run_once                              *)

\* Mutant: a round that cannot read the list ends the loop.
RoundBeginEnds ==
    /\ loop.pc = "begin"
    /\ \/ \E due \in {{s \in Present(db) : ShouldRun(db[s])}} :
          /\ loop' = [LoopStart EXCEPT !.pc = "pick", !.due = due,
               !.seen = [s \in Subs |-> IF s \in due
                          THEN [fails |-> db[s].fails, interval |-> db[s].interval] ELSE @[s]]]
          /\ UNCHANGED calm
       \/ /\ Spend("db")
          /\ loop' = LoopStart
    /\ UNCHANGED <<db, ui, task, upgrade, touched>>

\* A round reads the list, its clock, and which subscriptions are due.
RoundBegin ==
    /\ loop.pc = "begin"
    /\ \/ \E due \in {{s \in Present(db) : ShouldRun(db[s])}} :
          /\ loop' = [LoopStart EXCEPT !.pc = "pick", !.due = due,
               !.seen = [s \in Subs |-> IF s \in due
                          THEN [fails |-> db[s].fails, interval |-> db[s].interval] ELSE @[s]]]
          /\ UNCHANGED calm
       \/ /\ Spend("db")
          /\ loop' = [LoopStart EXCEPT !.pc = "interval"]
    /\ UNCHANGED <<db, ui, task, upgrade, touched>>

RoundPick ==
    /\ loop.pc = "pick"
    /\ task["loop"].pc = "idle"
    /\ \/ \E s \in loop.due : Download("loop", s) /\ UNCHANGED loop
       \/ /\ loop.due = {}
          /\ loop' = [loop EXCEPT !.seen = NothingSeen,
                                  !.pc = IF loop.patched = {} THEN "emit" ELSE "patchRead"]
          /\ UNCHANGED task
    /\ UNCHANGED <<db, ui, upgrade, touched, dbFailed, budget>>

\* The patch is built from what the round read of the subscription.
RoundResult ==
    LET s == task["loop"].sub
        failed == AtMost(loop.seen[s].fails + 1, MaxFails)
    IN
    /\ task["loop"].pc = "done"
    /\ loop' = [loop EXCEPT !.due = @ \ {s}, !.patched = @ \cup {s}, !.patch[s] =
         IF task["loop"].ok THEN NoPatch
         ELSE [fails |-> failed, backoff |-> CalcBackoff(loop.seen[s].interval, failed)]]
    /\ task' = [task EXCEPT !["loop"] = NoTask]
    /\ UNCHANGED <<db, ui, upgrade, touched, dbFailed, budget>>

\* save_health_patches reads the list again ...
PatchRead ==
    /\ loop.pc = "patchRead"
    /\ \/ /\ loop' = [loop EXCEPT !.pc = "patchWrite", !.copy = db]
          /\ touched' = FALSE
          /\ UNCHANGED calm
       \/ /\ Spend("db")
          /\ loop' = [LoopStart EXCEPT !.pc = "emit"]
          /\ UNCHANGED touched
    /\ UNCHANGED <<db, ui, task, upgrade>>

\* ... and saves it with the health fields replaced.
PatchWrite ==
    /\ loop.pc = "patchWrite"
    /\ db' = [s \in Subs |->
         IF s \in loop.patched /\ loop.copy[s] # Gone
         THEN Patched(loop.copy[s], loop.patch[s], loop.age) ELSE loop.copy[s]]
    /\ loop' = [LoopStart EXCEPT !.pc = "emit"]
    /\ touched' = FALSE
    /\ UNCHANGED <<ui, task, upgrade, dbFailed, budget>>

\* Mutant: the frontend is not told.
RoundEmitNothing ==
    /\ loop.pc = "emit"
    /\ \E readable \in BOOLEAN : ui' = [ui EXCEPT !.told = readable]
    /\ loop' = [loop EXCEPT !.pc = "interval"]
    /\ UNCHANGED <<db, task, upgrade, touched, dbFailed, budget>>

\* The event is not sent in a round that cannot read the active configuration, which
\* may be missing or damaged for any number of rounds.
RoundEmit ==
    /\ loop.pc = "emit"
    /\ \E readable \in BOOLEAN :
         ui' = [ui EXCEPT !.event = @ \/ readable, !.told = readable]
    /\ loop' = [loop EXCEPT !.pc = "interval"]
    /\ UNCHANGED <<db, task, upgrade, touched, dbFailed, budget>>

\* Whatever the round came to, the loop sleeps for the least interval.
RoundSleep ==
    /\ loop.pc = "interval"
    /\ \/ loop' = [LoopStart EXCEPT !.pc = "sleep", !.sleep = CalcMinInterval(db)] /\ UNCHANGED calm
       \/ Spend("db") /\ loop' = [LoopStart EXCEPT !.pc = "sleep", !.sleep = Default]
    /\ UNCHANGED <<db, ui, task, upgrade, touched>>

RoundWake ==
    /\ loop.pc = "sleep" /\ loop.sleep = 0
    /\ loop' = [LoopStart EXCEPT !.pc = "begin"]
    /\ UNCHANGED <<db, ui, task, upgrade, touched, dbFailed, budget>>

----------------------------------------------------------------------------
(* run_upgrade_subscription_refresh; the loop is started when it returns    *)

LoopStarted == loop' = IF loop.pc = "off" THEN [loop EXCEPT !.pc = "begin"] ELSE loop

\* Mutant: the version is marked as launched before the refresh.
UpgradeCheckMarks ==
    /\ upgrade.pc = "check"
    /\ \/ /\ upgrade.mark = "old"
          /\ upgrade' = [upgrade EXCEPT !.pc = "attempt", !.tries = 0, !.mark = "new"]
          /\ UNCHANGED loop
       \/ /\ upgrade.mark = "new"
          /\ upgrade' = [upgrade EXCEPT !.pc = "done"]
          /\ LoopStarted
    /\ UNCHANGED <<db, ui, task, touched, dbFailed, budget>>

UpgradeCheck ==
    /\ upgrade.pc = "check"
    /\ \/ /\ upgrade.mark = "old" /\ db[Active] # Gone
          /\ upgrade' = [upgrade EXCEPT !.pc = "attempt", !.tries = 0]
          /\ UNCHANGED <<loop, dbFailed, budget>>
       \/ /\ upgrade.mark = "old" /\ db[Active] = Gone
          /\ upgrade' = [upgrade EXCEPT !.pc = "done", !.mark = "new", !.none = TRUE]
          /\ LoopStarted /\ UNCHANGED calm
       \/ /\ upgrade.mark = "new"
          /\ upgrade' = [upgrade EXCEPT !.pc = "done"]
          /\ LoopStarted /\ UNCHANGED calm
       \/ /\ Spend("db")
          /\ upgrade' = [upgrade EXCEPT !.pc = "done"]
          /\ LoopStarted
    /\ UNCHANGED <<db, ui, task, touched>>

\* Mutant: the last failure is kept from the user.
FailedSilently ==
    IF upgrade.tries = Retries
    THEN [upgrade EXCEPT !.pc = "done"]
    ELSE [upgrade EXCEPT !.pc = "wait", !.tries = @ + 1, !.wait = 1]

\* What follows a failed attempt: the next delay, or the event for the user.
Failed ==
    IF upgrade.tries = Retries
    THEN [upgrade EXCEPT !.pc = "done", !.shown = TRUE]
    ELSE [upgrade EXCEPT !.pc = "wait", !.tries = @ + 1, !.wait = 1]

\* An attempt reads the list anew; the subscription may have been removed.
UpgradeAttempt ==
    /\ upgrade.pc = "attempt" /\ task["upgrade"].pc = "idle"
    /\ IF db[Active] = Gone
       THEN upgrade' = Failed /\ LoopStarted /\ UNCHANGED task
       ELSE Download("upgrade", Active) /\ UNCHANGED <<upgrade, loop>>
    /\ UNCHANGED <<db, ui, touched, dbFailed, budget>>

\* The mark is written after a success; failing to write it is only logged.
UpgradeResult ==
    LET done == [upgrade EXCEPT !.pc = "done", !.refreshed = TRUE] IN
    /\ task["upgrade"].pc = "done"
    /\ \/ /\ task["upgrade"].ok /\ upgrade' = [done EXCEPT !.mark = "new"]
          /\ UNCHANGED calm
       \/ task["upgrade"].ok /\ Spend("db") /\ upgrade' = done
       \/ ~task["upgrade"].ok /\ upgrade' = Failed /\ UNCHANGED calm
    /\ task' = [task EXCEPT !["upgrade"] = NoTask]
    /\ LoopStarted
    /\ UNCHANGED <<db, ui, touched>>

\* tokio::time::timeout drops the refresh wherever it is.
UpgradeTimeout ==
    /\ task["upgrade"].pc \in {"fetch", "infoRead", "infoWrite"}
    /\ task' = [task EXCEPT !["upgrade"] = NoTask]
    /\ upgrade' = Failed
    /\ LoopStarted
    /\ UNCHANGED <<db, ui, touched, dbFailed, budget>>

UpgradeRetry ==
    /\ upgrade.pc = "wait" /\ upgrade.wait = 0
    /\ upgrade' = [upgrade EXCEPT !.pc = "attempt"]
    /\ UNCHANGED <<db, ui, loop, task, touched, dbFailed, budget>>

----------------------------------------------------------------------------
(* SubStore: every change of its list saves the whole list                  *)

Edit(list) == ui' = [ui EXCEPT !.list = list, !.dirty = TRUE]

\* The user changes an interval, removes a subscription or adds it again.
UiEdit ==
    /\ Spend("edit")
    /\ \E s \in Subs :
         \/ \E i \in Intervals : /\ ui.list[s] # Gone /\ ui.list[s].interval # i
                                 /\ Edit([ui.list EXCEPT ![s].interval = i])
         \/ ui.list[s] # Gone /\ Edit([ui.list EXCEPT ![s] = Gone])
         \/ \E i \in Intervals : /\ ui.list[s] = Gone
                                 /\ Edit([ui.list EXCEPT ![s] = Fresh(i)])
    /\ UNCHANGED <<db, loop, task, upgrade, touched>>

UiSave ==
    /\ ui.dirty
    /\ \/ db' = ui.list /\ touched' = (loop.pc = "patchWrite") /\ UNCHANGED calm
       \/ Spend("db") /\ UNCHANGED <<db, touched>>
    /\ ui' = [ui EXCEPT !.dirty = FALSE]
    /\ UNCHANGED <<loop, task, upgrade>>

\* subscription-updated: loadFromBackend reads the list and replaces the copy
\* when its other two requests have answered too; the watch then saves it.
UiLoad ==
    /\ ui.event /\ ~ui.loading
    /\ ui' = [ui EXCEPT !.event = FALSE, !.loading = TRUE, !.read = db]
    /\ UNCHANGED <<db, loop, task, upgrade, touched, dbFailed, budget>>

\* When one of the three requests fails the copy is emptied, and the watch saves that.
UiAssign ==
    /\ ui.loading
    /\ \E list \in {ui.read, NoList} :
         /\ ui' = [ui EXCEPT !.list = list, !.dirty = TRUE, !.loading = FALSE, !.read = NoList]
         /\ \/ list = ui.read /\ UNCHANGED calm
            \/ list = NoList /\ Spend("db")
    /\ UNCHANGED <<db, loop, task, upgrade, touched>>

\* refreshSubscription: isLoading is set, which saves the list; the result of
\* the download is put into the copy, which saves it again.
\* Bound: the user waits until the refresh after an upgrade is over.
UserRefresh ==
    /\ Spend("refresh")
    /\ task["user"].pc = "idle" /\ upgrade.pc = "done"
    /\ \E s \in Present(ui.list) : Download("user", s)
    /\ ui' = [ui EXCEPT !.dirty = TRUE]
    /\ UNCHANGED <<db, loop, upgrade, touched>>

UserResult ==
    LET t == task["user"] IN
    /\ t.pc = "done"
    /\ Edit(IF t.ok THEN WithUserinfo(ui.list, t.sub, t.quota) ELSE ui.list)
    /\ task' = [task EXCEPT !["user"] = NoTask]
    /\ UNCHANGED <<db, loop, upgrade, touched, dbFailed, budget>>

----------------------------------------------------------------------------
(* Time and crashes                                                         *)

\* Minutes pass in downloads and in sleeps, which end on time; a database
\* step takes no tick.
Aged(list) == [s \in Subs |-> IF list[s] = Gone THEN Gone
    ELSE [list[s] EXCEPT !.since = Older(@, 1), !.backoff = Less(@, 1)]]

Tick ==
    /\ \A a \in Actors : task[a].pc \in {"idle", "fetch"}
    /\ \/ loop.pc = "off" \/ task["loop"].pc = "fetch"
       \/ loop.pc = "sleep" /\ loop.sleep > 0
    /\ \/ upgrade.pc = "done" \/ task["upgrade"].pc = "fetch"
       \/ upgrade.pc = "wait" /\ upgrade.wait > 0
    /\ ~ui.dirty /\ ~ui.event /\ ~ui.loading
    /\ db' = Aged(db)
    /\ ui' = [ui EXCEPT !.list = Aged(@)]
    /\ loop' = [loop EXCEPT !.sleep = Less(@, 1),
                          !.age = IF loop.pc = "pick" THEN AtMost(@ + 1, MaxBackoff) ELSE 0]
    /\ upgrade' = [upgrade EXCEPT !.wait = Less(@, 1)]
    /\ UNCHANGED <<task, touched, dbFailed, budget>>

\* The load of the next start may fail: the page has an empty list, which is not saved.
Crash ==
    /\ \/ Spend("crash") /\ ui' = UiStart(db)
       \/ Spend("db") /\ ui' = UiStart(NoList)
    /\ loop' = LoopStart
    /\ task' = [a \in Actors |-> NoTask]
    /\ upgrade' = [upgrade EXCEPT !.pc = "check", !.tries = 0, !.wait = 0, !.shown = FALSE]
    /\ touched' = FALSE
    /\ UNCHANGED db

LoopStep == RoundBegin \/ RoundPick \/ RoundResult \/ PatchRead \/ PatchWrite \/ RoundEmit
            \/ RoundSleep \/ RoundWake
UpgradeStep == UpgradeCheck \/ UpgradeAttempt \/ UpgradeResult \/ UpgradeRetry
TaskStep(a) == Fetch(a) \/ InfoRead(a) \/ InfoWrite(a)
UiStep == UiSave \/ UiLoad \/ UiAssign \/ UserResult

Next ==
    \/ LoopStep \/ UpgradeStep \/ UpgradeTimeout \/ UiStep \/ UiEdit \/ UserRefresh
    \/ \E a \in Actors : TaskStep(a)
    \/ Tick \/ Crash

Spec == Init /\ [][Next]_vars

\* The runtime keeps polling its tasks, every request has a timeout, the
\* frontend handles its events, and the clock goes on.
Fairness ==
    /\ WF_vars(LoopStep) /\ WF_vars(UpgradeStep) /\ WF_vars(UiStep) /\ WF_vars(Tick)
    /\ \A a \in Actors : WF_vars(TaskStep(a))
FairSpec == Spec /\ Fairness

----------------------------------------------------------------------------
(* Properties                                                               *)

Records == [kind : {"sub"}, interval : Intervals, tried : BOOLEAN, since : 0..Never,
            backoff : 0..MaxBackoff, fails : 0..MaxFails, quota : {"new", "none"}]
Lists == [Subs -> Records \cup {Gone}]

\* No copy of the list, however old, holds an age, a backoff or a failure
\* count that no run of the rules produces; an attempt has been dated.
TypeOK ==
    /\ db \in Lists /\ ui.list \in Lists /\ ui.read \in Lists /\ loop.copy \in Lists
    /\ \A s \in Present(db) : db[s].tried => db[s].since # Never
    /\ loop.due \subseteq Present(loop.seen) /\ loop.sleep \in 0..MaxAge
    /\ \A a \in Actors : task[a].copy \in Lists
    /\ upgrade.tries \in 0..Retries

\* "仅回写自动更新健康字段": a round whose save nobody's write has crossed
\* leaves every quota, interval and removal as it was, also those that its
\* own downloads, the user or the frontend wrote while it was downloading.
RoundWritesHealthOnly ==
    [][(PatchWrite /\ ~touched) =>
         \A s \in Subs : /\ (db[s] = Gone) = (db'[s] = Gone)
                         /\ db[s] # Gone => /\ db'[s].quota = db[s].quota
                                            /\ db'[s].interval = db[s].interval]_vars

\* A version is marked as launched only when the active subscription has been
\* refreshed under it, or there was none: a failed, cancelled or interrupted
\* refresh is tried again at the next launch.
UpgradeNotForgotten == upgrade.mark = "new" => upgrade.refreshed \/ upgrade.none

\* Every upgrade ends with the mark or with the event that asks the user to
\* refresh by hand, or with the database failing.
UpgradeSettles == <>[](\/ upgrade.mark = "new" \/ upgrade.shown \/ dbFailed)

\* As long as a subscription stays in the list with automatic updates on, it
\* is attempted again and again, whatever failures, backoffs, crashes and
\* stale lists saved by the frontend came before.
EverySubscriptionIsTried ==
    \A s \in Subs : []<>(\/ db[s] = Gone \/ db[s].interval = 0
                         \/ task["loop"].pc = "fetch" /\ task["loop"].sub = s)

\* The frontend's copy does not stay behind, whether it edited, saved, failed to save or
\* failed to load: as long as rounds keep finding the active configuration readable, the
\* copy agrees with the stored list again and again (auto_update.rs:304-307, SubStore.ts).
FrontendCatchesUp == []<>ui.told => []<>(ui.list = db)
=============================================================================
