------------------------------ MODULE Desktop ------------------------------
(***************************************************************************)
(* The desktop shell of one run of the application: the tray's state       *)
(* (tray/state.rs), the handlers of its menu and of the main window        *)
(* (tray/service.rs, lib.rs), and the page in that window as far as it     *)
(* talks to them (TrayStore.ts, WindowStore.ts, the boot sequence and the  *)
(* autosave of AppStore).                                                  *)
(*                                                                         *)
(* A tray command runs on a worker thread, one step per await.  The window *)
(* events, the menu's own handler and a second launch run on the main      *)
(* thread.  An event the backend emits reaches the listeners the page has  *)
(* registered at that moment, in order, and nobody else; a window that is  *)
(* destroyed takes its page, its timers and its undelivered events along,  *)
(* but not a save that is under way.                                       *)
(*                                                                         *)
(* Left out: what the tray merely displays (the kernel's flag, the name of *)
(* the subscription, language and icon); the platform is one with sudo.    *)
(***************************************************************************)
EXTENDS Naturals, Sequences

CONSTANTS
  Routes,        \* the pages besides the home page and the blank page
  HiddenStarts,  \* may this run be an autostart that hides the window?
  Behaviours,    \* the close behaviours that may be saved at the start
  Workers,       \* how many tray commands may overlap
  Budgets        \* bounds: what happens to the window, what is changed, what fails

BudgetKinds == {"window", "change", "fault"}

ASSUME DesktopAssumption ==
  /\ HiddenStarts \subseteq BOOLEAN
  /\ Behaviours \subseteq {"hide", "lightweight"}
  /\ Budgets \subseteq [BudgetKinds -> Nat]
  /\ "startup" \notin Workers
  /\ {"blank", "none"} \cap Routes = {}

Home  == "home"
Blank == "blank"
None  == "none"

AllRoutes == Routes \cup {Home}
Close == {"hide", "lightweight"}
Row == [proxy : BOOLEAN, tun : BOOLEAN, close : Close]

Actors == Workers \cup {"startup"}

VARIABLES
  row,       \* the saved AppConfig
  sent,      \* the row of an autosave that has not landed
  kernel,    \* whether it runs, and whether with TUN
  password,  \* the sudo password saved: none, bad or good
  tray,      \* TRAY_RUNTIME_STATE
  win,       \* the main window: none, hidden or shown
  page,      \* the page in it
  chan,      \* events emitted and not handled by the page
  job,       \* the tray commands, and the startup task
  closing,   \* the window's destruction: no, posted, or raced by a show
  quit,      \* the exit that was asked for: no, stop, exit
  app,       \* the process
  asked,     \* history: the user asked for an exit
  missed,    \* history: the page was not told of a change: an event came before it
             \* listened, or a command failed after it had saved the row
  left,      \* history: the route of the page that was closed last
  budget

vars == <<row, sent, kernel, password, tray, win, page, chan, job, closing, quit, app,
          asked, missed, left, budget>>
shell == <<tray, win, page, chan, missed, left>>
disk  == <<row, sent>>
saved == <<row, sent, kernel, password>>
exit  == <<closing, quit, app, asked>>

Off == [on |-> FALSE, tun |-> FALSE]
NoPayload == [proxy |-> FALSE, tun |-> FALSE, close |-> None, visible |-> FALSE]
NoRow == [proxy |-> FALSE, tun |-> FALSE, close |-> None]

NoPage ==
  [phase |-> None, ui |-> NoRow, visible |-> TRUE, route |-> Home, last |-> NoPayload,
   out |-> NoPayload,  \* the payload of the sync under way
   owed |-> FALSE,     \* history: a sync was dropped or failed, and none sent since
   apart |-> FALSE,    \* history: a load or a save failed or crossed, and none since
   sync |-> FALSE, save |-> FALSE, read |-> NoRow, blanking |-> FALSE, task |-> None]
NewPage == [NoPage EXCEPT !.phase = "load"]

NoJob == [step |-> "idle", what |-> None, to |-> FALSE, cfg |-> NoRow, new |-> FALSE]

Booting == page.phase \in {"load", "check", "listen"}
Listening == page.phase \in {"sync", "route", "toggle", "ready"}

Spend(what) == app /\ budget[what] > 0 /\ budget' = [budget EXCEPT ![what] = @ - 1]

Event(kind) == [kind |-> kind, path |-> Home]

\* app.emit: to the listeners of the page, if it has come that far.
Emit(events) ==
  /\ chan' = IF Listening THEN chan \o events ELSE chan
  /\ missed' = (missed \/ Booting)

(***************************************************************************)
(* The window (tray/service.rs:606-739).                                   *)
(***************************************************************************)

\* A show that comes before a destruction that is posted takes its keep-alive back.
Races == closing' = IF closing = "posted" THEN "raced" ELSE closing

\* Mutant: the route is not kept for the page the show creates.
ShownTrayForgets(recreated) ==
  [tray EXCEPT !.visible = TRUE, !.keepAlive = FALSE, !.allowExit = FALSE,
               !.pendingRoute = None]

\* The state show_main_window writes; a recreated window also queues the last route
\* for the page to fetch, an old one forgets it and is told by an event.
ShownTray(recreated) ==
  [tray EXCEPT !.visible = TRUE, !.keepAlive = FALSE, !.allowExit = FALSE,
               !.pendingRoute = IF recreated THEN tray.route ELSE None]

ShowEvents(recreated) ==
  <<Event("show")>> \o IF recreated THEN << >>
                       ELSE <<[kind |-> "nav", path |-> tray.route]>>

\* ensure_main_window, then show.
Window(recreated) ==
  /\ win' = "shown"
  /\ page' = IF recreated THEN NewPage ELSE page

\* A second show while the page starts makes it forget where to return to.
Returns(recreated) ==
  left' = IF Booting \/ page.phase \in {"sync", "route"} THEN None ELSE left

\* The left click on the tray icon, the menu's first entry, a second launch.
Show ==
  /\ Spend("window")
  /\ LET recreated == win = None
     IN  /\ Window(recreated)
         /\ tray' = ShownTray(recreated)
         /\ Emit(ShowEvents(recreated))
         /\ Returns(recreated)
  /\ Races
  /\ UNCHANGED <<saved, job, quit, app, asked>>

\* Mutant: the application is not kept alive without its window.
DestroyedTrayUnkept ==
  [tray EXCEPT !.visible = FALSE, !.allowExit = FALSE, !.pendingRoute = tray.route]

\* apply_destroy_window_state.
DestroyedTray ==
  [tray EXCEPT !.visible = FALSE, !.keepAlive = TRUE, !.allowExit = FALSE,
               !.pendingRoute = tray.route]

\* should_prevent_exit.
Prevented(t) == t.keepAlive /\ ~t.allowExit

\* close_main_window, from the title bar, Alt+F4 or the system.
CloseHides ==
  /\ Spend("window") /\ win # None /\ tray.close = "hide"
  /\ win' = "hidden"
  /\ tray' = [tray EXCEPT !.visible = FALSE, !.allowExit = FALSE]
  /\ Emit(<<Event("hide")>>)
  /\ UNCHANGED <<page, left, saved, job, exit>>

\* destroy_main_window_for_tray: the state is written, the destruction only posted.
CloseDestroys ==
  /\ Spend("window") /\ win # None /\ tray.close = "lightweight"
  /\ tray' = DestroyedTray /\ closing' = "posted"
  /\ left' = IF page.phase = "ready" /\ page.route # Blank THEN page.route ELSE None
  /\ UNCHANGED <<win, page, chan, missed, saved, job, quit, app, asked>>

\* The event loop takes the destruction: the window goes, and with the last window the
\* application unless that is prevented (lib.rs:320-329).
WindowGoes ==
  /\ closing # "no" /\ win # None
  /\ win' = None /\ page' = NoPage /\ chan' = << >>
  /\ app' = Prevented(tray) /\ closing' = IF app' THEN "no" ELSE closing
  /\ left' = IF closing = "posted" /\ page.phase = "ready" /\ page.route = left
               THEN left ELSE None
  /\ UNCHANGED <<tray, missed, saved, job, quit, asked>>

(***************************************************************************)
(* The tray's commands (tray/service.rs:456-514, 741-966).                 *)
(***************************************************************************)

Goto(a, step) == job' = [job EXCEPT ![a].step = step]

\* sudo_password_status: a password is saved, whether or not it is still the right one.
HasSaved == password # None

\* sudo_set_password: one that sudo does not accept is never saved.
SetPassword == password' = "good"

\* load_validated_saved_password: every privileged start asks sudo again, and a password
\* it refuses is deleted.
Revoked == IF password = "bad" THEN None ELSE password

\* spawn_kernel_with_saved_password: with TUN the kernel comes up with a valid password only.
Elevates == row.tun => password = "good"

\* The kernel is stopped and started with the saved row, or does not come up again: the
\* start may fail before it asks sudo, or there.
Restarts == Elevates /\ kernel' = [kernel EXCEPT !.tun = row.tun] /\ UNCHANGED password

StaysDown ==
  /\ kernel' = Off
  /\ \/ UNCHANGED password
     \/ row.tun /\ password' = Revoked

\* The menu toggles what the tray believes, not what is saved.
ClickToggle(a) ==
  /\ Spend("change") /\ job[a].step = "idle"
  /\ \E what \in {"proxy", "tun"} :
       job' = [job EXCEPT ![a] =
                 [NoJob EXCEPT !.step = IF what = "tun" THEN "gate" ELSE "read",
                               !.what = what, !.to = ~tray[what]]]
  /\ UNCHANGED <<shell, saved, exit>>

ClickRestart(a) ==
  /\ Spend("change") /\ job[a].step = "idle"
  /\ \/ kernel.on /\ Goto(a, "fetch") /\ (Restarts \/ StaysDown)
     \/ ~kernel.on /\ UNCHANGED <<kernel, job, password>>
  /\ UNCHANGED <<shell, disk, exit>>

\* TUN is only switched on under a running kernel when sudo will not have to ask.
JobGate(a) ==
  /\ job[a].step = "gate"
  /\ Goto(a, IF job[a].to /\ kernel.on /\ ~HasSaved THEN "queue" ELSE "read")
  /\ UNCHANGED <<shell, saved, exit>>

JobRead(a) ==
  /\ job[a].step = "read"
  /\ job' = [job EXCEPT ![a].step = "save", ![a].cfg = [row EXCEPT ![job[a].what] = job[a].to]]
  /\ UNCHANGED <<shell, saved, exit>>

JobSave(a) ==
  /\ job[a].step = "save"
  /\ row' = job[a].cfg
  /\ Goto(a, "apply")
  /\ UNCHANGED <<shell, sent, kernel, password, exit>>

\* apply_runtime_change, which reads the row again: TUN restarts the kernel, the
\* system proxy is switched in place.  A failure ends the command, except that an
\* unusable password passes the wish on to the page.
JobApply(a) ==
  /\ job[a].step = "apply"
  /\ LET tun == job[a].what = "tun"
     IN  \/ /\ Goto(a, "fetch")
            /\ IF tun /\ kernel.on THEN Restarts ELSE UNCHANGED <<kernel, password>>
            /\ UNCHANGED missed
         \/ /\ kernel.on /\ missed' = TRUE
            /\ \E next \in {"idle", "queue"} :
                 /\ next = "queue" => tun /\ job[a].to /\ row.tun /\ password # "good"
                 /\ Goto(a, next)
            /\ \/ UNCHANGED <<kernel, password>>
               \/ tun /\ StaysDown
  /\ UNCHANGED <<disk, tray, win, page, chan, left, exit>>

\* refresh_runtime_state_from_backend: the row is read, the process is probed, and
\* only then is the tray's state written and the page told.
JobFetch(a) ==
  /\ job[a].step = "fetch"
  /\ job' = [job EXCEPT ![a].step = "publish", ![a].cfg = row]
  /\ UNCHANGED <<shell, saved, exit>>

AfterPublish(a) ==
  IF job[a].what = "light" THEN [job[a] EXCEPT !.step = "enter"] ELSE NoJob

JobPublish(a) ==
  /\ job[a].step = "publish"
  /\ tray' = [tray EXCEPT !.proxy = job[a].cfg.proxy, !.tun = job[a].cfg.tun,
                          !.close = job[a].cfg.close]
  /\ Emit(<<Event("updated")>>)
  /\ job' = [job EXCEPT ![a] = AfterPublish(a)]
  /\ UNCHANGED <<win, page, left, saved, exit>>

\* queue_proxy_toggle_for_frontend: without a window the wish is kept for the page that
\* the show below starts, otherwise the page is told by an event.
JobQueue(a) ==
  /\ job[a].step = "queue"
  /\ tray' = IF win = None THEN [tray EXCEPT !.toggle = TRUE] ELSE tray
  /\ job' = [job EXCEPT ![a].step = "show", ![a].to = (win # None)]
  /\ UNCHANGED <<win, page, chan, missed, left, saved, exit>>

\* show_main_window on the worker: the window first, the state and the events later.
JobShow(a) ==
  /\ job[a].step = "show"
  /\ Window(win = None)
  /\ job' = [job EXCEPT ![a].step = "mark", ![a].new = (win = None)]
  /\ UNCHANGED <<tray, chan, missed, left, saved, exit>>

JobMark(a) ==
  /\ job[a].step = "mark"
  /\ tray' = ShownTray(job[a].new)
  /\ Emit(ShowEvents(job[a].new) \o IF job[a].to THEN <<Event("switch")>> ELSE << >>)
  /\ left' = None /\ Races
  /\ job' = [job EXCEPT ![a] = NoJob]
  /\ UNCHANGED <<win, page, saved, quit, app, asked>>

\* The startup task of a lightweight autostart has the hidden window destroyed, and
\* publishes once more (lib.rs:212-224).
StartupEnter ==
  /\ job["startup"].step = "enter"
  /\ IF win = None
       THEN Goto("startup", "idle") /\ UNCHANGED <<tray, left, closing>>
       ELSE /\ tray' = DestroyedTray /\ closing' = "posted" /\ left' = None
            /\ job' = [job EXCEPT !["startup"] =
                         [NoJob EXCEPT !.step = "fetch", !.what = "startup"]]
  /\ UNCHANGED <<win, page, chan, missed, saved, quit, app, asked>>

\* request_app_exit: the kernel is stopped for at most four seconds, then the
\* application exits whatever came of it.
ClickQuit ==
  /\ Spend("window") /\ quit = "no"
  /\ quit' = "stop" /\ asked' = TRUE
  /\ tray' = [tray EXCEPT !.allowExit = TRUE, !.keepAlive = FALSE]
  /\ UNCHANGED <<win, page, chan, missed, left, saved, job, closing, app>>

QuitStops ==
  /\ app /\ quit = "stop" /\ quit' = "exit"
  /\ kernel' \in {Off, kernel}
  /\ UNCHANGED <<shell, disk, password, job, closing, app, asked, budget>>

QuitExits ==
  /\ app /\ quit = "exit" /\ quit' = "no"
  /\ app' = Prevented(tray)
  /\ UNCHANGED <<shell, saved, job, closing, asked, budget>>

(***************************************************************************)
(* The page.  Its boot: useAppBootstrap.ts:176-209 and initTray.           *)
(***************************************************************************)

Payload(p) ==
  [proxy |-> p.ui.proxy, tun |-> p.ui.tun, close |-> p.ui.close, visible |-> p.visible]

\* apply_sync_payload.
Synced(t, payload) ==
  [t EXCEPT !.proxy = payload.proxy, !.tun = payload.tun, !.close = payload.close,
            !.visible = payload.visible]

\* scheduleSync(true): the timer of an ordinary sync is dropped, and the sync too when
\* one is under way.
ForceSync(p, t) ==
  /\ page' = IF p.out = NoPayload
                THEN [p EXCEPT !.out = Payload(p), !.owed = FALSE, !.sync = FALSE]
                ELSE [p EXCEPT !.owed = (Payload(p) # p.out), !.sync = FALSE]
  /\ tray' = t

\* The watchers of the mirrored values, and the autosave's.
Watched(p) ==
  [p EXCEPT !.sync = @ \/ p.phase \in {"sync", "route", "toggle", "ready"},
            !.save = @ \/ p.ui # page.ui]

\* The route watcher tells the tray of every page but the blank one.
Routed(p, t) == IF p.route = Blank THEN t ELSE [t EXCEPT !.route = p.route]

BootLoad ==
  /\ page.phase = "load"
  /\ page' = [page EXCEPT !.phase = "check", !.ui = row, !.apart = (sent # NoRow)]
  /\ UNCHANGED <<tray, win, chan, missed, left, saved, job, exit>>

\* A load that fails is swallowed: the page goes on with the store's defaults.
BootLoadFails ==
  /\ Spend("fault") /\ page.phase = "load"
  /\ page' = [page EXCEPT !.phase = "check", !.apart = TRUE,
                          !.ui = [proxy |-> FALSE, tun |-> FALSE, close |-> "hide"]]
  /\ UNCHANGED <<tray, win, chan, missed, left, saved, job, exit>>

\* checkInitialWindowState.
BootCheck ==
  /\ page.phase = "check"
  /\ page' = [page EXCEPT !.phase = "listen", !.visible = (win = "shown"),
                          !.route = IF win = "shown" THEN @ ELSE Blank]
  /\ UNCHANGED <<tray, win, chan, missed, left, saved, job, exit>>

\* The listeners; the route watcher reports the page it finds.
BootListen ==
  /\ page.phase = "listen"
  /\ page' = [page EXCEPT !.phase = "sync"]
  /\ tray' = Routed(page, tray)
  /\ UNCHANGED <<win, chan, missed, left, saved, job, exit>>

BootSync ==
  /\ page.phase = "sync"
  /\ ForceSync([page EXCEPT !.phase = "route"], tray)
  /\ UNCHANGED <<win, chan, missed, left, saved, job, exit>>

\* The route is asked for when the sync has come back.
BootRoute ==
  /\ page.phase = "route" /\ page.out = NoPayload
  /\ LET p == [page EXCEPT !.phase = "toggle",
                           !.route = IF tray.pendingRoute = None THEN @ ELSE tray.pendingRoute]
         t == [tray EXCEPT !.pendingRoute = None]
     IN  IF tray.pendingRoute = None
           THEN page' = p /\ tray' = t
           ELSE ForceSync(p, Routed(p, t))
  /\ UNCHANGED <<win, chan, missed, left, saved, job, exit>>

\* applyTunToggleFromTray(true), the only wish the backend passes on.
SwitchTun(p, t) ==
  IF p.ui.tun
    THEN page' = p /\ tray' = t /\ UNCHANGED win
    ELSE IF kernel.on /\ ~HasSaved
    THEN /\ page' = Watched([p EXCEPT !.task = "ask", !.visible = TRUE, !.route = Home])
         /\ tray' = [t EXCEPT !.route = Home]
         /\ win' = "shown"
    ELSE /\ page' = Watched([p EXCEPT !.ui.tun = TRUE, !.task = "save"])
         /\ tray' = t /\ UNCHANGED win

BootToggle ==
  /\ page.phase = "toggle" /\ page.task = None
  /\ LET p == [page EXCEPT !.phase = "ready"]
         t == [tray EXCEPT !.toggle = FALSE]
     IN  IF tray.toggle THEN SwitchTun(p, t)
         ELSE page' = p /\ tray' = t /\ UNCHANGED win
  /\ UNCHANGED <<chan, missed, left, saved, job, exit>>

(***************************************************************************)
(* The page's timers and handlers.  A handler runs up to its first await   *)
(* before the next event is taken.                                         *)
(***************************************************************************)

\* scheduleSync's 150 ms: skipped when the payload is the one sent last.
SyncFires ==
  /\ page.sync
  /\ IF page.out = NoPayload /\ Payload(page) = page.last
       THEN page' = [page EXCEPT !.sync = FALSE] /\ UNCHANGED tray
       ELSE ForceSync(page, tray)
  /\ UNCHANGED <<win, chan, missed, left, saved, job, exit>>

\* tray_sync_state, which runs on the main thread.
SyncLands ==
  /\ page.out # NoPayload
  /\ tray' = Synced(tray, page.out)
  /\ page' = [page EXCEPT !.last = page.out, !.out = NoPayload]
  /\ UNCHANGED <<win, chan, missed, left, saved, job, exit>>

\* It fails before or after it has written the tray's state; the page swallows that.
SyncFails ==
  /\ Spend("fault") /\ page.out # NoPayload
  /\ tray' \in {tray, Synced(tray, page.out)}
  /\ page' = [page EXCEPT !.out = NoPayload, !.owed = TRUE]
  /\ UNCHANGED <<win, chan, missed, left, saved, job, exit>>

\* The autosave's 300 ms: the whole row is sent.  Of two saves under way either may
\* land first.
SaveFires ==
  /\ page.save
  /\ \E crossed \in BOOLEAN :
       /\ crossed => sent # NoRow
       /\ page' = [page EXCEPT !.save = FALSE, !.apart = crossed]
       /\ IF crossed THEN row' = page.ui /\ UNCHANGED sent
          ELSE sent' = page.ui /\ row' = IF sent = NoRow THEN row ELSE sent
  /\ UNCHANGED <<tray, win, chan, missed, left, kernel, password, job, exit>>

SaveLands ==
  /\ sent # NoRow
  /\ row' = sent /\ sent' = NoRow
  /\ UNCHANGED <<shell, kernel, password, job, exit>>

\* A save that fails is swallowed.
SaveFails ==
  /\ Spend("fault") /\ sent # NoRow
  /\ sent' = NoRow
  /\ page' = IF win = None THEN page ELSE [page EXCEPT !.apart = TRUE]
  /\ UNCHANGED <<tray, win, chan, missed, left, row, kernel, password, job, exit>>

Taken(kind) == Listening /\ chan # << >> /\ Head(chan).kind = kind /\ chan' = Tail(chan)

OnShow ==
  /\ Taken("show")
  /\ win' = "shown"
  /\ page' = IF page.visible THEN page ELSE Watched([page EXCEPT !.visible = TRUE])
  /\ UNCHANGED <<tray, missed, left, saved, job, exit>>

OnNavigate ==
  /\ Taken("nav")
  /\ LET p == [page EXCEPT !.route = Head(chan).path]
     IN  ForceSync(p, Routed(p, tray))
  /\ UNCHANGED <<win, missed, left, saved, job, exit>>

\* hideWindow: the window is hidden once more, the size is saved, and only then does
\* the page go blank.
OnHide ==
  /\ Taken("hide") /\ ~page.blanking
  /\ win' = "hidden"
  /\ page' = Watched([page EXCEPT !.visible = FALSE, !.blanking = TRUE])
  /\ UNCHANGED <<tray, missed, left, saved, job, exit>>

GoBlank ==
  /\ page.blanking
  /\ ForceSync([page EXCEPT !.blanking = FALSE, !.route = Blank], tray)
  /\ UNCHANGED <<win, chan, missed, left, saved, job, exit>>

\* Mutant: the page does not read the row again.
OnUpdatedIgnored ==
  /\ Taken("updated") /\ page.read = NoRow
  /\ UNCHANGED <<page, tray, win, missed, left, saved, job, exit>>

\* tray-runtime-state-updated: the row is loaded, then the tray synced by force.
OnUpdated ==
  /\ Taken("updated") /\ page.read = NoRow
  /\ page' = [page EXCEPT !.read = row]
  /\ UNCHANGED <<tray, win, missed, left, saved, job, exit>>

Loaded ==
  /\ page.read # NoRow
  /\ LET current == sent = NoRow /\ page.read = row
     IN  ForceSync(Watched([page EXCEPT !.ui = page.read, !.read = NoRow,
                                        !.apart = @ /\ ~current]), tray)
  /\ UNCHANGED <<win, chan, missed, left, saved, job, exit>>

\* The load fails, and the page's old copy is synced.
LoadFails ==
  /\ Spend("fault") /\ page.read # NoRow
  /\ ForceSync([page EXCEPT !.read = NoRow, !.apart = TRUE], tray)
  /\ UNCHANGED <<win, chan, missed, left, saved, job, exit>>

OnSwitch ==
  /\ Taken("switch") /\ page.task = None
  /\ SwitchTun(page, tray)
  /\ UNCHANGED <<missed, left, saved, job, exit>>

\* The password dialog: a password is checked before it is kept, or there is none.
TaskAnswered ==
  /\ page.task = "ask"
  /\ \/ /\ SetPassword
        /\ page' = Watched([page EXCEPT !.ui.tun = TRUE, !.task = "save"]) /\ UNCHANGED tray
     \/ ForceSync([page EXCEPT !.task = None], tray) /\ UNCHANGED password
  /\ UNCHANGED <<win, chan, missed, left, disk, kernel, job, exit>>

RollBack == ForceSync(Watched([page EXCEPT !.ui.tun = FALSE, !.task = None]), tray)

\* waitForSaveCompletion, applyProxySettings and restartKernel; a bad password is asked
\* for once more, any other failure takes the switch back.
TaskApplied ==
  /\ page.task = "save" /\ ~page.save /\ sent = NoRow
  /\ \/ /\ ~kernel.on /\ ForceSync([page EXCEPT !.task = None], tray)
        /\ UNCHANGED <<win, kernel, password>>
     \/ /\ kernel.on /\ Restarts
        /\ page' = [page EXCEPT !.task = None] /\ UNCHANGED <<tray, win>>
     \/ /\ kernel.on /\ password # "good" /\ kernel' = Off /\ password' = Revoked
        /\ win' = "shown"
        /\ page' = Watched([page EXCEPT !.task = "again", !.visible = TRUE, !.route = Home])
        /\ tray' = [tray EXCEPT !.route = Home]
     \/ StaysDown /\ RollBack /\ UNCHANGED win
  /\ UNCHANGED <<chan, missed, left, disk, job, exit>>

TaskAgain ==
  /\ page.task = "again"
  /\ \/ /\ SetPassword
        /\ \/ /\ kernel.on /\ kernel' = [kernel EXCEPT !.tun = row.tun]
              /\ page' = [page EXCEPT !.task = None] /\ UNCHANGED tray
           \/ RollBack /\ kernel' \in {Off, kernel}
     \/ RollBack /\ UNCHANGED <<password, kernel>>
  /\ UNCHANGED <<win, chan, missed, left, disk, job, exit>>

\* The user on the page: a route, the proxy switch, the close behaviour.
Navigate ==
  /\ Spend("window") /\ page.phase = "ready" /\ win = "shown"
  /\ \E r \in AllRoutes \ {page.route} :
       LET p == [page EXCEPT !.route = r] IN page' = p /\ tray' = Routed(p, tray)
  /\ UNCHANGED <<win, chan, missed, left, saved, job, exit>>

EditProxy ==
  /\ Spend("change") /\ page.phase = "ready" /\ win = "shown"
  /\ page' = Watched([page EXCEPT !.ui.proxy = ~@])
  /\ UNCHANGED <<tray, win, chan, missed, left, saved, job, exit>>

EditClose ==
  /\ Spend("change") /\ page.phase = "ready" /\ win = "shown"
  /\ \E c \in Close \ {page.ui.close} :
       ForceSync(Watched([page EXCEPT !.ui.close = c]), tray)
  /\ UNCHANGED <<win, chan, missed, left, saved, job, exit>>

\* A start, a stop or a crash from elsewhere.
KernelSwitches ==
  /\ Spend("change")
  /\ \/ kernel.on /\ kernel' = Off /\ UNCHANGED password
     \/ ~kernel.on /\ Elevates /\ kernel' = [on |-> TRUE, tun |-> row.tun] /\ UNCHANGED password
     \/ ~kernel.on /\ StaysDown
  /\ UNCHANGED <<shell, disk, job, exit>>

-----------------------------------------------------------------------------

\* apply_startup_preferences over the defaults; the preferences file holds the saved
\* close behaviour.
Init ==
  /\ row \in [proxy : {FALSE}, tun : {FALSE}, close : Behaviours]
  /\ kernel = Off
  /\ password \in {None, "bad"}
  /\ \E hidden \in HiddenStarts :
       /\ tray = [proxy |-> FALSE, tun |-> FALSE, close |-> row.close, visible |-> ~hidden,
                  route |-> Home, pendingRoute |-> None, toggle |-> FALSE,
                  keepAlive |-> FALSE, allowExit |-> FALSE]
       /\ win = IF hidden THEN "hidden" ELSE "shown"
       /\ job = [a \in Actors |->
                   IF a # "startup" THEN NoJob
                   ELSE [NoJob EXCEPT !.step = "fetch",
                           !.what = IF hidden /\ row.close = "lightweight"
                                      THEN "light" ELSE "startup"]]
  /\ page = NewPage /\ chan = << >> /\ sent = NoRow
  /\ closing = "no" /\ quit = "no" /\ app = TRUE
  /\ asked = FALSE /\ missed = FALSE /\ left = None
  /\ budget \in Budgets

User ==
  \/ Show \/ CloseHides \/ CloseDestroys \/ ClickQuit \/ KernelSwitches
  \/ Navigate \/ EditProxy \/ EditClose
  \/ \E a \in Workers : ClickToggle(a) \/ ClickRestart(a)

Job(a) ==
  \/ JobGate(a) \/ JobRead(a) \/ JobSave(a) \/ JobApply(a) \/ JobFetch(a) \/ JobPublish(a)
  \/ JobQueue(a) \/ JobShow(a) \/ JobMark(a)

Boot == BootLoad \/ BootCheck \/ BootListen \/ BootSync \/ BootRoute \/ BootToggle
Timer == SyncFires \/ SaveFires
Answer == SyncLands \/ SaveLands
Fault == SyncFails \/ SaveFails \/ BootLoadFails \/ LoadFails
Handler ==
  \/ OnShow \/ OnNavigate \/ OnHide \/ GoBlank \/ OnUpdated \/ Loaded \/ OnSwitch
  \/ TaskAnswered \/ TaskApplied \/ TaskAgain

Shell == StartupEnter \/ WindowGoes
Quit == QuitStops \/ QuitExits
Background == (\E a \in Actors : Job(a)) \/ Shell \/ Boot \/ Timer \/ Answer \/ Handler

Next == User \/ Fault \/ Quit \/ (app /\ Background /\ UNCHANGED budget)

Spec == Init /\ [][Next]_vars

\* The task of the exit is polled, and the stop in it is cut off after four seconds.
FairSpec == Spec /\ WF_vars(Quit)

-----------------------------------------------------------------------------
(* Properties. *)

\* Every variable keeps its shape; a window has a page and a page a window; the tray
\* never remembers the blank page as the one to return to (service.rs, TrayStore.ts).
TypeOK ==
  /\ row \in Row /\ sent \in Row \cup {NoRow} /\ password \in {None, "bad", "good"}
  /\ kernel \in [on : BOOLEAN, tun : BOOLEAN]
  /\ tray \in [proxy : BOOLEAN, tun : BOOLEAN, close : Close, visible : BOOLEAN,
               route : AllRoutes, pendingRoute : AllRoutes \cup {None}, toggle : BOOLEAN,
               keepAlive : BOOLEAN, allowExit : BOOLEAN]
  /\ win \in {None, "hidden", "shown"} /\ (win = None <=> page.phase = None)
  /\ page.ui \in Row \cup {NoRow} /\ page.route \in AllRoutes \cup {Blank}
  /\ \A i \in 1..Len(chan) : chan[i].kind \in {"show", "hide", "nav", "updated", "switch"}
  /\ \A a \in Actors : job[a].cfg \in Row \cup {NoRow}
  /\ quit \in {"no", "stop", "exit"} /\ closing \in {"no", "posted", "raced"}

\* Nothing is under way: no command, no boot, no event, no timer, no answer, no dialog.
Settled ==
  /\ app /\ quit = "no" /\ closing = "no" /\ \A a \in Actors : job[a].step = "idle"
  /\ page.phase = "ready" /\ chan = << >> /\ sent = NoRow
  /\ page.read = NoRow /\ page.out = NoPayload /\ page.task = None
  /\ ~page.sync /\ ~page.save /\ ~page.blanking

Shows(t, p) ==
  /\ <<t.proxy, t.tun, t.close>> = <<p.ui.proxy, p.ui.tun, p.ui.close>>
  /\ t.visible = p.visible

\* Whatever the tray, the page and its autosave wrote over one another: once nothing is
\* under way, the page shows the saved row and knows whether its window is shown, and the
\* tray's menu shows what the page shows (service.rs:772-940, TrayStore.ts,
\* persistence.ts).  Excepted are the runs in which the page was not told; a page whose
\* load or save failed or crossed another, until it saves or loads the row again; and a
\* tray whose sync was dropped or failed, until the page sends the next.
ShellAgrees ==
  Settled /\ ~missed =>
    /\ page.apart \/ page.ui = row
    /\ page.owed \/ Shows(tray, page)
    /\ page.visible = (win = "shown")

\* Without the last two exceptions: does not hold.
ShellAlwaysAgrees ==
  Settled /\ ~missed => page.ui = row /\ Shows(tray, page)

\* Closing the window never ends the application (service.rs:254-262, 720-739): it ends
\* after an exit was asked for, or when a show overtakes the destruction of the window
\* that a lightweight close or autostart has posted.
OnlyQuitExits == ~app => asked \/ closing = "raced"

\* Without the second exception: does not hold.
ClosingKeepsRunning == ~app => asked

\* A window destroyed by a lightweight close comes back on the page it was closed on,
\* unless a second show, or the destruction that a lightweight autostart ends with,
\* overtakes the start of its page (service.rs:640-678, lib.rs:212-224).
RouteReturns ==
  [][page.phase = "route" /\ page'.phase = "toggle" /\ left # None => page'.route = left]_vars

\* "托盘“退出”仍能正常停止内核并彻底退出" (docs/CHANGELOG.md:120): the tray's exit ends the
\* application (service.rs:741-762).
QuitEnds == quit = "stop" ~> ~app
=============================================================================
