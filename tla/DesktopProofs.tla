--------------------------- MODULE DesktopProofs ---------------------------
(***************************************************************************)
(* The shell's three properties, for any routes, workers and budget.       *)
(*                                                                         *)
(* ShellAgrees speaks of a state in which nothing is under way.  IInv says *)
(* for every disagreement on the way there what will repair it:            *)
(*   RowInv      the page and the saved row differ only while a command is *)
(*               about to publish, the page has been told, has read, or    *)
(*               has a save due or under way; a save under way brings what *)
(*               the page shows, or another is due;                        *)
(*   TrayInv     a sync under way brings what the page shows, or another   *)
(*               is due; the tray and what the page sent it last differ    *)
(*               only while the page has been told of a change or has read *)
(*               the row;                                                  *)
(*   WindowInv   the page and the window differ only while an event is     *)
(*               queued or a command has yet to write the tray's state;    *)
(*   VisibleInv  the tray and what the page sent it last differ only while *)
(*               a sync or the window's destruction is under way, the last *)
(*               of the queued events says what the tray says, or the page *)
(*               is about to go blank.                                     *)
(* RowInv leaves out a page whose load or save failed or crossed, TrayInv  *)
(* and VisibleInv a tray that is owed a sync.                              *)
(* RouteInv and ExitInv are the invariants of the other two properties.    *)
(***************************************************************************)
EXTENDS Desktop, TLAPS

Phases == {None, "load", "check", "listen", "sync", "route", "toggle", "ready"}
Kinds  == {"show", "hide", "nav", "updated", "switch"}
Events == [kind : Kinds, path : AllRoutes]

\* The types that the other invariants need.  A page that has loaded nothing saves nothing.
PageTyped ==
  /\ DOMAIN page = {"phase", "ui", "visible", "route", "last", "out", "owed", "apart", "sync", "save",
                    "read", "blanking", "task"}
  /\ page.phase \in Phases /\ (win = None <=> page.phase = None)
  /\ page.phase \notin {None, "load"} => page.ui \in Row
  /\ page.read \in Row \cup {NoRow}
  /\ page.route \in AllRoutes \cup {Blank} /\ page.visible \in BOOLEAN
  /\ page.phase \in {None, "load"} => /\ ~page.save /\ page.read = NoRow /\ page.task = None
                                     /\ ~page.sync /\ ~page.blanking

TrayTyped ==
  /\ DOMAIN tray = {"proxy", "tun", "close", "visible", "route", "pendingRoute", "toggle", "keepAlive", "allowExit"}
  /\ tray.route \in AllRoutes /\ tray.pendingRoute \in AllRoutes \cup {None}

ChanTyped == chan \in Seq(Events) /\ (chan # << >> => Listening)

JobTyped ==
  /\ DOMAIN job = Actors
  /\ \A a \in Actors : /\ DOMAIN job[a] = {"step", "what", "to", "cfg", "new"}
                       /\ job[a].step \in {"save", "publish"} => job[a].cfg \in Row
                       /\ job[a].step \in {"gate", "read"} => job[a].what \in {"proxy", "tun"} /\ job[a].to \in BOOLEAN
                       /\ job[a].step = "mark" => job[a].new \in BOOLEAN

RowTyped == row \in Row /\ sent \in Row \cup {NoRow}

\* An event of these kinds is queued; the last show or hide in the queue is of this kind.
Has(c, kinds) == \E i \in DOMAIN c : c[i].kind \in kinds
Last(c, kind) == \E i \in DOMAIN c : /\ c[i].kind = kind
                                     /\ \A j \in DOMAIN c : j > i => c[j].kind \notin {"show", "hide"}
Mirrors(t, r) == t.proxy = r.proxy /\ t.tun = r.tun /\ t.close = r.close
JobIn(steps) == \E a \in Actors : job[a].step \in steps

Past == page.phase \in {"route", "toggle", "ready"}

RowInv ==
  ~page.apart /\ page.phase \notin {None, "load"} =>
    /\ sent # NoRow => page.save \/ sent = page.ui
    /\ ~missed => \/ page.ui = row \/ page.read = row \/ page.save \/ sent = page.ui
                  \/ Has(chan, {"updated"}) \/ JobIn({"apply", "fetch", "publish"})

TrayInv ==
  Past /\ ~page.owed =>
    IF page.out # NoPayload THEN page.sync \/ page.out = Payload(page)
    ELSE /\ Mirrors(tray, page.last) \/ page.read # NoRow \/ Has(chan, {"updated"})
         /\ page.sync \/ page.last = Payload(page)

WindowInv ==
  ~missed /\ (Listening \/ page.phase = "listen") =>
    (page.visible <=> win = "shown") \/ Has(chan, {"show", "hide"}) \/ JobIn({"mark"})

VisibleInv ==
  Past /\ ~page.owed =>
    \/ page.out # NoPayload \/ closing # "no"
    \/ tray.visible = page.last.visible \/ page.blanking
    \/ tray.visible = TRUE /\ Last(chan, "show")
    \/ tray.visible = FALSE /\ Last(chan, "hide")
    \/ ~Has(chan, {"show", "hide"}) /\ tray.visible = TRUE /\ page.visible = TRUE

RouteInv ==
  /\ Listening /\ page.route # Blank => tray.route = page.route
  /\ left # None =>
       /\ left # Blank
       /\ win = None => tray.route = left /\ tray.pendingRoute = left
       /\ page.phase \in {"load", "check", "listen", "sync", "route"} => tray.pendingRoute = left
       /\ closing = "posted" /\ win # None => page.phase = "ready" /\ tray.pendingRoute = left

ExitInv ==
  /\ quit # "no" => asked
  /\ ~app => asked \/ closing = "raced"
  /\ closing \in {"no", "posted", "raced"} /\ (app /\ win = None => closing = "no")
  /\ closing = "posted" => asked \/ (tray.keepAlive = TRUE /\ tray.allowExit = FALSE)

IInv == /\ PageTyped /\ TrayTyped /\ ChanTyped /\ JobTyped /\ RowTyped
        /\ RowInv /\ TrayInv /\ WindowInv /\ VisibleInv /\ RouteInv /\ ExitInv

(* What a step leaves alone. *)
SamePage(p, q, fields) ==
  /\ DOMAIN p = {"phase", "ui", "visible", "route", "last", "out", "owed", "apart", "sync", "save",
                 "read", "blanking", "task"}
  /\ "phase" \in fields \/ p.phase = q.phase
  /\ "ui" \in fields \/ p.ui = q.ui
  /\ "visible" \in fields \/ p.visible = q.visible
  /\ "route" \in fields \/ p.route = q.route
  /\ "last" \in fields \/ p.last = q.last
  /\ "out" \in fields \/ p.out = q.out
  /\ "owed" \in fields \/ p.owed = q.owed
  /\ "apart" \in fields \/ p.apart = q.apart
  /\ "sync" \in fields \/ p.sync = q.sync
  /\ "save" \in fields \/ p.save = q.save
  /\ "read" \in fields \/ p.read = q.read
  /\ "blanking" \in fields \/ p.blanking = q.blanking
  /\ "task" \in fields \/ p.task = q.task

SameTray(s, t, fields) ==
  /\ DOMAIN s = {"proxy", "tun", "close", "visible", "route", "pendingRoute", "toggle", "keepAlive", "allowExit"}
  /\ "proxy" \in fields \/ s.proxy = t.proxy
  /\ "tun" \in fields \/ s.tun = t.tun
  /\ "close" \in fields \/ s.close = t.close
  /\ "visible" \in fields \/ s.visible = t.visible
  /\ "route" \in fields \/ s.route = t.route
  /\ "pendingRoute" \in fields \/ s.pendingRoute = t.pendingRoute
  /\ "keepAlive" \in fields \/ s.keepAlive = t.keepAlive
  /\ "allowExit" \in fields \/ s.allowExit = t.allowExit

SameJob(a, fields) ==
  /\ DOMAIN job' = Actors /\ \A b \in Actors : b # a => job'[b] = job[b]
  /\ DOMAIN job'[a] = {"step", "what", "to", "cfg", "new"}
  /\ "step" \in fields \/ job'[a].step = job[a].step
  /\ "what" \in fields \/ job'[a].what = job[a].what
  /\ "to" \in fields \/ job'[a].to = job[a].to
  /\ "cfg" \in fields \/ job'[a].cfg = job[a].cfg
  /\ "new" \in fields \/ job'[a].new = job[a].new

\* A forced sync is under way, and brings what the page shows now unless one is owed.
Forced == page'.out # NoPayload /\ (page'.owed \/ page'.out = Payload(page'))

Saves == page'.save = (page.save \/ page'.ui # page.ui)
Syncs == page'.phase \in {"sync", "route", "toggle", "ready"} => page'.sync

\* A page that fetches its route gets the one it was closed on.
Returning == page.phase = "route" /\ page'.phase = "toggle" /\ left # None => page'.route = left
----------------------------------------------------------------------------
(* What the queue of events keeps when events are emitted and taken. *)

LEMMA Appending ==
  ASSUME NEW c \in Seq(Events), NEW e \in Seq(Events)
  PROVE  /\ c \o e \in Seq(Events)
         /\ \A kinds : Has(c \o e, kinds) <=> Has(c, kinds) \/ Has(e, kinds)
         /\ \A kind : Last(e, kind) => Last(c \o e, kind)
         /\ \A kind : Last(c, kind) /\ ~Has(e, {"show", "hide"}) => Last(c \o e, kind)
<1> DEFINE d == c \o e
<1>1. /\ Len(c) \in Nat /\ Len(e) \in Nat /\ d \in Seq(Events) /\ Len(d) = Len(c) + Len(e)
      /\ DOMAIN c = 1 .. Len(c) /\ DOMAIN e = 1 .. Len(e) /\ DOMAIN d = 1 .. Len(d)
  OBVIOUS
<1>2. /\ \A i \in 1 .. Len(c) : d[i] = c[i]
      /\ \A i \in 1 .. Len(e) : d[Len(c) + i] = e[i]
  OBVIOUS
<1>3. \A i \in 1 .. Len(d) : i \in 1 .. Len(c) \/ \E k \in 1 .. Len(e) : i = Len(c) + k
  <2>1. ASSUME NEW i \in 1 .. Len(d), i \notin 1 .. Len(c) PROVE i - Len(c) \in 1 .. Len(e) /\ i = Len(c) + (i - Len(c))
    BY <1>1, <2>1
  <2> QED
    BY <2>1
<1> HIDE DEF d
<1>4. \A kinds : Has(d, kinds) <=> Has(c, kinds) \/ Has(e, kinds)
  <2>1. ASSUME NEW kinds, Has(d, kinds) PROVE Has(c, kinds) \/ Has(e, kinds)
    <3>1. PICK i \in 1 .. Len(d) : d[i].kind \in kinds
      BY <1>1, <2>1 DEF Has
    <3> QED
      BY ZenonT(30), <1>1, <1>2, <1>3, <3>1 DEF Has
  <2>2. ASSUME NEW kinds, Has(c, kinds) PROVE Has(d, kinds)
    BY <1>1, <1>2, <2>2 DEF Has
  <2>3. ASSUME NEW kinds, Has(e, kinds) PROVE Has(d, kinds)
    <3>1. PICK k \in 1 .. Len(e) : e[k].kind \in kinds
      BY <1>1, <2>3 DEF Has
    <3>2. Len(c) + k \in DOMAIN d /\ d[Len(c) + k].kind \in kinds
      BY <1>1, <1>2, <3>1
    <3> QED
      BY <3>2 DEF Has
  <2> QED
    BY <2>1, <2>2, <2>3
<1>5. ASSUME NEW kind, Last(e, kind) PROVE Last(d, kind)
  <2>1. PICK k \in 1 .. Len(e) : /\ e[k].kind = kind
                               /\ \A j \in 1 .. Len(e) : j > k => e[j].kind \notin {"show", "hide"}
    BY <1>1, <1>5 DEF Last
  <2>2. Len(c) + k \in 1 .. Len(d) /\ d[Len(c) + k].kind = kind
    BY <1>1, <1>2, <2>1
  <2>3. ASSUME NEW j \in 1 .. Len(d), j > Len(c) + k PROVE d[j].kind \notin {"show", "hide"}
    <3>1. PICK i \in 1 .. Len(e) : j = Len(c) + i
      BY SMTT(30), <1>1, <1>3, <2>3
    <3> QED
      BY <1>1, <1>2, <2>1, <2>3, <3>1
  <2> QED
    BY <1>1, <2>2, <2>3 DEF Last
<1>6. ASSUME NEW kind, Last(c, kind), ~Has(e, {"show", "hide"}) PROVE Last(d, kind)
  <2>1. PICK k \in 1 .. Len(c) : /\ c[k].kind = kind
                               /\ \A j \in 1 .. Len(c) : j > k => c[j].kind \notin {"show", "hide"}
    BY <1>1, <1>6 DEF Last
  <2>2. k \in 1 .. Len(d) /\ d[k].kind = kind
    BY <1>1, <1>2, <2>1
  <2>3. ASSUME NEW j \in 1 .. Len(d), j > k PROVE d[j].kind \notin {"show", "hide"}
    BY ZenonT(30), <1>1, <1>2, <1>3, <1>6, <2>1, <2>3 DEF Has
  <2> QED
    BY <1>1, <2>2, <2>3 DEF Last
<1> QED
  BY <1>1, <1>4, <1>5, <1>6 DEF d

LEMMA Taking ==
  ASSUME NEW c \in Seq(Events), c # << >>
  PROVE  /\ Tail(c) \in Seq(Events) /\ Head(c) \in Events
         /\ \A kinds : Has(c, kinds) <=> Head(c).kind \in kinds \/ Has(Tail(c), kinds)
         /\ \A kind : Last(c, kind) => Last(Tail(c), kind) \/ (kind = Head(c).kind /\ ~Has(Tail(c), {"show", "hide"}))
<1> DEFINE t == Tail(c)
<1>1. /\ Len(c) \in Nat /\ Len(c) > 0 /\ t \in Seq(Events) /\ Len(t) = Len(c) - 1 /\ Head(c) = c[1] /\ Head(c) \in Events
      /\ DOMAIN c = 1 .. Len(c) /\ DOMAIN t = 1 .. Len(t)
  OBVIOUS
<1>2. \A i \in 1 .. Len(t) : t[i] = c[i + 1] /\ i + 1 \in 1 .. Len(c)
  OBVIOUS
<1>3. \A i \in 1 .. Len(c) : i = 1 \/ (i - 1 \in 1 .. Len(t) /\ c[i] = t[i - 1])
  BY <1>1, <1>2
<1> HIDE DEF t
<1>4. \A kinds : Has(c, kinds) <=> Head(c).kind \in kinds \/ Has(t, kinds)
  <2>1. ASSUME NEW kinds, Has(c, kinds) PROVE Head(c).kind \in kinds \/ Has(t, kinds)
    BY <1>1, <1>3, <2>1 DEF Has
  <2>2. ASSUME NEW kinds, Has(t, kinds) PROVE Has(c, kinds)
    BY <1>1, <1>2, <2>2 DEF Has
  <2>3. ASSUME NEW kinds, Head(c).kind \in kinds PROVE Has(c, kinds)
    BY <1>1, <2>3 DEF Has
  <2> QED
    BY <2>1, <2>2, <2>3
<1>5. ASSUME NEW kind, Last(c, kind) PROVE Last(t, kind) \/ (kind = Head(c).kind /\ ~Has(t, {"show", "hide"}))
  <2>1. PICK k \in 1 .. Len(c) : /\ c[k].kind = kind
                               /\ \A j \in 1 .. Len(c) : j > k => c[j].kind \notin {"show", "hide"}
    BY <1>1, <1>5 DEF Last
  <2>2. CASE k = 1
    <3>1. \A i \in 1 .. Len(t) : t[i].kind \notin {"show", "hide"}
      BY <1>1, <1>2, <2>1, <2>2
    <3> QED
      BY <1>1, <2>1, <2>2, <3>1 DEF Has
  <2>3. CASE k # 1
    <3>1. k - 1 \in 1 .. Len(t) /\ t[k - 1].kind = kind
      BY <1>3, <2>1, <2>3
    <3>2. ASSUME NEW j \in 1 .. Len(t), j > k - 1 PROVE t[j].kind \notin {"show", "hide"}
      <4>1. j + 1 > k
        BY <3>2
      <4> QED
        BY <1>1, <1>2, <2>1, <4>1
    <3>3. \A j \in DOMAIN t : j > k - 1 => t[j].kind \notin {"show", "hide"}
      BY <1>1, <3>2
    <3>4. k - 1 \in DOMAIN t
      BY <1>1, <3>1
    <3> QED
      BY <3>1, <3>3, <3>4 DEF Last
  <2> QED
    BY <2>2, <2>3
<1> QED
  BY <1>1, <1>4, <1>5 DEF t

LEMMA Shown ==
  ASSUME NEW recreated \in BOOLEAN, tray.route \in AllRoutes
  PROVE  /\ ShowEvents(recreated) \in Seq(Events)
         /\ Has(ShowEvents(recreated), {"show", "hide"}) /\ Last(ShowEvents(recreated), "show")
<1> DEFINE show == <<Event("show")>>
           nav  == IF recreated THEN << >> ELSE <<[kind |-> "nav", path |-> tray.route]>>
<1>1. Event("show") \in Events /\ [kind |-> "nav", path |-> tray.route] \in Events
  BY DEF Event, Events, Kinds, AllRoutes
<1>2. show \in Seq(Events) /\ Has(show, {"show", "hide"}) /\ Last(show, "show")
  BY <1>1 DEF Has, Last, Event
<1>3. nav \in Seq(Events) /\ ~Has(nav, {"show", "hide"})
  BY <1>1 DEF Has
<1>4. ShowEvents(recreated) = show \o nav
  BY DEF ShowEvents
<1> HIDE DEF show, nav
<1> QED
  BY <1>2, <1>3, <1>4, Appending

LEMMA Singles ==
  /\ \A kind \in Kinds : <<Event(kind)>> \in Seq(Events) /\ \A kinds : Has(<<Event(kind)>>, kinds) <=> kind \in kinds
  /\ Last(<<Event("hide")>>, "hide")
<1>1. \A kind \in Kinds : Event(kind) \in Events /\ Event(kind).kind = kind
  BY DEF Event, Events, Kinds, AllRoutes
<1> QED
  BY <1>1 DEF Has, Last, Kinds

LEMMA Marked ==
  ASSUME NEW recreated \in BOOLEAN, NEW to, tray.route \in AllRoutes
  PROVE  LET events == ShowEvents(recreated) \o IF to THEN <<Event("switch")>> ELSE << >>
         IN  events \in Seq(Events) /\ Has(events, {"show", "hide"}) /\ Last(events, "show")
<1> DEFINE switch == IF to THEN <<Event("switch")>> ELSE << >>
<1>1. switch \in Seq(Events) /\ ~Has(switch, {"show", "hide"})
  <2>1. CASE to
    BY <2>1, Singles DEF Kinds
  <2>2. CASE ~to
    BY <2>2 DEF Has
  <2> QED
    BY <2>1, <2>2
<1> HIDE DEF switch
<1>2. LET events == ShowEvents(recreated) \o switch
      IN  events \in Seq(Events) /\ Has(events, {"show", "hide"}) /\ Last(events, "show")
  BY <1>1, Shown, Appending
<1> QED
  BY <1>2 DEF switch

LEMMA Emitted ==
  ASSUME ChanTyped, NEW events \in Seq(Events), Emit(events)
  PROVE  /\ chan' \in Seq(Events)
         /\ Listening => /\ \A kinds : Has(chan', kinds) <=> Has(chan, kinds) \/ Has(events, kinds)
                         /\ \A kind : Last(events, kind) => Last(chan', kind)
                         /\ \A kind : Last(chan, kind) /\ ~Has(events, {"show", "hide"}) => Last(chan', kind)
         /\ ~Listening => chan' = << >> /\ chan = << >>
         /\ missed' <=> missed \/ Booting
  BY Appending DEF ChanTyped, Emit

LEMMA TakenEvent ==
  ASSUME ChanTyped, NEW kind, Taken(kind)
  PROVE  /\ chan' \in Seq(Events) /\ Listening /\ Head(chan).kind = kind /\ Head(chan) \in Events
         /\ \A kinds : Has(chan, kinds) <=> kind \in kinds \/ Has(chan', kinds)
         /\ \A k : Last(chan, k) => Last(chan', k) \/ (k = kind /\ ~Has(chan', {"show", "hide"}))
  BY Taking DEF ChanTyped, Taken

-----------------------------------------------------------------------------
(* What the page's own steps keep: its watchers, and the forced sync. *)

LEMMA Blanks ==
  /\ SamePage(NewPage, NoPage, {"phase"}) /\ NewPage.phase = "load"
  /\ NewPage.visible = TRUE /\ NewPage.route = Home /\ ~NewPage.save /\ NewPage.read = NoRow
  /\ NewPage.task = None /\ ~NewPage.sync /\ ~NewPage.blanking
BY DEF NewPage, NoPage, SamePage

LEMMA WatchedKeeps ==
  ASSUME NEW p, SamePage(p, p, {})
  PROVE  /\ SamePage(Watched(p), p, {"sync", "save"})
         /\ p.save = page.save => Watched(p).save = (page.save \/ p.ui # page.ui)
         /\ p.sync \/ p.phase \in {"sync", "route", "toggle", "ready"} => Watched(p).sync
BY DEF Watched, SamePage

LEMMA Showing ==
  ASSUME PageTyped, page.phase \notin {None, "load"}
  PROVE  page.ui.close # None
BY DEF PageTyped, Row, Close, None

LEMMA ForceSyncs ==
  ASSUME NEW p, NEW t, SamePage(p, p, {}), SameTray(t, t, {}), p.ui.close # None, ForceSync(p, t)
  PROVE  /\ SamePage(page', p, {"out", "owed", "sync"}) /\ SameTray(tray', t, {})
         /\ Forced
<1> DEFINE q == [p EXCEPT !.out = Payload(p), !.owed = FALSE, !.sync = FALSE]
           r == [p EXCEPT !.owed = (Payload(p) # p.out), !.sync = FALSE]
<1>1. SamePage(q, p, {"out", "owed", "sync"}) /\ q.out = Payload(p)
  BY DEF SamePage
<1>2. SamePage(r, p, {"owed", "sync"}) /\ r.owed = (Payload(p) # p.out)
  BY DEF SamePage
<1>3. tray' = t /\ IF p.out = NoPayload THEN page' = q ELSE page' = r
  BY DEF ForceSync
<1> HIDE DEF q, r
<1>4. Payload(p) # NoPayload
  BY DEF Payload, NoPayload
<1>5. CASE p.out = NoPayload
  <2>1. Payload(page') = Payload(p)
    BY <1>1, <1>3, <1>5 DEF SamePage, Payload
  <2> QED
    BY <1>1, <1>3, <1>4, <1>5, <2>1 DEF SamePage, SameTray, Forced
<1>6. CASE p.out # NoPayload
  <2>1. Payload(page') = Payload(p) /\ page'.out = p.out
    BY <1>2, <1>3, <1>6 DEF SamePage, Payload
  <2> QED
    BY <1>2, <1>3, <1>6, <2>1 DEF SamePage, SameTray, Forced
<1> QED
  BY <1>5, <1>6

LEMMA JobGoes ==
  ASSUME JobTyped, NEW a \in Actors, NEW step, Goto(a, step)
  PROVE  SameJob(a, {"step"}) /\ job'[a].step = step
BY DEF JobTyped, SameJob, Goto

LEMMA Watching ==
  ASSUME NEW p, SamePage(p, p, {}), p.save = page.save, page' = Watched(p)
  PROVE  SamePage(page', p, {"sync", "save"}) /\ Saves /\ Syncs
<1> DEFINE w == Watched(p)
<1>1. SamePage(w, p, {"sync", "save"}) /\ w.save = (page.save \/ p.ui # page.ui)
      /\ (p.phase \in {"sync", "route", "toggle", "ready"} => w.sync)
  BY WatchedKeeps
<1>2. page' = w
  OBVIOUS
<1> HIDE DEF w
<1> QED
  BY <1>1, <1>2 DEF SamePage, Saves, Syncs

LEMMA Rewriting ==
  ASSUME NEW p, SamePage(p, p, {}), p.save = page.save, SameTray(tray, tray, {}), p.ui.close # None,
         ForceSync(Watched(p), tray)
  PROVE  /\ SamePage(page', p, {"out", "owed", "sync", "save"}) /\ SameTray(tray', tray, {})
         /\ Saves /\ Forced
<1> DEFINE w == Watched(p)
<1>1. SamePage(w, p, {"sync", "save"}) /\ w.save = (page.save \/ p.ui # page.ui)
  BY WatchedKeeps
<1>2. ForceSync(w, tray)
  OBVIOUS
<1> HIDE DEF w
<1>3. SamePage(w, w, {}) /\ w.ui.close # None
  BY <1>1 DEF SamePage
<1> QED
  BY <1>1, <1>2, <1>3, ForceSyncs DEF SamePage, Saves

LEMMA SwitchMoves ==
  ASSUME NEW p, NEW t, SamePage(p, page, {"phase"}), SameTray(t, tray, {"toggle"}), SwitchTun(p, t)
  PROVE  \/ page' = p /\ tray' = t /\ win' = win
         \/ /\ SamePage(page', p, {"ui", "task", "sync", "save"}) /\ page'.ui = [page.ui EXCEPT !.tun = TRUE]
            /\ Saves /\ Syncs /\ tray' = t /\ win' = win
         \/ /\ SamePage(page', p, {"visible", "route", "task", "sync", "save"}) /\ page'.visible = TRUE
            /\ page'.route = Home /\ Saves /\ Syncs
            /\ win' = "shown" /\ SameTray(tray', t, {"route"}) /\ tray'.route = Home
<1> DEFINE q == [p EXCEPT !.ui.tun = TRUE, !.task = "save"]
           s == [p EXCEPT !.task = "ask", !.visible = TRUE, !.route = Home]
<1>1. SamePage(q, p, {"ui", "task"}) /\ q.ui = [p.ui EXCEPT !.tun = TRUE]
  BY DEF SamePage
<1>2. SamePage(s, p, {"task", "visible", "route"}) /\ s.visible = TRUE /\ s.route = Home
  BY DEF SamePage
<1>3. SameTray([t EXCEPT !.route = Home], t, {"route"}) /\ [t EXCEPT !.route = Home].route = Home
  BY DEF SameTray
<1>4. \/ page' = p /\ tray' = t /\ win' = win
      \/ page' = Watched(q) /\ tray' = t /\ win' = win
      \/ page' = Watched(s) /\ win' = "shown" /\ tray' = [t EXCEPT !.route = Home]
  BY DEF SwitchTun
<1> HIDE DEF q, s
<1>5. CASE page' = Watched(q) /\ tray' = t /\ win' = win
  <2>1. SamePage(q, q, {}) /\ q.save = page.save
    BY <1>1 DEF SamePage
  <2>2. SamePage(page', q, {"sync", "save"}) /\ Saves /\ Syncs
    BY <1>5, <2>1, Watching
  <2>3. q.ui = [page.ui EXCEPT !.tun = TRUE]
    BY <1>1 DEF SamePage
  <2> QED
    BY <1>1, <1>5, <2>2, <2>3 DEF SamePage
<1>6. CASE page' = Watched(s) /\ win' = "shown" /\ tray' = [t EXCEPT !.route = Home]
  <2>1. SamePage(s, s, {}) /\ s.save = page.save
    BY <1>2 DEF SamePage
  <2>2. SamePage(page', s, {"sync", "save"}) /\ Saves /\ Syncs
    BY <1>6, <2>1, Watching
  <2> QED
    BY <1>2, <1>3, <1>6, <2>2 DEF SamePage
<1> QED
  BY <1>4, <1>5, <1>6

LEMMA RollingBack ==
  ASSUME PageTyped, TrayTyped, page.task # None, RollBack
  PROVE  /\ SamePage(page', page, {"ui", "task", "out", "owed", "sync", "save"}) /\ page'.ui = [page.ui EXCEPT !.tun = FALSE]
         /\ Saves /\ SameTray(tray', tray, {}) /\ Forced
<1> DEFINE p == [page EXCEPT !.ui.tun = FALSE, !.task = None]
<1>1. SamePage(p, page, {"ui", "task"}) /\ p.ui = [page.ui EXCEPT !.tun = FALSE]
  BY DEF PageTyped, SamePage
<1>2. ForceSync(Watched(p), tray)
  BY DEF RollBack
<1> HIDE DEF p
<1>3. SamePage(p, p, {}) /\ SameTray(tray, tray, {}) /\ p.save = page.save
  BY <1>1 DEF SamePage, TrayTyped, SameTray
<1>5. p.ui.close # None
  BY <1>1, Showing DEF PageTyped
<1>4. /\ SamePage(page', p, {"out", "owed", "sync", "save"}) /\ SameTray(tray', tray, {})
      /\ Saves /\ Forced
  BY <1>2, <1>3, <1>5, Rewriting
<1> QED
  BY <1>1, <1>4 DEF SamePage

-----------------------------------------------------------------------------
(* The window, the exit and the kernel.  Every lemma below first says what its *)
(* action does, field by field, and then that it keeps each part of IInv.      *)

LEMMA ShowKeeps ==
  ASSUME IInv, app, Show
  PROVE  IInv' /\ Returning
<1> PageTyped /\ TrayTyped /\ ChanTyped /\ JobTyped /\ RowTyped
    /\ RowInv /\ TrayInv /\ WindowInv /\ VisibleInv /\ RouteInv /\ ExitInv
  BY DEF IInv
<1>1. /\ win' = "shown"
      /\ SameTray(tray', tray, {"visible", "keepAlive", "allowExit", "pendingRoute"})
      /\ tray'.visible = TRUE
      /\ tray'.pendingRoute = IF win = None THEN tray.route ELSE None
      /\ left' = IF Booting \/ page.phase \in {"sync", "route"} THEN None ELSE left
      /\ \/ /\ win = None
            /\ page' = NewPage
            /\ Emit(ShowEvents(TRUE))
         \/ /\ win # None
            /\ page' = page
            /\ Emit(ShowEvents(FALSE))
      /\ closing' = IF closing = "posted" THEN "raced" ELSE closing
      /\ UNCHANGED <<row, sent, job, quit, app, asked>>
  BY DEF TrayTyped, SameTray, Show, Spend, Window, ShownTray, Returns, Races, saved
<1>2. /\ chan' \in Seq(Events) /\ (~Listening => chan' = << >> /\ chan = << >>)
      /\ missed' <=> missed \/ Booting
      /\ Listening /\ Has(chan, {"updated"}) => Has(chan', {"updated"})
      /\ Listening => Has(chan', {"show", "hide"}) /\ Last(chan', "show")
  BY <1>1, Emitted, Shown DEF TrayTyped, JobTyped
<1>3. JobTyped' /\ RowTyped' /\ ExitInv'
  BY <1>1 DEF SameTray, None, JobTyped, RowTyped, ExitInv
<1>4. PageTyped'
  BY ZenonT(30), <1>1, <1>2, Blanks
     DEF PageTyped, SamePage, Phases, Listening, Home, None, AllRoutes, Blank, NoPage, Row, RowTyped
<1>5. TrayTyped'
  BY <1>1, <1>2, Blanks DEF TrayTyped, SameTray, SamePage, AllRoutes, Home, Blank, NoPage
<1>6. ChanTyped'
  BY <1>1, <1>2, Blanks DEF ChanTyped, SamePage, Listening, PageTyped, None, NoPage
<1>7. RowInv'
  BY <1>1, <1>2, Blanks DEF RowInv, JobIn, SamePage, None, Listening, Booting, PageTyped, Phases, NoPage
<1>8. TrayInv'
  BY <1>1, <1>2, Blanks DEF TrayInv, Past, Mirrors, Payload, SamePage, SameTray, Listening, None, NoPage
<1>9. WindowInv'
  BY <1>1, <1>2, Blanks DEF WindowInv, JobIn, SamePage, Listening, Booting, None, PageTyped, Phases, NoPage
<1>10. VisibleInv'
  BY <1>1, <1>2, Blanks DEF VisibleInv, Past, SamePage, SameTray, Listening, JobTyped, None, Actors, NoPage
<1>11. RouteInv'
  BY ZenonT(30), <1>1, <1>2, Blanks
     DEF RouteInv, SamePage, SameTray, Listening, Booting, PageTyped, TrayTyped, Blank, None, AllRoutes,
         Home, Phases, NoPage
<1>12. Returning
  BY <1>1, Blanks DEF Returning, SamePage
<1> QED
  BY <1>3, <1>4, <1>5, <1>6, <1>7, <1>8, <1>9, <1>10, <1>11, <1>12 DEF IInv

LEMMA CloseHidesKeeps ==
  ASSUME IInv, app, CloseHides
  PROVE  IInv' /\ Returning
<1> PageTyped /\ TrayTyped /\ ChanTyped /\ JobTyped /\ RowTyped
    /\ RowInv /\ TrayInv /\ WindowInv /\ VisibleInv /\ RouteInv /\ ExitInv
  BY DEF IInv
<1>1. /\ win # None
      /\ win' = "hidden"
      /\ SameTray(tray', tray, {"visible", "allowExit"})
      /\ tray'.visible = FALSE /\ tray'.allowExit = FALSE
      /\ Emit(<<Event("hide")>>)
      /\ UNCHANGED <<row, sent, page, left, job, closing, quit, app, asked>>
  BY DEF TrayTyped, SameTray, CloseHides, Spend, saved, exit
<1>2. <<Event("hide")>> \in Seq(Events) /\ Has(<<Event("hide")>>, {"show", "hide"}) /\ Last(<<Event("hide")>>, "hide")
  BY Singles DEF Kinds
<1>3. /\ chan' \in Seq(Events) /\ (~Listening => chan' = << >> /\ chan = << >>)
      /\ missed' <=> missed \/ Booting
      /\ Listening /\ Has(chan, {"updated"}) => Has(chan', {"updated"})
      /\ Listening => Has(chan', {"show", "hide"}) /\ Last(chan', "hide")
  BY <1>1, <1>2, Emitted
<1>4. JobTyped' /\ RowTyped' /\ ExitInv'
  BY <1>1 DEF SameTray, None, JobTyped, RowTyped, ExitInv
<1>5. PageTyped'
  BY <1>1, <1>3 DEF PageTyped, Phases, Listening, None, Blank, Row, RowTyped
<1>6. TrayTyped'
  BY <1>1, <1>3 DEF TrayTyped, SameTray, Blank
<1>7. ChanTyped'
  BY <1>1, <1>3 DEF ChanTyped, Listening, PageTyped, None
<1>8. RowInv'
  BY <1>1, <1>3 DEF RowInv, JobIn, None, Listening, Booting, PageTyped, Phases
<1>9. TrayInv'
  BY <1>1, <1>3 DEF TrayInv, Past, Mirrors, Payload, SameTray, Listening, None
<1>10. WindowInv'
  BY <1>1, <1>3 DEF WindowInv, JobIn, Listening, Booting, None, PageTyped, Phases
<1>11. VisibleInv'
  BY <1>1, <1>3 DEF VisibleInv, Past, SameTray, Listening, JobTyped, None, Actors
<1>12. RouteInv'
  BY <1>1, <1>3 DEF RouteInv, SameTray, Listening, Booting, PageTyped, TrayTyped, Blank, None, Phases
<1>13. Returning
  BY <1>1 DEF Returning
<1> QED
  BY <1>4, <1>5, <1>6, <1>7, <1>8, <1>9, <1>10, <1>11, <1>12, <1>13 DEF IInv

LEMMA CloseDestroysKeeps ==
  ASSUME IInv, app, CloseDestroys
  PROVE  IInv' /\ Returning
<1> PageTyped /\ TrayTyped /\ ChanTyped /\ JobTyped /\ RowTyped
    /\ RowInv /\ TrayInv /\ WindowInv /\ VisibleInv /\ RouteInv /\ ExitInv
  BY DEF IInv
<1>1. /\ win # None
      /\ closing' = "posted"
      /\ SameTray(tray', tray, {"visible", "keepAlive", "allowExit", "pendingRoute"})
      /\ tray'.visible = FALSE
      /\ tray'.keepAlive = TRUE
      /\ tray'.allowExit = FALSE
      /\ tray'.pendingRoute = tray.route
      /\ left' = IF page.phase = "ready" /\ page.route # Blank THEN page.route ELSE None
      /\ UNCHANGED <<row, sent, win, page, chan, missed, job, quit, app, asked>>
  BY DEF TrayTyped, SameTray, CloseDestroys, Spend, DestroyedTray, saved
<1>2. PageTyped' /\ ChanTyped' /\ JobTyped' /\ RowTyped' /\ RowInv' /\ WindowInv'
  BY <1>1 DEF PageTyped, ChanTyped, JobTyped, RowTyped, RowInv, WindowInv, Listening, JobIn
<1>3. TrayTyped'
  BY <1>1 DEF TrayTyped, SameTray
<1>4. TrayInv'
  BY <1>1 DEF TrayInv, Past, Mirrors, Payload, SameTray
<1>5. VisibleInv'
  BY <1>1 DEF VisibleInv
<1>6. RouteInv'
  BY <1>1 DEF RouteInv, SameTray, Listening, PageTyped, None, Blank
<1>7. ExitInv'
  BY <1>1 DEF ExitInv
<1>8. Returning
  BY <1>1 DEF Returning
<1> QED
  BY <1>2, <1>3, <1>4, <1>5, <1>6, <1>7, <1>8 DEF IInv

LEMMA WindowGoesKeeps ==
  ASSUME IInv, app, WindowGoes
  PROVE  IInv' /\ Returning
<1> PageTyped /\ TrayTyped /\ ChanTyped /\ JobTyped /\ RowTyped
    /\ RowInv /\ TrayInv /\ WindowInv /\ VisibleInv /\ RouteInv /\ ExitInv
  BY DEF IInv
<1>1. /\ closing # "no" /\ win # None
      /\ win' = None /\ page' = NoPage /\ chan' = << >>
      /\ app' = (tray.keepAlive /\ ~tray.allowExit)
      /\ closing' = IF app' THEN "no" ELSE closing
      /\ left' = IF closing = "posted" /\ page.phase = "ready" /\ page.route = left THEN left ELSE None
      /\ UNCHANGED <<row, sent, tray, missed, job, quit, asked>>
  BY DEF WindowGoes, Prevented, saved
<1>2. TrayTyped' /\ JobTyped' /\ RowTyped'
  BY <1>1 DEF TrayTyped, JobTyped, RowTyped
<1>3. PageTyped'
  BY <1>1 DEF PageTyped, Phases, Home, AllRoutes, NoPage
<1>4. ChanTyped'
  BY <1>1 DEF ChanTyped
<1>5. page'.phase = None
  BY <1>1 DEF NoPage
<1>6. RowInv' /\ TrayInv' /\ WindowInv' /\ VisibleInv'
  BY <1>5 DEF RowInv, TrayInv, WindowInv, VisibleInv, Past, Listening, None
<1>7. RouteInv'
  BY <1>1, <1>5 DEF RouteInv, Listening, None
<1>8. ExitInv'
  <2>1. closing = "posted" => asked \/ app'
    BY <1>1 DEF ExitInv
  <2>2. CASE app'
    BY <1>1, <2>2 DEF ExitInv
  <2>3. CASE ~app'
    BY <1>1, <2>1, <2>3 DEF ExitInv
  <2> QED
    BY <2>2, <2>3
<1>9. Returning
  BY <1>1, <1>5 DEF Returning, None
<1> QED
  BY <1>2, <1>3, <1>4, <1>6, <1>7, <1>8, <1>9 DEF IInv

LEMMA ClickQuitKeeps ==
  ASSUME IInv, app, ClickQuit
  PROVE  IInv' /\ Returning
<1> PageTyped /\ TrayTyped /\ ChanTyped /\ JobTyped /\ RowTyped
    /\ RowInv /\ TrayInv /\ WindowInv /\ VisibleInv /\ RouteInv /\ ExitInv
  BY DEF IInv
<1>1. /\ asked' = TRUE
      /\ SameTray(tray', tray, {"allowExit", "keepAlive"})
      /\ UNCHANGED <<row, sent, win, page, chan, missed, left, job, closing, app>>
  BY DEF TrayTyped, SameTray, ClickQuit, Spend, saved
<1>2. PageTyped' /\ ChanTyped' /\ JobTyped' /\ RowTyped' /\ RowInv' /\ WindowInv'
  BY <1>1 DEF PageTyped, ChanTyped, JobTyped, RowTyped, RowInv, WindowInv, Listening, JobIn
<1>3. TrayTyped'
  BY <1>1 DEF TrayTyped, SameTray, Blank
<1>4. TrayInv'
  BY <1>1 DEF TrayInv, Past, Mirrors, Payload, SameTray, Listening, None
<1>5. VisibleInv'
  BY <1>1 DEF VisibleInv, Past, SameTray, Listening, JobTyped, None, Actors
<1>6. RouteInv'
  BY <1>1 DEF RouteInv, SameTray, Listening, PageTyped, TrayTyped, Blank, None, Phases
<1>7. ExitInv'
  BY <1>1 DEF SameTray, None, ExitInv, Actors
<1>8. Returning
  BY <1>1 DEF Returning
<1> QED
  BY <1>2, <1>3, <1>4, <1>5, <1>6, <1>7, <1>8 DEF IInv

LEMMA QuitStopsKeeps ==
  ASSUME IInv, app, QuitStops
  PROVE  IInv' /\ Returning
<1> PageTyped /\ TrayTyped /\ ChanTyped /\ JobTyped /\ RowTyped
    /\ RowInv /\ TrayInv /\ WindowInv /\ VisibleInv /\ RouteInv /\ ExitInv
  BY DEF IInv
<1>1. /\ quit # "no"
      /\ UNCHANGED <<row, sent, tray, win, page, chan, missed, left, job, closing, app, asked>>
  BY DEF QuitStops, shell, disk
<1>2. /\ PageTyped' /\ TrayTyped' /\ ChanTyped' /\ JobTyped' /\ RowTyped'
      /\ RowInv' /\ TrayInv' /\ WindowInv' /\ VisibleInv' /\ RouteInv'
  BY <1>1
     DEF PageTyped, TrayTyped, ChanTyped, JobTyped, RowTyped, RowInv, TrayInv, WindowInv, VisibleInv,
         RouteInv, Listening, JobIn, Past, Payload, Mirrors
<1>3. ExitInv'
  BY <1>1 DEF SameTray, None, ExitInv, Actors
<1>4. Returning
  BY <1>1 DEF Returning
<1> QED
  BY <1>2, <1>3, <1>4 DEF IInv

LEMMA QuitExitsKeeps ==
  ASSUME IInv, app, QuitExits
  PROVE  IInv' /\ Returning
<1> PageTyped /\ TrayTyped /\ ChanTyped /\ JobTyped /\ RowTyped
    /\ RowInv /\ TrayInv /\ WindowInv /\ VisibleInv /\ RouteInv /\ ExitInv
  BY DEF IInv
<1>1. /\ quit # "no"
      /\ quit' = "no"
      /\ UNCHANGED <<row, sent, tray, win, page, chan, missed, left, job, closing, asked>>
  BY DEF QuitExits, shell, saved
<1>2. /\ PageTyped' /\ TrayTyped' /\ ChanTyped' /\ JobTyped' /\ RowTyped'
      /\ RowInv' /\ TrayInv' /\ WindowInv' /\ VisibleInv' /\ RouteInv'
  BY <1>1
     DEF PageTyped, TrayTyped, ChanTyped, JobTyped, RowTyped, RowInv, TrayInv, WindowInv, VisibleInv,
         RouteInv, Listening, JobIn, Past, Payload, Mirrors
<1>3. ExitInv'
  BY <1>1 DEF SameTray, None, ExitInv, Actors
<1>4. Returning
  BY <1>1 DEF Returning
<1> QED
  BY <1>2, <1>3, <1>4 DEF IInv

LEMMA KernelSwitchesKeeps ==
  ASSUME IInv, app, KernelSwitches
  PROVE  IInv' /\ Returning
<1> PageTyped /\ TrayTyped /\ ChanTyped /\ JobTyped /\ RowTyped
    /\ RowInv /\ TrayInv /\ WindowInv /\ VisibleInv /\ RouteInv /\ ExitInv
  BY DEF IInv
<1>1. /\ UNCHANGED <<row, sent, tray, win, page, chan, missed, left, job, closing, quit, app, asked>>
  BY DEF KernelSwitches, disk, shell, exit
<1>2. /\ PageTyped' /\ TrayTyped' /\ ChanTyped' /\ JobTyped' /\ RowTyped'
      /\ RowInv' /\ TrayInv' /\ WindowInv' /\ VisibleInv' /\ RouteInv' /\ ExitInv'
  BY <1>1
     DEF SameTray, PageTyped, TrayTyped, ChanTyped, JobTyped, RowTyped, RowInv, TrayInv, WindowInv, VisibleInv,
         RouteInv, ExitInv, Listening, JobIn, Past, Payload, Mirrors
<1>3. Returning
  BY <1>1 DEF Returning
<1> QED
  BY <1>2, <1>3 DEF IInv

-----------------------------------------------------------------------------
(* The tray's commands and the startup task. *)

LEMMA ClickToggleKeeps ==
  ASSUME IInv, app, NEW a \in Workers, ClickToggle(a)
  PROVE  IInv' /\ Returning
<1> PageTyped /\ TrayTyped /\ ChanTyped /\ JobTyped /\ RowTyped
    /\ RowInv /\ TrayInv /\ WindowInv /\ VisibleInv /\ RouteInv /\ ExitInv
  BY DEF IInv
<1>1. /\ SameJob(a, {"step", "what", "to", "cfg", "new"})
      /\ job[a].step = "idle"
      /\ job'[a].step \in {"gate", "read"}
      /\ job'[a].what \in {"proxy", "tun"}
      /\ job'[a].to \in BOOLEAN
      /\ UNCHANGED <<row, sent, tray, win, page, chan, missed, left, closing, quit, app, asked>>
  BY DEF JobTyped, SameJob, Actors, ClickToggle, Spend, shell, saved, exit, NoJob
<1>2. PageTyped' /\ TrayTyped' /\ ChanTyped' /\ RowTyped' /\ TrayInv' /\ RouteInv'
  BY <1>1 DEF PageTyped, TrayTyped, ChanTyped, RowTyped, TrayInv, RouteInv, Listening, Past, Payload, Mirrors
<1>3. JobTyped'
  BY <1>1 DEF JobTyped, SameJob, Row, PageTyped, RowTyped
<1>4. RowInv'
  BY <1>1 DEF RowInv, JobIn, SameJob, None, Listening, PageTyped, Phases
<1>5. WindowInv'
  BY <1>1 DEF WindowInv, JobIn, SameJob, Listening, None, PageTyped, Phases
<1>6. VisibleInv'
  BY <1>1 DEF VisibleInv, Past, SameJob, Listening, JobTyped, None, Actors
<1>7. ExitInv'
  BY <1>1 DEF SameTray, None, ExitInv, SameJob, Actors
<1>8. Returning
  BY <1>1 DEF Returning
<1> QED
  BY <1>2, <1>3, <1>4, <1>5, <1>6, <1>7, <1>8 DEF IInv

LEMMA ClickRestartKeeps ==
  ASSUME IInv, app, NEW a \in Workers, ClickRestart(a)
  PROVE  IInv' /\ Returning
<1> PageTyped /\ TrayTyped /\ ChanTyped /\ JobTyped /\ RowTyped
    /\ RowInv /\ TrayInv /\ WindowInv /\ VisibleInv /\ RouteInv /\ ExitInv
  BY DEF IInv
<1>1. /\ a \in Actors
      /\ \/ /\ job' = job
         \/ /\ job[a].step = "idle"
            /\ Goto(a, "fetch")
      /\ UNCHANGED <<row, sent, tray, win, page, chan, missed, left, closing, quit, app, asked>>
  BY DEF Actors, ClickRestart, disk, shell, exit
<1>2. PageTyped' /\ TrayTyped' /\ ChanTyped' /\ RowTyped' /\ TrayInv' /\ RouteInv'
  BY <1>1 DEF PageTyped, TrayTyped, ChanTyped, RowTyped, TrayInv, RouteInv, Listening, Past, Payload, Mirrors
<1>3. JobTyped'
  BY <1>1, JobGoes DEF JobTyped, SameJob, Row, PageTyped, RowTyped
<1>4. RowInv'
  BY <1>1, JobGoes DEF RowInv, JobIn, SameJob, None, Listening, PageTyped, Phases
<1>5. WindowInv'
  BY <1>1, JobGoes DEF WindowInv, JobIn, SameJob, Listening, None, PageTyped, Phases
<1>6. VisibleInv'
  BY <1>1, JobGoes DEF VisibleInv, Past, SameJob, Listening, JobTyped, None, Actors
<1>7. ExitInv'
  BY <1>1, JobGoes DEF SameTray, None, ExitInv, SameJob, Actors
<1>8. Returning
  BY <1>1 DEF Returning
<1> QED
  BY <1>2, <1>3, <1>4, <1>5, <1>6, <1>7, <1>8 DEF IInv

LEMMA JobGateKeeps ==
  ASSUME IInv, app, NEW a \in Actors, JobGate(a)
  PROVE  IInv' /\ Returning
<1> PageTyped /\ TrayTyped /\ ChanTyped /\ JobTyped /\ RowTyped
    /\ RowInv /\ TrayInv /\ WindowInv /\ VisibleInv /\ RouteInv /\ ExitInv
  BY DEF IInv
<1>1. /\ job[a].step = "gate"
      /\ \/ /\ Goto(a, "queue")
         \/ /\ Goto(a, "read")
      /\ UNCHANGED <<row, sent, tray, win, page, chan, missed, left, closing, quit, app, asked>>
  BY DEF JobGate, shell, saved, exit
<1>2. PageTyped' /\ TrayTyped' /\ ChanTyped' /\ RowTyped' /\ TrayInv' /\ RouteInv'
  BY <1>1 DEF PageTyped, TrayTyped, ChanTyped, RowTyped, TrayInv, RouteInv, Listening, Past, Payload, Mirrors
<1>3. JobTyped'
  BY <1>1, JobGoes DEF JobTyped, SameJob, Row, PageTyped, RowTyped
<1>4. RowInv'
  BY <1>1, JobGoes DEF RowInv, JobIn, SameJob, None, Listening, PageTyped, Phases
<1>5. WindowInv'
  BY <1>1, JobGoes DEF WindowInv, JobIn, SameJob, Listening, None, PageTyped, Phases
<1>6. VisibleInv'
  BY <1>1, JobGoes DEF VisibleInv, Past, SameJob, Listening, JobTyped, None, Actors
<1>7. ExitInv'
  BY <1>1, JobGoes DEF SameTray, None, ExitInv, SameJob, Actors
<1>8. Returning
  BY <1>1 DEF Returning
<1> QED
  BY <1>2, <1>3, <1>4, <1>5, <1>6, <1>7, <1>8 DEF IInv

LEMMA JobReadKeeps ==
  ASSUME IInv, app, NEW a \in Actors, JobRead(a)
  PROVE  IInv' /\ Returning
<1> PageTyped /\ TrayTyped /\ ChanTyped /\ JobTyped /\ RowTyped
    /\ RowInv /\ TrayInv /\ WindowInv /\ VisibleInv /\ RouteInv /\ ExitInv
  BY DEF IInv
<1>1. /\ SameJob(a, {"step", "cfg"})
      /\ job[a].step = "read"
      /\ job'[a].step = "save"
      /\ job'[a].cfg = [row EXCEPT ![job[a].what] = job[a].to]
      /\ UNCHANGED <<row, sent, tray, win, page, chan, missed, left, closing, quit, app, asked>>
  <2> DEFINE one == [job EXCEPT ![a].step = "save"]
             new == [row EXCEPT ![job[a].what] = job[a].to]
  <2>1. /\ DOMAIN one = Actors /\ \A b \in Actors : b # a => one[b] = job[b]
        /\ one[a] = [job[a] EXCEPT !.step = "save"]
    BY DEF JobTyped
  <2>2. job' = [one EXCEPT ![a].cfg = new]
    BY DEF JobRead
  <2> HIDE DEF one, new
  <2>3. SameJob(a, {"step", "cfg"}) /\ job'[a].step = "save" /\ job'[a].cfg = new
    BY <2>1, <2>2 DEF JobTyped, SameJob
  <2>4. /\ job[a].step = "read"
        /\ UNCHANGED <<row, sent, tray, win, page, chan, missed, left, closing, quit, app, asked>>
    BY DEF JobRead, TrayTyped, SameTray, shell, saved, exit
  <2> QED
    BY <2>3, <2>4 DEF new
<1>2. PageTyped' /\ TrayTyped' /\ ChanTyped' /\ RowTyped' /\ TrayInv' /\ RouteInv'
  BY <1>1 DEF PageTyped, TrayTyped, ChanTyped, RowTyped, TrayInv, RouteInv, Listening, Past, Payload, Mirrors
<1>3. job'[a].cfg \in Row
  <2>1. row \in Row /\ job[a].what \in {"proxy", "tun"} /\ job[a].to \in BOOLEAN
    BY <1>1 DEF RowTyped, JobTyped
  <2>2. CASE job[a].what = "proxy"
    BY <1>1, <2>1, <2>2 DEF Row
  <2>3. CASE job[a].what = "tun"
    BY <1>1, <2>1, <2>3 DEF Row
  <2> QED
    BY <2>1, <2>2, <2>3
<1>4. JobTyped'
  BY <1>1, <1>3 DEF JobTyped, SameJob
<1>5. RowInv'
  BY <1>1, <1>3 DEF RowInv, JobIn, SameJob, None, Listening, PageTyped, Phases
<1>6. WindowInv'
  BY <1>1, <1>3 DEF WindowInv, JobIn, SameJob, Listening, None, PageTyped, Phases
<1>7. VisibleInv'
  BY <1>1, <1>3 DEF VisibleInv, Past, SameJob, Listening, JobTyped, None, Actors
<1>8. ExitInv'
  BY <1>1, <1>3 DEF SameTray, None, ExitInv, SameJob, Actors
<1>9. Returning
  BY <1>1 DEF Returning
<1> QED
  BY <1>2, <1>4, <1>5, <1>6, <1>7, <1>8, <1>9 DEF IInv

LEMMA JobSaveKeeps ==
  ASSUME IInv, app, NEW a \in Actors, JobSave(a)
  PROVE  IInv' /\ Returning
<1> PageTyped /\ TrayTyped /\ ChanTyped /\ JobTyped /\ RowTyped
    /\ RowInv /\ TrayInv /\ WindowInv /\ VisibleInv /\ RouteInv /\ ExitInv
  BY DEF IInv
<1>1. /\ job[a].step = "save"
      /\ row' = job[a].cfg
      /\ Goto(a, "apply")
      /\ UNCHANGED <<sent, tray, win, page, chan, missed, left, closing, quit, app, asked>>
  BY DEF JobSave, shell, exit
<1>2. PageTyped' /\ TrayTyped' /\ ChanTyped' /\ TrayInv' /\ RouteInv'
  BY <1>1 DEF PageTyped, TrayTyped, ChanTyped, TrayInv, RouteInv, Listening, Past, Payload, Mirrors
<1>3. JobTyped'
  BY <1>1, JobGoes DEF JobTyped, SameJob, Row, PageTyped, RowTyped
<1>4. RowTyped'
  BY <1>1, JobGoes DEF RowTyped, JobTyped, Row, PageTyped
<1>5. RowInv'
  BY <1>1, JobGoes DEF RowInv, JobIn, SameJob, None, Listening, PageTyped, Phases, JobTyped
<1>6. WindowInv'
  BY <1>1, JobGoes DEF WindowInv, JobIn, SameJob, Listening, None, PageTyped, Phases, JobTyped
<1>7. VisibleInv'
  BY <1>1, JobGoes DEF VisibleInv, Past, SameJob, Listening, JobTyped, None, Actors
<1>8. ExitInv'
  BY <1>1, JobGoes DEF SameTray, None, ExitInv, SameJob, Actors, JobTyped
<1>9. Returning
  BY <1>1 DEF Returning
<1> QED
  BY <1>2, <1>3, <1>4, <1>5, <1>6, <1>7, <1>8, <1>9 DEF IInv

LEMMA JobApplyKeeps ==
  ASSUME IInv, app, NEW a \in Actors, JobApply(a)
  PROVE  IInv' /\ Returning
<1> PageTyped /\ TrayTyped /\ ChanTyped /\ JobTyped /\ RowTyped
    /\ RowInv /\ TrayInv /\ WindowInv /\ VisibleInv /\ RouteInv /\ ExitInv
  BY DEF IInv
<1>1. /\ job[a].step = "apply"
      /\ \/ /\ Goto(a, "fetch")
            /\ missed' = missed
         \/ /\ missed' = TRUE
            /\ \E step \in {"idle", "queue"} : Goto(a, step)
      /\ UNCHANGED <<row, sent, tray, win, page, chan, left, closing, quit, app, asked>>
  BY DEF JobApply, disk, exit
<1>2. PageTyped' /\ TrayTyped' /\ ChanTyped' /\ RowTyped' /\ TrayInv' /\ RouteInv'
  BY <1>1 DEF PageTyped, TrayTyped, ChanTyped, RowTyped, TrayInv, RouteInv, Listening, Past, Payload, Mirrors
<1>3. JobTyped'
  BY <1>1, JobGoes DEF JobTyped, SameJob, Row, PageTyped, RowTyped
<1>4. RowInv'
  BY <1>1, JobGoes DEF RowInv, JobIn, SameJob, None, Listening, Booting, PageTyped, Phases
<1>5. WindowInv'
  BY <1>1, JobGoes DEF WindowInv, JobIn, SameJob, Listening, Booting, None, PageTyped, Phases
<1>6. VisibleInv'
  BY <1>1, JobGoes DEF VisibleInv, Past, SameJob, Listening, JobTyped, None, Actors
<1>7. ExitInv'
  BY <1>1, JobGoes DEF SameTray, None, ExitInv, SameJob, Actors
<1>8. Returning
  BY <1>1 DEF Returning
<1> QED
  BY <1>2, <1>3, <1>4, <1>5, <1>6, <1>7, <1>8 DEF IInv

LEMMA JobFetchKeeps ==
  ASSUME IInv, app, NEW a \in Actors, JobFetch(a)
  PROVE  IInv' /\ Returning
<1> PageTyped /\ TrayTyped /\ ChanTyped /\ JobTyped /\ RowTyped
    /\ RowInv /\ TrayInv /\ WindowInv /\ VisibleInv /\ RouteInv /\ ExitInv
  BY DEF IInv
<1>1. /\ SameJob(a, {"step", "cfg"})
      /\ job[a].step = "fetch"
      /\ job'[a].step = "publish"
      /\ job'[a].cfg = row
      /\ UNCHANGED <<row, sent, tray, win, page, chan, missed, left, closing, quit, app, asked>>
  <2> DEFINE one == [job EXCEPT ![a].step = "publish"]
             new == row
  <2>1. /\ DOMAIN one = Actors /\ \A b \in Actors : b # a => one[b] = job[b]
        /\ one[a] = [job[a] EXCEPT !.step = "publish"]
    BY DEF JobTyped
  <2>2. job' = [one EXCEPT ![a].cfg = new]
    BY DEF JobFetch
  <2> HIDE DEF one, new
  <2>3. SameJob(a, {"step", "cfg"}) /\ job'[a].step = "publish" /\ job'[a].cfg = new
    BY <2>1, <2>2 DEF JobTyped, SameJob
  <2>4. /\ job[a].step = "fetch"
        /\ UNCHANGED <<row, sent, tray, win, page, chan, missed, left, closing, quit, app, asked>>
    BY DEF JobFetch, TrayTyped, SameTray, shell, saved, exit
  <2> QED
    BY <2>3, <2>4 DEF new
<1>2. PageTyped' /\ TrayTyped' /\ ChanTyped' /\ RowTyped' /\ TrayInv' /\ RouteInv'
  BY <1>1 DEF PageTyped, TrayTyped, ChanTyped, RowTyped, TrayInv, RouteInv, Listening, Past, Payload, Mirrors
<1>3. JobTyped'
  BY <1>1 DEF JobTyped, SameJob, Row, PageTyped, RowTyped
<1>4. RowInv'
  BY <1>1 DEF RowInv, JobIn, SameJob, None, Listening, PageTyped, Phases
<1>5. WindowInv'
  BY <1>1 DEF WindowInv, JobIn, SameJob, Listening, None, PageTyped, Phases
<1>6. VisibleInv'
  BY <1>1 DEF VisibleInv, Past, SameJob, Listening, JobTyped, None, Actors
<1>7. ExitInv'
  BY <1>1 DEF SameTray, None, ExitInv, SameJob, Actors
<1>8. Returning
  BY <1>1 DEF Returning
<1> QED
  BY <1>2, <1>3, <1>4, <1>5, <1>6, <1>7, <1>8 DEF IInv

LEMMA JobPublishKeeps ==
  ASSUME IInv, app, NEW a \in Actors, JobPublish(a)
  PROVE  IInv' /\ Returning
<1> PageTyped /\ TrayTyped /\ ChanTyped /\ JobTyped /\ RowTyped
    /\ RowInv /\ TrayInv /\ WindowInv /\ VisibleInv /\ RouteInv /\ ExitInv
  BY DEF IInv
<1>1. /\ SameTray(tray', tray, {"proxy", "tun", "close"})
      /\ SameJob(a, {"step", "what", "to", "cfg", "new"})
      /\ job[a].step = "publish"
      /\ job'[a].step \in {"idle", "enter"}
      /\ Emit(<<Event("updated")>>)
      /\ UNCHANGED <<row, sent, win, page, left, closing, quit, app, asked>>
  BY DEF TrayTyped, JobTyped, SameTray, SameJob, Actors, JobPublish, AfterPublish, NoJob, saved, exit
<1>2. /\ <<Event("updated")>> \in Seq(Events) /\ Has(<<Event("updated")>>, {"updated"})
      /\ ~Has(<<Event("updated")>>, {"show", "hide"})
  BY Singles DEF Kinds
<1>3. /\ chan' \in Seq(Events) /\ (~Listening => chan' = << >> /\ chan = << >>)
      /\ missed' <=> missed \/ Booting
      /\ Listening => Has(chan', {"updated"})
      /\ Listening => (Has(chan', {"show", "hide"}) <=> Has(chan, {"show", "hide"}))
      /\ Listening /\ Last(chan, "show") => Last(chan', "show")
      /\ Listening /\ Last(chan, "hide") => Last(chan', "hide")
  BY <1>1, <1>2, Emitted
<1>4. PageTyped' /\ RowTyped'
  BY <1>1 DEF PageTyped, RowTyped
<1>5. TrayTyped'
  BY <1>1, <1>3 DEF TrayTyped, SameTray, Blank
<1>6. ChanTyped'
  BY <1>1, <1>3 DEF ChanTyped, Listening, PageTyped, None
<1>7. JobTyped'
  BY <1>1, <1>3 DEF JobTyped, SameJob, Row, PageTyped, RowTyped
<1>8. RowInv'
  BY <1>1, <1>3 DEF RowInv, JobIn, SameJob, None, Listening, Booting, PageTyped, Phases
<1>9. TrayInv'
  BY <1>1, <1>3 DEF TrayInv, Past, Mirrors, Payload, SameTray, Listening, None
<1>10. WindowInv'
  BY <1>1, <1>3 DEF WindowInv, JobIn, SameJob, Listening, Booting, None, PageTyped, Phases
<1>11. VisibleInv'
  BY <1>1, <1>3 DEF VisibleInv, Past, SameTray, SameJob, Listening, JobTyped, None, Actors
<1>12. RouteInv'
  BY <1>1, <1>3 DEF RouteInv, SameTray, Listening, Booting, PageTyped, TrayTyped, Blank, None, Phases
<1>13. ExitInv'
  BY <1>1, <1>3 DEF SameTray, None, ExitInv, SameJob, Actors
<1>14. Returning
  BY <1>1 DEF Returning
<1> QED
  BY <1>4, <1>5, <1>6, <1>7, <1>8, <1>9, <1>10, <1>11, <1>12, <1>13, <1>14 DEF IInv

LEMMA JobQueueKeeps ==
  ASSUME IInv, app, NEW a \in Actors, JobQueue(a)
  PROVE  IInv' /\ Returning
<1> PageTyped /\ TrayTyped /\ ChanTyped /\ JobTyped /\ RowTyped
    /\ RowInv /\ TrayInv /\ WindowInv /\ VisibleInv /\ RouteInv /\ ExitInv
  BY DEF IInv
<1>1. /\ SameTray(tray', tray, {"toggle"})
      /\ SameJob(a, {"step", "to"})
      /\ job[a].step = "queue"
      /\ job'[a].step = "show"
      /\ UNCHANGED <<row, sent, win, page, chan, missed, left, closing, quit, app, asked>>
  <2> DEFINE one == [job EXCEPT ![a].step = "show"]
             new == (win # None)
  <2>1. /\ DOMAIN one = Actors /\ \A b \in Actors : b # a => one[b] = job[b]
        /\ one[a] = [job[a] EXCEPT !.step = "show"]
    BY DEF JobTyped
  <2>2. job' = [one EXCEPT ![a].to = new]
    BY DEF JobQueue
  <2> HIDE DEF one, new
  <2>3. SameJob(a, {"step", "to"}) /\ job'[a].step = "show" /\ job'[a].to = new
    BY <2>1, <2>2 DEF JobTyped, SameJob
  <2>4. /\ SameTray(tray', tray, {"toggle"})
        /\ job[a].step = "queue"
        /\ UNCHANGED <<row, sent, win, page, chan, missed, left, closing, quit, app, asked>>
    BY DEF JobQueue, TrayTyped, SameTray, saved, exit
  <2> QED
    BY <2>3, <2>4 DEF new
<1>2. PageTyped' /\ ChanTyped' /\ RowTyped'
  BY <1>1 DEF PageTyped, ChanTyped, RowTyped, Listening
<1>3. TrayTyped'
  BY <1>1 DEF TrayTyped, SameTray, Blank
<1>4. JobTyped'
  BY <1>1 DEF JobTyped, SameJob, Row, PageTyped, RowTyped
<1>5. RowInv'
  BY <1>1 DEF RowInv, JobIn, SameJob, None, Listening, PageTyped, Phases
<1>6. TrayInv'
  BY <1>1 DEF TrayInv, Past, Mirrors, Payload, SameTray, Listening, None
<1>7. WindowInv'
  BY <1>1 DEF WindowInv, JobIn, SameJob, Listening, None, PageTyped, Phases
<1>8. VisibleInv'
  BY <1>1 DEF VisibleInv, Past, SameTray, SameJob, Listening, JobTyped, None, Actors
<1>9. RouteInv'
  BY <1>1 DEF RouteInv, SameTray, Listening, PageTyped, TrayTyped, Blank, None, Phases
<1>10. ExitInv'
  BY <1>1 DEF SameTray, None, ExitInv, SameJob, Actors
<1>11. Returning
  BY <1>1 DEF Returning
<1> QED
  BY <1>2, <1>3, <1>4, <1>5, <1>6, <1>7, <1>8, <1>9, <1>10, <1>11 DEF IInv

LEMMA JobShowKeeps ==
  ASSUME IInv, app, NEW a \in Actors, JobShow(a)
  PROVE  IInv' /\ Returning
<1> PageTyped /\ TrayTyped /\ ChanTyped /\ JobTyped /\ RowTyped
    /\ RowInv /\ TrayInv /\ WindowInv /\ VisibleInv /\ RouteInv /\ ExitInv
  BY DEF IInv
<1>1. /\ win' = "shown"
      /\ SameJob(a, {"step", "new"})
      /\ job[a].step = "show"
      /\ job'[a].step = "mark"
      /\ job'[a].new \in BOOLEAN
      /\ \/ /\ win = None
            /\ page' = NewPage
         \/ /\ win # None
            /\ page' = page
      /\ UNCHANGED <<row, sent, tray, chan, missed, left, closing, quit, app, asked>>
  <2> DEFINE one == [job EXCEPT ![a].step = "mark"]
             new == (win = None)
  <2>1. /\ DOMAIN one = Actors /\ \A b \in Actors : b # a => one[b] = job[b]
        /\ one[a] = [job[a] EXCEPT !.step = "mark"]
    BY DEF JobTyped
  <2>2. job' = [one EXCEPT ![a].new = new]
    BY DEF JobShow
  <2> HIDE DEF one, new
  <2>3. SameJob(a, {"step", "new"}) /\ job'[a].step = "mark" /\ job'[a].new = new
    BY <2>1, <2>2 DEF JobTyped, SameJob
  <2>4. /\ win' = "shown"
        /\ job[a].step = "show"
        /\ \/ /\ win = None
              /\ page' = NewPage
           \/ /\ win # None
              /\ page' = page
        /\ UNCHANGED <<row, sent, tray, chan, missed, left, closing, quit, app, asked>>
    BY DEF JobShow, TrayTyped, SameTray, Window, saved, exit
  <2> QED
    BY <2>3, <2>4 DEF new
<1>2. TrayTyped' /\ RowTyped'
  BY <1>1 DEF TrayTyped, RowTyped
<1>3. PageTyped'
  BY ZenonT(30), <1>1, Blanks
     DEF PageTyped, SamePage, Phases, Listening, Home, None, AllRoutes, Blank, NoPage, Row, RowTyped
<1>4. ChanTyped'
  BY <1>1, Blanks DEF ChanTyped, SamePage, Listening, PageTyped, None, NoPage
<1>5. JobTyped'
  BY <1>1, Blanks DEF JobTyped, SameJob, Row, PageTyped, RowTyped
<1>6. RowInv'
  BY <1>1, Blanks DEF RowInv, JobIn, SamePage, SameJob, None, Listening, PageTyped, Phases, NoPage
<1>7. TrayInv'
  BY <1>1, Blanks DEF TrayInv, Past, Mirrors, Payload, SamePage, Listening, None, NoPage
<1>8. WindowInv'
  BY <1>1, Blanks DEF WindowInv, JobIn, SamePage, SameJob, Listening, None, PageTyped, Phases, NoPage
<1>9. VisibleInv'
  BY <1>1, Blanks DEF VisibleInv, Past, SamePage, SameJob, Listening, JobTyped, None, Actors, NoPage
<1>10. RouteInv'
  BY <1>1, Blanks
     DEF RouteInv, ExitInv, SamePage, Listening, PageTyped, TrayTyped, Blank, None, AllRoutes, Home, Phases, NoPage
<1>11. ExitInv'
  BY <1>1, Blanks DEF SameTray, None, ExitInv, SameJob, Actors
<1>12. Returning
  BY <1>1, Blanks DEF Returning, SamePage
<1> QED
  BY <1>2, <1>3, <1>4, <1>5, <1>6, <1>7, <1>8, <1>9, <1>10, <1>11, <1>12 DEF IInv

LEMMA JobMarkKeeps ==
  ASSUME IInv, app, NEW a \in Actors, JobMark(a)
  PROVE  IInv' /\ Returning
<1> PageTyped /\ TrayTyped /\ ChanTyped /\ JobTyped /\ RowTyped
    /\ RowInv /\ TrayInv /\ WindowInv /\ VisibleInv /\ RouteInv /\ ExitInv
  BY DEF IInv
<1>1. /\ SameTray(tray', tray, {"visible", "keepAlive", "allowExit", "pendingRoute"})
      /\ tray'.visible = TRUE
      /\ tray'.pendingRoute \in {tray.route, None}
      /\ left' = None
      /\ SameJob(a, {"step", "what", "to", "cfg", "new"})
      /\ job[a].step = "mark"
      /\ job'[a].step = "idle"
      /\ Emit(ShowEvents(job[a].new) \o IF job[a].to THEN <<Event("switch")>> ELSE << >>)
      /\ closing' = IF closing = "posted" THEN "raced" ELSE closing
      /\ UNCHANGED <<row, sent, win, page, quit, app, asked>>
  BY DEF TrayTyped, JobTyped, SameTray, SameJob, Actors, JobMark, ShownTray, NoJob, Races, saved
<1>2. /\ chan' \in Seq(Events) /\ (~Listening => chan' = << >> /\ chan = << >>)
      /\ missed' <=> missed \/ Booting
      /\ Listening /\ Has(chan, {"updated"}) => Has(chan', {"updated"})
      /\ Listening => Has(chan', {"show", "hide"}) /\ Last(chan', "show")
  BY <1>1, Emitted, Marked DEF TrayTyped, JobTyped
<1>3. PageTyped' /\ RowTyped'
  BY <1>1 DEF PageTyped, RowTyped
<1>4. TrayTyped'
  BY <1>1, <1>2 DEF TrayTyped, SameTray, AllRoutes, Home, Blank
<1>5. ChanTyped'
  BY <1>1, <1>2 DEF ChanTyped, Listening, PageTyped, None
<1>6. JobTyped'
  BY <1>1, <1>2 DEF JobTyped, SameJob, Row, PageTyped, RowTyped
<1>7. RowInv'
  BY <1>1, <1>2 DEF RowInv, JobIn, SameJob, None, Listening, Booting, PageTyped, Phases
<1>8. TrayInv'
  BY <1>1, <1>2 DEF TrayInv, Past, Mirrors, Payload, SameTray, Listening, None
<1>9. WindowInv'
  BY <1>1, <1>2 DEF WindowInv, JobIn, SameJob, Listening, Booting, None, PageTyped, Phases
<1>10. VisibleInv'
  BY <1>1, <1>2 DEF VisibleInv, Past, SameTray, SameJob, Listening, JobTyped, None, Actors
<1>11. RouteInv'
  BY <1>1, <1>2
     DEF RouteInv, SameTray, Listening, Booting, PageTyped, TrayTyped, Blank, None, AllRoutes, Home, Phases
<1>12. ExitInv'
  BY <1>1, <1>2 DEF SameTray, None, ExitInv, SameJob, Actors
<1>13. Returning
  BY <1>1 DEF Returning
<1> QED
  BY <1>3, <1>4, <1>5, <1>6, <1>7, <1>8, <1>9, <1>10, <1>11, <1>12, <1>13 DEF IInv

LEMMA StartupEnterKeeps ==
  ASSUME IInv, app, StartupEnter
  PROVE  IInv' /\ Returning
<1> PageTyped /\ TrayTyped /\ ChanTyped /\ JobTyped /\ RowTyped
    /\ RowInv /\ TrayInv /\ WindowInv /\ VisibleInv /\ RouteInv /\ ExitInv
  BY DEF IInv
<1>1. /\ job["startup"].step = "enter"
      /\ SameJob("startup", {"step", "what", "to", "cfg", "new"})
      /\ job'["startup"].step \in {"idle", "fetch"}
      /\ \/ tray' = tray /\ left' = left /\ closing' = closing
         \/ /\ win # None /\ closing' = "posted"
            /\ left' = None
            /\ SameTray(tray', tray, {"visible", "keepAlive", "allowExit", "pendingRoute"})
            /\ tray'.visible = FALSE
            /\ tray'.keepAlive = TRUE
            /\ tray'.allowExit = FALSE
            /\ tray'.pendingRoute = tray.route
      /\ UNCHANGED <<row, sent, win, page, chan, missed, quit, app, asked>>
  <2>1. "startup" \in Actors
    BY DEF Actors
  <2>2. CASE win = None
    BY <2>1, <2>2, JobGoes DEF StartupEnter, SameJob, saved
  <2>3. CASE win # None
    <3> DEFINE new == [NoJob EXCEPT !.step = "fetch", !.what = "startup"]
    <3>1. DOMAIN new = {"step", "what", "to", "cfg", "new"} /\ new.step = "fetch"
      BY DEF NoJob
    <3>2. job' = [job EXCEPT !["startup"] = new] /\ tray' = DestroyedTray /\ closing' = "posted" /\ left' = None
          /\ job["startup"].step = "enter" /\ UNCHANGED <<row, sent, win, page, chan, missed, quit, app, asked>>
      BY <2>3 DEF StartupEnter, saved
    <3> HIDE DEF new
    <3>3. SameJob("startup", {"step", "what", "to", "cfg", "new"}) /\ job'["startup"].step = "fetch"
      BY <2>1, <3>1, <3>2 DEF JobTyped, SameJob
    <3>4. /\ SameTray(tray', tray, {"visible", "keepAlive", "allowExit", "pendingRoute"})
          /\ tray'.visible = FALSE /\ tray'.keepAlive = TRUE /\ tray'.allowExit = FALSE
          /\ tray'.pendingRoute = tray.route
      BY <3>2 DEF TrayTyped, SameTray, DestroyedTray
    <3> QED
      BY <2>3, <3>2, <3>3, <3>4
  <2> QED
    BY <2>2, <2>3
<1>2. PageTyped' /\ ChanTyped' /\ RowTyped'
  BY <1>1 DEF PageTyped, ChanTyped, RowTyped, Listening
<1>3. "startup" \in Actors
  BY DEF Actors
<1>4. TrayTyped'
  BY <1>1, <1>3 DEF TrayTyped, SameTray, AllRoutes, Home, Blank
<1>5. JobTyped'
  BY <1>1, <1>3 DEF JobTyped, SameJob, Row, PageTyped, RowTyped
<1>6. RowInv'
  BY <1>1, <1>3 DEF RowInv, JobIn, SameJob, None, Listening, PageTyped, Phases
<1>7. TrayInv'
  BY <1>1, <1>3 DEF TrayInv, Past, Mirrors, Payload, SameTray, Listening, None
<1>8. WindowInv'
  BY <1>1, <1>3 DEF WindowInv, JobIn, SameJob, Listening, None, PageTyped, Phases
<1>9. VisibleInv'
  BY <1>1, <1>3 DEF VisibleInv, Past, SameTray, SameJob, Listening, JobTyped, None, Actors
<1>10. RouteInv'
  BY <1>1, JobGoes, <1>3
     DEF RouteInv, SameTray, Listening, PageTyped, TrayTyped, Blank, None, AllRoutes, Home, Phases
<1>11. ExitInv'
  BY <1>1, <1>3 DEF SameTray, None, ExitInv, SameJob, Actors
<1>12. Returning
  BY <1>1 DEF Returning
<1> QED
  BY <1>2, <1>4, <1>5, <1>6, <1>7, <1>8, <1>9, <1>10, <1>11, <1>12 DEF IInv

-----------------------------------------------------------------------------
(* The page: its boot, its timers and its handlers. *)

LEMMA BootLoadKeeps ==
  ASSUME IInv, app, BootLoad
  PROVE  IInv' /\ Returning
<1> PageTyped /\ TrayTyped /\ ChanTyped /\ JobTyped /\ RowTyped
    /\ RowInv /\ TrayInv /\ WindowInv /\ VisibleInv /\ RouteInv /\ ExitInv
  BY DEF IInv
<1>1. /\ SamePage(page', page, {"phase", "ui", "apart"})
      /\ page.phase = "load"
      /\ page'.phase = "check"
      /\ page'.ui = row
      /\ page'.apart = (sent # NoRow)
      /\ UNCHANGED <<row, sent, tray, win, chan, missed, left, job, closing, quit, app, asked>>
  BY DEF PageTyped, SamePage, BootLoad, saved, exit
<1>2. TrayTyped' /\ JobTyped' /\ RowTyped' /\ ExitInv'
  BY <1>1 DEF SameTray, None, TrayTyped, JobTyped, RowTyped, ExitInv
<1>3. PageTyped'
  BY <1>1 DEF PageTyped, SamePage, Phases, Listening, Home, None, AllRoutes, Blank, Row, RowTyped
<1>4. ChanTyped'
  BY <1>1 DEF ChanTyped, SamePage, Listening, PageTyped, None
<1>5. RowInv'
  BY <1>1 DEF RowInv, JobIn, SamePage, None, Listening, PageTyped, Phases
<1>6. TrayInv'
  BY <1>1 DEF TrayInv, Past, Mirrors, Payload, SamePage, Listening, None
<1>7. WindowInv'
  BY <1>1 DEF WindowInv, JobIn, SamePage, Listening, None, PageTyped, Phases
<1>8. VisibleInv'
  BY <1>1 DEF VisibleInv, Past, SamePage, Listening, JobTyped, None, Actors
<1>9. RouteInv'
  BY <1>1 DEF RouteInv, SamePage, Listening, PageTyped, TrayTyped, Blank, None, AllRoutes, Home, Phases
<1>10. Returning
  BY <1>1 DEF Returning, SamePage
<1> QED
  BY <1>2, <1>3, <1>4, <1>5, <1>6, <1>7, <1>8, <1>9, <1>10 DEF IInv

LEMMA BootLoadFailsKeeps ==
  ASSUME IInv, app, BootLoadFails
  PROVE  IInv' /\ Returning
<1> PageTyped /\ TrayTyped /\ ChanTyped /\ JobTyped /\ RowTyped
    /\ RowInv /\ TrayInv /\ WindowInv /\ VisibleInv /\ RouteInv /\ ExitInv
  BY DEF IInv
<1>1. /\ SamePage(page', page, {"phase", "ui", "apart"})
      /\ page.phase = "load"
      /\ page'.phase = "check"
      /\ page'.ui \in Row
      /\ page'.apart = TRUE
      /\ UNCHANGED <<row, sent, tray, win, chan, missed, left, job, closing, quit, app, asked>>
  BY DEF PageTyped, SamePage, BootLoadFails, Spend, Row, Close, saved, exit
<1>2. TrayTyped' /\ JobTyped' /\ RowTyped' /\ ExitInv'
  BY <1>1 DEF SameTray, None, TrayTyped, JobTyped, RowTyped, ExitInv
<1>3. PageTyped'
  BY <1>1 DEF PageTyped, SamePage, Phases, None
<1>4. ChanTyped'
  BY <1>1 DEF ChanTyped, SamePage, Listening, PageTyped, None
<1>5. RowInv'
  BY <1>1 DEF RowInv, JobIn, SamePage, None, Listening, PageTyped, Phases
<1>6. TrayInv'
  BY <1>1 DEF TrayInv, Past, Mirrors, Payload, SamePage, Listening, None
<1>7. WindowInv'
  BY <1>1 DEF WindowInv, JobIn, SamePage, Listening, None, PageTyped, Phases
<1>8. VisibleInv'
  BY <1>1 DEF VisibleInv, Past, SamePage, Listening, JobTyped, None, Actors
<1>9. RouteInv'
  BY <1>1 DEF RouteInv, SamePage, Listening, PageTyped, TrayTyped, Blank, None, AllRoutes, Home, Phases
<1>10. Returning
  BY <1>1 DEF Returning, SamePage
<1> QED
  BY <1>2, <1>3, <1>4, <1>5, <1>6, <1>7, <1>8, <1>9, <1>10 DEF IInv

LEMMA BootCheckKeeps ==
  ASSUME IInv, app, BootCheck
  PROVE  IInv' /\ Returning
<1> PageTyped /\ TrayTyped /\ ChanTyped /\ JobTyped /\ RowTyped
    /\ RowInv /\ TrayInv /\ WindowInv /\ VisibleInv /\ RouteInv /\ ExitInv
  BY DEF IInv
<1>1. /\ SamePage(page', page, {"phase", "visible", "route"})
      /\ page.phase = "check"
      /\ page'.phase = "listen"
      /\ page'.visible = (win = "shown")
      /\ page'.route \in {page.route, Blank}
      /\ UNCHANGED <<row, sent, tray, win, chan, missed, left, job, closing, quit, app, asked>>
  BY DEF PageTyped, SamePage, BootCheck, saved, exit
<1>2. TrayTyped' /\ JobTyped' /\ RowTyped' /\ ExitInv'
  BY <1>1 DEF SameTray, None, TrayTyped, JobTyped, RowTyped, ExitInv
<1>3. PageTyped'
  BY <1>1 DEF PageTyped, SamePage, Phases, Listening, Home, None, AllRoutes, Blank, Row, RowTyped
<1>4. ChanTyped'
  BY <1>1 DEF ChanTyped, SamePage, Listening, PageTyped, None
<1>5. RowInv'
  BY <1>1 DEF RowInv, JobIn, SamePage, None, Listening, PageTyped, Phases
<1>6. TrayInv'
  BY <1>1 DEF TrayInv, Past, Mirrors, Payload, SamePage, Listening, None
<1>7. WindowInv'
  BY <1>1 DEF WindowInv, JobIn, SamePage, Listening, None, PageTyped, Phases
<1>8. VisibleInv'
  BY <1>1 DEF VisibleInv, Past, SamePage, Listening, JobTyped, None, Actors
<1>9. RouteInv'
  BY <1>1 DEF RouteInv, SamePage, Listening, PageTyped, TrayTyped, Blank, None, AllRoutes, Home, Phases
<1>10. Returning
  BY <1>1 DEF Returning, SamePage
<1> QED
  BY <1>2, <1>3, <1>4, <1>5, <1>6, <1>7, <1>8, <1>9, <1>10 DEF IInv

LEMMA BootListenKeeps ==
  ASSUME IInv, app, BootListen
  PROVE  IInv' /\ Returning
<1> PageTyped /\ TrayTyped /\ ChanTyped /\ JobTyped /\ RowTyped
    /\ RowInv /\ TrayInv /\ WindowInv /\ VisibleInv /\ RouteInv /\ ExitInv
  BY DEF IInv
<1>1. /\ SamePage(page', page, {"phase"})
      /\ page.phase = "listen"
      /\ page'.phase = "sync"
      /\ SameTray(tray', tray, {"route"})
      /\ tray'.route = IF page.route = Blank THEN tray.route ELSE page.route
      /\ UNCHANGED <<row, sent, win, chan, missed, left, job, closing, quit, app, asked>>
  BY DEF PageTyped, TrayTyped, SamePage, SameTray, BootListen, Routed, saved, exit
<1>2. JobTyped' /\ RowTyped' /\ ExitInv'
  BY <1>1 DEF SameTray, None, JobTyped, RowTyped, ExitInv
<1>3. PageTyped'
  BY <1>1 DEF PageTyped, SamePage, Phases, Listening, Home, None, AllRoutes, Blank, Row, RowTyped
<1>4. TrayTyped'
  BY <1>1 DEF TrayTyped, SameTray, SamePage, PageTyped, AllRoutes, Home, Blank
<1>5. ChanTyped'
  BY <1>1 DEF ChanTyped, SamePage, Listening, PageTyped, None
<1>6. RowInv'
  BY <1>1 DEF RowInv, JobIn, SamePage, None, Listening, PageTyped, Phases
<1>7. TrayInv'
  BY <1>1 DEF TrayInv, Past, Mirrors, Payload, SamePage, SameTray, Listening, None
<1>8. WindowInv'
  BY <1>1 DEF WindowInv, JobIn, SamePage, Listening, None, PageTyped, Phases
<1>9. VisibleInv'
  BY <1>1 DEF VisibleInv, Past, SamePage, SameTray, Listening, JobTyped, None, Actors
<1>10. RouteInv'
  BY <1>1
     DEF RouteInv, SamePage, SameTray, Listening, PageTyped, TrayTyped, Blank, None, AllRoutes, Home, Phases
<1>11. Returning
  BY <1>1 DEF Returning, SamePage
<1> QED
  BY <1>2, <1>3, <1>4, <1>5, <1>6, <1>7, <1>8, <1>9, <1>10, <1>11 DEF IInv

LEMMA BootSyncKeeps ==
  ASSUME IInv, app, BootSync
  PROVE  IInv' /\ Returning
<1> PageTyped /\ TrayTyped /\ ChanTyped /\ JobTyped /\ RowTyped
    /\ RowInv /\ TrayInv /\ WindowInv /\ VisibleInv /\ RouteInv /\ ExitInv
  BY DEF IInv
<1>1. /\ SamePage(page', page, {"phase", "out", "owed", "sync"})
      /\ page.phase = "sync"
      /\ page'.phase = "route"
      /\ SameTray(tray', tray, {})
      /\ Forced
      /\ UNCHANGED <<row, sent, win, chan, missed, left, job, closing, quit, app, asked>>
  <2> DEFINE p == [page EXCEPT !.phase = "route"]
  <2>1. SamePage(p, page, {"phase"}) /\ p.phase = "route"
    BY DEF PageTyped, SamePage
  <2>2. page.phase = "sync" /\ ForceSync(p, tray)
        /\ UNCHANGED <<row, sent, win, chan, missed, left, job, closing, quit, app, asked>>
    BY DEF BootSync, saved, exit
  <2> HIDE DEF p
  <2>3. SamePage(p, p, {}) /\ SameTray(tray, tray, {})
    BY <2>1 DEF SamePage, TrayTyped, SameTray
  <2>4. SamePage(page', p, {"out", "owed", "sync"}) /\ SameTray(tray', tray, {}) /\ Forced
    <3>1. p.ui.close # None
      BY <2>1, <2>2, Showing DEF SamePage, None
    <3> QED
      BY <2>1, <2>2, <2>3, <3>1, ForceSyncs DEF SamePage
  <2> QED
    BY <2>1, <2>2, <2>4 DEF SamePage, SameTray
<1>2. JobTyped' /\ RowTyped' /\ ExitInv'
  BY <1>1 DEF SameTray, None, JobTyped, RowTyped, ExitInv
<1>3. PageTyped'
  BY <1>1 DEF PageTyped, SamePage, Phases, Listening, Home, None, AllRoutes, Blank, Row, RowTyped
<1>4. TrayTyped'
  BY <1>1 DEF TrayTyped, SameTray, SamePage, PageTyped, Forced, AllRoutes, Home, Blank
<1>5. ChanTyped'
  BY <1>1 DEF ChanTyped, SamePage, Listening, PageTyped, None
<1>6. RowInv'
  BY <1>1 DEF RowInv, JobIn, SamePage, None, Listening, PageTyped, Phases
<1>7. TrayInv'
  BY <1>1 DEF TrayInv, Past, Mirrors, Payload, SamePage, SameTray, Listening, Forced, None
<1>8. WindowInv'
  BY <1>1 DEF WindowInv, JobIn, SamePage, Listening, None, PageTyped, Phases
<1>9. VisibleInv'
  BY <1>1 DEF VisibleInv, Past, SamePage, SameTray, Listening, Forced, JobTyped, None, Actors
<1>10. RouteInv'
  BY <1>1
     DEF RouteInv, SamePage, SameTray, Listening, PageTyped, TrayTyped, Blank, None, AllRoutes, Home, Phases
<1>11. Returning
  BY <1>1 DEF Returning, SamePage
<1> QED
  BY <1>2, <1>3, <1>4, <1>5, <1>6, <1>7, <1>8, <1>9, <1>10, <1>11 DEF IInv

LEMMA BootRouteKeeps ==
  ASSUME IInv, app, BootRoute
  PROVE  IInv' /\ Returning
<1> PageTyped /\ TrayTyped /\ ChanTyped /\ JobTyped /\ RowTyped
    /\ RowInv /\ TrayInv /\ WindowInv /\ VisibleInv /\ RouteInv /\ ExitInv
  BY DEF IInv
<1>1. /\ page.phase = "route" /\ page.out = NoPayload
      /\ page'.phase = "toggle"
      /\ tray'.pendingRoute = None
      /\ \/ /\ tray.pendingRoute = None
            /\ SamePage(page', page, {"phase"})
            /\ SameTray(tray', tray, {"pendingRoute"})
         \/ /\ tray.pendingRoute # None
            /\ SamePage(page', page, {"phase", "route", "out", "owed", "sync"})
            /\ SameTray(tray', tray, {"pendingRoute", "route"})
            /\ page'.route = tray.pendingRoute
            /\ tray'.route = IF page'.route = Blank THEN tray.route ELSE page'.route
            /\ Forced
      /\ UNCHANGED <<row, sent, win, chan, missed, left, job, closing, quit, app, asked>>
  <2> DEFINE p == [page EXCEPT !.phase = "toggle",
                             !.route = IF tray.pendingRoute = None THEN @ ELSE tray.pendingRoute]
             t == [tray EXCEPT !.pendingRoute = None]
             r == Routed(p, t)
  <2>1. /\ SamePage(p, page, {"phase", "route"}) /\ p.phase = "toggle"
        /\ p.route = IF tray.pendingRoute = None THEN page.route ELSE tray.pendingRoute
    BY DEF PageTyped, SamePage
  <2>2. SameTray(t, tray, {"pendingRoute"}) /\ t.pendingRoute = None
    BY DEF TrayTyped, SameTray
  <2>3. /\ page.phase = "route" /\ page.out = NoPayload /\ UNCHANGED <<row, sent, win, chan, missed, left, job, closing, quit, app, asked>>
        /\ IF tray.pendingRoute = None THEN page' = p /\ tray' = t ELSE ForceSync(p, r)
    BY DEF BootRoute, saved, exit
  <2> HIDE DEF p, t
  <2>4. /\ SameTray(r, tray, {"pendingRoute", "route"}) /\ r.pendingRoute = None
        /\ r.route = IF p.route = Blank THEN tray.route ELSE p.route
    BY <2>2 DEF SameTray, Routed
  <2> HIDE DEF r
  <2>5. CASE tray.pendingRoute = None
    BY <2>1, <2>2, <2>3, <2>5 DEF SamePage, SameTray
  <2>6. CASE tray.pendingRoute # None
    <3>1. SamePage(p, p, {}) /\ SameTray(r, r, {}) /\ ForceSync(p, r)
      BY <2>1, <2>3, <2>4, <2>6 DEF SamePage, SameTray
    <3>3. p.ui.close # None
      BY <2>1, <2>3, Showing DEF SamePage, None
    <3>2. SamePage(page', p, {"out", "owed", "sync"}) /\ SameTray(tray', r, {}) /\ Forced
      BY <3>1, <3>3, ForceSyncs
    <3> QED
      BY <2>1, <2>3, <2>4, <2>6, <3>2 DEF SamePage, SameTray
  <2> QED
    BY <2>5, <2>6
<1>2. JobTyped' /\ RowTyped' /\ ExitInv'
  BY <1>1 DEF SameTray, None, JobTyped, RowTyped, ExitInv
<1>3. PageTyped'
  BY <1>1 DEF PageTyped, SamePage, Phases, Listening, Home, None, AllRoutes, Blank, TrayTyped, Row, RowTyped
<1>4. TrayTyped'
  BY <1>1 DEF TrayTyped, SameTray, SamePage, PageTyped, Forced, AllRoutes, Home, Blank
<1>5. ChanTyped'
  BY <1>1 DEF ChanTyped, SamePage, Listening, PageTyped, None
<1>6. RowInv'
  BY <1>1 DEF RowInv, JobIn, SamePage, None, Listening, PageTyped, Phases
<1>7. TrayInv'
  BY <1>1 DEF TrayInv, Past, Mirrors, Payload, SamePage, SameTray, Listening, Forced, None
<1>8. WindowInv'
  BY <1>1 DEF WindowInv, JobIn, SamePage, Listening, None, PageTyped, Phases
<1>9. VisibleInv'
  BY <1>1 DEF VisibleInv, Past, SamePage, SameTray, Listening, Forced, JobTyped, None, Actors
<1>10. RouteInv'
  BY <1>1
     DEF RouteInv, SamePage, SameTray, Listening, PageTyped, TrayTyped, Blank, None, AllRoutes, Home, Phases
<1>11. Returning
  BY <1>1 DEF Returning, RouteInv, None
<1> QED
  BY <1>2, <1>3, <1>4, <1>5, <1>6, <1>7, <1>8, <1>9, <1>10, <1>11 DEF IInv

LEMMA SyncFiresKeeps ==
  ASSUME IInv, app, SyncFires
  PROVE  IInv' /\ Returning
<1> PageTyped /\ TrayTyped /\ ChanTyped /\ JobTyped /\ RowTyped
    /\ RowInv /\ TrayInv /\ WindowInv /\ VisibleInv /\ RouteInv /\ ExitInv
  BY DEF IInv
<1>1. /\ page.sync
      /\ \/ /\ page.out = NoPayload /\ Payload(page) = page.last
            /\ SamePage(page', page, {"sync"})
            /\ tray' = tray
         \/ /\ SamePage(page', page, {"out", "owed", "sync"})
            /\ SameTray(tray', tray, {})
            /\ Forced
      /\ UNCHANGED <<row, sent, win, chan, missed, left, job, closing, quit, app, asked>>
  <2>1. SamePage(page, page, {}) /\ SameTray(tray, tray, {})
    BY DEF PageTyped, TrayTyped, SamePage, SameTray
  <2>2. page.sync /\ UNCHANGED <<row, sent, win, chan, missed, left, job, closing, quit, app, asked>>
    BY DEF SyncFires, saved, exit
  <2>3. CASE page.out = NoPayload /\ Payload(page) = page.last
    BY <2>2, <2>3 DEF SyncFires, PageTyped, SamePage
  <2>4. CASE ForceSync(page, tray)
    <3>1. page.ui.close # None
      BY Showing DEF SyncFires, PageTyped
    <3> QED
      BY <2>1, <2>2, <2>4, <3>1, ForceSyncs
  <2> QED
    BY <2>3, <2>4 DEF SyncFires
<1>2. JobTyped' /\ RowTyped' /\ ExitInv'
  BY <1>1 DEF SameTray, None, JobTyped, RowTyped, ExitInv
<1>3. PageTyped'
  BY <1>1 DEF PageTyped, SamePage, Phases, Listening, Home, None, AllRoutes, Blank, Row, RowTyped
<1>4. TrayTyped'
  BY <1>1 DEF TrayTyped, SameTray, SamePage, PageTyped, Forced, AllRoutes, Home, Blank
<1>5. ChanTyped'
  BY <1>1 DEF ChanTyped, SamePage, Listening, PageTyped, None
<1>6. RowInv'
  BY <1>1 DEF RowInv, JobIn, SamePage, None, Listening, PageTyped, Phases
<1>7. TrayInv'
  BY <1>1 DEF TrayInv, Past, Mirrors, Payload, SamePage, SameTray, Listening, Forced, None
<1>8. WindowInv'
  BY <1>1 DEF WindowInv, JobIn, SamePage, Listening, None, PageTyped, Phases
<1>9. VisibleInv'
  BY <1>1 DEF VisibleInv, Past, SamePage, SameTray, Listening, Forced, JobTyped, None, Actors
<1>10. RouteInv'
  BY <1>1
     DEF RouteInv, SamePage, SameTray, Listening, PageTyped, TrayTyped, Blank, None, AllRoutes, Home, Phases
<1>11. Returning
  BY <1>1 DEF Returning, SamePage
<1> QED
  BY <1>2, <1>3, <1>4, <1>5, <1>6, <1>7, <1>8, <1>9, <1>10, <1>11 DEF IInv

LEMMA SyncLandsKeeps ==
  ASSUME IInv, app, SyncLands
  PROVE  IInv' /\ Returning
<1> PageTyped /\ TrayTyped /\ ChanTyped /\ JobTyped /\ RowTyped
    /\ RowInv /\ TrayInv /\ WindowInv /\ VisibleInv /\ RouteInv /\ ExitInv
  BY DEF IInv
<1>1. /\ page.out # NoPayload
      /\ SamePage(page', page, {"last", "out"})
      /\ page'.last = page.out /\ page'.out = NoPayload
      /\ SameTray(tray', tray, {"proxy", "tun", "close", "visible"})
      /\ Mirrors(tray', page.out) /\ tray'.visible = page.out.visible
      /\ UNCHANGED <<row, sent, win, chan, missed, left, job, closing, quit, app, asked>>
  BY DEF PageTyped, TrayTyped, SamePage, SameTray, Mirrors, SyncLands, Synced, saved, exit
<1>2. JobTyped' /\ RowTyped' /\ ExitInv'
  BY <1>1 DEF SameTray, None, JobTyped, RowTyped, ExitInv
<1>3. PageTyped'
  BY <1>1 DEF PageTyped, SamePage, Phases, None
<1>4. TrayTyped'
  BY <1>1 DEF TrayTyped, SameTray
<1>5. ChanTyped'
  BY <1>1 DEF ChanTyped, SamePage, Listening
<1>6. RowInv'
  BY <1>1 DEF RowInv, JobIn, SamePage
<1>7. TrayInv'
  BY <1>1 DEF TrayInv, Past, Mirrors, Payload, SamePage, SameTray
<1>8. WindowInv'
  BY <1>1 DEF WindowInv, JobIn, SamePage, Listening
<1>9. VisibleInv'
  BY <1>1 DEF VisibleInv, Past, SamePage, SameTray
<1>10. RouteInv'
  BY <1>1 DEF RouteInv, SamePage, SameTray, Listening
<1>11. Returning
  BY <1>1 DEF Returning, SamePage
<1> QED
  BY <1>2, <1>3, <1>4, <1>5, <1>6, <1>7, <1>8, <1>9, <1>10, <1>11 DEF IInv

LEMMA SyncFailsKeeps ==
  ASSUME IInv, app, SyncFails
  PROVE  IInv' /\ Returning
<1> PageTyped /\ TrayTyped /\ ChanTyped /\ JobTyped /\ RowTyped
    /\ RowInv /\ TrayInv /\ WindowInv /\ VisibleInv /\ RouteInv /\ ExitInv
  BY DEF IInv
<1>1. /\ SamePage(page', page, {"out", "owed"})
      /\ page'.owed = TRUE
      /\ SameTray(tray', tray, {"proxy", "tun", "close", "visible"})
      /\ UNCHANGED <<row, sent, win, chan, missed, left, job, closing, quit, app, asked>>
  BY DEF PageTyped, TrayTyped, SamePage, SameTray, SyncFails, Synced, saved, exit
<1>2. JobTyped' /\ RowTyped' /\ ExitInv'
  BY <1>1 DEF SameTray, None, JobTyped, RowTyped, ExitInv
<1>3. PageTyped'
  BY <1>1 DEF PageTyped, SamePage, Phases, None
<1>4. TrayTyped'
  BY <1>1 DEF TrayTyped, SameTray
<1>5. ChanTyped'
  BY <1>1 DEF ChanTyped, SamePage, Listening
<1>6. RowInv'
  BY <1>1 DEF RowInv, JobIn, SamePage
<1>7. TrayInv'
  BY <1>1 DEF TrayInv, Past, Mirrors, Payload, SamePage, SameTray
<1>8. WindowInv'
  BY <1>1 DEF WindowInv, JobIn, SamePage, Listening
<1>9. VisibleInv'
  BY <1>1 DEF VisibleInv, Past, SamePage, SameTray
<1>10. RouteInv'
  BY <1>1 DEF RouteInv, SamePage, SameTray, Listening
<1>11. Returning
  BY <1>1 DEF Returning, SamePage
<1> QED
  BY <1>2, <1>3, <1>4, <1>5, <1>6, <1>7, <1>8, <1>9, <1>10, <1>11 DEF IInv

LEMMA SaveFiresKeeps ==
  ASSUME IInv, app, SaveFires
  PROVE  IInv' /\ Returning
<1> PageTyped /\ TrayTyped /\ ChanTyped /\ JobTyped /\ RowTyped
    /\ RowInv /\ TrayInv /\ WindowInv /\ VisibleInv /\ RouteInv /\ ExitInv
  BY DEF IInv
<1>1. /\ page.save
      /\ SamePage(page', page, {"save", "apart"})
      /\ \/ page'.apart = TRUE /\ row' = page.ui /\ sent' = sent
         \/ page'.apart = FALSE /\ sent' = page.ui /\ row' \in {row, sent} /\ row' # NoRow
      /\ UNCHANGED <<tray, win, chan, missed, left, job, closing, quit, app, asked>>
  <2>1. PICK crossed \in BOOLEAN :
          /\ page' = [page EXCEPT !.save = FALSE, !.apart = crossed]
          /\ IF crossed THEN row' = page.ui /\ UNCHANGED sent
             ELSE sent' = page.ui /\ row' = IF sent = NoRow THEN row ELSE sent
    BY DEF SaveFires
  <2>2. page.save /\ UNCHANGED <<tray, win, chan, missed, left, job, closing, quit, app, asked>>
    BY DEF SaveFires, exit
  <2>3. row # NoRow
    BY DEF RowTyped, Row, NoRow, Close, None
  <2>4. SamePage(page', page, {"save", "apart"}) /\ page'.apart = crossed
    BY <2>1 DEF PageTyped, SamePage
  <2>5. CASE crossed
    BY <2>1, <2>2, <2>4, <2>5
  <2>6. CASE ~crossed
    BY <2>1, <2>2, <2>3, <2>4, <2>6
  <2> QED
    BY <2>5, <2>6
<1>2. page.ui \in Row
  BY <1>1 DEF PageTyped
<1>3. RowTyped'
  BY <1>1, <1>2 DEF RowTyped
<1>4. TrayTyped' /\ JobTyped' /\ ExitInv'
  BY <1>1 DEF TrayTyped, JobTyped, ExitInv
<1>5. PageTyped'
  BY <1>1 DEF PageTyped, SamePage, Phases, None
<1>6. ChanTyped'
  BY <1>1 DEF ChanTyped, SamePage, Listening
<1>7. RowInv'
  BY <1>1 DEF RowInv, JobIn, SamePage
<1>8. TrayInv'
  BY <1>1 DEF TrayInv, Past, Mirrors, Payload, SamePage
<1>9. WindowInv' /\ VisibleInv'
  BY <1>1 DEF WindowInv, VisibleInv, Past, JobIn, SamePage, Listening
<1>10. RouteInv'
  BY <1>1 DEF RouteInv, SamePage, Listening
<1>11. Returning
  BY <1>1 DEF Returning, SamePage
<1> QED
  BY <1>3, <1>4, <1>5, <1>6, <1>7, <1>8, <1>9, <1>10, <1>11 DEF IInv

LEMMA SaveLandsKeeps ==
  ASSUME IInv, app, SaveLands
  PROVE  IInv' /\ Returning
<1> PageTyped /\ TrayTyped /\ ChanTyped /\ JobTyped /\ RowTyped
    /\ RowInv /\ TrayInv /\ WindowInv /\ VisibleInv /\ RouteInv /\ ExitInv
  BY DEF IInv
<1>1. /\ sent # NoRow /\ row' = sent /\ sent' = NoRow
      /\ UNCHANGED <<tray, win, page, chan, missed, left, job, closing, quit, app, asked>>
  BY DEF SaveLands, shell, exit
<1>2. PageTyped' /\ TrayTyped' /\ ChanTyped' /\ JobTyped' /\ WindowInv' /\ VisibleInv' /\ RouteInv' /\ ExitInv'
  BY <1>1 DEF PageTyped, TrayTyped, ChanTyped, JobTyped, WindowInv, VisibleInv, RouteInv, ExitInv, Listening, Past, JobIn
<1>3. TrayInv'
  BY <1>1 DEF TrayInv, Past, Payload, Mirrors
<1>4. RowTyped'
  BY <1>1 DEF RowTyped
<1>5. RowInv'
  BY <1>1 DEF RowInv, JobIn
<1>6. Returning
  BY <1>1 DEF Returning
<1> QED
  BY <1>2, <1>3, <1>4, <1>5, <1>6 DEF IInv

LEMMA SaveFailsKeeps ==
  ASSUME IInv, app, SaveFails
  PROVE  IInv' /\ Returning
<1> PageTyped /\ TrayTyped /\ ChanTyped /\ JobTyped /\ RowTyped
    /\ RowInv /\ TrayInv /\ WindowInv /\ VisibleInv /\ RouteInv /\ ExitInv
  BY DEF IInv
<1>1. /\ sent' = NoRow
      /\ SamePage(page', page, {"apart"})
      /\ win = None \/ page'.apart = TRUE
      /\ UNCHANGED <<row, tray, win, chan, missed, left, job, closing, quit, app, asked>>
  BY DEF PageTyped, SamePage, SaveFails, exit
<1>2. TrayTyped' /\ JobTyped' /\ RowTyped' /\ ExitInv'
  BY <1>1 DEF TrayTyped, JobTyped, RowTyped, ExitInv
<1>3. PageTyped'
  BY <1>1 DEF PageTyped, SamePage, Phases, None
<1>4. ChanTyped'
  BY <1>1 DEF ChanTyped, SamePage, Listening
<1>5. TrayInv'
  BY <1>1 DEF TrayInv, Past, Mirrors, Payload, SamePage, SameTray
<1>6. WindowInv'
  BY <1>1 DEF WindowInv, JobIn, SamePage, Listening
<1>7. VisibleInv'
  BY <1>1 DEF VisibleInv, Past, SamePage, SameTray
<1>8. RouteInv'
  BY <1>1 DEF RouteInv, SamePage, SameTray, Listening
<1>9. Returning
  BY <1>1 DEF Returning, SamePage
<1>10. RowInv'
  BY <1>1 DEF RowInv, JobIn, SamePage, PageTyped
<1> QED
  BY <1>2, <1>3, <1>4, <1>5, <1>6, <1>7, <1>8, <1>9, <1>10 DEF IInv

LEMMA OnShowKeeps ==
  ASSUME IInv, app, OnShow
  PROVE  IInv' /\ Returning
<1> PageTyped /\ TrayTyped /\ ChanTyped /\ JobTyped /\ RowTyped
    /\ RowInv /\ TrayInv /\ WindowInv /\ VisibleInv /\ RouteInv /\ ExitInv
  BY DEF IInv
<1>1. /\ win' = "shown"
      /\ Taken("show")
      /\ \/ /\ page.visible
            /\ page' = page
         \/ /\ SamePage(page', page, {"visible", "sync", "save"})
            /\ page'.visible = TRUE
            /\ Saves
            /\ Syncs
      /\ UNCHANGED <<row, sent, tray, missed, left, job, closing, quit, app, asked>>
  <2> DEFINE p == [page EXCEPT !.visible = TRUE]
  <2>1. SamePage(p, page, {"visible"}) /\ p.visible = TRUE
    BY DEF PageTyped, SamePage
  <2>2. /\ win' = "shown" /\ Taken("show") /\ UNCHANGED <<row, sent, tray, missed, left, job, closing, quit, app, asked>>
        /\ (page.visible /\ page' = page) \/ page' = Watched(p)
    BY DEF OnShow, saved, exit
  <2> HIDE DEF p
  <2>3. CASE page' = Watched(p)
    BY <2>1, <2>2, <2>3, Watching DEF SamePage
  <2> QED
    BY <2>2, <2>3
<1>2. /\ chan' \in Seq(Events) /\ Listening /\ Head(chan).kind = "show" /\ Head(chan) \in Events
      /\ Has(chan', {"updated"}) <=> Has(chan, {"updated"})
      /\ Has(chan, {"show", "hide"})
      /\ Last(chan, "show") => Last(chan', "show") \/ ~Has(chan', {"show", "hide"})
      /\ Last(chan, "hide") => Last(chan', "hide")
  BY <1>1, TakenEvent
<1>3. TrayTyped' /\ JobTyped' /\ RowTyped' /\ ExitInv'
  BY <1>1 DEF SameTray, None, TrayTyped, JobTyped, RowTyped, ExitInv
<1>4. PageTyped'
  BY <1>1, <1>2 DEF PageTyped, SamePage, Phases, Listening, Home, None, AllRoutes, Blank, Row, RowTyped
<1>5. ChanTyped'
  BY <1>1, <1>2 DEF ChanTyped, SamePage, Listening, PageTyped, None
<1>6. RowInv'
  BY <1>1, <1>2 DEF RowInv, JobIn, SamePage, None, Saves, Listening, PageTyped, Phases
<1>7. TrayInv'
  BY <1>1, <1>2 DEF TrayInv, Past, Mirrors, Payload, SamePage, Listening, Syncs, None
<1>8. WindowInv'
  BY <1>1, <1>2 DEF WindowInv, JobIn, SamePage, Listening, None, PageTyped, Phases
<1>9. VisibleInv'
  BY <1>1, <1>2 DEF VisibleInv, Past, SamePage, Listening, JobTyped, None, Actors
<1>10. RouteInv'
  BY <1>1, <1>2 DEF RouteInv, SamePage, Listening, PageTyped, TrayTyped, Blank, None, AllRoutes, Home, Phases
<1>11. Returning
  BY <1>1 DEF Returning, SamePage
<1> QED
  BY <1>3, <1>4, <1>5, <1>6, <1>7, <1>8, <1>9, <1>10, <1>11 DEF IInv

LEMMA OnNavigateKeeps ==
  ASSUME IInv, app, OnNavigate
  PROVE  IInv' /\ Returning
<1> PageTyped /\ TrayTyped /\ ChanTyped /\ JobTyped /\ RowTyped
    /\ RowInv /\ TrayInv /\ WindowInv /\ VisibleInv /\ RouteInv /\ ExitInv
  BY DEF IInv
<1>1. /\ SamePage(page', page, {"route", "out", "owed", "sync"})
      /\ SameTray(tray', tray, {"route"})
      /\ page'.route = Head(chan).path
      /\ tray'.route = IF page'.route = Blank THEN tray.route ELSE page'.route
      /\ Forced
      /\ Taken("nav")
      /\ UNCHANGED <<row, sent, win, missed, left, job, closing, quit, app, asked>>
  <2> DEFINE p == [page EXCEPT !.route = Head(chan).path]
             t == Routed(p, tray)
  <2>1. SamePage(p, page, {"route"}) /\ p.route = Head(chan).path
    BY DEF PageTyped, SamePage
  <2>2. SameTray(t, tray, {"route"}) /\ t.route = IF p.route = Blank THEN tray.route ELSE p.route
    BY <2>1 DEF TrayTyped, SameTray, Routed
  <2>3. ForceSync(p, t) /\ Taken("nav") /\ UNCHANGED <<row, sent, win, missed, left, job, closing, quit, app, asked>>
    BY DEF OnNavigate, saved, exit
  <2> HIDE DEF p, t
  <2>4. SamePage(p, p, {}) /\ SameTray(t, t, {})
    BY <2>1, <2>2 DEF SamePage, SameTray
  <2>5. SamePage(page', p, {"out", "owed", "sync"}) /\ SameTray(tray', t, {}) /\ Forced
    <3>1. p.ui.close # None
      BY <2>1, <2>3, Showing DEF SamePage, Taken, Listening, None
    <3> QED
      BY <2>3, <2>4, <3>1, ForceSyncs
  <2> QED
    BY <2>1, <2>2, <2>3, <2>5 DEF SamePage, SameTray
<1>2. /\ chan' \in Seq(Events) /\ Listening /\ Head(chan).kind = "nav" /\ Head(chan) \in Events
      /\ Has(chan', {"updated"}) <=> Has(chan, {"updated"})
      /\ Has(chan', {"show", "hide"}) <=> Has(chan, {"show", "hide"})
      /\ Last(chan, "show") => Last(chan', "show")
      /\ Last(chan, "hide") => Last(chan', "hide")
  BY <1>1, TakenEvent
<1>3. JobTyped' /\ RowTyped' /\ ExitInv'
  BY <1>1 DEF SameTray, None, JobTyped, RowTyped, ExitInv
<1>4. PageTyped'
  BY <1>1, <1>2 DEF PageTyped, SamePage, Phases, Listening, Home, None, AllRoutes, Blank, Events, Row, RowTyped
<1>5. TrayTyped'
  BY <1>1, <1>2 DEF TrayTyped, SameTray, SamePage, PageTyped, Forced, AllRoutes, Home, Blank, Events
<1>6. ChanTyped'
  BY <1>1, <1>2 DEF ChanTyped, SamePage, Listening, PageTyped, None
<1>7. RowInv'
  BY <1>1, <1>2 DEF RowInv, JobIn, SamePage, None, Listening, PageTyped, Phases
<1>8. TrayInv'
  BY <1>1, <1>2 DEF TrayInv, Past, Mirrors, Payload, SamePage, SameTray, Listening, Forced, None
<1>9. WindowInv'
  BY <1>1, <1>2 DEF WindowInv, JobIn, SamePage, Listening, None, PageTyped, Phases
<1>10. VisibleInv'
  BY <1>1, <1>2 DEF VisibleInv, Past, SamePage, SameTray, Listening, Forced, JobTyped, None, Actors
<1>11. RouteInv'
  BY <1>1, <1>2
     DEF RouteInv, SamePage, SameTray, Listening, PageTyped, TrayTyped, Blank, None, AllRoutes, Home,
         Phases, ChanTyped
<1>12. Returning
  BY <1>1 DEF Returning, SamePage
<1> QED
  BY <1>3, <1>4, <1>5, <1>6, <1>7, <1>8, <1>9, <1>10, <1>11, <1>12 DEF IInv

LEMMA OnHideKeeps ==
  ASSUME IInv, app, OnHide
  PROVE  IInv' /\ Returning
<1> PageTyped /\ TrayTyped /\ ChanTyped /\ JobTyped /\ RowTyped
    /\ RowInv /\ TrayInv /\ WindowInv /\ VisibleInv /\ RouteInv /\ ExitInv
  BY DEF IInv
<1>1. /\ win' = "hidden"
      /\ SamePage(page', page, {"visible", "blanking", "sync", "save"})
      /\ page'.visible = FALSE
      /\ page'.blanking = TRUE
      /\ Saves
      /\ Syncs
      /\ Taken("hide")
      /\ UNCHANGED <<row, sent, tray, missed, left, job, closing, quit, app, asked>>
  <2> DEFINE p == [page EXCEPT !.visible = FALSE, !.blanking = TRUE]
  <2>1. SamePage(p, page, {"visible", "blanking"}) /\ p.visible = FALSE /\ p.blanking = TRUE
    BY DEF PageTyped, SamePage
  <2>2. page' = Watched(p) /\ win' = "hidden" /\ Taken("hide")
        /\ UNCHANGED <<row, sent, tray, missed, left, job, closing, quit, app, asked>>
    BY DEF OnHide, saved, exit
  <2> HIDE DEF p
  <2>3. SamePage(p, p, {}) /\ SameTray(tray, tray, {})
    BY <2>1 DEF SamePage, TrayTyped, SameTray
  <2>4. SamePage(page', p, {"sync", "save"}) /\ Saves /\ Syncs
    BY <2>1, <2>2, <2>3, Watching DEF SamePage
  <2> QED
    BY <2>1, <2>2, <2>4 DEF SamePage, SameTray
<1>2. /\ chan' \in Seq(Events) /\ Listening /\ Head(chan).kind = "hide" /\ Head(chan) \in Events
      /\ Has(chan', {"updated"}) <=> Has(chan, {"updated"})
      /\ Has(chan, {"show", "hide"})
      /\ Last(chan, "hide") => Last(chan', "hide") \/ ~Has(chan', {"show", "hide"})
      /\ Last(chan, "show") => Last(chan', "show")
  BY <1>1, TakenEvent
<1>3. TrayTyped' /\ JobTyped' /\ RowTyped' /\ ExitInv'
  BY <1>1 DEF SameTray, None, TrayTyped, JobTyped, RowTyped, ExitInv
<1>4. PageTyped'
  BY <1>1, <1>2 DEF PageTyped, SamePage, Phases, Listening, Home, None, AllRoutes, Blank, Row, RowTyped
<1>5. ChanTyped'
  BY <1>1, <1>2 DEF ChanTyped, SamePage, Listening, PageTyped, None
<1>6. RowInv'
  BY <1>1, <1>2 DEF RowInv, JobIn, SamePage, None, Saves, Listening, PageTyped, Phases
<1>7. TrayInv'
  BY <1>1, <1>2 DEF TrayInv, Past, Mirrors, Payload, SamePage, Listening, Syncs, None
<1>8. WindowInv'
  BY <1>1, <1>2 DEF WindowInv, JobIn, SamePage, Listening, None, PageTyped, Phases
<1>9. VisibleInv'
  BY <1>1, <1>2 DEF VisibleInv, Past, SamePage, Listening, JobTyped, None, Actors
<1>10. RouteInv'
  BY <1>1, <1>2 DEF RouteInv, SamePage, Listening, PageTyped, TrayTyped, Blank, None, AllRoutes, Home, Phases
<1>11. Returning
  BY <1>1 DEF Returning, SamePage
<1> QED
  BY <1>3, <1>4, <1>5, <1>6, <1>7, <1>8, <1>9, <1>10, <1>11 DEF IInv

LEMMA GoBlankKeeps ==
  ASSUME IInv, app, GoBlank
  PROVE  IInv' /\ Returning
<1> PageTyped /\ TrayTyped /\ ChanTyped /\ JobTyped /\ RowTyped
    /\ RowInv /\ TrayInv /\ WindowInv /\ VisibleInv /\ RouteInv /\ ExitInv
  BY DEF IInv
<1>1. /\ page.blanking
      /\ SamePage(page', page, {"blanking", "route", "out", "owed", "sync"})
      /\ page'.route = Blank
      /\ SameTray(tray', tray, {})
      /\ Forced
      /\ UNCHANGED <<row, sent, win, chan, missed, left, job, closing, quit, app, asked>>
  <2> DEFINE p == [page EXCEPT !.blanking = FALSE, !.route = Blank]
  <2>1. SamePage(p, page, {"blanking", "route"}) /\ p.route = Blank
    BY DEF PageTyped, SamePage
  <2>2. page.blanking /\ ForceSync(p, tray)
        /\ UNCHANGED <<row, sent, win, chan, missed, left, job, closing, quit, app, asked>>
    BY DEF GoBlank, saved, exit
  <2> HIDE DEF p
  <2>3. SamePage(p, p, {}) /\ SameTray(tray, tray, {})
    BY <2>1 DEF SamePage, TrayTyped, SameTray
  <2>4. SamePage(page', p, {"out", "owed", "sync"}) /\ SameTray(tray', tray, {}) /\ Forced
    <3>1. p.ui.close # None
      BY <2>1, <2>2, Showing DEF SamePage, PageTyped
    <3> QED
      BY <2>1, <2>2, <2>3, <3>1, ForceSyncs DEF SamePage
  <2> QED
    BY <2>1, <2>2, <2>4 DEF SamePage, SameTray
<1>2. JobTyped' /\ RowTyped' /\ ExitInv'
  BY <1>1 DEF SameTray, None, JobTyped, RowTyped, ExitInv
<1>3. PageTyped'
  BY <1>1 DEF PageTyped, SamePage, Phases, Listening, Home, None, AllRoutes, Blank, Row, RowTyped
<1>4. TrayTyped'
  BY <1>1 DEF TrayTyped, SameTray, SamePage, PageTyped, Forced, AllRoutes, Home, Blank
<1>5. ChanTyped'
  BY <1>1 DEF ChanTyped, SamePage, Listening, PageTyped, None
<1>6. RowInv'
  BY <1>1 DEF RowInv, JobIn, SamePage, None, Listening, PageTyped, Phases
<1>7. TrayInv'
  BY <1>1 DEF TrayInv, Past, Mirrors, Payload, SamePage, SameTray, Listening, Forced, None
<1>8. WindowInv'
  BY <1>1 DEF WindowInv, JobIn, SamePage, Listening, None, PageTyped, Phases
<1>9. VisibleInv'
  BY <1>1 DEF VisibleInv, Past, SamePage, SameTray, Listening, Forced, JobTyped, None, Actors
<1>10. RouteInv'
  BY <1>1
     DEF RouteInv, SamePage, SameTray, Listening, PageTyped, TrayTyped, Blank, None, AllRoutes, Home, Phases
<1>11. Returning
  BY <1>1 DEF Returning, SamePage
<1> QED
  BY <1>2, <1>3, <1>4, <1>5, <1>6, <1>7, <1>8, <1>9, <1>10, <1>11 DEF IInv

LEMMA OnUpdatedKeeps ==
  ASSUME IInv, app, OnUpdated
  PROVE  IInv' /\ Returning
<1> PageTyped /\ TrayTyped /\ ChanTyped /\ JobTyped /\ RowTyped
    /\ RowInv /\ TrayInv /\ WindowInv /\ VisibleInv /\ RouteInv /\ ExitInv
  BY DEF IInv
<1>1. /\ SamePage(page', page, {"read"})
      /\ page.read = NoRow
      /\ page'.read = row
      /\ Taken("updated")
      /\ UNCHANGED <<row, sent, tray, win, missed, left, job, closing, quit, app, asked>>
  BY DEF PageTyped, SamePage, OnUpdated, saved, exit
<1>2. /\ chan' \in Seq(Events) /\ Listening /\ Head(chan).kind = "updated" /\ Head(chan) \in Events
      /\ Has(chan, {"updated"})
      /\ Has(chan', {"show", "hide"}) <=> Has(chan, {"show", "hide"})
      /\ Last(chan, "show") => Last(chan', "show")
      /\ Last(chan, "hide") => Last(chan', "hide")
  BY <1>1, TakenEvent
<1>3. TrayTyped' /\ JobTyped' /\ RowTyped' /\ ExitInv'
  BY <1>1 DEF SameTray, None, TrayTyped, JobTyped, RowTyped, ExitInv
<1>4. PageTyped'
  BY <1>1, <1>2 DEF PageTyped, SamePage, Phases, Listening, Home, None, AllRoutes, Blank, Row, RowTyped
<1>5. ChanTyped'
  BY <1>1, <1>2 DEF ChanTyped, SamePage, Listening, PageTyped, None
<1>6. RowInv'
  BY <1>1, <1>2 DEF RowInv, JobIn, SamePage, None, Listening, PageTyped, Phases
<1>7. TrayInv'
  BY <1>1, <1>2 DEF TrayInv, Past, Mirrors, Payload, SamePage, Listening, None, RowTyped, Row, NoRow, Close
<1>8. WindowInv'
  BY <1>1, <1>2 DEF WindowInv, JobIn, SamePage, Listening, None, PageTyped, Phases
<1>9. VisibleInv'
  BY <1>1, <1>2 DEF VisibleInv, Past, SamePage, Listening, JobTyped, None, Actors
<1>10. RouteInv'
  BY <1>1, <1>2 DEF RouteInv, SamePage, Listening, PageTyped, TrayTyped, Blank, None, AllRoutes, Home, Phases
<1>11. Returning
  BY <1>1 DEF Returning, SamePage
<1> QED
  BY <1>3, <1>4, <1>5, <1>6, <1>7, <1>8, <1>9, <1>10, <1>11 DEF IInv

LEMMA LoadedKeeps ==
  ASSUME IInv, app, Loaded
  PROVE  IInv' /\ Returning
<1> PageTyped /\ TrayTyped /\ ChanTyped /\ JobTyped /\ RowTyped
    /\ RowInv /\ TrayInv /\ WindowInv /\ VisibleInv /\ RouteInv /\ ExitInv
  BY DEF IInv
<1>1. /\ page.read # NoRow
      /\ SamePage(page', page, {"ui", "read", "apart", "out", "owed", "sync", "save"})
      /\ page'.apart \/ ~page.apart \/ (sent = NoRow /\ page.read = row)
      /\ page'.ui = page.read
      /\ page'.read = NoRow
      /\ SameTray(tray', tray, {})
      /\ Saves
      /\ Forced
      /\ UNCHANGED <<row, sent, win, chan, missed, left, job, closing, quit, app, asked>>
  <2> DEFINE current == sent = NoRow /\ page.read = row
             p == [page EXCEPT !.ui = page.read, !.read = NoRow, !.apart = @ /\ ~current]
  <2>1. SamePage(p, page, {"ui", "read", "apart"}) /\ p.ui = page.read /\ p.read = NoRow
        /\ p.apart = (page.apart /\ ~current)
    BY DEF PageTyped, SamePage
  <2>2. page.read # NoRow /\ ForceSync(Watched(p), tray)
        /\ UNCHANGED <<row, sent, win, chan, missed, left, job, closing, quit, app, asked>>
    BY DEF Loaded, saved, exit
  <2>5. p.apart \/ ~page.apart \/ (sent = NoRow /\ page.read = row)
    BY <2>1
  <2> HIDE DEF p
  <2>3. SamePage(p, p, {}) /\ SameTray(tray, tray, {})
    BY <2>1 DEF SamePage, TrayTyped, SameTray
  <2>4. /\ SamePage(page', p, {"out", "owed", "sync", "save"}) /\ SameTray(tray', tray, {})
        /\ Saves /\ Forced
    <3>1. p.ui.close # None
      BY <2>1, <2>2 DEF PageTyped, Row, Close, None
    <3> QED
      BY <2>1, <2>2, <2>3, <3>1, Rewriting DEF SamePage
  <2> QED
    BY <2>1, <2>2, <2>4, <2>5 DEF SamePage, SameTray
<1>2. JobTyped' /\ RowTyped' /\ ExitInv'
  BY <1>1 DEF SameTray, None, JobTyped, RowTyped, ExitInv
<1>3. PageTyped'
  BY <1>1 DEF PageTyped, SamePage, Phases, Listening, Home, None, AllRoutes, Blank, Row, RowTyped
<1>4. TrayTyped'
  BY <1>1 DEF TrayTyped, SameTray, SamePage, PageTyped, Forced, AllRoutes, Home, Blank
<1>5. ChanTyped'
  BY <1>1 DEF ChanTyped, SamePage, Listening, PageTyped, None
<1>6. RowInv'
  BY <1>1 DEF RowInv, JobIn, SamePage, None, Saves, Listening, PageTyped, Phases
<1>7. TrayInv'
  BY <1>1 DEF TrayInv, Past, Mirrors, Payload, SamePage, SameTray, Listening, Forced, None
<1>8. WindowInv'
  BY <1>1 DEF WindowInv, JobIn, SamePage, Listening, None, PageTyped, Phases
<1>9. VisibleInv'
  BY <1>1 DEF VisibleInv, Past, SamePage, SameTray, Listening, Forced, JobTyped, None, Actors
<1>10. RouteInv'
  BY <1>1
     DEF RouteInv, SamePage, SameTray, Listening, PageTyped, TrayTyped, Blank, None, AllRoutes, Home, Phases
<1>11. Returning
  BY <1>1 DEF Returning, SamePage
<1> QED
  BY <1>2, <1>3, <1>4, <1>5, <1>6, <1>7, <1>8, <1>9, <1>10, <1>11 DEF IInv

LEMMA LoadFailsKeeps ==
  ASSUME IInv, app, LoadFails
  PROVE  IInv' /\ Returning
<1> PageTyped /\ TrayTyped /\ ChanTyped /\ JobTyped /\ RowTyped
    /\ RowInv /\ TrayInv /\ WindowInv /\ VisibleInv /\ RouteInv /\ ExitInv
  BY DEF IInv
<1>1. /\ page.read # NoRow
      /\ SamePage(page', page, {"read", "apart", "out", "owed", "sync"})
      /\ page'.read = NoRow
      /\ page'.apart = TRUE
      /\ SameTray(tray', tray, {})
      /\ Forced
      /\ UNCHANGED <<row, sent, win, chan, missed, left, job, closing, quit, app, asked>>
  <2> DEFINE p == [page EXCEPT !.read = NoRow, !.apart = TRUE]
  <2>1. SamePage(p, page, {"read", "apart"}) /\ p.read = NoRow /\ p.apart = TRUE
    BY DEF PageTyped, SamePage
  <2>2. page.read # NoRow /\ ForceSync(p, tray)
        /\ UNCHANGED <<row, sent, win, chan, missed, left, job, closing, quit, app, asked>>
    BY DEF LoadFails, Spend, saved, exit
  <2> HIDE DEF p
  <2>3. SamePage(p, p, {}) /\ SameTray(tray, tray, {})
    BY <2>1 DEF SamePage, TrayTyped, SameTray
  <2>4. p.ui.close # None
    BY <2>1, <2>2, Showing DEF SamePage, PageTyped
  <2>5. SamePage(page', p, {"out", "owed", "sync"}) /\ SameTray(tray', tray, {}) /\ Forced
    BY <2>2, <2>3, <2>4, ForceSyncs
  <2> QED
    BY <2>1, <2>2, <2>5 DEF SamePage
<1>2. JobTyped' /\ RowTyped' /\ ExitInv'
  BY <1>1 DEF SameTray, None, JobTyped, RowTyped, ExitInv
<1>3. PageTyped'
  BY <1>1 DEF PageTyped, SamePage, Phases, Listening, Home, None, AllRoutes, Blank, Row, RowTyped
<1>4. TrayTyped'
  BY <1>1 DEF TrayTyped, SameTray, SamePage, PageTyped, Forced, AllRoutes, Home, Blank
<1>5. ChanTyped'
  BY <1>1 DEF ChanTyped, SamePage, Listening, PageTyped, None
<1>6. RowInv'
  BY <1>1 DEF RowInv, JobIn, SamePage, None, Listening, PageTyped, Phases
<1>7. TrayInv'
  BY <1>1 DEF TrayInv, Past, Mirrors, Payload, SamePage, SameTray, Listening, Forced, None
<1>8. WindowInv'
  BY <1>1 DEF WindowInv, JobIn, SamePage, Listening, None, PageTyped, Phases
<1>9. VisibleInv'
  BY <1>1 DEF VisibleInv, Past, SamePage, SameTray, Listening, Forced, JobTyped, None, Actors
<1>10. RouteInv'
  BY <1>1
     DEF RouteInv, SamePage, SameTray, Listening, PageTyped, TrayTyped, Blank, None, AllRoutes, Home, Phases
<1>11. Returning
  BY <1>1 DEF Returning, SamePage
<1> QED
  BY <1>2, <1>3, <1>4, <1>5, <1>6, <1>7, <1>8, <1>9, <1>10, <1>11 DEF IInv

LEMMA BootToggleKeeps ==
  ASSUME IInv, app, BootToggle
  PROVE  IInv' /\ Returning
<1> PageTyped /\ TrayTyped /\ ChanTyped /\ JobTyped /\ RowTyped
    /\ RowInv /\ TrayInv /\ WindowInv /\ VisibleInv /\ RouteInv /\ ExitInv
  BY DEF IInv
<1>1. /\ page.phase = "toggle"
      /\ page'.phase = "ready"
      /\ \/ /\ SamePage(page', page, {"phase", "task"})
            /\ SameTray(tray', tray, {"toggle"})
            /\ win' = win
         \/ /\ SamePage(page', page, {"phase", "ui", "task", "sync", "save"})
            /\ page'.ui = [page.ui EXCEPT !.tun = TRUE]
            /\ Saves
            /\ Syncs
            /\ SameTray(tray', tray, {"toggle"})
            /\ win' = win
         \/ /\ SamePage(page', page, {"phase", "visible", "route", "task", "sync", "save"})
            /\ page'.visible = TRUE
            /\ page'.route = Home
            /\ Saves
            /\ Syncs
            /\ win' = "shown"
            /\ SameTray(tray', tray, {"route", "toggle"})
            /\ tray'.route = Home
      /\ UNCHANGED <<row, sent, chan, missed, left, job, closing, quit, app, asked>>
  <2> DEFINE p == [page EXCEPT !.phase = "ready"]
             t == [tray EXCEPT !.toggle = FALSE]
  <2>1. SamePage(p, page, {"phase"}) /\ p.phase = "ready" /\ SameTray(t, tray, {"toggle"})
    BY DEF PageTyped, TrayTyped, SamePage, SameTray
  <2>2. /\ page.phase = "toggle" /\ UNCHANGED <<row, sent, chan, missed, left, job, closing, quit, app, asked>>
        /\ SwitchTun(p, t) \/ (page' = p /\ tray' = t /\ win' = win)
    BY DEF BootToggle, saved, exit
  <2> HIDE DEF p, t
  <2>3. CASE SwitchTun(p, t)
    <3>1. CASE page' = p /\ tray' = t /\ win' = win
      BY <2>1, <2>2, <3>1 DEF SamePage, SameTray
    <3>2. CASE /\ SamePage(page', p, {"ui", "task", "sync", "save"}) /\ page'.ui = [page.ui EXCEPT !.tun = TRUE]
               /\ Saves /\ Syncs /\ tray' = t /\ win' = win
      BY <2>1, <2>2, <3>2 DEF SamePage, SameTray
    <3>3. CASE /\ SamePage(page', p, {"visible", "route", "task", "sync", "save"}) /\ page'.visible = TRUE
               /\ page'.route = Home /\ Saves /\ Syncs
               /\ win' = "shown" /\ SameTray(tray', t, {"route"}) /\ tray'.route = Home
      BY <2>1, <2>2, <3>3 DEF SamePage, SameTray
    <3> QED
      BY <2>1, <2>3, <3>1, <3>2, <3>3, SwitchMoves
  <2>4. CASE page' = p /\ tray' = t /\ win' = win
    BY <2>1, <2>2, <2>4 DEF SamePage, SameTray
  <2> QED
    BY <2>2, <2>3, <2>4
<1>2. JobTyped' /\ RowTyped' /\ ExitInv'
  BY <1>1 DEF SameTray, None, JobTyped, RowTyped, ExitInv
<1>3. PageTyped'
  BY <1>1 DEF PageTyped, SamePage, Phases, Listening, Home, None, AllRoutes, Blank, Row, RowTyped
<1>4. TrayTyped'
  BY <1>1 DEF TrayTyped, SameTray, SamePage, PageTyped, AllRoutes, Home, Blank
<1>5. ChanTyped'
  BY <1>1 DEF ChanTyped, SamePage, Listening, PageTyped, None
<1>6. RowInv'
  BY <1>1 DEF RowInv, JobIn, SamePage, None, Saves, Listening, PageTyped, Phases
<1>7. TrayInv'
  BY <1>1 DEF TrayInv, Past, Mirrors, Payload, SamePage, SameTray, Listening, Syncs, None
<1>8. WindowInv'
  BY <1>1 DEF WindowInv, JobIn, SamePage, Listening, None, PageTyped, Phases
<1>9. VisibleInv'
  BY <1>1 DEF VisibleInv, Past, SamePage, SameTray, Listening, JobTyped, None, Actors
<1>10. RouteInv'
  BY <1>1
     DEF RouteInv, SamePage, SameTray, Listening, PageTyped, TrayTyped, Blank, None, AllRoutes, Home, Phases
<1>11. Returning
  BY <1>1 DEF Returning, SamePage
<1> QED
  BY <1>2, <1>3, <1>4, <1>5, <1>6, <1>7, <1>8, <1>9, <1>10, <1>11 DEF IInv

LEMMA OnSwitchKeeps ==
  ASSUME IInv, app, OnSwitch
  PROVE  IInv' /\ Returning
<1> PageTyped /\ TrayTyped /\ ChanTyped /\ JobTyped /\ RowTyped
    /\ RowInv /\ TrayInv /\ WindowInv /\ VisibleInv /\ RouteInv /\ ExitInv
  BY DEF IInv
<1>1. /\ Taken("switch")
      /\ \/ /\ SamePage(page', page, {"task"})
            /\ SameTray(tray', tray, {"toggle"})
            /\ win' = win
         \/ /\ SamePage(page', page, {"ui", "task", "sync", "save"})
            /\ page'.ui = [page.ui EXCEPT !.tun = TRUE]
            /\ Saves
            /\ Syncs
            /\ SameTray(tray', tray, {"toggle"})
            /\ win' = win
         \/ /\ SamePage(page', page, {"visible", "route", "task", "sync", "save"})
            /\ page'.visible = TRUE
            /\ page'.route = Home
            /\ Saves
            /\ Syncs
            /\ win' = "shown"
            /\ SameTray(tray', tray, {"route", "toggle"})
            /\ tray'.route = Home
      /\ UNCHANGED <<row, sent, missed, left, job, closing, quit, app, asked>>
  <2>1. SamePage(page, page, {"phase"}) /\ SameTray(tray, tray, {"toggle"})
    BY DEF PageTyped, TrayTyped, SamePage, SameTray
  <2>2. SwitchTun(page, tray) /\ Taken("switch") /\ UNCHANGED <<row, sent, missed, left, job, closing, quit, app, asked>>
    BY DEF OnSwitch, saved, exit
  <2>3. \/ page' = page /\ tray' = tray /\ win' = win
        \/ /\ SamePage(page', page, {"ui", "task", "sync", "save"})
           /\ page'.ui = [page.ui EXCEPT !.tun = TRUE]
           /\ Saves /\ Syncs /\ tray' = tray /\ win' = win
        \/ /\ SamePage(page', page, {"visible", "route", "task", "sync", "save"})
           /\ page'.visible = TRUE /\ page'.route = Home /\ Saves /\ Syncs
           /\ win' = "shown" /\ SameTray(tray', tray, {"route"}) /\ tray'.route = Home
    BY <2>1, <2>2, SwitchMoves
  <2>4. SamePage(page, page, {"task"})
    BY <2>1 DEF SamePage
  <2>5. SameTray(tray', tray, {"route"}) => SameTray(tray', tray, {"route", "toggle"})
    BY DEF SameTray
  <2> QED
    BY <2>1, <2>2, <2>3, <2>4, <2>5
<1>2. /\ chan' \in Seq(Events) /\ Listening /\ Head(chan).kind = "switch" /\ Head(chan) \in Events
      /\ Has(chan', {"updated"}) <=> Has(chan, {"updated"})
      /\ Has(chan', {"show", "hide"}) <=> Has(chan, {"show", "hide"})
      /\ Last(chan, "show") => Last(chan', "show")
      /\ Last(chan, "hide") => Last(chan', "hide")
  BY <1>1, TakenEvent
<1>3. JobTyped' /\ RowTyped' /\ ExitInv'
  BY <1>1 DEF SameTray, None, JobTyped, RowTyped, ExitInv
<1>4. PageTyped'
  BY <1>1, <1>2 DEF PageTyped, SamePage, Phases, Listening, Home, None, AllRoutes, Blank, Row, RowTyped
<1>5. TrayTyped'
  BY <1>1, <1>2 DEF TrayTyped, SameTray, SamePage, PageTyped, AllRoutes, Home, Blank
<1>6. ChanTyped'
  BY <1>1, <1>2 DEF ChanTyped, SamePage, Listening, PageTyped, None
<1>7. RowInv'
  BY <1>1, <1>2 DEF RowInv, JobIn, SamePage, None, Saves, Listening, PageTyped, Phases
<1>8. TrayInv'
  BY <1>1, <1>2 DEF TrayInv, Past, Mirrors, Payload, SamePage, SameTray, Listening, Syncs, None
<1>9. WindowInv'
  BY <1>1, <1>2 DEF WindowInv, JobIn, SamePage, Listening, None, PageTyped, Phases
<1>10. VisibleInv'
  BY <1>1, <1>2 DEF VisibleInv, Past, SamePage, SameTray, Listening, JobTyped, None, Actors
<1>11. RouteInv'
  BY <1>1, <1>2
     DEF RouteInv, SamePage, SameTray, Listening, PageTyped, TrayTyped, Blank, None, AllRoutes, Home, Phases
<1>12. Returning
  BY <1>1 DEF Returning, SamePage
<1> QED
  BY <1>3, <1>4, <1>5, <1>6, <1>7, <1>8, <1>9, <1>10, <1>11, <1>12 DEF IInv

LEMMA TaskAnsweredKeeps ==
  ASSUME IInv, app, TaskAnswered
  PROVE  IInv' /\ Returning
<1> PageTyped /\ TrayTyped /\ ChanTyped /\ JobTyped /\ RowTyped
    /\ RowInv /\ TrayInv /\ WindowInv /\ VisibleInv /\ RouteInv /\ ExitInv
  BY DEF IInv
<1>1. /\ page.task # None
      /\ \/ /\ SamePage(page', page, {"ui", "task", "sync", "save"})
            /\ page'.ui = [page.ui EXCEPT !.tun = TRUE]
            /\ Saves
            /\ Syncs
            /\ tray' = tray
         \/ /\ SamePage(page', page, {"task", "out", "owed", "sync"})
            /\ SameTray(tray', tray, {})
            /\ Forced
      /\ UNCHANGED <<row, sent, win, chan, missed, left, job, closing, quit, app, asked>>
  <2> DEFINE p == [page EXCEPT !.ui.tun = TRUE, !.task = "save"]
             q == [page EXCEPT !.task = None]
  <2>1. SamePage(p, page, {"ui", "task"}) /\ p.ui = [page.ui EXCEPT !.tun = TRUE] /\ SamePage(q, page, {"task"})
    BY DEF PageTyped, SamePage
  <2>2. /\ page.task # None /\ UNCHANGED <<row, sent, win, chan, missed, left, job, closing, quit, app, asked>>
        /\ (page' = Watched(p) /\ tray' = tray) \/ ForceSync(q, tray)
    BY DEF TaskAnswered, disk, exit, None
  <2> HIDE DEF p, q
  <2>3. CASE page' = Watched(p) /\ tray' = tray
    <3>1. SamePage(p, p, {}) /\ p.save = page.save
      BY <2>1 DEF SamePage
    <3>2. SamePage(page', p, {"sync", "save"}) /\ Saves /\ Syncs
      BY <2>3, <3>1, Watching
    <3> QED
      BY <2>1, <2>2, <2>3, <3>2 DEF SamePage
  <2>4. CASE ForceSync(q, tray)
    <3>1. SamePage(q, q, {}) /\ SameTray(tray, tray, {})
      BY <2>1 DEF SamePage, TrayTyped, SameTray
    <3>2. SamePage(page', q, {"out", "owed", "sync"}) /\ SameTray(tray', tray, {}) /\ Forced
      <4>1. q.ui.close # None
        BY <2>1, <2>2, Showing DEF SamePage, PageTyped
      <4> QED
        BY <2>4, <3>1, <4>1, ForceSyncs
    <3> QED
      BY <2>1, <2>2, <3>2 DEF SamePage
  <2> QED
    BY <2>2, <2>3, <2>4
<1>2. JobTyped' /\ RowTyped' /\ ExitInv'
  BY <1>1 DEF SameTray, None, JobTyped, RowTyped, ExitInv
<1>3. PageTyped'
  BY <1>1 DEF PageTyped, SamePage, Phases, Listening, Home, None, AllRoutes, Blank, Row, RowTyped
<1>4. TrayTyped'
  BY <1>1 DEF TrayTyped, SameTray, SamePage, PageTyped, Forced, AllRoutes, Home, Blank
<1>5. ChanTyped'
  BY <1>1 DEF ChanTyped, SamePage, Listening, PageTyped, None
<1>6. RowInv'
  BY <1>1 DEF RowInv, JobIn, SamePage, None, Saves, Listening, PageTyped, Phases
<1>7. TrayInv'
  BY <1>1 DEF TrayInv, Past, Mirrors, Payload, SamePage, SameTray, Listening, Syncs, Forced, None
<1>8. WindowInv'
  BY <1>1 DEF WindowInv, JobIn, SamePage, Listening, None, PageTyped, Phases
<1>9. VisibleInv'
  BY <1>1 DEF VisibleInv, Past, SamePage, SameTray, Listening, Forced, JobTyped, None, Actors
<1>10. RouteInv'
  BY <1>1
     DEF RouteInv, SamePage, SameTray, Listening, PageTyped, TrayTyped, Blank, None, AllRoutes, Home, Phases
<1>11. Returning
  BY <1>1 DEF Returning, SamePage
<1> QED
  BY <1>2, <1>3, <1>4, <1>5, <1>6, <1>7, <1>8, <1>9, <1>10, <1>11 DEF IInv

LEMMA TaskAppliedKeeps ==
  ASSUME IInv, app, TaskApplied
  PROVE  IInv' /\ Returning
<1> PageTyped /\ TrayTyped /\ ChanTyped /\ JobTyped /\ RowTyped
    /\ RowInv /\ TrayInv /\ WindowInv /\ VisibleInv /\ RouteInv /\ ExitInv
  BY DEF IInv
<1>1. /\ page.task # None
      /\ \/ /\ SamePage(page', page, {"task", "out", "owed", "sync"})
            /\ SameTray(tray', tray, {})
            /\ Forced
            /\ win' = win
         \/ /\ SamePage(page', page, {"task"})
            /\ SameTray(tray', tray, {"toggle"})
            /\ win' = win
         \/ /\ SamePage(page', page, {"visible", "route", "task", "sync", "save"})
            /\ page'.visible = TRUE
            /\ page'.route = Home
            /\ Saves
            /\ Syncs
            /\ win' = "shown"
            /\ SameTray(tray', tray, {"route", "toggle"})
            /\ tray'.route = Home
         \/ /\ SamePage(page', page, {"ui", "task", "out", "owed", "sync", "save"})
            /\ page'.ui = [page.ui EXCEPT !.tun = FALSE]
            /\ Saves
            /\ SameTray(tray', tray, {})
            /\ Forced
            /\ win' = win
      /\ UNCHANGED <<row, sent, chan, missed, left, job, closing, quit, app, asked>>
  <2> DEFINE q == [page EXCEPT !.task = None]
             p == [page EXCEPT !.task = "again", !.visible = TRUE, !.route = Home]
             t == [tray EXCEPT !.route = Home]
  <2>1. SamePage(q, page, {"task"})
    BY DEF PageTyped, SamePage
  <2>2. SamePage(p, page, {"visible", "route", "task"}) /\ p.visible = TRUE /\ p.route = Home
    BY DEF PageTyped, SamePage
  <2>3. SameTray(t, tray, {"route"}) /\ t.route = Home /\ SameTray(tray, tray, {})
    BY DEF TrayTyped, SameTray
  <2>4. /\ page.task # None /\ UNCHANGED <<row, sent, chan, missed, left, job, closing, quit, app, asked>>
        /\ \/ win' = win /\ ForceSync(q, tray)
           \/ win' = win /\ tray' = tray /\ page' = q
           \/ win' = "shown" /\ page' = Watched(p) /\ tray' = t
           \/ win' = win /\ RollBack
    BY DEF TaskApplied, disk, exit, None
  <2> HIDE DEF p, q, t
  <2>5. CASE win' = win /\ ForceSync(q, tray)
    <3>1. SamePage(q, q, {})
      BY <2>1 DEF SamePage
    <3>2. SamePage(page', q, {"out", "owed", "sync"}) /\ SameTray(tray', tray, {}) /\ Forced
      <4>1. q.ui.close # None
        BY <2>1, <2>4, Showing DEF SamePage, PageTyped
      <4> QED
        BY <2>3, <2>5, <3>1, <4>1, ForceSyncs
    <3> QED
      BY <2>1, <2>4, <2>5, <3>2 DEF SamePage
  <2>6. CASE win' = win /\ tray' = tray /\ page' = q
    BY <2>1, <2>3, <2>4, <2>6 DEF SameTray
  <2>7. CASE win' = "shown" /\ page' = Watched(p) /\ tray' = t
    <3>1. SamePage(p, p, {}) /\ p.save = page.save
      BY <2>2 DEF SamePage
    <3>2. SamePage(page', p, {"sync", "save"}) /\ Saves /\ Syncs
      BY <2>7, <3>1, Watching
    <3> QED
      BY <2>2, <2>3, <2>4, <2>7, <3>2 DEF SamePage, SameTray
  <2>8. CASE win' = win /\ RollBack
    BY <2>4, <2>8, RollingBack DEF SamePage
  <2> QED
    BY <2>4, <2>5, <2>6, <2>7, <2>8
<1>2. JobTyped' /\ RowTyped' /\ ExitInv'
  BY <1>1 DEF SameTray, None, JobTyped, RowTyped, ExitInv
<1>3. PageTyped'
  BY <1>1 DEF PageTyped, SamePage, Phases, Listening, Home, None, AllRoutes, Blank, Row, RowTyped
<1>4. TrayTyped'
  BY <1>1 DEF TrayTyped, SameTray, SamePage, PageTyped, Forced, AllRoutes, Home, Blank
<1>5. ChanTyped'
  BY <1>1 DEF ChanTyped, SamePage, Listening, PageTyped, None
<1>6. RowInv'
  BY <1>1 DEF RowInv, JobIn, SamePage, None, Saves, Listening, PageTyped, Phases
<1>7. TrayInv'
  BY <1>1 DEF TrayInv, Past, Mirrors, Payload, SamePage, SameTray, Listening, Syncs, Forced, None
<1>8. WindowInv'
  BY <1>1 DEF WindowInv, JobIn, SamePage, Listening, None, PageTyped, Phases
<1>9. VisibleInv'
  BY <1>1 DEF VisibleInv, Past, SamePage, SameTray, Listening, Forced, JobTyped, None, Actors
<1>10. RouteInv'
  BY <1>1
     DEF RouteInv, SamePage, SameTray, Listening, PageTyped, TrayTyped, Blank, None, AllRoutes, Home, Phases
<1>11. Returning
  BY <1>1 DEF Returning, SamePage
<1> QED
  BY <1>2, <1>3, <1>4, <1>5, <1>6, <1>7, <1>8, <1>9, <1>10, <1>11 DEF IInv

LEMMA TaskAgainKeeps ==
  ASSUME IInv, app, TaskAgain
  PROVE  IInv' /\ Returning
<1> PageTyped /\ TrayTyped /\ ChanTyped /\ JobTyped /\ RowTyped
    /\ RowInv /\ TrayInv /\ WindowInv /\ VisibleInv /\ RouteInv /\ ExitInv
  BY DEF IInv
<1>1. /\ page.task # None
      /\ \/ /\ SamePage(page', page, {"task"})
            /\ SameTray(tray', tray, {"toggle"})
         \/ /\ SamePage(page', page, {"ui", "task", "out", "owed", "sync", "save"})
            /\ page'.ui = [page.ui EXCEPT !.tun = FALSE]
            /\ Saves
            /\ SameTray(tray', tray, {})
            /\ Forced
      /\ UNCHANGED <<row, sent, win, chan, missed, left, job, closing, quit, app, asked>>
  <2> DEFINE q == [page EXCEPT !.task = None]
  <2>1. SamePage(q, page, {"task"}) /\ SameTray(tray, tray, {})
    BY DEF PageTyped, TrayTyped, SamePage, SameTray
  <2>2. /\ page.task # None /\ UNCHANGED <<row, sent, win, chan, missed, left, job, closing, quit, app, asked>>
        /\ (page' = q /\ tray' = tray) \/ RollBack
    BY DEF TaskAgain, disk, exit, None
  <2> HIDE DEF q
  <2>3. CASE RollBack
    BY <2>2, <2>3, RollingBack DEF SamePage
  <2> QED
    BY <2>1, <2>2, <2>3 DEF SameTray
<1>2. JobTyped' /\ RowTyped' /\ ExitInv'
  BY <1>1 DEF SameTray, None, JobTyped, RowTyped, ExitInv
<1>3. PageTyped'
  BY <1>1 DEF PageTyped, SamePage, Phases, Listening, Home, None, AllRoutes, Blank, Row, RowTyped
<1>4. TrayTyped'
  BY <1>1 DEF TrayTyped, SameTray, SamePage, PageTyped, Forced, AllRoutes, Home, Blank
<1>5. ChanTyped'
  BY <1>1 DEF ChanTyped, SamePage, Listening, PageTyped, None
<1>6. RowInv'
  BY <1>1 DEF RowInv, JobIn, SamePage, None, Saves, Listening, PageTyped, Phases
<1>7. TrayInv'
  BY <1>1 DEF TrayInv, Past, Mirrors, Payload, SamePage, SameTray, Listening, Forced, None
<1>8. WindowInv'
  BY <1>1 DEF WindowInv, JobIn, SamePage, Listening, None, PageTyped, Phases
<1>9. VisibleInv'
  BY <1>1 DEF VisibleInv, Past, SamePage, SameTray, Listening, Forced, JobTyped, None, Actors
<1>10. RouteInv'
  BY <1>1
     DEF RouteInv, SamePage, SameTray, Listening, PageTyped, TrayTyped, Blank, None, AllRoutes, Home, Phases
<1>11. Returning
  BY <1>1 DEF Returning, SamePage
<1> QED
  BY <1>2, <1>3, <1>4, <1>5, <1>6, <1>7, <1>8, <1>9, <1>10, <1>11 DEF IInv

LEMMA NavigateKeeps ==
  ASSUME IInv, app, Navigate
  PROVE  IInv' /\ Returning
<1> PageTyped /\ TrayTyped /\ ChanTyped /\ JobTyped /\ RowTyped
    /\ RowInv /\ TrayInv /\ WindowInv /\ VisibleInv /\ RouteInv /\ ExitInv
  BY DEF IInv
<1>1. /\ win = "shown"
      /\ SamePage(page', page, {"route"})
      /\ page'.route \in AllRoutes
      /\ SameTray(tray', tray, {"route"})
      /\ tray'.route = IF page'.route = Blank THEN tray.route ELSE page'.route
      /\ UNCHANGED <<row, sent, win, chan, missed, left, job, closing, quit, app, asked>>
  <2>1. PICK r \in AllRoutes : LET p == [page EXCEPT !.route = r] IN page' = p /\ tray' = Routed(p, tray)
    BY DEF Navigate
  <2>2. SamePage(page', page, {"route"}) /\ page'.route = r
    BY <2>1 DEF PageTyped, SamePage
  <2>3. tray' = Routed(page', tray)
    BY <2>1
  <2>4. SameTray(tray', tray, {"route"}) /\ tray'.route = IF page'.route = Blank THEN tray.route ELSE page'.route
    BY <2>3 DEF TrayTyped, SameTray, Routed
  <2>5. win = "shown" /\ UNCHANGED <<row, sent, win, chan, missed, left, job, closing, quit, app, asked>>
    BY DEF Navigate, Spend, saved, exit
  <2> QED
    BY <2>2, <2>4, <2>5
<1>2. JobTyped' /\ RowTyped' /\ ExitInv'
  BY <1>1 DEF SameTray, None, JobTyped, RowTyped, ExitInv
<1>3. PageTyped'
  BY <1>1 DEF PageTyped, SamePage, Phases, Listening, Home, None, AllRoutes, Blank, Row, RowTyped
<1>4. TrayTyped'
  BY <1>1 DEF TrayTyped, SameTray, SamePage, PageTyped, AllRoutes, Home, Blank
<1>5. ChanTyped'
  BY <1>1 DEF ChanTyped, SamePage, Listening, PageTyped, None
<1>6. RowInv'
  BY <1>1 DEF RowInv, JobIn, SamePage, None, Listening, PageTyped, Phases
<1>7. TrayInv'
  BY <1>1 DEF TrayInv, Past, Mirrors, Payload, SamePage, SameTray, Listening, None
<1>8. WindowInv'
  BY <1>1 DEF WindowInv, JobIn, SamePage, Listening, None, PageTyped, Phases
<1>9. VisibleInv'
  BY <1>1 DEF VisibleInv, Past, SamePage, SameTray, Listening, JobTyped, None, Actors
<1>10. RouteInv'
  BY <1>1
     DEF RouteInv, SamePage, SameTray, Listening, PageTyped, TrayTyped, Blank, None, AllRoutes, Home, Phases
<1>11. Returning
  BY <1>1 DEF Returning, SamePage
<1> QED
  BY <1>2, <1>3, <1>4, <1>5, <1>6, <1>7, <1>8, <1>9, <1>10, <1>11 DEF IInv

LEMMA EditProxyKeeps ==
  ASSUME IInv, app, EditProxy
  PROVE  IInv' /\ Returning
<1> PageTyped /\ TrayTyped /\ ChanTyped /\ JobTyped /\ RowTyped
    /\ RowInv /\ TrayInv /\ WindowInv /\ VisibleInv /\ RouteInv /\ ExitInv
  BY DEF IInv
<1>1. /\ SamePage(page', page, {"ui", "sync", "save"})
      /\ page.phase = "ready"
      /\ page'.ui = [page.ui EXCEPT !.proxy = ~@]
      /\ Saves
      /\ Syncs
      /\ UNCHANGED <<row, sent, tray, win, chan, missed, left, job, closing, quit, app, asked>>
  <2> DEFINE p == [page EXCEPT !.ui.proxy = ~@]
  <2>1. SamePage(p, page, {"ui"}) /\ p.ui = [page.ui EXCEPT !.proxy = ~@]
    BY DEF PageTyped, SamePage
  <2>2. page.phase = "ready" /\ page' = Watched(p)
        /\ UNCHANGED <<row, sent, tray, win, chan, missed, left, job, closing, quit, app, asked>>
    BY DEF EditProxy, Spend, saved, exit
  <2> HIDE DEF p
  <2>3. SamePage(p, p, {}) /\ SameTray(tray, tray, {})
    BY <2>1 DEF SamePage, TrayTyped, SameTray
  <2>4. SamePage(page', p, {"sync", "save"}) /\ Saves /\ Syncs
    BY <2>1, <2>2, <2>3, Watching DEF SamePage
  <2> QED
    BY <2>1, <2>2, <2>4 DEF SamePage, SameTray
<1>2. TrayTyped' /\ JobTyped' /\ RowTyped' /\ ExitInv'
  BY <1>1 DEF SameTray, None, TrayTyped, JobTyped, RowTyped, ExitInv
<1>3. PageTyped'
  BY <1>1 DEF PageTyped, SamePage, Phases, Listening, Home, None, AllRoutes, Blank, Row, RowTyped
<1>4. ChanTyped'
  BY <1>1 DEF ChanTyped, SamePage, Listening, PageTyped, None
<1>5. RowInv'
  BY <1>1 DEF RowInv, JobIn, SamePage, None, Saves, Listening, PageTyped, Phases
<1>6. TrayInv'
  BY <1>1 DEF TrayInv, Past, Mirrors, Payload, SamePage, Listening, Syncs, None
<1>7. WindowInv'
  BY <1>1 DEF WindowInv, JobIn, SamePage, Listening, None, PageTyped, Phases
<1>8. VisibleInv'
  BY <1>1 DEF VisibleInv, Past, SamePage, Listening, JobTyped, None, Actors
<1>9. RouteInv'
  BY <1>1 DEF RouteInv, SamePage, Listening, PageTyped, TrayTyped, Blank, None, AllRoutes, Home, Phases
<1>10. Returning
  BY <1>1 DEF Returning, SamePage
<1> QED
  BY <1>2, <1>3, <1>4, <1>5, <1>6, <1>7, <1>8, <1>9, <1>10 DEF IInv

LEMMA EditCloseKeeps ==
  ASSUME IInv, app, EditClose
  PROVE  IInv' /\ Returning
<1> PageTyped /\ TrayTyped /\ ChanTyped /\ JobTyped /\ RowTyped
    /\ RowInv /\ TrayInv /\ WindowInv /\ VisibleInv /\ RouteInv /\ ExitInv
  BY DEF IInv
<1>1. /\ SamePage(page', page, {"ui", "out", "owed", "sync", "save"})
      /\ page.phase = "ready"
      /\ \E c \in Close : page'.ui = [page.ui EXCEPT !.close = c]
      /\ SameTray(tray', tray, {})
      /\ Saves
      /\ Forced
      /\ UNCHANGED <<row, sent, win, chan, missed, left, job, closing, quit, app, asked>>
  <2>1. PICK c \in Close : ForceSync(Watched([page EXCEPT !.ui.close = c]), tray)
    BY DEF EditClose
  <2> DEFINE p == [page EXCEPT !.ui.close = c]
  <2>2. SamePage(p, page, {"ui"}) /\ p.ui = [page.ui EXCEPT !.close = c]
    BY DEF PageTyped, SamePage
  <2>3. page.phase = "ready" /\ ForceSync(Watched(p), tray)
        /\ UNCHANGED <<row, sent, win, chan, missed, left, job, closing, quit, app, asked>>
    BY <2>1 DEF EditClose, Spend, saved, exit
  <2> HIDE DEF p
  <2>4. SamePage(p, p, {}) /\ SameTray(tray, tray, {})
    BY <2>2 DEF SamePage, TrayTyped, SameTray
  <2>5. /\ SamePage(page', p, {"out", "owed", "sync", "save"}) /\ SameTray(tray', tray, {})
        /\ Saves /\ Forced
    <3>1. p.ui.close # None
      BY <2>2, <2>3 DEF PageTyped, Row, Close, None
    <3> QED
      BY <2>2, <2>3, <2>4, <3>1, Rewriting DEF SamePage
  <2> QED
    BY <2>2, <2>3, <2>5 DEF SamePage, SameTray
<1>2. JobTyped' /\ RowTyped' /\ ExitInv'
  BY <1>1 DEF SameTray, None, JobTyped, RowTyped, ExitInv
<1>3. PageTyped'
  BY <1>1 DEF PageTyped, SamePage, Phases, Listening, Home, None, AllRoutes, Blank, Row, RowTyped
<1>4. TrayTyped'
  BY <1>1 DEF TrayTyped, SameTray, SamePage, PageTyped, Forced, AllRoutes, Home, Blank
<1>5. ChanTyped'
  BY <1>1 DEF ChanTyped, SamePage, Listening, PageTyped, None
<1>6. RowInv'
  BY <1>1 DEF RowInv, JobIn, SamePage, None, Saves, Listening, PageTyped, Phases
<1>7. TrayInv'
  BY <1>1 DEF TrayInv, Past, Mirrors, Payload, SamePage, SameTray, Listening, Forced, None
<1>8. WindowInv'
  BY <1>1 DEF WindowInv, JobIn, SamePage, Listening, None, PageTyped, Phases
<1>9. VisibleInv'
  BY <1>1 DEF VisibleInv, Past, SamePage, SameTray, Listening, Forced, JobTyped, None, Actors
<1>10. RouteInv'
  BY <1>1
     DEF RouteInv, SamePage, SameTray, Listening, PageTyped, TrayTyped, Blank, None, AllRoutes, Home, Phases
<1>11. Returning
  BY <1>1 DEF Returning, SamePage
<1> QED
  BY <1>2, <1>3, <1>4, <1>5, <1>6, <1>7, <1>8, <1>9, <1>10, <1>11 DEF IInv

-----------------------------------------------------------------------------
(* The theorems. *)

LEMMA Start == Init => IInv
<1> SUFFICES ASSUME Init PROVE IInv
  OBVIOUS
<1>1. /\ row \in [proxy : {FALSE}, tun : {FALSE}, close : Behaviours] /\ Behaviours \subseteq Close
      /\ page = NewPage /\ chan = << >> /\ sent = NoRow /\ closing = "no" /\ quit = "no" /\ app = TRUE /\ left = None
      /\ win \in {"hidden", "shown"}
  BY DesktopAssumption DEF Init, Close
<1>2. DOMAIN tray = {"proxy", "tun", "close", "visible", "route", "pendingRoute", "toggle", "keepAlive", "allowExit"}
      /\ tray.route = Home /\ tray.pendingRoute = None
  BY DesktopAssumption DEF Init
<1>3. /\ DOMAIN job = Actors
      /\ \A a \in Actors : DOMAIN job[a] = {"step", "what", "to", "cfg", "new"} /\ job[a].step \in {"idle", "fetch"}
  BY DEF Init, NoJob, Actors
<1>4. PageTyped
  BY <1>1, Blanks DEF PageTyped, SamePage, NoPage, Phases, AllRoutes, None
<1>8. TrayTyped /\ ChanTyped
  BY <1>1, <1>2 DEF TrayTyped, ChanTyped, AllRoutes
<1>5. JobTyped /\ RowTyped
  BY <1>1, <1>3 DEF JobTyped, RowTyped, Row
<1>6. RowInv /\ TrayInv /\ WindowInv /\ VisibleInv
  BY <1>1, Blanks DEF RowInv, TrayInv, WindowInv, VisibleInv, Past, Listening
<1>7. RouteInv /\ ExitInv
  BY <1>1, Blanks DEF RouteInv, ExitInv, Listening
<1> QED
  BY <1>4, <1>5, <1>6, <1>7, <1>8 DEF IInv

LEMMA Stutter == IInv /\ UNCHANGED vars => IInv'
<1> SUFFICES ASSUME IInv, UNCHANGED vars PROVE IInv'
  OBVIOUS
<1>1. UNCHANGED <<row, sent, tray, win, page, chan, missed, left, job, closing, quit, app, asked>>
  BY DEF vars
<1>2. PageTyped' /\ TrayTyped' /\ ChanTyped' /\ JobTyped' /\ RowTyped' /\ RouteInv' /\ ExitInv'
  BY <1>1 DEF SameTray, None, IInv, PageTyped, TrayTyped, ChanTyped, JobTyped, RowTyped, RouteInv, ExitInv, Listening
<1>3. RowInv' /\ TrayInv' /\ WindowInv' /\ VisibleInv'
  BY <1>1 DEF IInv, RowInv, TrayInv, WindowInv, VisibleInv, Past, Payload, Mirrors, Listening, JobIn
<1> QED
  BY <1>2, <1>3 DEF IInv

LEMMA Step == IInv /\ Next => IInv' /\ Returning
<1> SUFFICES ASSUME IInv, Next PROVE IInv' /\ Returning
  OBVIOUS
<1>1. CASE User
  <2>1. app
    BY <1>1
       DEF User, Show, CloseHides, CloseDestroys, ClickQuit, KernelSwitches, Navigate, EditProxy, EditClose,
                ClickToggle, ClickRestart, Spend
  <2> QED
    BY <1>1, <2>1, ShowKeeps, CloseHidesKeeps, CloseDestroysKeeps, ClickQuitKeeps, KernelSwitchesKeeps,
       NavigateKeeps,
       EditProxyKeeps, EditCloseKeeps, ClickToggleKeeps, ClickRestartKeeps DEF User
<1>2. CASE Quit
  BY <1>2, QuitStopsKeeps, QuitExitsKeeps DEF Quit, QuitStops, QuitExits
<1>3. CASE app /\ (\E a \in Actors : Job(a))
  BY <1>3, JobGateKeeps, JobReadKeeps, JobSaveKeeps, JobApplyKeeps, JobFetchKeeps, JobPublishKeeps,
     JobQueueKeeps,
     JobShowKeeps, JobMarkKeeps DEF Job
<1>4. CASE app /\ Shell
  BY <1>4, StartupEnterKeeps, WindowGoesKeeps DEF Shell
<1>5. CASE app /\ Boot
  BY <1>5, BootLoadKeeps, BootCheckKeeps, BootListenKeeps, BootSyncKeeps, BootRouteKeeps, BootToggleKeeps
     DEF Boot
<1>6. CASE app /\ Timer
  BY <1>6, SyncFiresKeeps, SaveFiresKeeps DEF Timer
<1>7. CASE app /\ Handler
  BY <1>7, OnShowKeeps, OnNavigateKeeps, OnHideKeeps, GoBlankKeeps, OnUpdatedKeeps, LoadedKeeps, OnSwitchKeeps,
     TaskAnsweredKeeps, TaskAppliedKeeps, TaskAgainKeeps DEF Handler
<1>8. CASE app /\ Answer
  BY <1>8, SyncLandsKeeps, SaveLandsKeeps DEF Answer
<1>9. CASE Fault
  <2>1. app
    BY <1>9 DEF Fault, SyncFails, SaveFails, BootLoadFails, LoadFails, Spend
  <2> QED
    BY <1>9, <2>1, SyncFailsKeeps, SaveFailsKeeps, BootLoadFailsKeeps, LoadFailsKeeps DEF Fault
<1> QED
  BY <1>1, <1>2, <1>3, <1>4, <1>5, <1>6, <1>7, <1>8, <1>9 DEF Next, Background

LEMMA Held == Spec => []IInv
BY Start, Step, Stutter, PTL DEF Spec

LEMMA Agreement == IInv => ShellAgrees
<1> SUFFICES ASSUME IInv, Settled, ~missed
             PROVE  /\ page.apart \/ page.ui = row
                    /\ page.owed \/ Shows(tray, page)
                    /\ page.visible = (win = "shown")
  BY DEF ShellAgrees
<1>1. /\ \A a \in Actors : job[a].step = "idle"
      /\ page.phase = "ready" /\ chan = << >> /\ sent = NoRow /\ closing = "no"
      /\ page.read = NoRow /\ page.out = NoPayload /\ ~page.sync /\ ~page.save /\ ~page.blanking
  BY DEF Settled
<1>2. \A kinds : ~Has(chan, kinds) /\ \A kind : ~Last(chan, kind)
  BY <1>1 DEF Has, Last
<1>3. ~JobIn({"apply", "fetch", "publish"}) /\ ~JobIn({"mark"})
  BY <1>1 DEF JobIn
<1>4. row # NoRow /\ page.ui # NoRow
  BY <1>1 DEF IInv, RowTyped, PageTyped, Row, NoRow, Close, None
<1>5. page.apart \/ page.ui = row
  BY <1>1, <1>2, <1>3, <1>4 DEF IInv, RowInv, None
<1>6. page.owed \/ (Mirrors(tray, page.last) /\ page.last = Payload(page))
  BY <1>1, <1>2 DEF IInv, TrayInv, Past
<1>7. page.owed \/ tray.visible = page.visible
  <2>1. ASSUME ~page.owed PROVE page.last.visible = page.visible
    BY <1>6, <2>1 DEF Payload
  <2>2. ASSUME ~page.owed PROVE tray.visible = page.last.visible \/ (tray.visible = TRUE /\ page.visible = TRUE)
    BY <1>1, <1>2, <2>2 DEF IInv, VisibleInv, Past
  <2> QED
    BY <2>1, <2>2
<1>8. page.owed \/ Shows(tray, page)
  BY <1>6, <1>7 DEF Mirrors, Payload, Shows
<1>9. page.visible \in BOOLEAN /\ (page.visible <=> win = "shown")
  BY <1>1, <1>2, <1>3 DEF IInv, PageTyped, WindowInv, Listening
<1> QED
  BY <1>5, <1>8, <1>9

\* Once nothing is under way, the page shows the saved row unless its own load or save
\* failed or crossed another, and the tray shows the page unless a sync was dropped or
\* failed and none sent since (service.rs:772-940, TrayStore.ts:101-130,
\* persistence.ts:92-172, 232-244).
THEOREM ShellsAgree == Spec => []ShellAgrees
BY Held, Agreement, PTL

\* The application ends after an exit was asked for, or when a show overtakes the
\* destruction of the window that a lightweight close or autostart has posted
\* (service.rs:254-262, 651-658, 720-739, lib.rs:320-329).
THEOREM OnlyQuitsExit == Spec => []OnlyQuitExits
<1>1. IInv => OnlyQuitExits
  BY DEF IInv, ExitInv, OnlyQuitExits
<1> QED
  BY <1>1, Held, PTL

\* A closed window comes back on the page it was closed on (service.rs:640-678).
THEOREM RoutesReturn == Spec => RouteReturns
<1> DEFINE A == page.phase = "route" /\ page'.phase = "toggle" /\ left # None => page'.route = left
<1>1. IInv /\ [Next]_vars => [A]_vars
  BY Step DEF Returning
<1> QED
  BY <1>1, Held, PTL DEF Spec, RouteReturns
=============================================================================
