--------------------------- MODULE AppUpdateProofs ---------------------------
(* What MCStorage checks on its instance, for every list of backups,        *)
(* subscriptions, tables, releases and machines: the settings at rest       *)
(* (paths, backups, restores and the automatic save) and the application's  *)
(* own update. All of it follows from one inductive invariant, IInv.        *)
EXTENDS AppUpdate, WellFoundedInduction, TLAPS

\* A row of app_config whose path, if it has one, the application made.
OwnRow(row) == AppRow(row) /\ (row.path = NoPath \/ OwnActive(row.path))

SaveTyped(sv) ==
  /\ DOMAIN sv = {"pc", "app"}
  /\ sv.pc # "idle" => OwnRow(sv.app) /\ Loaded(sv.app) = sv.app

\* The rows and the frontend's copies of them. What the frontend holds has
\* been read, so that reading it again changes nothing.
RowsTyped ==
  /\ OwnRow(app) /\ OwnSubs(subs)
  /\ DOMAIN ui = {"app", "armed", "starting", "stale"} /\ OwnRow(ui.app) /\ Loaded(ui.app) = ui.app
  /\ DOMAIN save = Timers /\ \A s \in Timers : SaveTyped(save[s])

\* The other tables; of their rows only the update settings' one matters.
TablesTyped(rows) == DOMAIN rows = DOMAIN Defaults /\ rows["update"] \in UpdateRow

\* An export holds what it has read so far.
ExportTyped ==
  /\ DOMAIN exp = {"pc", "at", "app", "others", "subs", "content"}
  /\ OwnRow(exp.app) /\ OwnSubs(exp.subs) /\ TablesTyped(exp.others)

\* A backup that is accepted restores paths of this machine; one that was
\* exported here restores the very paths it was made from.
Restorable(s) ==
  /\ AppRow(s.app) /\ OwnActive(LocalActive(s)) /\ OwnSubs(LocalSubs(s))
  /\ s.others["update"] \in UpdateRow
  /\ s.own # <<>> => LocalSubs(s) = s.own[1].subs /\ LocalActive(s) = s.own[1].path

\* A restore holds what it will save, with its paths rewritten.
ImportTyped ==
  /\ DOMAIN imp = {"pc", "at", "snap", "app", "subs", "fell"}
  /\ imp.pc # "idle" => /\ AppRow(imp.app) /\ OwnActive(imp.app.path) /\ OwnSubs(imp.subs)
                        /\ imp.snap.others["update"] \in UpdateRow

StorageTyped ==
  /\ RowsTyped /\ TablesTyped(others) /\ ExportTyped /\ ImportTyped
  /\ Accepted(backup) => Restorable(backup)

\* Unless something was cut short or crossed: while a restore runs the frontend
\* has nothing to save; at rest its copy is the row; a save in progress is the
\* only one, and, unless an edit has overtaken it, carries that copy.
FollowInv ==
  /\ ui.starting => ~ui.armed /\ ~Saving
  /\ ~cut =>
       /\ imp.pc # "idle" => ~ui.starting /\ ~ui.armed /\ ~Saving /\ (~ui.stale => ui.app.prefs = prefs)
       /\ imp.pc = "idle" /\ ~ui.armed /\ ~Saving /\ ~ui.stale =>
            ui.app = Taken(app, ui.app) /\ prefs = app.prefs
       /\ \A s \in Timers : save[s].pc # "idle" =>
            /\ ~ui.armed => save[s].app = ui.app
            /\ \A t \in Timers \ {s} : save[t].pc = "idle"
       /\ \A s \in Timers : save[s].pc = "prefs" => app = save[s].app

\* What a restore has replaced when it is at a given step.
CompleteInv ==
  /\ imp.pc \in {"idle", "file", "row", "tables", "subs", "reload"}
  /\ imp.pc \in {"file", "row"} => imp.at = 1
  /\ imp.pc = "tables" => imp.at \in 1 .. Len(Tables)
  /\ imp.pc \in {"subs", "reload"} => imp.at = Len(Tables) + 1
  /\ ~cut =>
       /\ imp.pc \in {"tables", "subs", "reload"} =>
            /\ app = imp.app
            /\ \A i \in DOMAIN Tables : i < imp.at => others[Tables[i]] = RestoredRow(Tables[i])
       /\ imp.pc = "reload" => subs = imp.subs

\* An offer for this machine and ahead of what runs.
Good(o) ==
  /\ Fits(o.asset, machine)
  /\ o.tag.semver => o.tag.n > current

\* The store's row has a channel, as have the rows on their way to the disk.
UpdatesTyped ==
  /\ DOMAIN store = {"row", "offer", "busy", "init", "parted"} /\ store.row \in UpdateRow /\ store.row.channel # "none"
  /\ saving \in Seq(UpdateRow)
  /\ check.pc # "idle" => check.channel \in {"stable", "prerelease", "autobuild"}
  /\ round.pc # "idle" => round.row \in UpdateRow

\* Unless they have parted, the rows on their way to the disk are the store's.
StoreInv ==
  /\ ~store.parted => ~Crosses(store.row)
  /\ UpdateStoreFollows

\* Where updates happen in the application every offer and every download is
\* good; a single download owns the temporary file while it writes, then the
\* package, which the installer is started on.
PackageInv ==
  /\ \A d \in Slots : DOMAIN dl[d] = {"pc", "offer", "open"}
  /\ DOMAIN dl = Slots /\ DOMAIN pkg = {"exe", "msi"} /\ overlap \in BOOLEAN
  /\ InApp /\ store.offer # NoOffer => Good(store.offer)
  /\ \A d \in Slots : dl[d].pc # "idle" => InApp /\ Good(dl[d].offer)
  /\ \A d \in Slots : dl[d].open => dl[d].pc \in {"proxy", "direct"}
  /\ ~overlap =>
       /\ \A d, e \in Slots : dl[d].pc # "idle" /\ dl[e].pc # "idle" => d = e
       /\ \A d \in Slots : dl[d].open => tmp = [by |-> d, clean |-> TRUE]
       /\ \A d \in Slots : dl[d].pc = "install" => pkg[FileOf(dl[d].offer)] = [offer |-> dl[d].offer, whole |-> TRUE]
       /\ ran # NotRun => ran.file = [offer |-> ran.asked, whole |-> TRUE] /\ Good(ran.asked)

----------------------------------------------------------------------------
(* Paths.                                                                   *)

\* Whatever path a backup carries, a subscription's is decoded into "configs".
LEMMA DecodedSub ==
  ASSUME NEW p, SomePath(p), NEW kind \in {"config", "backup"}
  PROVE  InConfigs(Decode(p, kind))
<1> DEFINE r == Localised(p, kind)
<1>1. DefaultName(kind) # ""
  BY DEF DefaultName
<1>2. \A q : FromKind(q, kind).dir = "configs" /\ FromKind(q, kind).name # ""
  BY <1>1 DEF FromKind, Relative, Path
<1>3. r.dir = "configs" /\ r.name # ""
  BY <1>2 DEF SomePath, Localised, Stripped, Enforce, Relative, Path
<1> QED
  BY <1>3 DEF Decode, InConfigs, Here, Path

\* The active configuration's, there or to the default configuration.
LEMMA DecodedActive ==
  ASSUME NEW p, SomePath(p)
  PROVE  OwnActive(Decode(p, "active"))
<1> DEFINE r == Localised(p, "active")
<1>1. \A q : LET f == FromKind(q, "active")
             IN  (f.dir = "configs" /\ f.name # "") \/ (f.dir = "" /\ f.name = "config.json")
  BY DEF FromKind, DefaultName, Relative, Path
<1>2. \/ r.dir = "configs" /\ r.name # ""
      \/ r.dir = "" /\ r.name = "config.json"
  BY <1>1 DEF SomePath, Localised, Stripped, Enforce, Relative, Path
<1> QED
  BY <1>2 DEF Decode, OwnActive, InConfigs, DefaultActive, Here, Path

\* Decoding undoes encoding, for the paths the application makes.
LEMMA EncodedSub ==
  ASSUME NEW p, InConfigs(p), NEW kind \in {"config", "backup"}
  PROVE  SomePath(Encode(p, kind)) /\ Decode(Encode(p, kind), kind) = p /\ Encode(p, kind) # NoPath
<1>1. PICK n : n # "" /\ p = Here("configs", n)
  BY DEF InConfigs
<1>2. Encode(Here("configs", n), kind) = Relative("configs", n)
  BY DEF Here, Path, Encode, NoPath, Stripped, Enforce, Relative
<1>3. Decode(Relative("configs", n), kind) = Here("configs", n)
  BY <1>1 DEF Decode, Localised, Blank, Enforce, Here, Relative, Path
<1>4. SomePath(Relative("configs", n)) /\ Relative("configs", n) # NoPath
  BY <1>1 DEF SomePath, NoPath, Relative, Path
<1> QED
  BY <1>1, <1>2, <1>3, <1>4

\* The same for the active configuration's path.
LEMMA EncodedActive ==
  ASSUME NEW p, OwnActive(p)
  PROVE  SomePath(Encode(p, "active")) /\ Decode(Encode(p, "active"), "active") = p /\ Encode(p, "active") # NoPath
<1>1. ASSUME NEW d, NEW n, n # "", d = "configs" \/ (d = "" /\ n = "config.json")
      PROVE  LET q == Here(d, n)
             IN  SomePath(Encode(q, "active")) /\ Decode(Encode(q, "active"), "active") = q /\ Encode(q, "active") # NoPath
  <2>1. Encode(Here(d, n), "active") = Relative(d, n)
    BY <1>1 DEF Here, Path, Encode, NoPath, Stripped, Enforce, Relative
  <2>2. Decode(Relative(d, n), "active") = Here(d, n)
    BY <1>1 DEF Decode, Localised, Blank, Enforce, Here, Relative, Path
  <2>3. SomePath(Relative(d, n)) /\ Relative(d, n) # NoPath
    BY <1>1 DEF SomePath, NoPath, Relative, Path
  <2> QED
    BY <2>1, <2>2, <2>3
<1>2. CASE InConfigs(p)
  <2>1. PICK n : n # "" /\ p = Here("configs", n)
    BY <1>2 DEF InConfigs
  <2> QED
    BY <1>1, <2>1
<1>3. CASE p = DefaultActive
  BY <1>1, <1>3 DEF DefaultActive
<1> QED
  BY <1>2, <1>3 DEF OwnActive

\* No path is encoded as no path.
LEMMA NoPathEncoded == SomePath(NoPath) /\ \A kind : Encode(NoPath, kind) = NoPath
  BY DEF Encode, NoPath, SomePath, Path

\* No path is none of the application's.
LEMMA PathsApart == ~OwnActive(NoPath) /\ ~InConfigs(NoPath) /\ OwnActive(DefaultActive)
  BY DEF NoPath, OwnActive, InConfigs, DefaultActive, Here, Path

----------------------------------------------------------------------------
(* Backups.                                                                 *)

\* The rewriting of another machine's backup yields paths of this one.
LEMMA ForeignRestorable ==
  ASSUME NEW s \in Foreign
  PROVE  Restorable(s)
<1>1. /\ AppRow(s.app) /\ SomePath(s.app.path) /\ SomePath(s.path) /\ s.own = <<>>
      /\ \A i \in DOMAIN s.subs : SomePath(s.subs[i].cfg) /\ SomePath(s.subs[i].bak)
  BY ForeignAssumption
<1>2. OwnActive(LocalActive(s))
  BY <1>1, DecodedActive, PathsApart DEF LocalActive
<1>3. OwnSubs(LocalSubs(s))
  BY <1>1, DecodedSub DEF OwnSubs, Rows, LocalSubs, DecodeOptional
<1> QED
  BY <1>1, <1>2, <1>3, UpdateRowAssumption DEF Restorable

\* The backup an export writes restores what it was made from.
LEMMA SnapshotRestorable ==
  ASSUME ExportTyped
  PROVE  Restorable(Snapshot)
<1> DEFINE path == Encode(exp.app.path, "active")
<1>1. /\ Snapshot.app = [exp.app EXCEPT !.path = path] /\ Snapshot.path = path /\ Snapshot.others = exp.others
      /\ Snapshot.own = <<[path |-> ActiveFile(exp.app.path), subs |-> exp.subs]>>
      /\ Snapshot.subs = [i \in DOMAIN exp.subs |-> [cfg |-> Encode(exp.subs[i].cfg, "config"),
                                                    bak |-> Encode(exp.subs[i].bak, "backup")]]
  BY DEF Snapshot
<1>2. AppRow(Snapshot.app) /\ Snapshot.app.path = path
  BY <1>1 DEF ExportTyped, OwnRow, AppRow
<1>3. LocalActive(Snapshot) = ActiveFile(exp.app.path) /\ OwnActive(ActiveFile(exp.app.path))
  <2>1. CASE exp.app.path = NoPath
    BY <2>1, <1>1, <1>2, NoPathEncoded, PathsApart DEF LocalActive, ActiveFile
  <2>2. CASE exp.app.path # NoPath
    BY <2>2, <1>2, EncodedActive DEF LocalActive, ActiveFile, ExportTyped, OwnRow
  <2> QED
    BY <2>1, <2>2
<1>4. LocalSubs(Snapshot) = exp.subs
  <2>1. \A i \in DOMAIN exp.subs : /\ DecodeOptional(Encode(exp.subs[i].cfg, "config"), "config") = exp.subs[i].cfg
                                    /\ DecodeOptional(Encode(exp.subs[i].bak, "backup"), "backup") = exp.subs[i].bak
    BY EncodedSub, NoPathEncoded DEF ExportTyped, OwnSubs, DecodeOptional
  <2>2. LocalSubs(Snapshot) = [i \in DOMAIN exp.subs |-> [cfg |-> exp.subs[i].cfg, bak |-> exp.subs[i].bak]]
    BY <1>1, <2>1 DEF LocalSubs
  <2> QED
    BY <2>2 DEF ExportTyped, OwnSubs, Rows
<1>5. Snapshot.own[1].subs = exp.subs /\ Snapshot.own[1].path = ActiveFile(exp.app.path)
  BY <1>1
<1> QED
  BY <1>1, <1>2, <1>3, <1>4, <1>5 DEF Restorable, ExportTyped, TablesTyped

----------------------------------------------------------------------------
(* The settings.                                                            *)

\* What a step of the whole means to the storage.
StorageStep ==
  \/ Running \/ \E ok \in BOOLEAN : ImportReload(ok) \/ Launch(ok)
  \/ \E i \in DOMAIN saving : SaveTable("update", saving[i])
  \/ UNCHANGED Settings

\* Only SaveLands reaches into the storage from the update's side.
LEMMA StorageSteps == [UpdNext]_allVars => StorageStep
  BY DEF UpdNext, allVars, vars, Settings, StorageStep, Reload, Relaunch, ChooseChannel, ChooseAuto, StoreInit, SaveLands, CheckBegin, CheckEnds, RoundBegin,
         RoundEnds, Download, Open, Finish, Break, Install

\* A row the page has taken over has been read, and taking it again changes
\* nothing.
LEMMA TakenRow ==
  ASSUME NEW row, NEW page, OwnRow(row)
  PROVE  LET t == Taken(row, page)
         IN  OwnRow(t) /\ Loaded(t) = t /\ Taken(row, t) = t /\ t.prefs = row.prefs
<1> DEFINE set(q) == IF row.set = Empty THEN q.set ELSE row.set
           excl == IF row.excl = "bad" THEN "none" ELSE row.excl
<1>1. row = [path |-> row.path, prefs |-> row.prefs, set |-> row.set, excl |-> row.excl]
  BY DEF OwnRow, AppRow
<1>2. ASSUME NEW q
      PROVE  Taken(row, q) = [path |-> row.path, prefs |-> row.prefs, set |-> set(q), excl |-> excl]
  <2>1. Loaded(row) = [path |-> row.path, prefs |-> row.prefs, set |-> row.set, excl |-> excl]
    BY <1>1 DEF Loaded
  <2> HIDE DEF excl
  <2> QED
    BY <2>1 DEF Taken
<1>3. excl # "bad"
  OBVIOUS
<1> HIDE DEF excl
<1> DEFINE t == Taken(row, page)
<1>4. t = [path |-> row.path, prefs |-> row.prefs, set |-> set(page), excl |-> excl]
  BY <1>2
<1>5. t.path = row.path /\ t.prefs = row.prefs /\ t.set = set(page) /\ t.excl = excl
  <2> HIDE DEF set, t
  <2> QED BY <1>4
<1>6. OwnRow(t)
  <2> HIDE DEF set, t
  <2> QED BY <1>4, <1>5 DEF OwnRow, AppRow
<1>7. Loaded(t) = t
  <2> HIDE DEF set, t
  <2> QED BY <1>3, <1>4 DEF Loaded
<1>8. Taken(row, t) = t
  <2>1. set(t) = set(page)
    BY <1>5
  <2> HIDE DEF set, t
  <2> QED BY <1>2, <1>4, <2>1
<1> QED
  BY <1>5, <1>6, <1>7, <1>8

\* So does taking over a row that the page has written.
LEMMA TakenSelf ==
  ASSUME NEW row, OwnRow(row), Loaded(row) = row
  PROVE  Taken(row, row) = row
  BY DEF OwnRow, AppRow, Taken, Loaded

\* The rows stay well formed: saves, switches, restores and launches put in rows
\* of local paths.
LEMMA RowsStep ==
  ASSUME StorageTyped, StorageStep
  PROVE  RowsTyped'
<1> USE DEF StorageTyped, RowsTyped
<1>0. SaveTyped(NoSave) /\ \A sv : SaveTyped(sv) /\ sv.pc # "idle" => SaveTyped([sv EXCEPT !.pc = "prefs"])
  <2>1. SaveTyped(NoSave)
    BY DEF SaveTyped, NoSave
  <2>2. ASSUME NEW sv, SaveTyped(sv), sv.pc # "idle" PROVE SaveTyped([sv EXCEPT !.pc = "prefs"])
    <3> DEFINE new == [sv EXCEPT !.pc = "prefs"]
    <3>1. DOMAIN new = {"pc", "app"} /\ new.app = sv.app
      BY <2>2 DEF SaveTyped
    <3> HIDE DEF new
    <3>2. SaveTyped(new)
      BY <2>2, <3>1 DEF SaveTyped
    <3> QED BY <3>2 DEF new
  <2> QED
    BY <2>1, <2>2
<1>1. CASE SaveBegin \/ Started
  <2>1. SaveTyped([pc |-> "row", app |-> ui.app])
    BY DEF SaveTyped
  <2> QED
    BY <1>1, <2>1 DEF SaveBegin, Started
<1>8. ASSUME NEW s \in Timers, SaveRow(s) \/ SavePrefs(s) PROVE RowsTyped'
  <2>1. \/ save' = [save EXCEPT ![s] = NoSave]
        \/ save' = [save EXCEPT ![s].pc = "prefs"] /\ save[s].pc # "idle"
    BY <1>8 DEF SaveRow, SavePrefs
  <2>2. DOMAIN save' = Timers /\ \A t \in Timers : SaveTyped(save'[t])
    BY <1>0, <2>1
  <2>3. UNCHANGED <<subs, ui>> \/ (UNCHANGED subs /\ ui' = [ui EXCEPT !.stale = FALSE])
    BY <1>8 DEF SaveRow, SavePrefs
  <2>4. OwnRow(app)'
    <3>1. UNCHANGED app \/ (app' = save[s].app /\ save[s].pc # "idle")
      BY <1>8 DEF SaveRow, SavePrefs
    <3> QED
      BY <3>1 DEF OwnRow, SaveTyped, AppRow
  <2> QED
    BY <2>2, <2>3, <2>4
<1>2. ASSUME NEW f \in {"prefs", "set"}, Edit(f) PROVE RowsTyped'
  BY <1>2 DEF Edit, OwnRow, AppRow, Loaded
<1>3. ASSUME NEW p \in {Here("configs", "a"), Here("configs", "b")}, Switch(p) PROVE RowsTyped'
  <2>1. OwnActive(p)
    <3>1. ASSUME NEW n, n # "" PROVE OwnActive(Here("configs", n))
      BY <3>1 DEF OwnActive, InConfigs, Here, Path
    <3> QED
      BY <3>1
  <2>2. app' = [Loaded(app) EXCEPT !.path = p] /\ ui' = [ui EXCEPT !.app.path = p, !.armed = TRUE]
        /\ UNCHANGED <<subs, save>>
    BY <1>3 DEF Switch
  <2>3. OwnRow(app')
    BY <2>1, <2>2 DEF OwnRow, AppRow, Loaded
  <2>4. DOMAIN ui' = DOMAIN ui /\ OwnRow(ui'.app) /\ Loaded(ui'.app) = ui'.app
    BY <2>1, <2>2 DEF OwnRow, AppRow, Loaded
  <2> QED
    BY <2>2, <2>3, <2>4
<1>4. ASSUME NEW list \in Lists, SaveSubs(list) PROVE RowsTyped'
  BY <1>4, ListsAssumption DEF SaveSubs
<1>5. CASE ImportRow \/ ImportSubs
  BY <1>5 DEF ImportRow, ImportSubs, ImportTyped, OwnRow
<1>6. ASSUME NEW ok \in BOOLEAN, ImportReload(ok) \/ Launch(ok) PROVE RowsTyped'
  <2>1. /\ UNCHANGED <<app, subs>> /\ DOMAIN save' = Timers
        /\ \A t \in Timers : save'[t] = save[t] \/ save'[t] = NoSave
    BY <1>6 DEF ImportReload, Launch
  <2>2. /\ DOMAIN ui' = DOMAIN ui
        /\ ui'.app = ui.app \/ ui'.app = NoRow \/ \E page : ui'.app = Taken(app, page)
    <3>1. CASE ui' = Reloaded(app)
      <4> DEFINE page == Taken(app, ui.app)
      <4>1. ui' = [ui EXCEPT !.app = page, !.armed = IF page = ui.app \/ ui.starting THEN @ ELSE TRUE]
        BY <3>1 DEF Reloaded
      <4> HIDE DEF page
      <4>2. DOMAIN ui' = DOMAIN ui /\ ui'.app = page
        BY <4>1
      <4> QED BY <4>2 DEF page
    <3>2. CASE ui' = [ui EXCEPT !.stale = TRUE]
      BY <3>2
    <3>3. CASE Launch(ok)
      <4> DEFINE page == Taken(app, NoRow)
      <4>1. ui' = [app |-> IF ok THEN page ELSE NoRow, armed |-> FALSE, starting |-> TRUE,
                   stale |-> IF ok THEN ui.stale ELSE TRUE]
        BY <3>3 DEF Launch
      <4> HIDE DEF page
      <4>2. DOMAIN ui' = DOMAIN ui /\ (ui'.app = page \/ ui'.app = NoRow)
        BY <4>1
      <4> QED BY <4>2 DEF page
    <3> QED
      BY <1>6, <3>1, <3>2, <3>3 DEF ImportReload
  <2>3. OwnRow(NoRow) /\ Loaded(NoRow) = NoRow
    BY DEF OwnRow, AppRow, NoRow, Loaded
  <2> QED
    BY <1>0, <2>1, <2>2, <2>3, TakenRow DEF OwnRow, AppRow
<1>7. CASE UNCHANGED <<app, subs, ui, save>>
  BY <1>7
<1> QED
  BY <1>1, <1>2, <1>3, <1>4, <1>5, <1>6, <1>7, <1>8
  DEF StorageStep, Running, Settings, vars, Refresh, EditTheme, SaveTable, ExportBegin, ExportTable, ExportSubs, ExportContent,
      ExportWrite, ImportRefused, ImportBegin, ImportFile, ImportTable

\* The other tables keep their names, the update settings' row its fields.
LEMMA TablesStep ==
  ASSUME StorageTyped, saving \in Seq(UpdateRow), StorageStep
  PROVE  TablesTyped(others)'
<1> USE DEF StorageTyped, TablesTyped
<1>1. CASE EditTheme
  BY <1>1 DEF EditTheme, SaveTable
<1>2. ASSUME NEW i \in DOMAIN saving, SaveTable("update", saving[i]) PROVE TablesTyped(others)'
  BY <1>2 DEF SaveTable
<1>3. CASE ImportTable
  <2>1. RestoredRow("update") \in UpdateRow
    BY <1>3 DEF ImportTable, RestoredRow, ImportTyped, UpdateRow
  <2> QED
    <3>1. CASE UNCHANGED others
      BY <3>1
    <3>2. CASE others' = [others EXCEPT ![Tables[imp.at]] = RestoredRow(Tables[imp.at])]
      <4>1. DOMAIN others' = DOMAIN others
        BY <3>2
      <4>2. others'["update"] = IF Tables[imp.at] = "update" THEN RestoredRow("update") ELSE others["update"]
        BY <3>2, UpdateRowAssumption
      <4> QED
        BY <4>1, <4>2, <2>1
    <3> QED
      BY <1>3, <3>1, <3>2 DEF ImportTable
<1>4. CASE UNCHANGED others
  BY <1>4
<1> QED
  BY <1>1, <1>2, <1>3, <1>4
  DEF StorageStep, Running, Settings, vars, Started, SaveBegin, SaveRow, SavePrefs, Edit, Switch, Refresh, SaveSubs, ExportBegin,
      ExportTable, ExportSubs, ExportContent, ExportWrite, ImportRefused, ImportBegin, ImportFile, ImportRow, ImportSubs,
      ImportReload, Launch

\* What an export has read so far, and the backup it leaves.
LEMMA ExportStep ==
  ASSUME StorageTyped, StorageStep
  PROVE  ExportTyped' /\ (Accepted(backup) => Restorable(backup))'
<1> USE DEF StorageTyped
<1>1. OwnSubs(<<>>) /\ OwnRow(NoRow) /\ OwnRow(Loaded(app)) /\ TablesTyped(Defaults)
  BY UpdateRowAssumption DEF OwnSubs, Rows, RowsTyped, OwnRow, AppRow, NoRow, Loaded, TablesTyped
<1>6. CASE ExportBegin \/ \E ok \in BOOLEAN : Launch(ok)
  <2>1. /\ UNCHANGED backup
        /\ \/ exp' = NoExport
           \/ exp' = [NoExport EXCEPT !.pc = "tables", !.app = Loaded(app)]
    BY <1>6 DEF ExportBegin, Launch
  <2>2. ExportTyped'
    <3>1. /\ DOMAIN exp' = {"pc", "at", "app", "others", "subs", "content"}
          /\ exp'.others = Defaults /\ exp'.subs = <<>> /\ (exp'.app = NoRow \/ exp'.app = Loaded(app))
      <4> DEFINE row == Loaded(app)
      <4>1. CASE exp' = NoExport
        BY <4>1 DEF NoExport
      <4>2. CASE exp' = [NoExport EXCEPT !.pc = "tables", !.app = row]
        <5> HIDE DEF row
        <5>1. exp'.app = row /\ exp'.others = Defaults /\ exp'.subs = <<>>
          BY <4>2 DEF NoExport
        <5> QED
          BY <4>2, <5>1 DEF NoExport, row
      <4> QED
        BY <2>1, <4>1, <4>2
    <3>2. TablesTyped(exp.others)'
      BY <1>1, <3>1 DEF TablesTyped
    <3>3. OwnSubs(exp.subs)' /\ OwnRow(exp.app)'
      BY <1>1, <3>1 DEF OwnRow, AppRow, OwnSubs, Rows
    <3> QED
      BY <3>1, <3>2, <3>3 DEF ExportTyped
  <2> QED
    BY <2>1, <2>2 DEF Accepted, Restorable, LocalActive, LocalSubs
<1>2. CASE ExportTable
  BY <1>2 DEF ExportTable, ExportTyped, TablesTyped
<1>3. CASE ExportSubs \/ ExportContent
  BY <1>3 DEF ExportSubs, ExportContent, ExportTyped, RowsTyped
<1>4. CASE ExportWrite
  <2>1. exp' = NoExport /\ (backup' = Snapshot \/ backup' = Absent)
    BY <1>4 DEF ExportWrite
  <2>2. ExportTyped'
    BY <1>1, <2>1 DEF NoExport, ExportTyped, TablesTyped
  <2>3. (Accepted(backup) => Restorable(backup))'
    <3>1. CASE backup' = Snapshot
      BY <3>1, SnapshotRestorable DEF Restorable, LocalActive, LocalSubs
    <3>2. CASE backup' = Absent
      BY <3>2 DEF Absent, Accepted, Version
    <3> QED
      BY <2>1, <3>1, <3>2
  <2> QED
    BY <2>2, <2>3
<1>5. CASE UNCHANGED <<exp, backup>>
  BY <1>5 DEF ExportTyped, TablesTyped, Accepted, Restorable, LocalActive, LocalSubs
<1> QED
  BY <1>2, <1>3, <1>4, <1>5, <1>6
  DEF StorageStep, Running, Settings, vars, Started, SaveBegin, SaveRow, SavePrefs, Edit, Switch, Refresh, SaveSubs, EditTheme,
      SaveTable, ImportRefused, ImportBegin, ImportFile, ImportRow, ImportTable, ImportSubs, ImportReload

\* What a restore will save is rewritten once, when it begins; falling back to
\* the default path is the only later change.
LEMMA ImportStep ==
  ASSUME StorageTyped, RoundTrip, StorageStep
  PROVE  ImportTyped' /\ RoundTrip'
<1> USE DEF StorageTyped, ImportTyped
<1>1. ASSUME NEW s \in Backups, ImportBegin(s) PROVE ImportTyped' /\ RoundTrip'
  <2>1. Restorable(s)
    BY <1>1, ForeignRestorable DEF ImportBegin, Backups
  <2> QED
    BY <1>1, <2>1 DEF ImportBegin, NoImport, Restorable, AppRow, RoundTrip
<1>2. CASE ImportFile \/ ImportRow
  <2>1. imp.pc # "idle"
    BY <1>2 DEF ImportFile, ImportRow
  <2>2. \/ \E pc : imp' = [imp EXCEPT !.pc = pc]
        \/ imp' = [imp EXCEPT !.pc = "row", !.fell = TRUE, !.app.path = DefaultActive]
        \/ imp' = NoImport
    BY <1>2 DEF ImportFile, ImportRow, ImportFails
  <2>3. ASSUME NEW pc, imp' = [imp EXCEPT !.pc = pc] PROVE ImportTyped' /\ RoundTrip'
    BY <2>1, <2>3 DEF RoundTrip
  <2>4. CASE imp' = [imp EXCEPT !.pc = "row", !.fell = TRUE, !.app.path = DefaultActive]
    <3>1. /\ DOMAIN imp' = DOMAIN imp /\ imp'.app = [imp.app EXCEPT !.path = DefaultActive] /\ imp'.fell
          /\ imp'.subs = imp.subs /\ imp'.snap = imp.snap
      BY <2>4
    <3>2. AppRow(imp'.app) /\ OwnActive(imp'.app.path)
      BY <2>1, <3>1, PathsApart DEF AppRow
    <3> QED
      BY <2>1, <3>1, <3>2 DEF RoundTrip
  <2>5. CASE imp' = NoImport
    BY <2>5 DEF NoImport, RoundTrip
  <2> QED
    BY <2>2, <2>3, <2>4, <2>5
<1>3. CASE ImportTable \/ ImportSubs
  <2>1. imp.pc # "idle"
    BY <1>3 DEF ImportTable, ImportSubs
  <2>2. \/ \E at, pc : imp' = [imp EXCEPT !.at = at, !.pc = pc]
        \/ \E pc : imp' = [imp EXCEPT !.pc = pc]
        \/ imp' = NoImport
    BY <1>3 DEF ImportTable, ImportSubs, ImportFails
  <2>3. CASE imp' = NoImport
    BY <2>3 DEF NoImport, RoundTrip
  <2>4. CASE imp' # NoImport
    <3>1. /\ DOMAIN imp' = DOMAIN imp /\ imp'.app = imp.app /\ imp'.fell = imp.fell
          /\ imp'.subs = imp.subs /\ imp'.snap = imp.snap
      BY <2>2, <2>4
    <3> QED
      BY <2>1, <3>1 DEF RoundTrip
  <2> QED
    BY <2>3, <2>4
<1>4. CASE \E ok \in BOOLEAN : ImportReload(ok) \/ Launch(ok)
  <2>1. imp' = NoImport
    BY <1>4 DEF ImportReload, Launch
  <2> QED
    BY <2>1 DEF NoImport, RoundTrip
<1>5. CASE UNCHANGED imp
  BY <1>5 DEF RoundTrip
<1> QED
  BY <1>1, <1>2, <1>3, <1>4, <1>5
  DEF StorageStep, Running, Settings, vars, Started, SaveBegin, SaveRow, SavePrefs, Edit, Switch, Refresh, SaveSubs, EditTheme,
      SaveTable, ExportBegin, ExportTable, ExportSubs, ExportContent, ExportWrite, ImportRefused

\* The automatic save and a restore: no step brings old settings back.
LEMMA FollowStep ==
  ASSUME StorageTyped, FollowInv, StorageStep
  PROVE  FollowInv'
<1> USE DEF FollowInv, Saving
<1> USE DEF StorageTyped, RowsTyped, SaveTyped
<1>1. CASE SaveBegin
  <2>1. PICK s \in Timers : save[s].pc = "idle" /\ save' = [save EXCEPT ![s] = [pc |-> "row", app |-> ui.app]]
    BY <1>1 DEF SaveBegin
  <2>2. /\ ui.armed /\ ~ui'.armed /\ ui'.app = ui.app /\ ui'.starting = ui.starting /\ UNCHANGED <<app, prefs, imp>>
        /\ ~cut' => ~cut /\ ~Saving /\ imp.pc = "idle"
    BY <1>1 DEF SaveBegin
  <2>3. save'[s].pc = "row" /\ save'[s].app = ui.app /\ \A t \in Timers \ {s} : save'[t] = save[t]
    BY <2>1
  <2> QED
    BY <2>2, <2>3
<1>10. CASE Started
  BY <1>10 DEF Started
<1>8. ASSUME NEW s \in Timers, SaveRow(s) PROVE FollowInv'
  <2>1. UNCHANGED <<ui, prefs, imp>> /\ save[s].pc = "row"
        /\ \/ cut' /\ save' = [save EXCEPT ![s] = NoSave]
           \/ /\ app' = save[s].app /\ save' = [save EXCEPT ![s].pc = "prefs"]
              /\ ~cut' => ~cut /\ imp.pc = "idle"
    BY <1>8 DEF SaveRow
  <2>2. CASE save' = [save EXCEPT ![s] = NoSave] /\ cut'
    BY <2>1, <2>2 DEF NoSave
  <2>3. CASE app' = save[s].app /\ save' = [save EXCEPT ![s].pc = "prefs"] /\ (~cut' => ~cut /\ imp.pc = "idle")
    <3>1. save'[s].pc = "prefs" /\ save'[s].app = save[s].app /\ \A t \in Timers \ {s} : save'[t] = save[t]
      BY <2>3
    <3> QED
      BY <2>1, <2>3, <3>1
  <2> QED
    BY <2>1, <2>2, <2>3
<1>9. ASSUME NEW s \in Timers, SavePrefs(s) PROVE FollowInv'
  <2>1. /\ save[s].pc = "prefs" /\ save' = [save EXCEPT ![s] = NoSave] /\ NoSave.pc = "idle"
        /\ UNCHANGED <<app, imp>> /\ (cut => cut') /\ ui'.app = ui.app /\ ui'.armed = ui.armed /\ ui'.starting = ui.starting
        /\ ~cut' => prefs' = save[s].app.prefs
    BY <1>9 DEF SavePrefs, NoSave
  <2>2. /\ save'[s].pc = "idle" /\ \A t \in Timers \ {s} : save'[t] = save[t]
    BY <2>1
  <2>3. ASSUME ~cut', ~ui'.armed PROVE ui'.app = Taken(app', ui'.app) /\ prefs' = app'.prefs
    <3>1. app = ui.app /\ app = save[s].app
      BY <2>1, <2>3
    <3> QED
      BY <2>1, <2>3, <3>1, TakenSelf
  <2>4. ~cut' => imp'.pc = "idle"
    BY <2>1
  <2> QED
    BY <2>1, <2>2, <2>3, <2>4
<1>2. ASSUME NEW f \in {"prefs", "set"}, Edit(f) PROVE FollowInv'
  BY <1>2 DEF Edit
<1>3. ASSUME NEW p \in {Here("configs", "a"), Here("configs", "b")}, Switch(p) PROVE FollowInv'
  BY <1>3 DEF Switch
<1>4. ASSUME NEW s \in Backups, ImportBegin(s) PROVE FollowInv'
  <2>1. UNCHANGED <<app, prefs, ui, save>> /\ imp'.pc = "file" /\ (~cut' => ~cut /\ ~ui.starting /\ ~ui.armed /\ ~Saving)
        /\ imp.pc = "idle"
    BY <1>4 DEF ImportBegin, NoImport
  <2>2. Taken(app, ui.app).prefs = app.prefs
    BY TakenRow
  <2> QED
    BY <2>1, <2>2
<1>5. CASE ImportFile \/ ImportRow \/ ImportTable \/ ImportSubs
  <2>1. imp.pc # "idle" /\ UNCHANGED <<prefs, ui, save>> /\ (cut => cut')
    BY <1>5 DEF ImportFile, ImportRow, ImportTable, ImportSubs, ImportFails, ImportTyped
  <2>2. ~cut' => imp'.pc # "idle"
    BY <1>5 DEF ImportFile, ImportRow, ImportTable, ImportSubs, ImportFails, ImportTyped
  <2> QED
    BY <2>1, <2>2
<1>6. ASSUME NEW ok \in BOOLEAN, ImportReload(ok) PROVE FollowInv'
  <2>1. /\ imp.pc = "reload" /\ imp'.pc = "idle" /\ UNCHANGED <<app, prefs, save, cut>>
        /\ ui' = IF ok THEN Reloaded(app) ELSE [ui EXCEPT !.stale = TRUE]
    BY <1>6 DEF ImportReload, NoImport
  <2>2. CASE ~ok
    BY <2>1, <2>2
  <2>3. CASE ok
    <3> DEFINE page == Taken(app, ui.app)
    <3>1. ui' = [ui EXCEPT !.app = page, !.armed = IF page = ui.app \/ ui.starting THEN @ ELSE TRUE]
      BY <2>1, <2>3 DEF Reloaded
    <3>2. Taken(app, page) = page /\ page.prefs = app.prefs
      BY TakenRow
    <3> HIDE DEF page
    <3>3. ui'.app = page /\ ui'.starting = ui.starting /\ ui'.stale = ui.stale
          /\ (page = ui.app \/ ui.starting => ui'.armed = ui.armed)
          /\ (page # ui.app /\ ~ui.starting => ui'.armed)
      BY <3>1
    <3> QED
      BY <2>1, <3>2, <3>3
  <2> QED
    BY <2>2, <2>3
<1>11. ASSUME NEW ok \in BOOLEAN, Launch(ok) PROVE FollowInv'
  <2>1. /\ UNCHANGED <<app, prefs>> /\ imp'.pc = "idle" /\ \A s \in Timers : save'[s].pc = "idle"
        /\ ~ui'.armed /\ (~cut' => ~cut /\ ~ui.armed /\ ~Saving /\ imp.pc = "idle")
        /\ ui'.app = IF ok THEN Taken(app, NoRow) ELSE NoRow
        /\ ~ui'.stale => ok /\ ~ui.stale
    BY <1>11 DEF Launch, NoImport, NoSave
  <2>2. Taken(app, Taken(app, NoRow)) = Taken(app, NoRow)
    BY TakenRow
  <2> QED
    BY <2>1, <2>2
<1>7. CASE UNCHANGED <<app, prefs, ui, save, imp>> /\ (cut => cut')
  BY <1>7
<1> QED
  BY <1>1, <1>2, <1>3, <1>4, <1>5, <1>6, <1>7, <1>8, <1>9, <1>10, <1>11
  DEF StorageStep, Running, Settings, vars, Refresh, SaveSubs, EditTheme, SaveTable, ExportBegin, ExportTable, ExportSubs,
      ExportContent, ExportWrite, ImportRefused

\* A restore advances one table at a time, and nothing else is saved meanwhile
\* unless cut says so.
LEMMA CompleteStep ==
  ASSUME StorageTyped, CompleteInv, StorageStep
  PROVE  CompleteInv'
<1> USE DEF CompleteInv
<1>1. ASSUME NEW s \in Backups, ImportBegin(s) PROVE CompleteInv'
  BY <1>1 DEF ImportBegin, NoImport
<1>2. CASE ImportFile
  <2>1. /\ imp.pc = "file" /\ UNCHANGED <<app, others, subs>> /\ (imp' # NoImport => UNCHANGED cut)
        /\ \/ imp' = NoImport \/ imp' = [imp EXCEPT !.pc = "row"]
           \/ imp' = [imp EXCEPT !.pc = "row", !.fell = TRUE, !.app.path = DefaultActive]
    BY <1>2 DEF ImportFile, ImportFails
  <2>2. imp'.pc = "idle" \/ (imp'.pc = "row" /\ imp'.at = imp.at)
    <3> HIDE DEF CompleteInv
    <3>1. CASE imp' = NoImport
      BY <3>1 DEF NoImport
    <3>2. CASE imp' = [imp EXCEPT !.pc = "row"]
      BY <3>2 DEF StorageTyped, ImportTyped
    <3>3. CASE imp' = [imp EXCEPT !.pc = "row", !.fell = TRUE, !.app.path = DefaultActive]
      <4> DEFINE path == DefaultActive
      <4>1. imp' = [imp EXCEPT !.pc = "row", !.fell = TRUE, !.app.path = path]
        BY <3>3
      <4> HIDE DEF path
      <4> QED
        BY <4>1 DEF StorageTyped, ImportTyped
    <3> QED
      BY <2>1, <3>1, <3>2, <3>3
  <2> QED
    BY <2>1, <2>2
<1>7. CASE ImportRow
  <2>1. CASE imp' = NoImport
    BY <2>1 DEF NoImport
  <2>2. CASE imp' = [imp EXCEPT !.pc = "tables"] /\ app' = imp.app
    <3>1. imp'.pc = "tables" /\ imp'.at = 1 /\ imp'.app = imp.app
      BY <1>7, <2>2 DEF ImportRow, StorageTyped, ImportTyped
    <3>2. imp'.at \in 1 .. Len(Tables) /\ \A i \in DOMAIN Tables : ~(i < imp'.at)
      BY <3>1, TablesAssumption
    <3> QED
      BY <2>2, <3>1, <3>2
  <2> QED
    BY <1>7, <2>1, <2>2 DEF ImportRow, ImportFails
<1>3. CASE ImportTable
  <2>1. CASE imp' = NoImport
    BY <2>1 DEF NoImport
  <2>2. CASE imp' # NoImport
    <3> DEFINE t == Tables[imp.at]
    <3>1. /\ imp.pc = "tables" /\ imp.at \in DOMAIN Tables /\ UNCHANGED <<app, cut>>
          /\ others' = [others EXCEPT ![t] = RestoredRow(t)]
          /\ imp' = [imp EXCEPT !.at = @ + 1, !.pc = IF imp.at = Len(Tables) THEN "subs" ELSE @]
      BY <1>3, <2>2, TablesAssumption DEF ImportTable, ImportFails, AfterTable
    <3>2. /\ imp'.at = imp.at + 1 /\ imp'.app = imp.app /\ imp'.snap = imp.snap
          /\ imp'.pc = IF imp.at = Len(Tables) THEN "subs" ELSE "tables"
      BY <3>1 DEF StorageTyped, ImportTyped
    <3>3. \A u : RestoredRow(u)' = RestoredRow(u)
      BY <3>2 DEF RestoredRow
    <3>4. ASSUME ~cut', NEW i \in DOMAIN Tables, i < imp'.at PROVE others'[Tables[i]] = RestoredRow(Tables[i])'
      <4>1. Tables[i] \in DOMAIN others
        BY TablesAssumption DEF StorageTyped, TablesTyped
      <4>2. CASE i = imp.at
        BY <3>1, <3>3, <4>1, <4>2
      <4>3. CASE i # imp.at
        <5>1. i < imp.at
          BY <3>1, <3>2, <3>4, <4>3, TablesAssumption
        <5>2. Tables[i] # t
          BY <3>1, <4>3, TablesAssumption
        <5> QED
          BY <3>1, <3>3, <3>4, <4>1, <5>1, <5>2
      <4> QED
        BY <4>2, <4>3
    <3>5. imp'.pc = "tables" => imp'.at \in 1 .. Len(Tables)
      BY <3>1, <3>2, TablesAssumption
    <3> QED
      BY <3>1, <3>2, <3>4, <3>5
  <2> QED
    BY <2>1, <2>2
<1>4. CASE ImportSubs
  BY <1>4, TablesAssumption DEF ImportSubs, ImportFails, NoImport, RestoredRow, StorageTyped, ImportTyped
<1>5. CASE \E ok \in BOOLEAN : ImportReload(ok) \/ Launch(ok)
  <2>1. imp' = NoImport
    BY <1>5 DEF ImportReload, Launch
  <2> QED
    BY <2>1 DEF NoImport
<1>6. CASE UNCHANGED imp /\ ((imp.pc # "idle" /\ ~cut') => UNCHANGED <<app, others, subs, cut>>)
  BY <1>6 DEF RestoredRow
<1> QED
  BY <1>1, <1>2, <1>3, <1>4, <1>5, <1>6, <1>7
  DEF StorageStep, Running, Settings, vars, Started, SaveBegin, SaveRow, SavePrefs, Edit, Switch, Refresh, SaveSubs, EditTheme, SaveTable,
      ExportBegin, ExportTable, ExportSubs, ExportContent, ExportWrite, ImportRefused

\* The step that ends a restore finds it complete.
LEMMA RestoreStep ==
  ASSUME StorageTyped, CompleteInv, StorageStep, imp.pc = "reload", imp'.pc = "idle", ~cut'
  PROVE  /\ app = imp.app /\ subs = imp.subs
         /\ \A i \in DOMAIN Tables : others[Tables[i]] = RestoredRow(Tables[i])
<1>1. ~cut
  BY DEF StorageStep, Running, Settings, vars, Started, SaveBegin, SaveRow, SavePrefs, Edit, Switch, Refresh, SaveSubs, EditTheme,
         SaveTable, ExportBegin, ExportTable, ExportSubs, ExportContent, ExportWrite, ImportRefused, ImportBegin, ImportFile,
         ImportRow, ImportTable, ImportSubs, ImportReload, Launch
<1> QED
  BY <1>1, TablesAssumption DEF CompleteInv

----------------------------------------------------------------------------
(* Packages.                                                                *)

\* A set of natural numbers has a least element, a bounded one a greatest:
\* Min and Max of the community modules are what their names say.
LEMMA HasLeast ==
  ASSUME NEW S \in SUBSET Nat, S # {}
  PROVE  \E x \in S : \A y \in S : x <= y
<1> DEFINE Less == {ss \in Nat \X Nat : ss[1] < ss[2]}
<1>1. IsWellFoundedOn(Less, Nat)
  <2>1. OpToRel(<, Nat) = Less
    BY DEF OpToRel
  <2> QED
    BY <2>1, NatLessThanWellFounded
<1>2. PICK x \in S : \A y \in S : ~(<<y, x>> \in Less)
  <2> HIDE DEF Less
  <2> QED BY <1>1, WFMin
<1>3. ASSUME NEW y \in S PROVE x <= y
  <2>1. <<y, x>> \in Nat \X Nat /\ <<y, x>>[1] = y /\ <<y, x>>[2] = x
    OBVIOUS
  <2> QED
    BY <1>2, <2>1
<1> QED
  BY <1>3

\* Min of a set of natural numbers is one of them.
LEMMA MinInSet ==
  ASSUME NEW S \in SUBSET Nat, S # {}
  PROVE  Min(S) \in S
  BY HasLeast DEF Min

\* Max of a bounded set is one of them, and the greatest.
LEMMA MaxInSet ==
  ASSUME NEW b \in Nat, NEW S \in SUBSET (0 .. b), S # {}
  PROVE  Max(S) \in S /\ \A y \in S : y <= Max(S)
<1> DEFINE T == {b - y : y \in S}
<1>1. T \in SUBSET Nat /\ T # {}
  <2>1. \A y \in S : b - y \in Nat
    OBVIOUS
  <2> QED
    BY <2>1
<1>2. PICK t \in T : \A u \in T : t <= u
  <2> HIDE DEF T
  <2> QED BY <1>1, HasLeast
<1>3. PICK x \in S : t = b - x
  OBVIOUS
<1>4. ASSUME NEW y \in S PROVE y <= x
  <2>1. b - y \in T
    OBVIOUS
  <2> QED
    BY <1>2, <1>3, <2>1
<1> QED
  BY <1>4 DEF Max

\* get_platform_priority_for is bounded.
LEMMA PriorityBound ==
  ASSUME NEW a \in Asset, NEW m
  PROVE  Priority(a, m) \in 0 .. 27
  BY DEF Priority, Asset

\* pick_best_download_asset never picks a package of another machine.
LEMMA BestAssetFits ==
  ASSUME NEW assets \in Seq(Asset), NEW m
  PROVE  BestAsset(assets, m) = NoAsset \/ Fits(BestAsset(assets, m), m)
<1> DEFINE at   == {i \in DOMAIN assets : Fits(assets[i], m)}
           P    == {Priority(assets[i], m) : i \in at}
           bar  == IF Max(P) >= 25 THEN 25 ELSE Max(P)
           good == {i \in at : Priority(assets[i], m) >= bar}
<1>1. CASE at = {}
  BY <1>1 DEF BestAsset
<1>2. CASE at # {}
  <2>1. \A i \in at : Priority(assets[i], m) \in 0 .. 27
    <3>1. \A i \in DOMAIN assets : assets[i] \in Asset
      OBVIOUS
    <3> QED
      BY <3>1, PriorityBound
  <2>2. P \in SUBSET (0 .. 27) /\ P # {}
    BY <1>2, <2>1
  <2>3. Max(P) \in P
    <3> HIDE DEF P
    <3> QED BY <2>2, MaxInSet
  <2>4. PICK i \in at : Max(P) = Priority(assets[i], m)
    BY <2>3
  <2>5. i \in good
    BY SMTT(30), <2>1, <2>4
  <2>6. good \in SUBSET Nat /\ good # {}
    <3>1. DOMAIN assets \subseteq Nat
      OBVIOUS
    <3> QED
      BY <2>5, <3>1
  <2>7. Min(good) \in good
    <3> HIDE DEF good
    <3> QED BY <2>6, MinInSet
  <2>8. BestAsset(assets, m) = assets[Min(good)]
    BY <1>2 DEF BestAsset
  <2> QED
    BY <2>7, <2>8
<1> QED
  BY <1>1, <1>2

\* The first release that satisfies a condition is one of the releases.
LEMMA FirstInFeed ==
  ASSUME NEW S, NEW feed \in Seq(S), NEW T(_)
  PROVE  First(feed, T) \in {0} \cup DOMAIN feed
<1> DEFINE at == {i \in DOMAIN feed : T(feed[i])}
<1>1. CASE at = {}
  BY <1>1 DEF First
<1>2. CASE at # {}
  <2>1. at \in SUBSET Nat
    OBVIOUS
  <2>2. Min(at) \in at
    <3> HIDE DEF at
    <3> QED BY <1>2, <2>1, MinInSet
  <2> QED
    BY <1>2, <2>2 DEF First
<1> QED
  BY <1>1, <1>2

\* select_release_by_channel chooses one of the releases, or none.
LEMMA ChosenInFeed ==
  ASSUME NEW feed \in Feeds, NEW channel \in {"stable", "prerelease", "autobuild", "none"}
  PROVE  Chosen(feed, channel) \in {0} \cup DOMAIN feed
<1> DEFINE stable == First(feed, LAMBDA r : ~r.pre)
           auto   == First(feed, LAMBDA r : r.auto)
           pre    == First(feed, LAMBDA r : r.pre)
           any    == First(feed, LAMBDA r : TRUE)
           In(i)  == i \in {0} \cup DOMAIN feed
<1>1. In(stable) /\ In(auto) /\ In(pre) /\ In(any)
  BY FeedsAssumption, FirstInFeed
<1>2. Chosen(feed, channel) \in {stable, auto, pre, any}
  <2> HIDE DEF stable, auto, pre, any
  <2> QED BY DEF Chosen, stable, auto, pre, any
<1> QED
  BY <1>1, <1>2

\* check_update offers what fits this machine.
LEMMA OffersFit ==
  ASSUME NEW channel \in {"stable", "prerelease", "autobuild", "none"}, NEW o \in Offers(channel), InApp
  PROVE  Fits(o.asset, machine)
<1>1. PICK feed \in Feeds : o = LET i == Chosen(feed, channel)
                                IN  IF i = 0 THEN NoOffer
                                    ELSE [tag |-> feed[i].tag, asset |-> BestAsset(feed[i].assets, machine)]
  BY DEF Offers
<1>2. o # NoOffer /\ o.asset # NoAsset
  BY DEF Offers
<1> DEFINE i == Chosen(feed, channel)
<1>3. i \in DOMAIN feed /\ o.asset = BestAsset(feed[i].assets, machine)
  BY <1>1, <1>2, ChosenInFeed
<1>4. feed[i].assets \in Seq(Asset)
  <2> DEFINE Release == [tag : [n : Nat, semver : BOOLEAN], pre : BOOLEAN, auto : BOOLEAN, assets : Seq(Asset)]
  <2>1. feed \in Seq(Release)
    BY FeedsAssumption
  <2>2. feed[i] \in Release
    <3> HIDE DEF Release, i
    <3> QED BY <1>3, <2>1
  <2> QED
    BY <2>2
<1> QED
  BY <1>2, <1>3, <1>4, BestAssetFits

----------------------------------------------------------------------------
(* Updates.                                                                 *)

\* A step of the storage that leaves no restore running and cuts nothing short
\* leaves the update settings' row.
LEMMA RowStays ==
  ASSUME StorageTyped, Running
  PROVE  imp'.pc = "idle" /\ ~cut' => imp.pc = "idle" /\ ~cut /\ others'["update"] = others["update"]
<1>1. CASE ImportTable
  <2>1. CASE imp' = NoImport
    BY <1>1, <2>1 DEF ImportTable, ImportFails, StorageTyped, ImportTyped
  <2>2. CASE imp' # NoImport
    BY <1>1, <2>2 DEF ImportTable, ImportFails, StorageTyped, ImportTyped
  <2> QED
    BY <2>1, <2>2
<1>2. CASE EditTheme
  <2>1. others' = [others EXCEPT !["theme"] = 1 - others["theme"]] /\ cut' = (cut \/ imp.pc # "idle") /\ UNCHANGED imp
    BY <1>2 DEF EditTheme, SaveTable
  <2>2. others'["update"] = others["update"]
    BY <2>1, UpdateRowAssumption DEF StorageTyped, TablesTyped
  <2> QED
    BY <2>1, <2>2
<1>3. CASE ImportFile \/ ImportRow \/ ImportSubs
  <2>1. cut' \/ \/ imp' = [imp EXCEPT !.pc = "row"]
                \/ imp' = [imp EXCEPT !.pc = "row", !.fell = TRUE, !.app.path = DefaultActive]
                \/ imp' = [imp EXCEPT !.pc = "tables"]
                \/ imp' = [imp EXCEPT !.pc = "reload"]
    BY <1>3 DEF ImportFile, ImportRow, ImportSubs, ImportFails
  <2>2. CASE imp' = [imp EXCEPT !.pc = "row", !.fell = TRUE, !.app.path = DefaultActive]
    <3> DEFINE path == DefaultActive
    <3>1. imp' = [imp EXCEPT !.pc = "row", !.fell = TRUE, !.app.path = path]
      BY <2>2
    <3> HIDE DEF path
    <3> QED BY <3>1 DEF StorageTyped, ImportTyped
  <2> QED
    BY <2>1, <2>2 DEF StorageTyped, ImportTyped
<1> QED
  BY <1>1, <1>2, <1>3
  DEF Running, vars, Started, SaveBegin, SaveRow, SavePrefs, Edit, Switch, Refresh, SaveSubs, ExportBegin, ExportTable, ExportSubs,
      ExportContent, ExportWrite, ImportRefused, ImportBegin, NoImport

\* Setting fields of the store leaves the others.
LEMMA StoreKept ==
  ASSUME DOMAIN store = {"row", "offer", "busy", "init", "parted"}, NEW x, NEW y
  PROVE  /\ LET s == [store EXCEPT !.busy = x]
            IN  /\ DOMAIN s = DOMAIN store /\ s.row = store.row /\ s.offer = store.offer /\ s.parted = store.parted
         /\ LET s == [store EXCEPT !.offer = x]
            IN  /\ DOMAIN s = DOMAIN store /\ s.row = store.row /\ s.offer = x /\ s.parted = store.parted
         /\ LET s == [store EXCEPT !.init = x]
            IN  /\ DOMAIN s = DOMAIN store /\ s.row = store.row /\ s.offer = store.offer /\ s.parted = store.parted
         /\ LET s == [store EXCEPT !.parted = x]
            IN  /\ DOMAIN s = DOMAIN store /\ s.row = store.row /\ s.offer = store.offer /\ s.parted = x
         /\ LET s == [store EXCEPT !.row = x, !.parted = y]
            IN  /\ DOMAIN s = DOMAIN store /\ s.row = x /\ s.offer = store.offer /\ s.parted = y
  OBVIOUS

\* A row that is read has a channel.
LEMMA ReadRow ==
  ASSUME NEW row \in UpdateRow
  PROVE  /\ Read(row) \in UpdateRow /\ Read(row).channel # "none"
         /\ row.channel # "none" => Read(row) = row
  BY DEF Read, UpdateRow

\* The elements of a sequence are those of the one it was appended to, and the
\* new one; of the one an element was removed from.
LEMMA Appended ==
  ASSUME NEW S, NEW s \in Seq(S), NEW x \in S
  PROVE  /\ Append(s, x) \in Seq(S) /\ Append(s, x) # <<>>
         /\ \A i \in DOMAIN Append(s, x) : Append(s, x)[i] = x \/ \E j \in DOMAIN s : Append(s, x)[i] = s[j]
  OBVIOUS

LEMMA Removed ==
  ASSUME NEW S, NEW s \in Seq(S), NEW k \in DOMAIN s
  PROVE  /\ RemoveAt(s, k) \in Seq(S)
         /\ \A i \in DOMAIN RemoveAt(s, k) : \E j \in DOMAIN s : RemoveAt(s, k)[i] = s[j]
<1> DEFINE a == SubSeq(s, 1, k - 1)
           b == SubSeq(s, k + 1, Len(s))
<1>1. a \in Seq(S) /\ Len(a) = k - 1 /\ \A i \in 1 .. Len(a) : a[i] = s[i]
  OBVIOUS
<1>2. b \in Seq(S) /\ Len(b) = Len(s) - k /\ \A i \in 1 .. Len(b) : b[i] = s[k + i]
  OBVIOUS
<1>3. a \o b \in Seq(S) /\ Len(a \o b) = Len(s) - 1
      /\ \A i \in 1 .. Len(a \o b) : (a \o b)[i] = IF i <= k - 1 THEN a[i] ELSE b[i - (k - 1)]
  <2> HIDE DEF a, b
  <2> QED
    BY <1>1, <1>2
<1>4. ASSUME NEW i \in 1 .. Len(a \o b) PROVE \E j \in DOMAIN s : (a \o b)[i] = s[j]
  <2> HIDE DEF a, b
  <2>1. CASE i <= k - 1
    <3>1. i \in 1 .. Len(a) /\ i \in DOMAIN s
      BY <1>1, <1>3, <2>1
    <3> QED
      BY <1>1, <1>3, <2>1, <3>1
  <2>2. CASE ~(i <= k - 1)
    <3>1. i - (k - 1) \in 1 .. Len(b) /\ k + (i - (k - 1)) \in DOMAIN s
      BY <1>2, <1>3, <2>2
    <3> QED
      BY <1>2, <1>3, <2>2, <3>1
  <2> QED
    BY <2>1, <2>2
<1>5. RemoveAt(s, k) = a \o b
  BY DEF RemoveAt
<1> HIDE DEF a, b
<1>6. DOMAIN (a \o b) = 1 .. Len(a \o b)
  BY <1>3
<1> QED
  BY <1>3, <1>4, <1>5, <1>6

\* A row that is sent: whatever was under way, the row and its saves have not
\* parted if all under way are that row.
LEMMA SentStep ==
  ASSUME UpdatesTyped, NEW row \in UpdateRow, row.channel # "none",
         saving' \in Seq(UpdateRow), saving' # <<>>,
         \A i \in DOMAIN saving' : saving'[i] = row \/ \E j \in DOMAIN saving : saving'[i] = saving[j],
         DOMAIN store' = DOMAIN store, store'.row = row, store'.parted = Crosses(row),
         check'.pc = "idle" \/ UNCHANGED check, UNCHANGED round
  PROVE  UpdatesTyped' /\ StoreInv'
<1>1. UpdatesTyped'
  BY DEF UpdatesTyped
<1>2. ~Crosses(row) => ~(\E i \in DOMAIN saving' : saving'[i] # row)
  BY DEF Crosses
<1> QED
  BY <1>1, <1>2 DEF StoreInv, Crosses, UpdateStoreFollows

\* A step that leaves the store's row and its saves.
LEMMA StoreStays ==
  ASSUME UpdatesTyped, StoreInv,
         DOMAIN store' = DOMAIN store, store'.row = store.row, store'.parted = store.parted \/ store'.parted,
         UNCHANGED saving,
         imp'.pc = "idle" /\ ~cut' => imp.pc = "idle" /\ ~cut /\ others'["update"] = others["update"],
         check'.pc # "idle" => check'.channel \in {"stable", "prerelease", "autobuild"},
         round'.pc # "idle" => round'.row \in UpdateRow
  PROVE  UpdatesTyped' /\ StoreInv'
<1>1. UpdatesTyped'
  BY DEF UpdatesTyped
<1>2. imp'.pc = "idle" /\ ~cut' => Read(others["update"])' = Read(others["update"])
  BY DEF Read
<1>3. Crosses(store.row)' <=> Crosses(store.row)
  BY DEF Crosses
<1>4. ~store'.parted => ~store.parted
  OBVIOUS
<1> QED
  BY <1>1, <1>2, <1>3, <1>4 DEF StoreInv, UpdateStoreFollows

\* Every change of the store's row is sent to the disk, or the row is marked; a
\* restore and a launch read it back.
LEMMA UpdatesStep ==
  ASSUME StorageTyped, UpdatesTyped, StoreInv, [UpdNext]_allVars
  PROVE  UpdatesTyped' /\ StoreInv'
<1> USE DEF UpdatesTyped
<1>0. others["update"] \in UpdateRow
  BY DEF StorageTyped, TablesTyped
<1>1. CASE Running /\ UNCHANGED updVars
  BY <1>1, RowStays, StoreStays DEF updVars
<1> DEFINE row == Read(others["update"])
<1>13. row \in UpdateRow /\ row.channel # "none"
  BY <1>0, ReadRow
<1>14. /\ StoreLoaded = [store EXCEPT !.row = row, !.parted = Crosses(row)]
       /\ DOMAIN StoreLoaded = DOMAIN store /\ StoreLoaded.row = row /\ StoreLoaded.parted = Crosses(row)
  BY StoreKept DEF StoreLoaded
<1>15. ASSUME DOMAIN store' = DOMAIN store, store'.row = row, store'.parted = Crosses(row),
              UNCHANGED <<others, saving, check, round>>
       PROVE  UpdatesTyped' /\ StoreInv'
  <2>1. Read(others["update"])' = row
    BY <1>15 DEF Read
  <2>2. Crosses(row)' <=> Crosses(row)
    BY <1>15 DEF Crosses, Read
  <2>3. Crosses(store.row)' <=> Crosses(row)
    BY <1>15 DEF Crosses
  <2> QED
    BY <1>13, <1>15, <2>1, <2>3 DEF StoreInv, UpdateStoreFollows
<1>2. CASE Reload
  <2>1. PICK mine \in BOOLEAN :
          /\ UNCHANGED <<others, check, round, cut>>
          /\ IF mine
             THEN /\ store' = StoreReloaded
                  /\ saving' = IF StoreReloaded.row = store.row \/ store.init # "no" THEN saving
                               ELSE Append(saving, StoreReloaded.row)
             ELSE store' = [store EXCEPT !.parted = TRUE] /\ UNCHANGED saving
    BY <1>2 DEF Reload, ImportReload
  <2>2. CASE ~mine
    BY <2>1, <2>2, StoreKept DEF StoreInv, UpdateStoreFollows
  <2>3. CASE mine
    <3>1. DOMAIN store' = DOMAIN store /\ store'.row = row /\ store'.parted = Crosses(row)
      BY <1>14, <2>1, <2>3 DEF StoreReloaded
    <3>2. UNCHANGED saving \/ saving' = Append(saving, row)
      BY <1>14, <2>1, <2>3 DEF StoreReloaded
    <3>3. CASE UNCHANGED saving
      BY <1>15, <2>1, <3>1, <3>3
    <3>4. CASE saving' = Append(saving, row)
      <4> HIDE DEF row
      <4>1. /\ saving' \in Seq(UpdateRow) /\ saving' # <<>>
            /\ \A i \in DOMAIN saving' : saving'[i] = row \/ \E j \in DOMAIN saving : saving'[i] = saving[j]
        BY <1>13, <3>4, Appended
      <4> QED
        BY <1>13, <2>1, <3>1, <4>1, SentStep
    <3> QED
      BY <3>2, <3>3, <3>4
  <2> QED
    BY <2>2, <2>3
<1>3. CASE Relaunch
  <2>1. /\ (store' = FreshStore \/ store' = BareStore) /\ saving' = <<>> /\ check'.pc = "idle" /\ round'.pc = "idle"
        /\ UNCHANGED others
    BY <1>3 DEF Relaunch, Launch, Idle
  <2>2. /\ DOMAIN FreshStore = DOMAIN store /\ FreshStore.row = row
        /\ DOMAIN BareStore = DOMAIN store /\ BareStore.row \in UpdateRow /\ BareStore.row.channel # "none" /\ BareStore.parted
    BY DEF FreshStore, BareStore, UpdateRow, None
  <2>3. Read(others["update"])' = row
    BY <2>1 DEF Read
  <2> HIDE DEF row
  <2> QED
    BY <1>13, <2>1, <2>2, <2>3 DEF StoreInv, UpdateStoreFollows, Crosses
<1>4. ASSUME NEW new \in UpdateRow, new.channel # "none", Sends(new, <<new>>) \/ Sends(new, <<new, new>>),
             UNCHANGED <<check, round>>
      PROVE  UpdatesTyped' /\ StoreInv'
  <2>1. DOMAIN store' = DOMAIN store /\ store'.row = new /\ store'.parted = Crosses(new)
    BY <1>4, StoreKept DEF Sends
  <2>2. saving' = saving \o <<new>> \/ saving' = saving \o <<new, new>>
    BY <1>4 DEF Sends
  <2>3. /\ saving' \in Seq(UpdateRow) /\ saving' # <<>>
        /\ \A i \in DOMAIN saving' : saving'[i] = new \/ \E j \in DOMAIN saving : saving'[i] = saving[j]
    <3>1. ASSUME NEW more \in Seq(UpdateRow), more # <<>>, \A i \in DOMAIN more : more[i] = new, saving' = saving \o more
          PROVE  /\ saving' \in Seq(UpdateRow) /\ saving' # <<>>
                 /\ \A i \in DOMAIN saving' : saving'[i] = new \/ \E j \in DOMAIN saving : saving'[i] = saving[j]
      BY <3>1
    <3>2. /\ <<new>> \in Seq(UpdateRow) /\ <<new>> # <<>> /\ \A i \in DOMAIN <<new>> : <<new>>[i] = new
          /\ <<new, new>> \in Seq(UpdateRow) /\ <<new, new>> # <<>> /\ \A i \in DOMAIN <<new, new>> : <<new, new>>[i] = new
      BY <1>4
    <3> QED
      BY <2>2, <3>1, <3>2
  <2> QED
    BY <1>4, <2>1, <2>3, SentStep
<1>16. ASSUME NEW c \in Channels, ChooseChannel(c) PROVE UpdatesTyped' /\ StoreInv'
  <2> DEFINE new == [store.row EXCEPT !.channel = c]
  <2>1. new \in UpdateRow /\ new.channel # "none"
    BY ChannelsAssumption DEF UpdateRow
  <2>2. (Sends(new, <<new>>) \/ Sends(new, <<new, new>>)) /\ UNCHANGED <<check, round>>
    BY <1>16 DEF ChooseChannel
  <2> HIDE DEF new
  <2> QED
    BY <1>4, <2>1, <2>2
<1>17. CASE ChooseAuto
  <2> DEFINE new == [store.row EXCEPT !.auto = ~@]
  <2>1. new \in UpdateRow /\ new.channel # "none"
    BY DEF UpdateRow
  <2>2. /\ UNCHANGED <<check, round>>
        /\ Sends(new, <<new>>) \/ (store' = [store EXCEPT !.row = new, !.parted = TRUE] /\ UNCHANGED saving)
    BY <1>17 DEF ChooseAuto
  <2> HIDE DEF new
  <2>3. CASE Sends(new, <<new>>)
    BY <1>4, <2>1, <2>2, <2>3
  <2>4. CASE store' = [store EXCEPT !.row = new, !.parted = TRUE] /\ UNCHANGED saving
    BY <2>1, <2>2, <2>4 DEF StoreInv, UpdateStoreFollows
  <2> QED
    BY <2>2, <2>3, <2>4
<1>18. CASE StoreInit
  <2>1. /\ UNCHANGED <<Settings, saving, check, round>>
        /\ \/ \E x : store' = [store EXCEPT !.init = x]
           \/ store' = [StoreLoaded EXCEPT !.init = "settle"]
    BY <1>18 DEF StoreInit
  <2>2. CASE \E x : store' = [store EXCEPT !.init = x]
    BY <2>1, <2>2, StoreKept, StoreStays DEF Settings
  <2>3. CASE store' = [StoreLoaded EXCEPT !.init = "settle"]
    <3>1. DOMAIN store' = DOMAIN store /\ store'.row = row /\ store'.parted = Crosses(row)
      BY <1>14, <2>3
    <3> QED
      BY <1>15, <2>1, <3>1 DEF Settings
  <2> QED
    BY <2>1, <2>2, <2>3
<1>5. ASSUME NEW i \in DOMAIN saving, SaveLands(i) PROVE UpdatesTyped' /\ StoreInv'
  <2>1. saving' = RemoveAt(saving, i) /\ UNCHANGED <<check, round>>
    BY <1>5 DEF SaveLands
  <2>2. saving' \in Seq(UpdateRow) /\ \A k \in DOMAIN saving' : \E j \in DOMAIN saving : saving'[k] = saving[j]
    BY <2>1, Removed
  <2>3. CASE store' = [store EXCEPT !.parted = TRUE]
    BY <2>1, <2>2, <2>3, StoreKept DEF StoreInv, UpdateStoreFollows
  <2>4. CASE SaveTable("update", saving[i]) /\ UNCHANGED store
    <3>1. others'["update"] = saving[i]
      BY <2>4, UpdateRowAssumption DEF SaveTable, StorageTyped, TablesTyped
    <3>2. ~store.parted => saving[i] = store.row
      BY DEF StoreInv, Crosses
    <3>3. ~store.parted => Read(others["update"])' = store.row
      <4>1. Read(others["update"])' = Read(saving[i])
        BY <3>1 DEF Read
      <4> QED
        BY <3>2, <4>1, ReadRow
    <3>4. ~store.parted => ~Crosses(store.row)'
      BY <2>2, <2>4 DEF StoreInv, Crosses
    <3>5. UpdatesTyped'
      BY <2>1, <2>2, <2>4
    <3> QED
      BY <2>4, <3>3, <3>4, <3>5 DEF StoreInv, UpdateStoreFollows
  <2> QED
    BY <1>5, <2>3, <2>4 DEF SaveLands
<1>6. CASE CheckBegin
  <2>1. /\ UNCHANGED <<others, imp, cut, saving, round>> /\ store' = [store EXCEPT !.busy = FALSE]
        /\ check'.channel = store.row.channel
    BY <1>6 DEF CheckBegin, vars
  <2>2. store.row.channel \in {"stable", "prerelease", "autobuild"}
    BY DEF UpdateRow
  <2> QED
    BY <2>1, <2>2, StoreKept, StoreStays
<1>7. CASE CheckEnds
  <2>1. PICK s : /\ s \in {[store EXCEPT !.offer = IF Newer(o.tag) THEN o ELSE NoOffer] : o \in Offers(check.channel)}
                             \cup {[store EXCEPT !.busy = FALSE]}
                 /\ store' = [s EXCEPT !.parted = Crosses(s.row)]
    BY <1>7 DEF CheckEnds
  <2>2. (\E x : s = [store EXCEPT !.offer = x]) \/ s = [store EXCEPT !.busy = FALSE]
    BY <2>1
  <2>3. DOMAIN s = DOMAIN store /\ s.row = store.row
    BY <2>2, StoreKept
  <2>4. DOMAIN store' = DOMAIN store /\ store'.row = store.row /\ store'.parted = Crosses(store.row)
    BY <2>1, <2>3
  <2>5. UNCHANGED round /\ check'.pc = "idle" /\ saving' = Append(saving, store.row)
    BY <1>7 DEF CheckEnds, Idle
  <2>6. /\ saving' \in Seq(UpdateRow) /\ saving' # <<>>
        /\ \A i \in DOMAIN saving' : saving'[i] = store.row \/ \E j \in DOMAIN saving : saving'[i] = saving[j]
    BY <2>5, Appended
  <2> QED
    BY <2>4, <2>5, <2>6, SentStep
<1>8. CASE RoundBegin \/ RoundEnds
  <2>1. /\ UNCHANGED <<others, imp, cut, saving, check>>
        /\ round'.pc = "idle" \/ round'.row = others["update"]
        /\ UNCHANGED store \/ \E x : store' = [store EXCEPT !.offer = x]
    BY <1>8 DEF RoundBegin, RoundEnds, vars, Idle
  <2>2. DOMAIN store' = DOMAIN store /\ store'.row = store.row /\ store'.parted = store.parted
    BY <2>1, StoreKept
  <2> QED
    BY <1>0, <2>1, <2>2, StoreStays
<1>9. CASE Download \/ \E d \in Slots : Open(d) \/ Finish(d) \/ Break(d) \/ Install(d)
  <2>1. /\ UNCHANGED <<others, imp, cut, saving, check, round>>
        /\ UNCHANGED store \/ \E x : store' = [store EXCEPT !.busy = x]
    BY <1>9 DEF Download, Open, Finish, Break, Install, vars, Settings
  <2>2. DOMAIN store' = DOMAIN store /\ store'.row = store.row /\ store'.parted = store.parted
    BY <2>1, StoreKept
  <2> QED
    BY <2>1, <2>2, StoreStays
<1>10. CASE UNCHANGED allVars
  BY <1>10, StoreStays DEF allVars, vars, updVars
<1> QED
  BY <1>1, <1>2, <1>3, <1>5, <1>6, <1>7, <1>8, <1>9, <1>10, <1>16, <1>17, <1>18 DEF UpdNext

\* The downloads: a step of each keeps what the package is worth.
LEMMA PackageStep ==
  ASSUME UpdatesTyped, PackageInv, [UpdNext]_allVars
  PROVE  PackageInv'
<1> USE DEF PackageInv
<1>0. DOMAIN store = {"row", "offer", "busy", "init", "parted"}
  BY DEF UpdatesTyped
<1>1. CASE UNCHANGED <<machine, current, dl, tmp, pkg, ran, overlap>> /\ (store'.offer = store.offer)
  BY <1>1 DEF InApp, Good
<1>2. CASE Reload \/ (\E i \in DOMAIN saving : SaveLands(i)) \/ RoundBegin \/ CheckBegin \/ StoreInit \/ ChooseAuto
           \/ \E c : ChooseChannel(c)
  <2>1. \/ UNCHANGED store
        \/ \E x : store' = [store EXCEPT !.busy = x]
        \/ \E x : store' = [store EXCEPT !.parted = x]
        \/ \E x : store' = [store EXCEPT !.init = x]
        \/ \E x, y : store' = [store EXCEPT !.row = x, !.parted = y]
        \/ store' = StoreLoaded
        \/ store' = [StoreLoaded EXCEPT !.init = "settle"]
    <3>1. CASE Reload
      <4>1. store' = StoreReloaded \/ store' = [store EXCEPT !.parted = TRUE]
        BY <3>1 DEF Reload
      <4> QED
        BY <4>1 DEF StoreReloaded
    <3>2. CASE RoundBegin \/ CheckBegin \/ \E i \in DOMAIN saving : SaveLands(i)
      BY <3>2 DEF RoundBegin, CheckBegin, SaveLands
    <3>3. CASE StoreInit
      BY <3>3 DEF StoreInit
    <3>4. CASE ChooseAuto \/ \E c : ChooseChannel(c)
      <4>1. \/ \E x, copies : Sends(x, copies)
            \/ \E x : store' = [store EXCEPT !.row = x, !.parted = TRUE]
        BY <3>4 DEF ChooseAuto, ChooseChannel
      <4> QED
        BY <4>1 DEF Sends
    <3> QED
      BY <1>2, <3>1, <3>2, <3>3, <3>4
  <2>2. DOMAIN StoreLoaded = DOMAIN store /\ StoreLoaded.offer = store.offer
    BY <1>0, StoreKept DEF StoreLoaded
  <2>3. store'.offer = store.offer
    BY <1>0, <2>1, <2>2, StoreKept
  <2> QED
    BY <1>1, <1>2, <2>3 DEF Reload, SaveLands, RoundBegin, CheckBegin, StoreInit, ChooseAuto, ChooseChannel
<1>3. CASE Relaunch
  <2>1. /\ dl' = [d \in Slots |-> NoDownload] /\ ran' = NotRun /\ overlap' = FALSE /\ store'.offer = NoOffer
        /\ UNCHANGED <<machine, tmp, pkg>>
    BY <1>3 DEF Relaunch, FreshStore, BareStore
  <2> QED
    BY <2>1 DEF NoDownload, Slots
<1>5. CASE CheckEnds
  <2>1. PICK s : /\ s \in {[store EXCEPT !.offer = IF Newer(o.tag) THEN o ELSE NoOffer] : o \in Offers(check.channel)}
                             \cup {[store EXCEPT !.busy = FALSE]}
                 /\ store' = [s EXCEPT !.parted = Crosses(s.row)]
    BY <1>5 DEF CheckEnds
  <2>2. DOMAIN s = DOMAIN store
        /\ s.offer \in {store.offer, NoOffer} \cup {o \in Offers(check.channel) : Newer(o.tag)}
    BY <1>0, <2>1, StoreKept
  <2>3. store'.offer = s.offer /\ UNCHANGED <<machine, current, dl, tmp, pkg, ran, overlap>> /\ check.pc # "idle"
    BY <1>0, <1>5, <2>1, <2>2 DEF CheckEnds, vars
  <2>4. InApp /\ store'.offer # NoOffer => Good(store'.offer)
    BY <2>2, <2>3, OffersFit DEF Newer, Good, UpdatesTyped
  <2> QED
    BY <2>3, <2>4 DEF InApp, Good
<1>6. CASE RoundEnds
  BY <1>6, OffersFit DEF RoundEnds, Newer, InApp, Good, UpdatesTyped, UpdateRow
<1>7. CASE Download
  <2>1. PICK d \in Slots :
           /\ dl[d].pc = "idle"
           /\ dl' = [dl EXCEPT ![d] = [pc |-> "proxy", offer |-> store.offer, open |-> FALSE]]
           /\ overlap' = (overlap \/ \E e \in Slots \ {d} : dl[e].pc # "idle")
    BY <1>7 DEF Download
  <2>2. /\ InApp /\ Good(store.offer) /\ store'.offer = store.offer
        /\ UNCHANGED <<machine, current, tmp, pkg, ran>>
    BY <1>0, <1>7, StoreKept DEF Download
  <2>3. /\ dl'[d] = [pc |-> "proxy", offer |-> store.offer, open |-> FALSE]
        /\ \A e \in Slots \ {d} : dl'[e] = dl[e]
    BY <2>1
  <2>4. ~overlap' => ~overlap /\ \A e \in Slots \ {d} : dl[e].pc = "idle"
    BY <2>1
  <2> QED
    BY <2>1, <2>2, <2>3, <2>4 DEF InApp, Good
<1>8. ASSUME NEW d \in Slots, Open(d) PROVE PackageInv'
  <2>1. /\ dl[d].pc \in {"proxy", "direct"} /\ tmp' = Truncated(d) /\ dl' = [dl EXCEPT ![d].open = TRUE]
        /\ store'.offer = store.offer /\ UNCHANGED <<machine, current, pkg, ran, overlap>>
    BY <1>0, <1>8, StoreKept DEF Open
  <2>2. /\ dl'[d] = [dl[d] EXCEPT !.open = TRUE] /\ DOMAIN dl' = Slots
        /\ \A e \in Slots \ {d} : dl'[e] = dl[e]
    BY <2>1
  <2>3. /\ DOMAIN dl'[d] = {"pc", "offer", "open"}
        /\ dl'[d].pc = dl[d].pc /\ dl'[d].offer = dl[d].offer /\ dl'[d].open = TRUE
    BY <2>2
  <2>4. ~overlap => tmp' = [by |-> d, clean |-> TRUE]
    BY <2>1 DEF Truncated
  <2>5. \A e \in Slots : /\ dl'[e].pc = dl[e].pc /\ dl'[e].offer = dl[e].offer
                         /\ DOMAIN dl'[e] = {"pc", "offer", "open"}
                         /\ dl'[e].open => e = d \/ dl[e].open
    BY <2>2, <2>3
  <2>6. (InApp' <=> InApp) /\ \A o : Good(o)' <=> Good(o)
    BY <2>1 DEF InApp, Good, FileOf
  <2>7. \A e \in Slots : /\ dl'[e].pc # "idle" => InApp' /\ Good(dl[e].offer)'
                         /\ dl'[e].open => dl'[e].pc \in {"proxy", "direct"}
    BY <2>1, <2>5, <2>6
  <2>8. ASSUME ~overlap'
        PROVE  /\ \A e, f \in Slots : dl'[e].pc # "idle" /\ dl'[f].pc # "idle" => e = f
               /\ \A e \in Slots : dl'[e].open => tmp' = [by |-> e, clean |-> TRUE]
               /\ \A e \in Slots : dl'[e].pc = "install" => pkg'[FileOf(dl'[e].offer)] = [offer |-> dl'[e].offer, whole |-> TRUE]
    <3>1. \A e \in Slots : dl'[e].pc # "idle" => e = d
      BY <2>1, <2>5, <2>8
    <3>2. \A e \in Slots : dl'[e].open => e = d
      BY <3>1, <2>7
    <3> QED
      BY <2>1, <2>4, <2>5, <2>8, <3>1, <3>2
  <2>9. ~overlap' => (ran' # NotRun => ran'.file = [offer |-> ran'.asked, whole |-> TRUE] /\ Good(ran.asked)')
    BY <2>1, <2>6
  <2>10. InApp' /\ store'.offer # NoOffer => Good(store.offer)'
    BY <2>1, <2>6
  <2> QED
    BY <2>1, <2>2, <2>5, <2>7, <2>8, <2>9, <2>10
<1>9. ASSUME NEW d \in Slots, Finish(d) PROVE PackageInv'
  BY <1>9 DEF Finish, InApp, Good, UpdatesTyped
<1>10. ASSUME NEW d \in Slots, Break(d) PROVE PackageInv'
  BY SMTT(30), <1>10 DEF Break, InApp, Good, UpdatesTyped, NoDownload
<1>11. ASSUME NEW d \in Slots, Install(d) PROVE PackageInv'
  BY <1>11 DEF Install, InApp, Good, UpdatesTyped, NoDownload
<1> QED
  BY <1>1, <1>2, <1>3, <1>5, <1>6, <1>7, <1>8, <1>9, <1>10, <1>11 DEF UpdNext, allVars, updVars

----------------------------------------------------------------------------
\* The inductive invariant.
IInv ==
  /\ StorageTyped /\ RoundTrip /\ FollowInv /\ CompleteInv
  /\ UpdatesTyped /\ StoreInv /\ PackageInv

\* The application starts in it.
LEMMA IInvInit == UpdInit => IInv
<1> SUFFICES ASSUME UpdInit PROVE IInv
  OBVIOUS
<1> USE DEF UpdInit, Init
<1>1. PICK p \in {NoPath, Here("configs", "a")} : app = [path |-> p, prefs |-> 0, set |-> 0, excl |-> "none"]
  OBVIOUS
<1>2. p = NoPath \/ OwnActive(p)
  <2>1. ASSUME NEW n, n # "" PROVE OwnActive(Here("configs", n))
    BY <2>1 DEF OwnActive, InConfigs, Here, Path
  <2> QED
    BY <2>1
<1>3. OwnRow(app) /\ Loaded(app) = app
  BY <1>1, <1>2 DEF OwnRow, AppRow, Loaded
<1>4. OwnSubs(subs) /\ OwnSubs(<<>>) /\ OwnRow(NoRow) /\ TablesTyped(Defaults)
  BY ListsAssumption, UpdateRowAssumption DEF OwnSubs, Rows, OwnRow, AppRow, NoRow, TablesTyped
<1>5. RowsTyped /\ ImportTyped /\ (Accepted(backup) => Restorable(backup))
  BY <1>3, <1>4 DEF RowsTyped, SaveTyped, ImportTyped, NoSave, NoImport, Absent, Accepted, Version
<1>6. TablesTyped(others) /\ ExportTyped
  BY <1>4 DEF ExportTyped, NoExport
<1>7. RoundTrip /\ CompleteInv
  BY DEF RoundTrip, CompleteInv, NoImport
<1>8. FollowInv
  BY <1>3, TakenSelf DEF FollowInv, Saving, NoImport, NoSave
<1>9. UpdatesTyped /\ StoreInv
  BY ReadRow, UpdateRowAssumption DEF UpdatesTyped, StoreInv, UpdateStoreFollows, Crosses, FreshStore, BareStore, Idle
<1>10. PackageInv
  BY DEF PackageInv, FreshStore, BareStore, NoDownload, Slots
<1> QED
  BY <1>5, <1>6, <1>7, <1>8, <1>9, <1>10 DEF IInv, StorageTyped

\* Every step keeps it.
LEMMA IInvNext == IInv /\ [UpdNext]_allVars => IInv'
<1> SUFFICES ASSUME IInv, [UpdNext]_allVars PROVE IInv'
  OBVIOUS
<1>1. StorageStep
  BY StorageSteps
<1>2. StorageTyped' /\ RoundTrip'
  BY <1>1, RowsStep, TablesStep, ExportStep, ImportStep DEF IInv, UpdatesTyped, StorageTyped
<1>3. FollowInv' /\ CompleteInv'
  BY <1>1, FollowStep, CompleteStep DEF IInv
<1>4. UpdatesTyped' /\ StoreInv' /\ PackageInv'
  BY UpdatesStep, PackageStep DEF IInv
<1> QED
  BY <1>2, <1>3, <1>4 DEF IInv

\* So it always holds.
LEMMA Invariant == UpdSpec => []IInv
  BY IInvInit, IInvNext, PTL DEF UpdSpec

\* Whatever backups are restored, every saved path is in this machine's
\* configuration directory (backup_service's decoding of paths).
THEOREM PathsAreLocal == UpdSpec => []LocalPaths
<1>1. IInv => LocalPaths
  <2>1. \A p : OwnActive(p) => p.root = "here" /\ p.dir \in {"", "configs"}
    <3>1. \A p : InConfigs(p) => \E n : p = Here("configs", n)
      BY DEF InConfigs
    <3>2. \A d, n : Here(d, n).root = "here" /\ Here(d, n).dir = d
      BY DEF Here, Path
    <3>3. \A p : InConfigs(p) => p.root = "here" /\ p.dir = "configs"
      BY <3>1, <3>2
    <3>4. DefaultActive.root = "here" /\ DefaultActive.dir = ""
      BY <3>2 DEF DefaultActive
    <3> QED
      BY <3>3, <3>4 DEF OwnActive
  <2> QED
    <3>1. IInv => OwnRow(app) /\ OwnSubs(subs)
      BY DEF IInv, StorageTyped, RowsTyped
    <3> QED
      BY ZenonT(60), <2>1, <3>1 DEF OwnRow, OwnSubs, OwnActive, SubPaths, LocalPaths
<1> QED
  BY <1>1, Invariant, PTL

\* A backup made here names, when restored here, the files it was made from.
THEOREM OwnBackupsRoundTrip == UpdSpec => []RoundTrip
<1>1. IInv => RoundTrip
  BY DEF IInv
<1> QED
  BY <1>1, Invariant, PTL

\* Once restores and saves are over the frontend holds the row that is saved, in
\* every setting it fills, and the preferences' file agrees with it, unless
\* something was cut short or crossed, or a load failed.
THEOREM FrontendIsRow == UpdSpec => []FrontendFollows
<1>1. IInv => FrontendFollows
  BY DEF IInv, FollowInv, FrontendFollows
<1> QED
  BY <1>1, Invariant, PTL

\* The end of a restore (reloadStoresAfterBackupRestore) finds every table
\* replaced by the backup's.
THEOREM RestoresAreComplete == UpdSpec => RestoreComplete
<1> DEFINE Whole == imp.pc = "reload" /\ imp'.pc = "idle" /\ ~cut' =>
                      /\ app = imp.app /\ subs = imp.subs
                      /\ \A i \in DOMAIN Tables : others[Tables[i]] = RestoredRow(Tables[i])
<1>1. IInv /\ [UpdNext]_allVars => [Whole]_vars
  BY StorageSteps, RestoreStep DEF IInv
<1> QED
  BY <1>1, Invariant, PTL DEF UpdSpec, RestoreComplete

\* The installer is started on the whole of the package the user chose, one for
\* this machine and newer than what runs, unless two downloads were under way.
THEOREM ChosenPackageIsRun == UpdSpec => []ChosenPackageRuns
<1>1. IInv => ChosenPackageRuns
  BY DEF IInv, PackageInv, Good, ChosenPackageRuns
<1> QED
  BY <1>1, Invariant, PTL

\* The update store agrees with the row the background loop reads, once saves
\* have landed and restores are over, unless the two have parted.
THEOREM StoreIsRow == UpdSpec => []UpdateStoreFollows
<1>1. IInv => UpdateStoreFollows
  BY DEF IInv, StoreInv
<1> QED
  BY <1>1, Invariant, PTL
=============================================================================
