---------------------------- MODULE BackupRestore ----------------------------
(* The application's settings at rest: the app_config row of the database,  *)
(* the other tables of one row, the subscriptions, the startup preferences  *)
(* kept in a file of their own,                                             *)
(* the frontend's copy that saves itself a moment after an edit, and the    *)
(* backup that is exported from all that and restored, here or on another   *)
(* machine. Subscriptions' files themselves are the subject of ConfigFiles. *)
EXTENDS Integers, Sequences

CONSTANTS
    Foreign,      \* backup files that were not written here
    Lists,        \* subscription lists the user may have
    Contents,     \* what a configuration file may hold
    Tables,       \* the other tables, in the order they are read and written
    Defaults,     \* their rows at first
    FaultKinds,   \* faults that may happen
    Budget,       \* bounds: what the user does, and launches after the first
    Faults        \* bound: faults

None == 0
Version == 2   \* SNAPSHOT_FORMAT_VERSION

----------------------------------------------------------------------------
(* Paths: where they start, the directory, the file name. A path with ".."  *)
(* in it is one whose directory is "up"; a path without a name has name "". *)

Path(root, dir, name) == [root |-> root, dir |-> dir, name |-> name]
Here(dir, name) == Path("here", dir, name)
Relative(dir, name) == Path("relative", dir, name)
NoPath == Path("none", "", "")
Blank  == Path("blank", "", "")

DefaultName(kind) == CASE kind = "active" -> "config.json"
                       [] kind = "config" -> "subscription.json"
                       [] kind = "backup" -> "subscription.bak"
DefaultActive == Here("", "config.json")

\* relative_path_from_kind keeps the file name alone.
FromKind(p, kind) ==
    LET name == IF p.name = "" THEN DefaultName(kind) ELSE p.name
    IN  IF kind = "active" /\ name = "config.json" THEN Relative("", name) ELSE Relative("configs", name)

\* Mutant of Enforce: an active configuration may lie in "configs" only.
EnforceConfigsOnly(p, kind) == IF p.dir = "configs" THEN p ELSE Relative("configs", p.name)

\* enforce_snapshot_relative_policy
Enforce(p, kind) ==
    IF p.dir = "configs" \/ (kind = "active" /\ p.dir = "" /\ p.name = "config.json") THEN p
    ELSE FromKind(p, kind)

\* What is left of an absolute path under the configuration directory:
\* path_to_snapshot_string drops every "..".
Stripped(p) == Relative(IF p.dir = "up" THEN "" ELSE p.dir, p.name)

\* encode_path_for_snapshot
Encode(p, kind) ==
    IF p = NoPath THEN NoPath
    ELSE IF p.root = "here" THEN Enforce(Stripped(p), kind)
    ELSE IF p.root = "relative" /\ p.dir # "up" /\ p.name # "" THEN Enforce(p, kind)
    ELSE FromKind(p, kind)

\* Mutant of Localised: a relative path is taken as it is.
LocalisedAsIs(p, kind) ==
    CASE p = Blank -> Relative(IF kind = "active" THEN "" ELSE "configs", "config.json")
      [] p.root = "here" -> Enforce(Stripped(p), kind)
      [] p.root = "elsewhere" -> FromKind(p, kind)
      [] OTHER -> p

Localised(p, kind) ==
    IF p = Blank THEN IF kind = "active" THEN Relative("", "config.json")
                                         ELSE Relative("configs", "subscription.json")
    ELSE IF p.root = "here" THEN Enforce(Stripped(p), kind)
    ELSE IF p.root = "elsewhere" \/ p.dir = "up" \/ p.name = "" THEN FromKind(p, kind)
    ELSE Enforce(p, kind)

\* decode_snapshot_path_to_local
Decode(p, kind) == LET r == Localised(p, kind) IN Path(IF r.dir = "up" THEN "elsewhere" ELSE "here", r.dir, r.name)

DecodeOptional(p, kind) == IF p = NoPath THEN NoPath ELSE Decode(p, kind)

\* rewrite_paths_for_snapshot
LocalActive(snap) ==
    LET p == IF snap.app.path # NoPath THEN snap.app.path ELSE snap.path
    IN  IF p = NoPath THEN DefaultActive ELSE Decode(p, "active")
LocalSubs(snap) ==
    [i \in DOMAIN snap.subs |-> [cfg |-> DecodeOptional(snap.subs[i].cfg, "config"),
                                 bak |-> DecodeOptional(snap.subs[i].bak, "backup")]]

----------------------------------------------------------------------------
(* What the constants may be.                                               *)

\* The paths the application makes itself: a file in the directory of
\* subscriptions, or the default configuration.
InConfigs(p) == p = Here("configs", p.name) /\ p.name # ""
OwnActive(p) == InConfigs(p) \/ p = DefaultActive

\* A path in the directory "configs" names a file there: the directory itself
\* is the name "configs" in the directory above.
SomePath(p) == p = Path(p.root, p.dir, p.name) /\ (p.dir = "configs" => p.name # "")

Rows(list) == list = [i \in DOMAIN list |-> [cfg |-> list[i].cfg, bak |-> list[i].bak]]
OwnSubs(list) ==
    Rows(list) /\ \A i \in DOMAIN list : \A p \in {list[i].cfg, list[i].bak} : p = NoPath \/ InConfigs(p)
AppRow(row) == row = [path |-> row.path, prefs |-> row.prefs, set |-> row.set, excl |-> row.excl]

ASSUME ListsAssumption == \A list \in Lists : OwnSubs(list)
ASSUME TablesAssumption ==
    /\ Tables \in Seq({Tables[i] : i \in DOMAIN Tables}) /\ Tables # <<>>
    /\ \A i, j \in DOMAIN Tables : Tables[i] = Tables[j] => i = j
    /\ DOMAIN Defaults = {Tables[i] : i \in DOMAIN Tables}
\* A backup of another machine is well formed, but its paths and what it
\* leaves out are its own affair.
ASSUME ForeignAssumption ==
    \A s \in Foreign :
        /\ AppRow(s.app) /\ SomePath(s.app.path) /\ SomePath(s.path)
        /\ \A i \in DOMAIN s.subs : SomePath(s.subs[i].cfg) /\ SomePath(s.subs[i].bak)
        /\ s.own = <<>>

----------------------------------------------------------------------------
VARIABLES
    app,       \* the row of app_config: active path, startup preferences,
               \*   other settings, and the addresses TUN leaves alone
    others,    \* the rows of the other tables
    subs,      \* the list of subscriptions
    prefs,     \* startup_preferences.json
    file,      \* the configuration files of this machine
    ui,        \* the frontend's copy of app, its save timer, whether it is
               \*   starting, and whether a load of it failed, or an edit was not
               \*   saved, with nothing saved since
    save,      \* the frontend's saves in progress
    exp,       \* the export in progress
    backup,    \* the file it writes
    imp,       \* the import in progress
    cut,       \* something was cut short, or two things crossed
    budget, faults

Settings == <<app, others, subs, prefs, file, ui, save, exp, backup, imp, cut>>
vars == <<app, others, subs, prefs, file, ui, save, exp, backup, imp, cut, budget, faults>>

Files == {Here("", "config.json"), Here("configs", "subscription.json"),
          Here("configs", "config.json")}
         \cup {Here("configs", n) : n \in {"a", "b", "x"}}
Absent == [ver |-> 0]   \* no backup, or one that cannot be parsed

\* Bound: this many automatic saves under way at once.
Timers == {1, 2}

NoRow == [path |-> NoPath, prefs |-> 0, set |-> 0, excl |-> "none"]
Empty == 2   \* a setting that a row leaves blank
NoSave == [pc |-> "idle", app |-> NoRow]
NoExport == [pc |-> "idle", at |-> 1, app |-> NoRow, others |-> Defaults, subs |-> <<>>, content |-> None]
NoImport == [pc |-> "idle", at |-> 1, snap |-> Absent, app |-> NoRow, subs |-> <<>>, fell |-> FALSE]

Fault(kind) == kind \in FaultKinds /\ faults > 0 /\ faults' = faults - 1
NoFault == UNCHANGED faults
Saving == \E s \in Timers : save[s].pc # "idle"

\* A load of the frontend's copy: it succeeds, or its failure is swallowed.
Loads(ok) == IF ok THEN NoFault ELSE Fault("load")
User == budget > 0 /\ budget' = budget - 1

TypeOK ==
    /\ app.path \in Files \cup {NoPath} /\ app.prefs \in 0 .. 1 /\ app.set \in {0, 1, Empty}
    /\ app.excl \in {"none", "bad"}
    /\ prefs \in 0 .. 1
    /\ \A p \in Files : file[p] \in Contents \cup {None}
    /\ ui.app.path \in Files \cup {NoPath} /\ ui.armed \in BOOLEAN /\ ui.starting \in BOOLEAN /\ ui.stale \in BOOLEAN
    /\ \A s \in Timers : save[s].pc \in {"idle", "row", "prefs"}
    /\ exp.pc \in {"idle", "tables", "subs", "content", "write"} /\ exp.at \in 1 .. Len(Tables) + 1
    /\ imp.pc \in {"idle", "file", "row", "tables", "subs", "reload"} /\ imp.at \in 1 .. Len(Tables) + 1

----------------------------------------------------------------------------
(* The rows.                                                                *)

\* load_app_config: addresses that are not valid are read as none.
Loaded(row) == [row EXCEPT !.excl = IF @ = "bad" THEN "none" ELSE @]

\* loadFromBackend takes a row over, except a setting that the row leaves
\* empty: there the page's own value stays.
Taken(row, page) == [Loaded(row) EXCEPT !.set = IF @ = Empty THEN page.set ELSE @]

\* The frontend's AppConfig is saved: a timer fires, whether or not an earlier
\* save has been answered.
SaveBegin ==
    /\ ui.armed
    /\ ui' = [ui EXCEPT !.armed = FALSE]
    /\ \E s \in Timers :
         /\ save[s].pc = "idle" /\ (s = 2 => save[1].pc # "idle")
         /\ save' = [save EXCEPT ![s] = [pc |-> "row", app |-> ui.app]]
    /\ cut' = (cut \/ Saving \/ imp.pc # "idle")
    /\ UNCHANGED <<app, others, subs, prefs, file, exp, backup, imp, budget, faults>>

\* db_save_app_config_internal: the row, and after it the preferences' file.
\* A failure of either is swallowed by the timer.
SaveRow(s) ==
    /\ save[s].pc = "row"
    /\ \/ /\ NoFault
          /\ app' = save[s].app
          /\ save' = [save EXCEPT ![s].pc = "prefs"]
          /\ cut' = (cut \/ imp.pc # "idle")
       \/ /\ Fault("row")
          /\ save' = [save EXCEPT ![s] = NoSave]
          /\ cut' = TRUE
          /\ UNCHANGED app
    /\ UNCHANGED <<others, subs, prefs, file, ui, exp, backup, imp, budget>>

SavePrefs(s) ==
    /\ save[s].pc = "prefs"
    /\ \/ NoFault /\ prefs' = save[s].app.prefs /\ ui' = [ui EXCEPT !.stale = FALSE] /\ UNCHANGED cut
       \/ Fault("prefs") /\ cut' = TRUE /\ UNCHANGED <<prefs, ui>>
    /\ save' = [save EXCEPT ![s] = NoSave]
    /\ UNCHANGED <<app, others, subs, file, exp, backup, imp, budget>>

\* The user edits a setting or a startup preference. While the page starts its
\* watcher is off, and the edit is not saved.
Edit(field) ==
    /\ User
    /\ ui' = IF ui.starting THEN [ui EXCEPT !.app[field] = 1 - @, !.stale = TRUE]
             ELSE [ui EXCEPT !.app[field] = 1 - @, !.armed = TRUE]
    /\ cut' = (cut \/ imp.pc # "idle")
    /\ UNCHANGED <<app, others, subs, prefs, file, save, exp, backup, imp, faults>>

\* A subscription becomes the active one: the backend saves the row, the
\* frontend takes the path over. (ConfigFiles has this step by step; here it
\* does not cross a start or a save of the frontend, or a restore.)
Switch(p) ==
    /\ User
    /\ ~ui.starting /\ ~Saving /\ ~ui.armed /\ imp.pc = "idle"
    /\ app' = [Loaded(app) EXCEPT !.path = p]
    /\ prefs' = app.prefs
    /\ ui' = [ui EXCEPT !.app.path = p, !.armed = TRUE]
    /\ UNCHANGED <<others, subs, file, save, exp, backup, imp, cut, faults>>

\* The file of the active subscription is written anew.
Refresh(c) ==
    /\ User
    /\ app.path # NoPath /\ file' = [file EXCEPT ![app.path] = c]
    /\ UNCHANGED <<app, others, subs, prefs, ui, save, exp, backup, imp, cut, faults>>

\* db_save_subscriptions
SaveSubs(list) ==
    /\ User
    /\ subs' = list
    /\ cut' = (cut \/ imp.pc # "idle")
    /\ UNCHANGED <<app, others, prefs, file, ui, save, exp, backup, imp, faults>>

\* A command that saves one of the other tables, whole.
SaveTable(t, row) ==
    /\ others' = [others EXCEPT ![t] = row]
    /\ cut' = (cut \/ imp.pc # "idle")
    /\ UNCHANGED <<app, subs, prefs, file, ui, save, exp, backup, imp, faults>>

EditTheme == User /\ SaveTable("theme", 1 - others["theme"])

----------------------------------------------------------------------------
(* backup_export_snapshot reads the tables one after the other, then the    *)
(* active configuration, and writes the file.                               *)

ExportBegin ==
    /\ exp.pc = "idle" /\ User
    /\ exp' = [NoExport EXCEPT !.pc = "tables", !.app = Loaded(app)]
    /\ UNCHANGED <<app, others, subs, prefs, file, ui, save, backup, imp, cut, faults>>

ExportTable ==
    /\ exp.pc = "tables"
    /\ LET t == Tables[exp.at]
       IN  exp' = [exp EXCEPT !.others[t] = others[t], !.at = @ + 1,
                             !.pc = IF exp.at = Len(Tables) THEN "subs" ELSE @]
    /\ UNCHANGED <<app, others, subs, prefs, file, ui, save, backup, imp, cut, budget, faults>>

ExportSubs ==
    /\ exp.pc = "subs"
    /\ exp' = [exp EXCEPT !.pc = "content", !.subs = subs]
    /\ UNCHANGED <<app, others, subs, prefs, file, ui, save, backup, imp, cut, budget, faults>>

\* build_snapshot_from_storage: resolve_active_config_file_path and the rest.
ActiveFile(path) == IF path = NoPath THEN DefaultActive ELSE path

ExportContent ==
    /\ exp.pc = "content"
    /\ exp' = [exp EXCEPT !.pc = "write", !.content = file[ActiveFile(exp.app.path)]]
    /\ UNCHANGED <<app, others, subs, prefs, file, ui, save, backup, imp, cut, budget, faults>>

Snapshot ==
    LET path == Encode(exp.app.path, "active")
    IN  [ver |-> Version, app |-> [exp.app EXCEPT !.path = path], path |-> path, others |-> exp.others,
         subs |-> [i \in DOMAIN exp.subs |-> [cfg |-> Encode(exp.subs[i].cfg, "config"),
                                              bak |-> Encode(exp.subs[i].bak, "backup")]],
         content |-> exp.content,
         own |-> <<[path |-> ActiveFile(exp.app.path), subs |-> exp.subs]>>]

\* write_snapshot_to_path: the file is truncated and written in place.
ExportWrite ==
    /\ exp.pc = "write"
    /\ \/ NoFault /\ backup' = Snapshot
       \/ Fault("export") /\ backup' = Absent
    /\ exp' = NoExport
    /\ UNCHANGED <<app, others, subs, prefs, file, ui, save, imp, cut, budget>>

----------------------------------------------------------------------------
(* backup_import_snapshot                                                   *)

\* parse_snapshot
Accepted(snap) == snap.ver \in 1 .. Version

\* A dry run of any backup, or one that is refused: nothing but warnings.
ImportRefused ==
    /\ imp.pc = "idle"
    /\ UNCHANGED vars

\* apply_snapshot_to_storage. The row the snapshot carries is another
\* machine's but for the paths.
ImportBegin(snap) ==
    /\ imp.pc = "idle" /\ User /\ Accepted(snap)
    /\ imp' = [NoImport EXCEPT !.pc = "file", !.snap = snap,
                               !.app = [snap.app EXCEPT !.path = LocalActive(snap)],
                               !.subs = LocalSubs(snap)]
    /\ cut' = (cut \/ ui.starting \/ ui.armed \/ Saving)
    /\ UNCHANGED <<app, others, subs, prefs, file, ui, save, exp, backup, faults>>

ImportFails == imp' = NoImport /\ cut' = TRUE

\* The active configuration's file comes first; if its path cannot be
\* written the default one is tried.
ImportFile ==
    /\ imp.pc = "file"
    /\ \/ /\ imp.snap.content = None
          /\ NoFault
          /\ imp' = [imp EXCEPT !.pc = "row"]
          /\ UNCHANGED <<file, cut>>
       \/ /\ imp.snap.content # None
          /\ NoFault
          /\ file' = [file EXCEPT ![imp.app.path] = imp.snap.content]
          /\ imp' = [imp EXCEPT !.pc = "row"]
          /\ UNCHANGED cut
       \/ /\ imp.snap.content # None /\ imp.app.path # DefaultActive
          /\ Fault("primary")
          /\ file' = [file EXCEPT ![DefaultActive] = imp.snap.content]
          /\ imp' = [imp EXCEPT !.pc = "row", !.fell = TRUE,
                                !.app.path = DefaultActive]
          /\ UNCHANGED cut
       \/ /\ imp.snap.content # None
          /\ Fault("config")
          /\ ImportFails
          /\ UNCHANGED file
    /\ UNCHANGED <<app, others, subs, prefs, ui, save, exp, backup, budget>>

\* storage.save_app_config: the row alone, unchecked, and not the
\* preferences' file.
ImportRow ==
    /\ imp.pc = "row"
    /\ \/ /\ NoFault
          /\ app' = imp.app
          /\ imp' = [imp EXCEPT !.pc = "tables"]
          /\ UNCHANGED cut
       \/ Fault("row") /\ ImportFails /\ UNCHANGED app
    /\ UNCHANGED <<others, subs, prefs, file, ui, save, exp, backup, budget>>

\* A backup without an update channel restores "stable".
RestoredRow(t) ==
    LET row == imp.snap.others[t]
    IN  IF t = "update" /\ row.channel = "none" THEN [row EXCEPT !.channel = "stable"] ELSE row

\* Mutant of AfterTable: the last of the tables is left out.
AfterTableSkipsLast(at) == at >= Len(Tables) - 1

AfterTable(at) == at = Len(Tables)

\* The other tables, one statement each.
ImportTable ==
    /\ imp.pc = "tables"
    /\ \/ /\ NoFault
          /\ others' = [others EXCEPT ![Tables[imp.at]] = RestoredRow(Tables[imp.at])]
          /\ imp' = [imp EXCEPT !.at = @ + 1, !.pc = IF AfterTable(imp.at) THEN "subs" ELSE @]
          /\ UNCHANGED cut
       \/ Fault("tables") /\ ImportFails /\ UNCHANGED others
    /\ UNCHANGED <<app, subs, prefs, file, ui, save, exp, backup, budget>>

\* The subscriptions and their index.
ImportSubs ==
    /\ imp.pc = "subs"
    /\ \/ /\ NoFault
          /\ subs' = imp.subs
          /\ imp' = [imp EXCEPT !.pc = "reload"]
          /\ UNCHANGED cut
       \/ Fault("tables") /\ ImportFails /\ UNCHANGED subs
    /\ UNCHANGED <<app, others, prefs, file, ui, save, exp, backup, budget>>

\* Mutant of Reloaded: only the other stores are loaded again.
ReloadedOthers(row) == ui

\* reloadStoresAfterBackupRestore: the watcher arms the timer if a watched
\* field has changed.
Reloaded(row) ==
    LET page == Taken(row, ui.app) IN [ui EXCEPT !.app = page, !.armed = IF page = ui.app \/ ui.starting THEN @ ELSE TRUE]

\* A load that fails leaves the page its old copy, and says nothing.
ImportReload(ok) ==
    /\ imp.pc = "reload"
    /\ ui' = IF ok THEN Reloaded(app) ELSE [ui EXCEPT !.stale = TRUE]
    /\ imp' = NoImport
    /\ UNCHANGED <<app, others, subs, prefs, file, save, exp, backup, cut, budget>>

----------------------------------------------------------------------------
\* The application ends at any point and is launched again: it decides how
\* to show its window from the preferences' file, before the database opens.
\* A page that cannot load its row shows the built-in one.
Launch(ok) ==
    /\ User
    /\ cut' = (cut \/ ui.armed \/ Saving \/ imp.pc # "idle")
    /\ ui' = [app |-> IF ok THEN Taken(app, NoRow) ELSE NoRow, armed |-> FALSE, starting |-> TRUE,
              stale |-> IF ok THEN ui.stale ELSE TRUE]
    /\ save' = [s \in Timers |-> NoSave]
    /\ exp' = NoExport
    /\ imp' = NoImport
    /\ UNCHANGED <<app, others, subs, prefs, file, backup>>

\* A moment later the watcher is on.
Started ==
    /\ ui.starting /\ ui' = [ui EXCEPT !.starting = FALSE]
    /\ UNCHANGED <<app, others, subs, prefs, file, save, exp, backup, imp, cut, budget, faults>>

Backups == Foreign \cup {backup}

Init ==
    /\ \E list \in Lists, p \in {NoPath, Here("configs", "a")} :
         /\ subs = list
         /\ app = [path |-> p, prefs |-> 0, set |-> 0, excl |-> "none"]
    /\ others = Defaults
    /\ prefs = 0
    /\ file = [p \in Files |-> IF p \in {DefaultActive, Here("configs", "a")} THEN 1 ELSE None]
    /\ ui = [app |-> app, armed |-> FALSE, starting |-> FALSE, stale |-> FALSE]
    /\ save = [s \in Timers |-> NoSave]
    /\ exp = NoExport
    /\ backup = Absent
    /\ imp = NoImport
    /\ cut = FALSE
    /\ budget \in Budget /\ faults = Faults

\* What the user, the timers and the commands do while the application runs.
Running ==
    \/ Started \/ SaveBegin \/ \E s \in Timers : SaveRow(s) \/ SavePrefs(s)
    \/ \E f \in {"prefs", "set"} : Edit(f)
    \/ \E p \in {Here("configs", "a"), Here("configs", "b")} : Switch(p)
    \/ \E c \in Contents : Refresh(c)
    \/ \E list \in Lists : SaveSubs(list)
    \/ EditTheme
    \/ ExportBegin \/ ExportTable \/ ExportSubs \/ ExportContent \/ ExportWrite
    \/ ImportRefused \/ \E s \in Backups : ImportBegin(s)
    \/ ImportFile \/ ImportRow \/ ImportTable \/ ImportSubs

Next == Running \/ \E ok \in BOOLEAN : Loads(ok) /\ (ImportReload(ok) \/ Launch(ok))

Spec == Init /\ [][Next]_vars

----------------------------------------------------------------------------
SubPaths(list) == UNION {{list[i].cfg, list[i].bak} : i \in DOMAIN list}

\* Whatever paths a backup carries (of another machine, out of the
\* configuration directory, blank), those that are saved, here and after any
\* restore, are inside this machine's configuration directory.
LocalPaths == \A p \in (SubPaths(subs) \cup {app.path}) \ {NoPath} : p.root = "here" /\ p.dir \in {"", "configs"}

\* A backup exported and restored on the same machine names the files it was
\* made from: the export's and the restore's rewriting of paths cancel out,
\* except that an active path that cannot be written falls back.
RoundTrip ==
    imp.pc # "idle" /\ imp.snap.own # <<>> =>
        /\ imp.subs = imp.snap.own[1].subs
        /\ imp.fell \/ imp.app.path = imp.snap.own[1].path

\* Once restores and saves are over the frontend's copy is the row, in every
\* setting the row fills, and the startup preferences, which a restore leaves
\* alone, have followed by the automatic save: the next edit's save cannot
\* bring settings back that a restore replaced. Unless a step failed, the
\* application ended in the middle, two saves crossed, or the user edited
\* settings while the restore ran; and, until the next save, unless a load of
\* the page failed or an edit came while it started.
FrontendFollows ==
    ~cut /\ ~ui.armed /\ ~Saving /\ imp.pc = "idle" /\ ~ui.stale =>
        ui.app = Taken(app, ui.app) /\ prefs = app.prefs

\* The same whatever loads fail and whatever the row leaves blank. The code
\* does not give it: a failed load is swallowed and the page's old copy is what
\* the next edit saves over the restored row; a blank setting keeps the page's.
FrontendIsRestored ==
    ~cut /\ ~ui.armed /\ ~Saving /\ imp.pc = "idle" => ui.app = Loaded(app) /\ prefs = app.prefs

\* A restore that runs to its end has replaced every table by the backup's,
\* the row, the others and the subscriptions, unless something was saved
\* while it ran.
RestoreComplete ==
    [][imp.pc = "reload" /\ imp'.pc = "idle" /\ ~cut' =>
          /\ app = imp.app /\ subs = imp.subs
          /\ \A i \in DOMAIN Tables : others[Tables[i]] = RestoredRow(Tables[i])]_vars
=============================================================================
