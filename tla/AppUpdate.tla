------------------------------ MODULE AppUpdate ------------------------------
(* The application's own update, beside the storage its settings live in:   *)
(* the store of the settings page, the check it makes, the check the        *)
(* background loop makes every four hours, the download of the package and  *)
(* the start of the installer. The row of update settings is one of the     *)
(* tables BackupRestore exports and restores.                               *)
EXTENDS BackupRestore, FiniteSetsExt, SequencesExt

CONSTANTS
    Machines,     \* kinds of machine the application may run on
    Feeds,        \* lists of releases the server may answer with, newest first
    Channels,     \* update channels the user may choose
    Budgets       \* bounds, for each machine: what the user does in the settings'
                  \*   storage, with updates, and rounds of the background loop

UpdateRow == [channel : {"stable", "prerelease", "autobuild", "none"}, skip : Nat, auto : BOOLEAN]
Asset == [kind : {"exe", "msi", "deb", "rpm", "appimage", "other"}, arch : {"x64", "arm64", "none"}, extra : 0 .. 2]

ASSUME ChannelsAssumption == Channels \subseteq {"stable", "prerelease", "autobuild"}
ASSUME FeedsAssumption ==
    Feeds \subseteq Seq([tag : [n : Nat, semver : BOOLEAN], pre : BOOLEAN, auto : BOOLEAN, assets : Seq(Asset)])
\* The row of update settings, at first and in the backups of other machines.
ASSUME UpdateRowAssumption ==
    /\ "update" \in DOMAIN Defaults /\ Defaults["update"] \in UpdateRow
    /\ \A s \in Foreign : s.others["update"] \in UpdateRow

VARIABLES
    machine,      \* what this machine is: system and processor
    current,      \* the version that runs
    store,        \* the frontend's copy of the row, what it offers, whether
                  \*   its button waits for a download, whether it is being
                  \*   loaded, and whether it and its saves have parted: a save
                  \*   or a load failed, or two rows were under way at once
    saving,       \* rows the frontend has sent to be saved
    check,        \* the check the user asked for
    round,        \* the background check
    clicks, rounds,   \* left of the bounds
    dl,           \* the downloads under way
    tmp,          \* the temporary file all of them write
    pkg,          \* the packages on the disk
    ran,          \* what the installer was started on
    overlap       \* two downloads were under way at once

updVars == <<machine, current, store, saving, check, round, clicks, rounds, dl, tmp, pkg, ran, overlap>>
allVars == <<vars, updVars>>

Slots == {1, 2}
NoOffer == [tag |-> [n |-> 0, semver |-> TRUE], asset |-> [kind |-> "none", arch |-> "none", extra |-> 0]]
NoAsset == NoOffer.asset
NoTemp == [by |-> 0, clean |-> FALSE]
NotRun == [file |-> [offer |-> NoOffer, whole |-> FALSE], asked |-> NoOffer]
NoDownload == [pc |-> "idle", offer |-> NoOffer, open |-> FALSE]
Idle == [pc |-> "idle"]

\* resolve_update_filename: one file for each kind of package.
FileOf(offer) == offer.asset.kind

Click == clicks > 0 /\ clicks' = clicks - 1

\* Bound: the background check and the downloads, which share nothing with an
\* export, a save or a restore while it runs, wait for it.
Settled == exp.pc = "idle" /\ ~Saving /\ imp.pc = "idle"

----------------------------------------------------------------------------
(* Choosing a release and one of its packages.                              *)

\* is_platform_compatible_for, check_arch_compatibility
Fits(a, m) ==
    /\ a.kind \in CASE m.os = "windows" -> {"exe", "msi"} [] m.os = "linux" -> {"deb", "rpm", "appimage"}
    /\ m.arch = "x86_64" => a.arch # "arm64"
    /\ m.arch = "aarch64" => a.arch = "arm64"

\* get_platform_priority_for: the machine's own kind of package first, then
\* its processor's, then a portable or an installer.
Priority(a, m) ==
    (IF a.kind \in {"exe", m.prefers} THEN 20
     ELSE IF a.kind = "appimage" \/ (a.kind = "rpm" /\ m.prefers = "appimage") THEN 15
     ELSE 10)
    + (IF a.arch = (IF m.arch = "x86_64" THEN "x64" ELSE "arm64") THEN 5 ELSE 0) + a.extra

\* pick_best_download_asset: the first of the best, or the first that is good
\* enough.
BestAsset(assets, m) ==
    LET at  == {i \in DOMAIN assets : Fits(assets[i], m)}
        top == Max({Priority(assets[i], m) : i \in at})
        bar == IF top >= 25 THEN 25 ELSE top
    IN  IF at = {} THEN NoAsset ELSE assets[Min({i \in at : Priority(assets[i], m) >= bar})]

\* The first release that satisfies one of the conditions, tried in turn; 0
\* if there is none.
First(feed, T(_)) == LET at == {i \in DOMAIN feed : T(feed[i])} IN IF at = {} THEN 0 ELSE Min(at)

\* select_release_by_channel; the latest release is what the server calls so.
Chosen(feed, channel) ==
    LET stable == First(feed, LAMBDA r : ~r.pre)
        auto   == First(feed, LAMBDA r : r.auto)
        pre    == First(feed, LAMBDA r : r.pre)
        any    == First(feed, LAMBDA r : TRUE)
    IN  CASE channel \in {"stable", "none"} -> stable
          [] channel = "prerelease" -> any
          [] channel = "autobuild" -> IF auto # 0 THEN auto ELSE IF pre # 0 THEN pre ELSE any

\* compare_versions: a tag that is no version is an update if it differs.
Newer(tag) == ~tag.semver \/ tag.n > current

InApp == machine.os = "windows"   \* supports_in_app_update

\* check_update: what a list of releases offers. A channel without a release,
\* or no package where one is needed, is an error and offers nothing.
Offers(channel) ==
    {o \in {LET i == Chosen(feed, channel)
            IN  IF i = 0 THEN NoOffer
                ELSE [tag |-> feed[i].tag, asset |-> BestAsset(feed[i].assets, machine)] : feed \in Feeds} :
        o # NoOffer /\ (InApp => o.asset # NoAsset)}

----------------------------------------------------------------------------
(* The store of the settings page, and its row.                             *)

\* A row without a channel is read as the stable one's.
Read(row) == [row EXCEPT !.channel = IF @ = "none" THEN "stable" ELSE @]

\* The saves under way are commands of their own: any may land last.
Crosses(row) == \E i \in DOMAIN saving : saving[i] # row

\* What the store shows without a load.
BareStore == [row |-> [channel |-> "stable", skip |-> None, auto |-> TRUE], offer |-> NoOffer, busy |-> FALSE,
              init |-> "no", parted |-> TRUE]
FreshStore == [BareStore EXCEPT !.row = Read(others["update"]), !.parted = FALSE]

\* loadFromBackend
StoreLoaded ==
    LET row == Read(others["update"]) IN [store EXCEPT !.row = row, !.parted = Crosses(row)]

\* The store takes a row and sends it, once or twice.
Sends(row, copies) ==
    /\ store' = [store EXCEPT !.row = row, !.parted = Crosses(row)]
    /\ saving' = saving \o copies

\* setUpdateChannel saves the row itself, and the watcher saves it again,
\* unless the store is being loaded.
ChooseChannel(c) ==
    /\ Click
    /\ LET row == [store.row EXCEPT !.channel = c]
       IN  Sends(row, IF store.init = "no" THEN <<row, row>> ELSE <<row>>)
    /\ UNCHANGED <<vars, machine, current, check, round, rounds, dl, tmp, pkg, ran, overlap>>

\* The switch of the background check relies on the watcher.
ChooseAuto ==
    /\ Click
    /\ LET row == [store.row EXCEPT !.auto = ~@]
       IN  IF store.init = "no" THEN Sends(row, <<row>>)
           ELSE store' = [store EXCEPT !.row = row, !.parted = TRUE] /\ UNCHANGED saving
    /\ UNCHANGED <<vars, machine, current, check, round, rounds, dl, tmp, pkg, ran, overlap>>

\* A save lands, or its failure is swallowed.
SaveLands(i) ==
    /\ \/ SaveTable("update", saving[i]) /\ UNCHANGED <<store, budget>>
       \/ /\ Fault("update")
          /\ store' = [store EXCEPT !.parted = TRUE]
          /\ UNCHANGED <<Settings, budget>>
    /\ saving' = RemoveAt(saving, i)
    /\ UNCHANGED <<machine, current, check, round, clicks, rounds, dl, tmp, pkg, ran, overlap>>

\* initializeStore, when the settings page is opened: it loads the row, and until
\* a moment later the watcher is off. Bound: at launch it is one step.
StoreInit ==
    /\ \/ /\ store.init = "no" /\ Click
          /\ store' = [store EXCEPT !.init = "load"]
          /\ NoFault
       \/ /\ store.init = "load" /\ UNCHANGED clicks
          /\ \/ NoFault /\ store' = [StoreLoaded EXCEPT !.init = "settle"]
             \/ Fault("load") /\ store' = [store EXCEPT !.init = "settle"]
       \/ /\ store.init = "settle" /\ UNCHANGED clicks
          /\ store' = [store EXCEPT !.init = "no"]
          /\ NoFault
    /\ UNCHANGED <<Settings, budget, machine, current, saving, check, round, rounds, dl, tmp, pkg, ran, overlap>>

\* checkUpdate: its button does not wait for a download, and what it writes
\* into the store's status frees the download's button.
CheckBegin ==
    /\ Click /\ check.pc = "idle"
    /\ check' = [pc |-> "asked", channel |-> store.row.channel]
    /\ store' = [store EXCEPT !.busy = FALSE]
    /\ UNCHANGED <<vars, machine, current, saving, round, rounds, dl, tmp, pkg, ran, overlap>>

\* Answered or not, the whole row is saved with the time of the check.
CheckEnds ==
    /\ check.pc = "asked"
    /\ \E s \in {[store EXCEPT !.offer = IF Newer(o.tag) THEN o ELSE NoOffer] : o \in Offers(check.channel)}
                \cup {[store EXCEPT !.busy = FALSE]} :
          store' = [s EXCEPT !.parted = Crosses(s.row)]
    /\ check' = Idle
    /\ saving' = Append(saving, store.row)
    /\ UNCHANGED <<vars, machine, current, round, clicks, rounds, dl, tmp, pkg, ran, overlap>>

----------------------------------------------------------------------------
(* The background loop reads the row, asks, and tells the frontend of a     *)
(* release unless the row read then skips it.                               *)

RoundBegin ==
    /\ rounds > 0 /\ round.pc = "idle" /\ Settled
    /\ others["update"].auto
    /\ round' = [pc |-> "asked", row |-> others["update"]]
    /\ rounds' = rounds - 1
    /\ UNCHANGED <<vars, machine, current, store, saving, check, clicks, dl, tmp, pkg, ran, overlap>>

RoundEnds ==
    /\ round.pc = "asked" /\ Settled
    /\ \/ \E o \in Offers(round.row.channel) :
             /\ Newer(o.tag) /\ ~(o.tag.semver /\ o.tag.n = round.row.skip)
             /\ store' = [store EXCEPT !.offer = o]
       \/ UNCHANGED store
    /\ round' = Idle
    /\ UNCHANGED <<vars, machine, current, saving, check, clicks, rounds, dl, tmp, pkg, ran, overlap>>

----------------------------------------------------------------------------
(* The package: through a proxy first, then directly.                       *)

Download ==
    /\ Click /\ InApp /\ store.offer # NoOffer /\ ~store.busy
    /\ \E d \in Slots :
         /\ dl[d].pc = "idle" /\ (d = 2 => dl[1].pc # "idle")
         /\ dl' = [dl EXCEPT ![d] = [pc |-> "proxy", offer |-> store.offer, open |-> FALSE]]
         /\ overlap' = (overlap \/ \E e \in Slots \ {d} : dl[e].pc # "idle")
    /\ store' = [store EXCEPT !.busy = TRUE]
    /\ UNCHANGED <<vars, machine, current, saving, check, round, rounds, tmp, pkg, ran>>

\* Mutant of Truncated: what an attempt left behind stays in the file.
TruncatedNot(d) == [by |-> d, clean |-> tmp = NoTemp]

\* File::create: the file is clean unless another download writes it too.
Truncated(d) == [by |-> d, clean |-> tmp = NoTemp \/ \A e \in Slots \ {d} : ~dl[e].open]

\* The server answers; the first bytes come with an event of progress.
Open(d) ==
    /\ dl[d].pc \in {"proxy", "direct"} /\ ~dl[d].open
    /\ tmp' = Truncated(d)
    /\ dl' = [dl EXCEPT ![d].open = TRUE]
    /\ store' = [store EXCEPT !.busy = TRUE]
    /\ UNCHANGED <<vars, machine, current, saving, check, round, clicks, rounds, pkg, ran, overlap>>

\* The last byte: the temporary file becomes the package.
Finish(d) ==
    /\ dl[d].open /\ tmp # NoTemp
    /\ pkg' = [pkg EXCEPT ![FileOf(dl[d].offer)] =
                  [offer |-> dl[d].offer, whole |-> tmp.clean /\ tmp.by = d]]
    /\ tmp' = NoTemp
    /\ dl' = [dl EXCEPT ![d].pc = "install", ![d].open = FALSE]
    /\ UNCHANGED <<vars, machine, current, store, saving, check, round, clicks, rounds, ran, overlap>>

\* An attempt fails: the connection, or there is no file to rename. The
\* second one's failure is the download's.
Break(d) ==
    /\ dl[d].pc \in {"proxy", "direct"}
    /\ \/ dl[d].open /\ tmp = NoTemp /\ NoFault
       \/ Fault("download")
    /\ IF dl[d].pc = "proxy"
       THEN dl' = [dl EXCEPT ![d].pc = "direct", ![d].open = FALSE] /\ UNCHANGED store
       ELSE dl' = [dl EXCEPT ![d] = NoDownload] /\ store' = [store EXCEPT !.busy = FALSE]
    /\ UNCHANGED <<Settings, budget, machine, current, saving, check, round, clicks, rounds, tmp, pkg, ran, overlap>>

\* The installer is started on whatever the file holds now.
Install(d) ==
    /\ dl[d].pc = "install"
    /\ ran' = [file |-> pkg[FileOf(dl[d].offer)], asked |-> dl[d].offer]
    /\ store' = [store EXCEPT !.busy = TRUE]
    /\ dl' = [dl EXCEPT ![d] = NoDownload]
    /\ UNCHANGED <<vars, machine, current, saving, check, round, clicks, rounds, tmp, pkg, overlap>>

----------------------------------------------------------------------------
\* Mutant of StoreReloaded: the restore leaves the store as it is.
StoreReloadedNot == store

\* reloadStoresAfterBackupRestore loads this store too.
StoreReloaded == StoreLoaded

\* The end of a restore; a changed row is saved again by the watcher. A load
\* that fails leaves its store as it was.
Reload ==
    \E page, mine \in BOOLEAN :
        /\ Loads(page /\ mine)
        /\ ImportReload(page)
        /\ IF mine
           THEN /\ store' = StoreReloaded
                /\ saving' = IF StoreReloaded.row = store.row \/ store.init # "no" THEN saving
                             ELSE Append(saving, StoreReloaded.row)
           ELSE store' = [store EXCEPT !.parted = TRUE] /\ UNCHANGED saving
        /\ UNCHANGED <<machine, current, check, round, clicks, rounds, dl, tmp, pkg, ran, overlap>>

\* The application is launched again, as the version the installer left.
Relaunch ==
    /\ \E page, mine \in BOOLEAN :
         /\ Loads(page /\ mine)
         /\ Launch(page)
         /\ store' = IF mine THEN FreshStore ELSE BareStore
    /\ current' \in {current} \cup
          (IF ran.file.whole /\ Fits(ran.file.offer.asset, machine) THEN {ran.file.offer.tag.n} ELSE {})
    /\ saving' = <<>>
    /\ check' = Idle /\ round' = Idle
    /\ dl' = [d \in Slots |-> NoDownload]
    /\ ran' = NotRun /\ overlap' = FALSE
    /\ UNCHANGED <<machine, clicks, rounds, tmp, pkg>>

UpdInit ==
    /\ Init
    /\ machine \in Machines
    /\ current = 2
    /\ store = FreshStore /\ saving = <<>>
    /\ check = Idle /\ round = Idle
    /\ \E b \in Budgets[machine] : clicks = b.updates /\ rounds = b.rounds /\ budget = b.settings
    /\ dl = [d \in Slots |-> NoDownload]
    /\ tmp = NoTemp /\ pkg = [k \in {"exe", "msi"} |-> NotRun.file]
    /\ ran = NotRun /\ overlap = FALSE

UpdNext ==
    \/ Running /\ UNCHANGED updVars
    \/ Reload \/ Relaunch
    \/ \E c \in Channels \ {store.row.channel} : ChooseChannel(c)
    \/ ChooseAuto \/ StoreInit
    \/ \E i \in DOMAIN saving : SaveLands(i)
    \/ CheckBegin \/ CheckEnds \/ RoundBegin \/ RoundEnds
    \/ Download
    \/ Settled /\ \E d \in Slots : Open(d) \/ Finish(d) \/ Break(d) \/ Install(d)

UpdSpec == UpdInit /\ [][UpdNext]_allVars

----------------------------------------------------------------------------
\* The installer is started on the whole of the package the user chose, one
\* for this machine and newer than what runs (unless its tag is no version),
\* also after a failed attempt, a crash in the middle of a download, or a
\* check, a round or a switch of channel that changed the offer meanwhile.
\* Unless two downloads were under way at once.
ChosenPackageRuns ==
    ran # NotRun /\ ~overlap =>
        /\ ran.file.whole /\ ran.file.offer = ran.asked
        /\ Fits(ran.asked.asset, machine)
        /\ ran.asked.tag.semver => ran.asked.tag.n > current

\* The same without the exception. The code does not give it: a check of the
\* user's frees the button of a download that is under way, and all downloads
\* write one temporary file.
WholePackageRuns == ran # NotRun => ran.file.whole /\ ran.file.offer = ran.asked

\* The store the checks read their channel from is the row on the disk the
\* background loop reads, once saves have landed and restores are over. Unless
\* a save or a load failed, two different rows were under way at once (the
\* second choice may land first), or the watcher was off; until a load, or
\* until a choice is sent with no other row under way.
UpdateStoreFollows ==
    saving = <<>> /\ imp.pc = "idle" /\ ~cut /\ ~store.parted => store.row = Read(others["update"])

\* The same whatever fails or crosses. The code does not give it: two choices
\* made in a row are saved by commands that nothing orders.
LastChoiceIsSaved ==
    saving = <<>> /\ imp.pc = "idle" /\ ~cut /\ store.init = "no" => store.row = Read(others["update"])
=============================================================================
