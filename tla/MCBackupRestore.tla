--------------------------- MODULE MCBackupRestore ---------------------------
(* The instance of AppUpdate for TLC: backups of other machines with        *)
(* every kind of path, of an older and of a later format.                   *)
EXTENDS AppUpdate

MCTables == <<"theme", "update">>
MCDefaults == [theme |-> 0, update |-> [channel |-> "stable", skip |-> None, auto |-> TRUE]]

Snap(ver, path, excl, content, cfg, bak) ==
    [ver |-> ver, app |-> [path |-> path, prefs |-> 1, set |-> IF ver = 1 THEN Empty ELSE 1, excl |-> excl], path |-> NoPath,
     others |-> [theme |-> 1, update |-> [channel |-> IF ver = 1 THEN "none" ELSE "prerelease",
                                          skip |-> None, auto |-> TRUE]],
     subs |-> <<[cfg |-> cfg, bak |-> bak]>>, content |-> content, own |-> <<>>]

MCForeign ==
    { Snap(2, Path("elsewhere", "data", "x"), "bad", 2, Path("elsewhere", "data", "a"), NoPath),
      Snap(1, Relative("up", "x"), "none", None, Relative("up", "x"), Relative("sub", "b")),
      Snap(2, Blank, "none", 2, Blank, Path("here", "up", "b")),
      Snap(2, NoPath, "none", None, NoPath, NoPath),
      Snap(3, Relative("configs", "x"), "none", 2, NoPath, NoPath) }

MCLists == { <<>>,
             <<[cfg |-> Here("configs", "a"), bak |-> NoPath],
               [cfg |-> Here("configs", "b"), bak |-> Here("configs", "x")]>> }

MCMachines == { [os |-> "windows", arch |-> "x86_64", prefers |-> "none"],
                [os |-> "linux", arch |-> "x86_64", prefers |-> "deb"] }

NewAsset(kind, arch, extra) == [kind |-> kind, arch |-> arch, extra |-> extra]
Release(n, semver, pre, auto, assets) ==
    [tag |-> [n |-> n, semver |-> semver], pre |-> pre, auto |-> auto, assets |-> assets]
Full == << NewAsset("exe", "arm64", 0), NewAsset("msi", "x64", 0), NewAsset("exe", "x64", 0),
           NewAsset("exe", "x64", 2), NewAsset("deb", "x64", 0) >>

\* A prerelease ahead of the version that runs; an automatic build with a tag
\* that is no version; a release without a package for Windows.
MCFeeds == { << Release(3, TRUE, TRUE, FALSE, Full), Release(2, TRUE, FALSE, FALSE, Full) >>,
             << Release(1, FALSE, TRUE, TRUE, << NewAsset("msi", "none", 0) >>),
                Release(1, TRUE, FALSE, FALSE, Full) >>,
             << Release(4, TRUE, FALSE, FALSE, << NewAsset("deb", "x64", 0), NewAsset("exe", "arm64", 0) >>) >> }

\* Settings alone; updates alone; some of both. The machine without an update
\* in the application only asks for releases.
MCBudgets == [m \in MCMachines |->
                IF m.os = "linux" THEN {[settings |-> 0, updates |-> 2, rounds |-> 1],
                                        [settings |-> 1, updates |-> 1, rounds |-> 1]}
                ELSE {[settings |-> 3, updates |-> 0, rounds |-> 0],
                      [settings |-> 0, updates |-> 4, rounds |-> 1],
                      [settings |-> 1, updates |-> 2, rounds |-> 1]}]
=============================================================================
