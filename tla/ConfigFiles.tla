---------------------------- MODULE ConfigFiles ----------------------------
(* The sing-box configuration files of the subscriptions, and everything    *)
(* that rewrites them: subscription downloads, the user's custom rules, the *)
(* switch of the active configuration, saved settings and the runtime       *)
(* change that follows each of them.  Commands are asynchronous and hold no *)
(* lock: a Job is one command in flight, and its steps are the places where *)
(* another command can run in between (every database or network await, and *)
(* the gap between reading a file and writing it back).                     *)
EXTENDS Naturals, FiniteSets

CONSTANTS
    Paths,      \* configuration files under sing-box/configs, and Default
    Default,    \* sing-box/config.json, used when no path is active
    Original,   \* the paths of the subscriptions with use_original_config at the start
    Rules,      \* custom rule ids
    Versions,   \* contents a subscription server can answer with
    Ports,      \* values of AppConfig.proxy_port
    Jobs,       \* slots for commands in flight
    Budget      \* bounds: commands, starts of the kernel, faults

NoPath == "none"
Absent == [kind |-> "absent"]
Torn   == [kind |-> "torn"]      \* truncated by File::create or fs::write, never completed
Idle   == [op |-> "idle"]

ASSUME PathsAssumption == /\ Default \in Paths
                          /\ Original \subseteq Paths \ {Default}
                          /\ NoPath \notin Paths
ASSUME PortsAssumption == Ports # {}

BudgetKinds == {"command", "kernel", "fault"}
ASSUME BudgetAssumption == Budget \in [BudgetKinds -> Nat]

VARIABLES
    settings,   \* the AppConfig row: active_config_path and proxy_port
    uiActive,   \* active_config_path as the frontend's AppStore holds it
    roundPath,  \* active_config_path as the automatic update's round read it
    rules,      \* the custom_rules row: absent, on or off per id
    original,   \* the paths that the stored list marks use_original_config
    astray,     \* history: paths whose mark was edited, whose file was regenerated
                \* although marked, or whose mark could not be read
    file, bak,  \* the file of each path and its .bak
    kernel,     \* what the running kernel has loaded
    job,        \* the commands in flight
    budget

marks == <<original, astray>>
vars == <<settings, uiActive, roundPath, rules, marks, file, bak, kernel, job, budget>>

Stopped == [path |-> NoPath, body |-> Absent]

\* A complete file: which nodes it holds, whether this program generated it,
\* the custom rules in it, the port, and whether app settings beyond the
\* ports were patched into it.
Body(nodes, generated, ruleSet, port, full) ==
    [kind |-> "body", nodes |-> nodes, generated |-> generated,
     rules |-> ruleSet, port |-> port, full |-> full]
Bodies == {Body(n, g, s, p, f) : n \in Versions \cup {"template"}, g \in BOOLEAN,
                                 s \in SUBSET Rules, p \in Ports, f \in BOOLEAN}
Complete(content) == content.kind = "body"
Enabled == {r \in Rules : rules[r] = "on"}
EffectivePath(cfg) == IF cfg.active = NoPath THEN Default ELSE cfg.active
Template(cfg) == Body("template", TRUE, {}, cfg.port, TRUE)

Init ==
    /\ settings \in [active : {NoPath}, port : Ports]
    /\ uiActive = NoPath
    /\ roundPath = NoPath
    /\ rules = [r \in Rules |-> "none"]
    /\ original = Original /\ astray = {}
    /\ file = [p \in Paths |-> Absent]
    /\ bak = [p \in Paths |-> Absent]
    /\ kernel = Stopped
    /\ job = [j \in Jobs |-> Idle]
    /\ budget = Budget

Spend(kind) == /\ budget[kind] > 0
               /\ budget' = [budget EXCEPT ![kind] = @ - 1]

----------------------------------------------------------------------------
(* Starting and ending a command.  alone: no other command overlapped it.   *)

Busy == {j \in Jobs : job[j].op # "idle"}
Crowd(f) == [j \in Jobs |-> IF f[j].op = "idle" THEN f[j] ELSE [f[j] EXCEPT !.alone = FALSE]]

Begin(j, op, pc, path, hint, apply, restart, cfg) ==
    /\ job[j].op = "idle"
    /\ Spend("command")
    /\ job' = [Crowd(job) EXCEPT ![j] =
         [op |-> op, pc |-> pc, path |-> path, hint |-> hint, apply |-> apply,
          restart |-> restart, cfg |-> cfg, prev |-> Absent, base |-> Absent,
          rules |-> rules, alone |-> Busy = {}]]

Goto(j, pc) == job' = [job EXCEPT ![j].pc = pc]
End(j) == job' = [job EXCEPT ![j] = Idle]

----------------------------------------------------------------------------
(* download_subscription and add_manual_subscription                        *)

\* The frontend downloads without applying, and its saveCurrentConfig generates the
\* file of an original subscription anew; a round of the automatic update applies the
\* subscription that was active when the round began.
BeginDownload(j) ==
    /\ \E p \in Paths \ {Default}, automatic \in BOOLEAN :
         \/ /\ Begin(j, "download", "fetch", p, p \in original, automatic /\ p = roundPath,
                    TRUE, settings)
            /\ UNCHANGED astray
         \/ /\ ~automatic /\ p \in original
            /\ Begin(j, "download", "fetch", p, FALSE, FALSE, TRUE, settings)
            /\ astray' = astray \cup {p}
    /\ UNCHANGED <<settings, uiActive, roundPath, rules, original, file, bak, kernel>>

BeginRound ==
    /\ roundPath # settings.active
    /\ roundPath' = settings.active
    /\ UNCHANGED <<marks, settings, uiActive, rules, file, bak, kernel, job, budget>>

\* The content of the file before the download is read ahead of the request.
\* A failed request, and a body without a usable node, return before any write.
Fetch(j) ==
    /\ job[j].pc = "fetch"
    /\ \/ \E v \in Versions :
            job' = [job EXCEPT ![j].pc = "store", ![j].prev = file[job[j].path],
                      ![j].base = Body(v, ~job[j].hint, {}, job[j].cfg.port, ~job[j].hint)]
       \/ End(j)
    /\ UNCHANGED <<marks, settings, uiActive, roundPath, rules, file, bak, kernel, budget>>

\* write_config_file: copy the old file to .bak, truncate, write.
Store(j) ==
    LET p == job[j].path IN
    /\ job[j].pc = "store"
    /\ bak' = IF file[p] = Absent THEN bak ELSE [bak EXCEPT ![p] = file[p]]
    /\ \/ /\ file' = [file EXCEPT ![p] = job[j].base]
          /\ Goto(j, IF job[j].hint THEN "compare" ELSE "loadRules")
          /\ UNCHANGED budget
       \/ /\ file' = [file EXCEPT ![p] = Torn]    \* the write fails half way
          /\ Spend("fault")
          /\ End(j)
    /\ UNCHANGED <<marks, settings, uiActive, roundPath, rules, kernel>>

Compare(j) ==
    /\ job[j].pc = "compare"
    /\ IF job[j].apply /\ job[j].prev # file[job[j].path]
       THEN Goto(j, "runtime") ELSE End(j)
    /\ UNCHANGED <<marks, settings, uiActive, roundPath, rules, file, bak, kernel, budget>>

----------------------------------------------------------------------------
(* Custom rules: each command rewrites the whole stored list, then injects  *)
(* the list into the active file.                                           *)

BeginRule(j) ==
    /\ Begin(j, "rule", "saveRules", NoPath, FALSE, FALSE, FALSE, settings)
    /\ UNCHANGED <<marks, settings, uiActive, roundPath, rules, file, bak, kernel>>

\* The edits of add_, update_, toggle_ and delete_custom_rule on the list read.
RuleEdits(list, r) ==
    IF list[r] = "none" THEN {[list EXCEPT ![r] = "on"]}
    ELSE {[list EXCEPT ![r] = "none"], list,
          [list EXCEPT ![r] = IF @ = "on" THEN "off" ELSE "on"]}

SaveRules(j) ==
    /\ job[j].pc = "saveRules"
    /\ \E r \in Rules : rules' \in RuleEdits(job[j].rules, r)
    /\ Goto(j, "findActive")
    /\ UNCHANGED <<marks, settings, uiActive, roundPath, file, bak, kernel, budget>>

\* is_config_path_use_original and resolve_patch_mode_for_active_config: a list that
\* cannot be read marks nothing.
Marked(p, answer) ==
    \/ answer = (p \in original) /\ UNCHANGED budget
    \/ ~answer /\ p \in original /\ Spend("fault")

\* Mutant: the original subscription is injected like any other.
FindActiveAny(j) ==
    /\ job[j].pc = "findActive"
    /\ IF settings.active = NoPath
       THEN End(j)
       ELSE job' = [job EXCEPT ![j].pc = "loadRules", ![j].path = settings.active]
    /\ UNCHANGED <<marks, settings, uiActive, roundPath, rules, file, bak, kernel, budget>>

\* inject_into_active_config: none for an original subscription or no path.
FindActive(j) ==
    LET p == settings.active IN
    /\ job[j].pc = "findActive"
    /\ \E skip \in BOOLEAN :
         /\ Marked(p, skip)
         /\ IF skip \/ p = NoPath
            THEN End(j) /\ UNCHANGED astray
            ELSE /\ job' = [job EXCEPT ![j].pc = "loadRules", ![j].path = p]
                 /\ astray' = astray \cup ({p} \cap original)
    /\ UNCHANGED <<settings, uiActive, roundPath, rules, original, file, bak, kernel>>

AfterInject(j) ==
    CASE job[j].op = "download" -> Goto(j, "compare")
      [] job[j].op = "activate" -> Goto(j, "runtime")
      [] OTHER                  -> End(j)

\* inject_custom_rules_into_config_file: read the rules ...
LoadRules(j) ==
    /\ job[j].pc = "loadRules"
    /\ IF file[job[j].path] = Absent THEN AfterInject(j)
       ELSE job' = [job EXCEPT ![j].pc = "readFile", ![j].rules = rules]
    /\ UNCHANGED <<marks, settings, uiActive, roundPath, rules, file, bak, kernel, budget>>

\* Mutant: what was read is taken to be a configuration.
ReadFileUnchecked(j) ==
    /\ job[j].pc = "readFile"
    /\ job' = [job EXCEPT ![j].pc = "writeRules", ![j].base = file[job[j].path]]
    /\ UNCHANGED <<marks, settings, uiActive, roundPath, rules, file, bak, kernel, budget>>

\* ... read the file (an unreadable one is only logged) ...
ReadFile(j) ==
    LET content == file[job[j].path] IN
    /\ job[j].pc = "readFile"
    /\ IF ~Complete(content) THEN AfterInject(j)
       ELSE job' = [job EXCEPT ![j].pc = "writeRules", ![j].base = content]
    /\ UNCHANGED <<marks, settings, uiActive, roundPath, rules, file, bak, kernel, budget>>

\* Mutant: the marked rules stay.
InjectedUnstripped(content, list) ==
    [content EXCEPT !.rules = @ \cup {r \in Rules : list[r] = "on"}]

\* ... strip the marked rules, insert the enabled ones and write it back.
Injected(content, list) == [content EXCEPT !.rules = {r \in Rules : list[r] = "on"}]

WriteRules(j) ==
    /\ job[j].pc = "writeRules"
    /\ file' = [file EXCEPT ![job[j].path] = Injected(job[j].base, job[j].rules)]
    /\ AfterInject(j)
    /\ UNCHANGED <<marks, settings, uiActive, roundPath, rules, bak, kernel, budget>>

----------------------------------------------------------------------------
(* set_active_config_path and db_save_app_config                            *)

\* hint: use_original_config from the frontend, which agrees with the list.
BeginActivate(j) ==
    /\ \E p \in Paths \ {Default}, restart \in BOOLEAN :
         Begin(j, "activate", "saveActive", p, p \in original, TRUE, restart, settings)
    /\ UNCHANGED <<marks, settings, uiActive, roundPath, rules, file, bak, kernel>>

\* Mutant: the switch applies the file without injecting the rules.
SaveActiveNoInject(j) ==
    /\ job[j].pc = "saveActive"
    /\ settings' = [job[j].cfg EXCEPT !.active = job[j].path]
    /\ job' = [job EXCEPT ![j].restart = @ \/ job[j].cfg.active # job[j].path,
                          ![j].pc = "runtime"]
    /\ UNCHANGED <<marks, uiActive, roundPath, rules, file, bak, kernel, budget>>

\* The whole row read at the start is written back with the new path.
SaveActive(j) ==
    LET path_changed == job[j].cfg.active # job[j].path IN
    /\ job[j].pc = "saveActive"
    /\ settings' = [job[j].cfg EXCEPT !.active = job[j].path]
    /\ job' = [job EXCEPT ![j].restart = @ \/ path_changed,
                          ![j].pc = IF job[j].hint THEN "runtime" ELSE "loadRules"]
    /\ UNCHANGED <<marks, uiActive, roundPath, rules, file, bak, kernel, budget>>

\* The frontend saves its own copy of the whole AppConfig.
BeginSaveConfig(j) ==
    /\ \E port \in Ports, apply \in BOOLEAN :
         /\ settings' = [active |-> uiActive, port |-> port]
         /\ Begin(j, "save", IF apply THEN "runtime" ELSE "end", uiActive,
                  uiActive \in original, apply, TRUE, settings)
    /\ UNCHANGED <<marks, uiActive, roundPath, rules, file, bak, kernel>>

EndSaveConfig(j) ==
    /\ job[j].pc = "end"
    /\ End(j)
    /\ UNCHANGED <<marks, settings, uiActive, roundPath, rules, file, bak, kernel, budget>>

\* After set_active_config_path has returned the frontend updates its copy.
UiFollows ==
    /\ uiActive # settings.active
    /\ \A j \in Busy : job[j].op # "activate"
    /\ uiActive' = settings.active
    /\ UNCHANGED <<marks, settings, roundPath, rules, file, bak, kernel, job, budget>>

----------------------------------------------------------------------------
(* apply_runtime_change                                                     *)

RuntimeRead(j) ==
    /\ job[j].pc = "runtime"
    /\ job' = [job EXCEPT ![j].pc = "patch", ![j].cfg = settings]
    /\ UNCHANGED <<marks, settings, uiActive, roundPath, rules, file, bak, kernel, budget>>

\* sync_settings_to_config_file: PortsOnly on an original subscription.
Patched(content, cfg, portsOnly) ==
    [content EXCEPT !.port = cfg.port, !.full = @ \/ ~portsOnly]

RuntimePatch(j) ==
    LET cfg == job[j].cfg
        p == cfg.active
    IN
    /\ job[j].pc = "patch"
    /\ \E portsOnly \in BOOLEAN :
         /\ IF job[j].op = "save" THEN Marked(p, portsOnly)
            ELSE portsOnly = job[j].hint /\ UNCHANGED budget
         /\ IF p \in Paths /\ Complete(file[EffectivePath(cfg)])
            THEN file' = [file EXCEPT ![p] = Patched(@, cfg, portsOnly)]
            ELSE UNCHANGED file
    /\ Goto(j, IF job[j].op = "download" /\ kernel # Stopped THEN "proxy" ELSE "restart")
    /\ UNCHANGED <<marks, settings, uiActive, roundPath, rules, bak, kernel>>

\* ensure_singbox_config: an absent or damaged file is restored from a valid
\* .bak, or replaced by the default template.
Ensured(cfg) ==
    LET p == EffectivePath(cfg) IN
    CASE Complete(file[p]) -> file[p]
      [] ~Complete(file[p]) /\ Complete(bak[p]) -> bak[p]
      [] OTHER -> Template(cfg)

\* persist_active_config_path_if_missing, on the template branch only.
EnsuredSettings ==
    LET p == EffectivePath(settings) IN
    IF Complete(file[p]) \/ Complete(bak[p]) THEN settings
    ELSE [settings EXCEPT !.active = p]

\* apply_proxy_runtime_state: the inbounds of the runtime state go into the
\* file that is active by now.
RuntimeProxy(j) ==
    LET p == EffectivePath(settings) IN
    /\ job[j].pc = "proxy"
    /\ file' = [file EXCEPT ![p] = [Ensured(settings) EXCEPT !.port = job[j].cfg.port]]
    /\ settings' = EnsuredSettings
    /\ Goto(j, "restart")
    /\ UNCHANGED <<marks, uiActive, roundPath, rules, bak, kernel, budget>>

\* A start of the kernel reads the settings, ensures the file and writes the
\* inbounds into it before the process reads it.
Launch ==
    LET p == EffectivePath(settings)
        body == [Ensured(settings) EXCEPT !.port = settings.port]
    IN /\ file' = [file EXCEPT ![p] = body]
       /\ settings' = EnsuredSettings
       /\ kernel' = [path |-> p, body |-> body]

RuntimeRestart(j) ==
    /\ job[j].pc = "restart"
    /\ IF job[j].restart /\ kernel # Stopped THEN Launch
       ELSE UNCHANGED <<file, settings, kernel>>
    /\ End(j)
    /\ UNCHANGED <<marks, uiActive, roundPath, rules, bak, budget>>

----------------------------------------------------------------------------
(* Commands of a single step, the kernel, and crashes                       *)

\* db_save_active_subscription_index: the settings go into the file of the
\* subscription that is highlighted, which need not be the active one.
Highlight(p) ==
    /\ Spend("command")
    /\ Complete(file[p])
    /\ file' = [file EXCEPT ![p] = Patched(@, settings, p \in original)]
    /\ job' = Crowd(job)
    /\ UNCHANGED <<marks, settings, uiActive, roundPath, rules, bak, kernel>>

DeleteConfig(p) ==
    /\ Spend("command")
    /\ file' = [file EXCEPT ![p] = Absent]
    /\ bak' = [bak EXCEPT ![p] = Absent]
    /\ job' = Crowd(job)
    /\ UNCHANGED <<marks, settings, uiActive, roundPath, rules, kernel>>

RollbackConfig(p) ==
    /\ Spend("command")
    /\ bak[p] # Absent
    /\ file' = [file EXCEPT ![p] = bak[p]]
    /\ job' = Crowd(job)
    /\ UNCHANGED <<marks, settings, uiActive, roundPath, rules, bak, kernel>>

\* The edit dialogue changes the list alone; the file stays as it is.
EditSubscription(p) ==
    /\ Spend("command")
    /\ original' = IF p \in original THEN original \ {p} ELSE original \cup {p}
    /\ astray' = astray \cup {p}
    /\ job' = Crowd(job)
    /\ UNCHANGED <<settings, uiActive, roundPath, rules, file, bak, kernel>>

StartKernel ==
    /\ kernel = Stopped
    /\ Spend("kernel")
    /\ Launch
    /\ job' = Crowd(job)
    /\ UNCHANGED <<marks, uiActive, roundPath, rules, bak>>

StopKernel ==
    /\ kernel # Stopped
    /\ kernel' = Stopped
    /\ job' = Crowd(job)
    /\ UNCHANGED <<marks, settings, uiActive, roundPath, rules, file, bak, budget>>

\* The application dies; a write in progress may leave its target truncated.
Writing(j) ==
    CASE job[j].op = "idle" -> NoPath
      [] job[j].op # "idle" /\ job[j].pc \in {"store", "writeRules"} -> job[j].path
      [] job[j].op # "idle" /\ job[j].pc = "patch" -> job[j].cfg.active
      [] OTHER -> NoPath

Crash ==
    /\ Spend("fault")
    /\ Busy # {}
    /\ \E hit \in SUBSET {Writing(j) : j \in Jobs} \cap SUBSET Paths :
         /\ file' = [p \in Paths |-> IF p \in hit /\ file[p] # Absent THEN Torn ELSE file[p]]
         /\ bak' = [p \in Paths |->
              IF p \in hit /\ file[p] # Absent
                 /\ (\E j \in Jobs : Writing(j) = p /\ job[j].pc = "store")
              THEN file[p] ELSE bak[p]]
    /\ job' = [j \in Jobs |-> Idle]
    /\ kernel' = Stopped
    /\ uiActive' = settings.active
    /\ UNCHANGED <<marks, settings, roundPath, rules>>

JobStep(j) ==
    \/ BeginDownload(j) \/ BeginRule(j) \/ BeginActivate(j) \/ BeginSaveConfig(j)
    \/ /\ job[j].op # "idle"
       /\ \/ Fetch(j) \/ Store(j) \/ Compare(j)
          \/ SaveRules(j) \/ FindActive(j) \/ LoadRules(j) \/ ReadFile(j) \/ WriteRules(j)
          \/ SaveActive(j) \/ EndSaveConfig(j)
          \/ RuntimeRead(j) \/ RuntimePatch(j) \/ RuntimeProxy(j) \/ RuntimeRestart(j)

Next ==
    \/ \E j \in Jobs : JobStep(j)
    \/ \E p \in Paths \ {Default} : \/ Highlight(p) \/ EditSubscription(p)
                                     \/ DeleteConfig(p) \/ RollbackConfig(p)
    \/ BeginRound \/ UiFollows \/ StartKernel \/ StopKernel \/ Crash

Spec == Init /\ [][Next]_vars

----------------------------------------------------------------------------
(* Properties                                                               *)

JobRecords ==
    [op : {"download", "rule", "activate", "save"},
     pc : {"fetch", "store", "compare", "saveRules", "findActive", "loadRules", "readFile",
           "writeRules", "saveActive", "end", "runtime", "patch", "proxy", "restart"},
     path : Paths \cup {NoPath}, hint : BOOLEAN, apply : BOOLEAN, restart : BOOLEAN,
     cfg : [active : Paths \cup {NoPath}, port : Ports],
     prev : Bodies \cup {Absent, Torn}, base : Bodies \cup {Absent},
     rules : [Rules -> {"none", "on", "off"}], alone : BOOLEAN]

\* Every file is absent, truncated or a complete configuration, a kernel has
\* only ever loaded a complete one, and a write in flight has one to write.
TypeOK ==
    /\ settings \in [active : Paths \cup {NoPath}, port : Ports]
    /\ {uiActive, roundPath} \subseteq Paths \cup {NoPath}
    /\ rules \in [Rules -> {"none", "on", "off"}]
    /\ original \subseteq Paths \ {Default} /\ astray \subseteq Paths \ {Default}
    /\ file \in [Paths -> Bodies \cup {Absent, Torn}]
    /\ bak \in [Paths -> Bodies \cup {Absent, Torn}]
    /\ kernel = Stopped \/ (kernel.path \in Paths /\ kernel.body \in Bodies)
    /\ \A j \in Busy : /\ job[j] \in JobRecords
                       /\ job[j].pc \in {"store", "writeRules"} => job[j].base \in Bodies
    /\ budget \in [BudgetKinds -> Nat]

\* No interleaving of downloads, rule edits, switches, rollbacks and crashes puts a custom
\* rule into the file of a subscription that keeps its original configuration, as long as
\* three things have not happened to it: its mark was edited, its file was generated anew
\* from the page's editor, a database error hid its mark from a rule edit
\* (proxy_service.rs:1058-1087, 1146-1161; subscription_service.rs:396-401, 561-587).
OriginalNotInjected ==
    \A p \in Original \ astray : Complete(file[p]) => file[p].rules = {}

\* The comment of inject_into_active_config without the exceptions (proxy_service.rs:1056).
OriginalNeverInjected ==
    \A p \in original : Complete(file[p]) => file[p].rules = {}

Ends(j) == /\ job[j].op # "idle" /\ job[j].alone
           /\ job'[j].op = "idle" /\ budget'["fault"] = budget["fault"]

\* Whatever crashes and overlapping commands left behind, a rule edit, a
\* switch or a download that runs alone over a readable file ends with the
\* stored enabled rules, and no others, in the file it was about.
RulesHealed ==
    [][\A j \in Jobs :
         (/\ Ends(j) /\ job[j].op # "save"
          /\ job[j].path \in Paths /\ ~job[j].hint /\ job[j].pc # "fetch"
          /\ Complete(file[job[j].path]) /\ Complete(file'[job[j].path]))
         => file'[job[j].path].rules = {r \in Rules : rules'[r] = "on"}]_vars

\* A change that runs alone and asks for a restart leaves a running kernel
\* with the file as it is after the injection and the patch: the active path,
\* the saved port and, for a switch, the stored rules.
AppliedConfigIsLive ==
    [][\A j \in Jobs :
         (Ends(j) /\ job[j].pc = "restart" /\ job[j].restart /\ kernel # Stopped)
         => /\ kernel'.path = EffectivePath(settings')
            /\ kernel'.body = file'[kernel'.path]
            /\ kernel'.body.port = settings'.port
            /\ (/\ job[j].op = "activate" /\ ~job[j].hint
                /\ Complete(file[job[j].path]))
               => kernel'.body.rules = {r \in Rules : rules[r] = "on"}]_vars

\* What the comments of strip_custom_rules and inject_custom_rules promise:
\* whenever nothing is in flight the active generated file holds exactly the
\* enabled rules, so nothing is left over by repeated edits and downloads.
NoResidue ==
    (Busy = {} /\ settings.active \in Paths \ (original \cup astray)
       /\ Complete(file[settings.active]) /\ budget["fault"] = Budget["fault"])
    => file[settings.active].rules \subseteq Enabled

\* What process_original_config promises of an original subscription: only
\* the ports are changed.
OriginalOnlyPorts ==
    \A p \in Original \ astray : (Complete(file[p]) /\ file[p].nodes # "template") => ~file[p].full
=============================================================================
