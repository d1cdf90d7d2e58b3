-------------------------- MODULE ConfigFilesProofs --------------------------
(* Proofs about ConfigFiles, for any files, rules, ports, number of commands *)
(* in flight and number of faults: every file is complete, truncated or      *)
(* absent, no unedited original subscription gets a custom rule by injection,*)
(* and a command that runs alone heals what others left behind.              *)
EXTENDS ConfigFiles, TLAPS

-----------------------------------------------------------------------------
(* The invariant: types, clean originals and backups, where each command can *)
(* be and what it is about to write, and what a command that nothing has     *)
(* overlapped can count on.                                                  *)

\* What a file, or its .bak, can hold.
Contents == Bodies \cup {Absent, Torn}

Typed ==
  /\ settings \in [active : Paths \cup {NoPath}, port : Ports]
  /\ uiActive \in Paths \cup {NoPath} /\ roundPath \in Paths \cup {NoPath}
  /\ rules \in [Rules -> {"none", "on", "off"}]
  /\ file \in [Paths -> Contents] /\ bak \in [Paths -> Contents]
  /\ kernel = Stopped \/ (kernel.path \in Paths /\ kernel.body \in Bodies)
  /\ budget \in [BudgetKinds -> Nat]

\* The files that nothing has led astray: their mark is what it was at the start.
Kept == Original \ astray
MarksInv == /\ original \subseteq Paths \ {Default} /\ astray \subseteq Paths \ {Default}
            /\ Kept \subseteq original

\* Neither the file of such a subscription nor its backup holds custom rules.
Clean(content) == Complete(content) => content.rules = {}
FilesInv == \A p \in Kept : Clean(file[p]) /\ Clean(bak[p])

\* Where each command can be. Only a generated file's command gets to the
\* injection, and whatever is about to be written is complete.
Injecting == {"loadRules", "readFile", "writeRules"}
Applying == {"runtime", "patch", "restart"}
OpInv(r) ==
  /\ r.op = "download" => r.pc \in {"fetch", "store", "compare", "proxy"} \cup Injecting
                                     \cup Applying
  /\ r.op = "rule" => r.pc \in {"saveRules", "findActive"} \cup Injecting
  /\ r.op = "activate" => r.pc \in {"saveActive"} \cup Injecting \cup Applying
  /\ r.op = "save" => r.pc \in {"end"} \cup Applying
  /\ r.op \in {"download", "activate"} => /\ r.path \in Paths \ {Default}
                                          /\ r.path \in Kept => r.hint
  /\ r.pc \in {"saveRules", "findActive"} => r.path = NoPath
  /\ r.pc \in Injecting => r.path \in Paths \ Kept
  /\ r.pc \in {"store", "writeRules"} => r.base \in Bodies
  /\ r.pc = "store" => r.base.rules = {}

JobsInv == /\ DOMAIN job = Jobs
           /\ \A j \in Jobs : job[j] = Idle \/ (job[j] \in JobRecords /\ OpInv(job[j]))

\* What a command that nothing has overlapped can count on.
Alone(j) ==
  LET r == job[j] IN
  /\ r.pc \in {"readFile", "writeRules"} => r.rules = rules
  /\ r.op = "download" /\ r.pc \notin {"fetch", "store"} => Complete(file[r.path])
  /\ (/\ r.op \in {"download", "activate"} /\ r.pc \in {"compare", "proxy"} \cup Applying
      /\ ~r.hint /\ Complete(file[r.path]))
     => file[r.path].rules = Enabled
  /\ r.op = "activate" /\ r.pc # "saveActive" => settings.active = r.path

AloneInv ==
  \A j \in Jobs : job[j] # Idle /\ job[j].alone =>
    /\ \A k \in Jobs : k # j => job[k] = Idle
    /\ Alone(j)

IInv == Typed /\ MarksInv /\ FilesInv /\ JobsInv /\ AloneInv

-----------------------------------------------------------------------------
(* Files: what is complete, and what each rewriting of a file keeps.        *)

LEMMA BodyForm ==
  \A b : b \in Bodies <=>
    /\ b = Body(b.nodes, b.generated, b.rules, b.port, b.full)
    /\ b.nodes \in Versions \cup {"template"} /\ b.generated \in BOOLEAN
    /\ b.rules \in SUBSET Rules /\ b.port \in Ports /\ b.full \in BOOLEAN
BY DEF Bodies, Body

LEMMA BodyMade ==
  ASSUME NEW nodes \in Versions \cup {"template"}, NEW generated \in BOOLEAN,
         NEW ruleSet \in SUBSET Rules, NEW port \in Ports, NEW full \in BOOLEAN
  PROVE  LET b == Body(nodes, generated, ruleSet, port, full)
         IN  b \in Bodies /\ b.rules = ruleSet /\ b.port = port
<1>1. Body(nodes, generated, ruleSet, port, full) \in Bodies
  BY DEF Bodies
<1> QED
  BY <1>1 DEF Body

LEMMA Kinds ==
  \A c \in Contents : (Complete(c) <=> c \in Bodies) /\ (c # Absent /\ c # Torn <=> c \in Bodies)
BY DEF Contents, Complete, Bodies, Body, Absent, Torn

LEMMA Retargeted ==
  ASSUME NEW b \in Bodies, NEW port \in Ports
  PROVE  LET c == [b EXCEPT !.port = port]
         IN  c \in Bodies /\ c.rules = b.rules /\ c.port = port
<1> DEFINE c == [b EXCEPT !.port = port]
<1>1. c = Body(b.nodes, b.generated, b.rules, port, b.full)
  BY BodyForm DEF Body
<1> QED
  BY <1>1, BodyForm, BodyMade

LEMMA InjectedBody ==
  ASSUME NEW b \in Bodies, NEW list
  PROVE  /\ Injected(b, list) \in Bodies
         /\ Injected(b, list).rules = {r \in Rules : list[r] = "on"}
<1> DEFINE c == Injected(b, list)
<1>1. c = Body(b.nodes, b.generated, {r \in Rules : list[r] = "on"}, b.port, b.full)
  BY BodyForm DEF Body, Injected
<1>2. {r \in Rules : list[r] = "on"} \in SUBSET Rules
  OBVIOUS
<1> QED
  BY <1>1, <1>2, BodyForm, BodyMade

LEMMA Rewritten ==
  \A b \in Bodies : \A port, full :
    [b EXCEPT !.port = port, !.full = full] = Body(b.nodes, b.generated, b.rules, port, full)
<1> SUFFICES ASSUME NEW b \in Bodies, NEW port, NEW full
             PROVE  [b EXCEPT !.port = port, !.full = full]
                      = Body(b.nodes, b.generated, b.rules, port, full)
  OBVIOUS
<1>1. /\ DOMAIN b = {"kind", "nodes", "generated", "rules", "port", "full"}
      /\ b.kind = "body"
  BY BodyForm DEF Body
<1> DEFINE one == [b EXCEPT !.port = port]
           two == [one EXCEPT !.full = full]
<1>2. one = Body(b.nodes, b.generated, b.rules, port, b.full)
  BY <1>1 DEF Body
<1>3. two = [b EXCEPT !.port = port, !.full = full]
  BY <1>1
<1> HIDE DEF one
<1>4. two = Body(b.nodes, b.generated, b.rules, port, full)
  BY <1>2 DEF Body
<1> QED
  BY <1>3, <1>4

LEMMA PatchedBody ==
  ASSUME NEW b \in Bodies, NEW cfg, cfg.port \in Ports, NEW portsOnly \in BOOLEAN
  PROVE  /\ Patched(b, cfg, portsOnly) \in Bodies
         /\ Patched(b, cfg, portsOnly).rules = b.rules
<1> DEFINE full == b.full \/ ~portsOnly
<1>1. full \in BOOLEAN
  OBVIOUS
<1>2. Patched(b, cfg, portsOnly) = [b EXCEPT !.port = cfg.port, !.full = full]
  BY DEF Patched
<1> HIDE DEF full
<1>3. Patched(b, cfg, portsOnly) = Body(b.nodes, b.generated, b.rules, cfg.port, full)
  BY <1>2, Rewritten
<1> QED
  BY <1>1, <1>3, BodyForm, BodyMade

LEMMA TemplateBody ==
  ASSUME NEW cfg, cfg.port \in Ports
  PROVE  Template(cfg) \in Bodies /\ Template(cfg).rules = {}
<1> DEFINE nodes == "template"
           ruleSet == {}
           yes == TRUE
<1>1. nodes \in Versions \cup {"template"} /\ ruleSet \in SUBSET Rules /\ yes \in BOOLEAN
  OBVIOUS
<1>2. Template(cfg) = Body(nodes, yes, ruleSet, cfg.port, yes)
  BY DEF Template
<1> HIDE DEF nodes, ruleSet, yes
<1>3. Template(cfg) \in Bodies /\ Template(cfg).rules = ruleSet
  BY <1>1, <1>2, BodyMade
<1> QED
  BY <1>3 DEF ruleSet

\* What a launch, or the proxy command, finds or restores.
LEMMA EnsuredBody ==
  ASSUME Typed, FilesInv
  PROVE  LET p == EffectivePath(settings)
         IN  /\ p \in Paths /\ Ensured(settings) \in Bodies
             /\ Complete(file[p]) => Ensured(settings) = file[p]
             /\ p \in Kept => Ensured(settings).rules = {}
             /\ EnsuredSettings \in [active : Paths \cup {NoPath}, port : Ports]
             /\ EnsuredSettings.port = settings.port
             /\ EffectivePath(EnsuredSettings) = p
<1> DEFINE p == EffectivePath(settings)
<1>1. p \in Paths
  BY PathsAssumption DEF EffectivePath, Typed
<1>2. file[p] \in Contents /\ bak[p] \in Contents /\ Template(settings) \in Bodies
      /\ Template(settings).rules = {}
  BY <1>1, TemplateBody DEF Typed
<1>3. \/ Complete(file[p]) /\ Ensured(settings) = file[p]
      \/ ~Complete(file[p]) /\ Complete(bak[p]) /\ Ensured(settings) = bak[p]
      \/ ~Complete(file[p]) /\ Ensured(settings) = Template(settings)
  BY DEF Ensured
<1>4. EnsuredSettings = settings \/ EnsuredSettings = [settings EXCEPT !.active = p]
  BY DEF EnsuredSettings
<1>5. /\ EnsuredSettings \in [active : Paths \cup {NoPath}, port : Ports]
      /\ EnsuredSettings.port = settings.port
      /\ EffectivePath(EnsuredSettings) = p
  BY <1>1, <1>4, PathsAssumption DEF Typed, EffectivePath
<1> HIDE DEF p
<1>6. Ensured(settings) \in Bodies
  BY <1>2, <1>3, Kinds
<1>7. p \in Kept => Ensured(settings).rules = {}
  BY <1>2, <1>3 DEF FilesInv, Clean
<1> QED
  BY <1>1, <1>3, <1>5, <1>6, <1>7 DEF p

\* A write of one path keeps the files clean and typed.
LEMMA Written ==
  ASSUME Typed, FilesInv, NEW p, NEW content \in Contents,
         p \in Kept => Clean(content), file' = [file EXCEPT ![p] = content]
  PROVE  /\ file' \in [Paths -> Contents]
         /\ \A q \in Kept : Clean(file'[q])
         /\ \A q \in Paths : file'[q] = IF q = p THEN content ELSE file[q]
BY PathsAssumption DEF Typed, FilesInv, Kept

-----------------------------------------------------------------------------
(* Commands in flight.                                                      *)

\* Command j goes on, or ends, and the others are where they were.
Others(j) == DOMAIN job' = Jobs /\ \A k \in Jobs : k # j => job'[k] = job[k]

\* Command j goes on at pc, with all it knew.
Moved(j, pc) ==
  /\ Others(j) /\ job'[j] \in JobRecords /\ job'[j].pc = pc
  /\ job'[j].op = job[j].op /\ job'[j].path = job[j].path /\ job'[j].hint = job[j].hint
  /\ job'[j].alone = job[j].alone /\ job'[j].cfg = job[j].cfg
  /\ job'[j].restart = job[j].restart /\ job'[j].rules = job[j].rules
  /\ job'[j].base = job[j].base

Pcs == {"fetch", "store", "compare", "saveRules", "findActive", "loadRules", "readFile",
        "writeRules", "saveActive", "end", "runtime", "patch", "proxy", "restart"}

LEMMA Busied ==
  ASSUME JobsInv, NEW j \in Jobs, job[j].op # "idle"
  PROVE  job[j] # Idle /\ job[j] \in JobRecords /\ OpInv(job[j])
BY DEF JobsInv, Idle

LEMMA Going ==
  ASSUME JobsInv, NEW j \in Jobs, job[j].op # "idle", NEW pc \in Pcs, Goto(j, pc)
  PROVE  Moved(j, pc)
<1>1. job[j] \in JobRecords
  BY Busied
<1>2. job' = [job EXCEPT ![j] = [job[j] EXCEPT !.pc = pc]]
  BY DEF Goto
<1> DEFINE new == [job[j] EXCEPT !.pc = pc]
<1>3. /\ new \in JobRecords /\ new.pc = pc
      /\ new.op = job[j].op /\ new.path = job[j].path /\ new.hint = job[j].hint
      /\ new.alone = job[j].alone /\ new.cfg = job[j].cfg
      /\ new.restart = job[j].restart /\ new.rules = job[j].rules /\ new.base = job[j].base
  BY <1>1 DEF JobRecords, Pcs
<1> HIDE DEF new
<1> QED
  BY <1>2, <1>3 DEF Moved, Others, JobsInv, new

LEMMA Ending ==
  ASSUME JobsInv, NEW j \in Jobs, End(j)
  PROVE  Others(j) /\ job'[j] = Idle
BY DEF JobsInv, End, Others

\* A step of command j keeps the invariants on commands when it does for j.
LEMMA OneSteps ==
  ASSUME JobsInv, AloneInv, Kept' \subseteq Kept, NEW j \in Jobs, job[j].op # "idle", Others(j),
         \/ job'[j] = Idle
         \/ /\ job'[j] \in JobRecords /\ (OpInv(job'[j]) \/ OpInv(job[j])')
            /\ job'[j].alone = job[j].alone /\ (job[j].alone => Alone(j)')
  PROVE  JobsInv' /\ AloneInv'
<1>1. JobsInv'
  BY DEF JobsInv, Others, OpInv
<1>2. job[j] # Idle
  BY Busied
<1>3. ASSUME NEW k \in Jobs, job'[k] # Idle, job'[k].alone
      PROVE  k = j
  BY <1>2, <1>3 DEF Others, AloneInv
<1>4. ASSUME job'[j] # Idle, job'[j].alone
      PROVE  (\A k \in Jobs : k # j => job'[k] = Idle) /\ Alone(j)'
  BY <1>2, <1>4 DEF Others, AloneInv
<1>5. AloneInv'
  BY <1>3, <1>4 DEF AloneInv
<1> QED
  BY <1>1, <1>5

\* After a command that overlaps the others nobody is alone.
LEMMA Crowding ==
  ASSUME JobsInv, Kept' \subseteq Kept, job' = Crowd(job)
  PROVE  JobsInv' /\ AloneInv'
<1>1. DOMAIN job' = Jobs
  BY DEF Crowd
<1>2. ASSUME NEW j \in Jobs
      PROVE  \/ job'[j] = Idle
             \/ job'[j] \in JobRecords /\ OpInv(job'[j]) /\ ~job'[j].alone
  <2>1. CASE job[j] = Idle
    BY <2>1 DEF Crowd, Idle
  <2>2. CASE job[j] # Idle
    <3>1. job[j] \in JobRecords /\ OpInv(job[j]) /\ job[j].op # "idle"
      BY <2>2 DEF JobsInv, JobRecords
    <3>2. job'[j] = [job[j] EXCEPT !.alone = FALSE]
      BY <3>1 DEF Crowd
    <3> QED
      BY <3>1, <3>2 DEF JobRecords, OpInv
  <2> QED
    BY <2>1, <2>2
<1>3. JobsInv'
  BY <1>1, <1>2 DEF JobsInv, OpInv
<1> QED
  BY <1>2, <1>3 DEF AloneInv

\* A command that begins is alone when no other is in flight.
LEMMA Beginning ==
  ASSUME Typed, JobsInv, NEW j \in Jobs, NEW op, NEW pc, NEW path, NEW hint, NEW apply, NEW restart,
         NEW cfg \in [active : Paths \cup {NoPath}, port : Ports],
         \/ op = "download" /\ pc = "fetch"
         \/ op = "rule" /\ pc = "saveRules"
         \/ op = "activate" /\ pc = "saveActive"
         \/ op = "save" /\ pc \in {"runtime", "end"},
         path \in Paths \cup {NoPath}, hint \in BOOLEAN, apply \in BOOLEAN, restart \in BOOLEAN,
         op = "rule" => path = NoPath,
         op \in {"download", "activate"} => path \in Paths \ {Default},
         path \in Kept' => hint, Kept' \subseteq Kept,
         Begin(j, op, pc, path, hint, apply, restart, cfg)
  PROVE  JobsInv' /\ AloneInv' /\ budget' \in [BudgetKinds -> Nat]
<1> DEFINE new == [op |-> op, pc |-> pc, path |-> path, hint |-> hint, apply |-> apply,
                   restart |-> restart, cfg |-> cfg, prev |-> Absent, base |-> Absent,
                   rules |-> rules, alone |-> Busy = {}]
<1>1. new \in JobRecords
  BY DEF JobRecords, Typed
<1>2. DOMAIN job' = Jobs /\ job'[j] = new
      /\ \A k \in Jobs : k # j => job'[k] = Crowd(job)[k]
  BY DEF Begin, Crowd
<1>3. OpInv(job[j])'
  BY <1>2 DEF OpInv, Injecting, Applying
<1>4. new.alone => \A k \in Jobs : job[k].op = "idle"
  BY DEF Busy
<1>5. new.op # "idle" /\ new.pc = pc /\ new.op = op
  OBVIOUS
<1> HIDE DEF new
<1>6. ASSUME NEW k \in Jobs, k # j
      PROVE  \/ job'[k] = Idle
             \/ /\ job'[k] \in JobRecords /\ OpInv(job'[k]) /\ ~job'[k].alone
                /\ job[k].op # "idle"
  <2>1. CASE job[k] = Idle
    BY <1>2, <1>6, <2>1 DEF Crowd, Idle
  <2>2. CASE job[k] # Idle
    <3>1. job[k] \in JobRecords /\ OpInv(job[k]) /\ job[k].op # "idle"
      BY <2>2 DEF JobsInv, JobRecords
    <3>2. job'[k] = [job[k] EXCEPT !.alone = FALSE]
      BY <1>2, <1>6, <3>1 DEF Crowd
    <3> QED
      BY <3>1, <3>2 DEF JobRecords, OpInv
  <2> QED
    BY <2>1, <2>2
<1>7. JobsInv'
  BY <1>1, <1>3, <1>2, <1>6 DEF JobsInv, OpInv
<1>8. Alone(j)'
  BY <1>2, <1>5 DEF Alone, Applying
<1>9. AloneInv'
  BY <1>2, <1>4, <1>6, <1>8 DEF AloneInv
<1> QED
  BY <1>7, <1>9 DEF Begin, Spend, Typed, BudgetKinds

\* The end of an injection.
LEMMA AfterInjection ==
  ASSUME JobsInv, NEW j \in Jobs, job[j].op # "idle", job[j].pc \in Injecting, AfterInject(j)
  PROVE  \/ job[j].op = "download" /\ Moved(j, "compare")
         \/ job[j].op = "activate" /\ Moved(j, "runtime")
         \/ job[j].op = "rule" /\ Others(j) /\ job'[j] = Idle
<1>1. job[j] \in JobRecords /\ OpInv(job[j])
  BY Busied
<1>2. job[j].op \in {"download", "activate", "rule"}
  BY <1>1 DEF JobRecords, OpInv, Injecting, Applying
<1>3. CASE job[j].op = "download"
  BY <1>3, Going DEF AfterInject, Pcs
<1>4. CASE job[j].op = "activate"
  BY <1>4, Going DEF AfterInject, Pcs
<1>5. CASE job[j].op = "rule"
  BY <1>5, Ending DEF AfterInject
<1> QED
  BY <1>2, <1>3, <1>4, <1>5

\* A launch of the kernel, and the proxy command, on files and settings.
LEMMA Launched ==
  ASSUME Typed, FilesInv, NEW port \in Ports,
         LET p == EffectivePath(settings)
         IN  file' = [file EXCEPT ![p] = [Ensured(settings) EXCEPT !.port = port]],
         settings' = EnsuredSettings
  PROVE  LET p == EffectivePath(settings)
         IN  /\ p \in Paths /\ EffectivePath(settings') = p /\ settings'.port = settings.port
             /\ settings' \in [active : Paths \cup {NoPath}, port : Ports]
             /\ file' \in [Paths -> Contents]
             /\ \A q \in Kept : Clean(file'[q])
             /\ \A q \in Paths : q # p => file'[q] = file[q]
             /\ file'[p] = [Ensured(settings) EXCEPT !.port = port]
             /\ file'[p] \in Bodies /\ file'[p].port = port
             /\ Complete(file[p]) => file'[p].rules = file[p].rules
<1> DEFINE p == EffectivePath(settings)
           body == [Ensured(settings) EXCEPT !.port = port]
<1>1. /\ p \in Paths /\ Ensured(settings) \in Bodies
      /\ Complete(file[p]) => Ensured(settings) = file[p]
      /\ p \in Kept => Ensured(settings).rules = {}
      /\ EnsuredSettings \in [active : Paths \cup {NoPath}, port : Ports]
      /\ EnsuredSettings.port = settings.port
      /\ EffectivePath(EnsuredSettings) = p
  BY EnsuredBody
<1>2. body \in Bodies /\ body.rules = Ensured(settings).rules /\ body.port = port
  BY <1>1, Retargeted
<1>3. body \in Contents /\ (p \in Kept => Clean(body))
  BY <1>1, <1>2 DEF Contents, Clean
<1>4. file' = [file EXCEPT ![p] = body]
  OBVIOUS
<1> HIDE DEF body
<1>5. /\ file' \in [Paths -> Contents]
      /\ \A q \in Kept : Clean(file'[q])
      /\ \A q \in Paths : file'[q] = IF q = p THEN body ELSE file[q]
  BY <1>3, <1>4, Written
<1>6. p \in Paths /\ EffectivePath(settings') = p /\ settings'.port = settings.port
      /\ settings' \in [active : Paths \cup {NoPath}, port : Ports]
  BY <1>1
<1> HIDE DEF p
<1> QED
  BY <1>1, <1>2, <1>5, <1>6 DEF p, body

-----------------------------------------------------------------------------
(* Every step keeps the invariant.                                          *)

LEMMA FetchKeeps ==
  ASSUME IInv, NEW j \in Jobs, job[j].op # "idle", Fetch(j)
  PROVE  IInv'
<1> Typed /\ FilesInv /\ JobsInv /\ AloneInv
  BY DEF IInv
<1> MarksInv' /\ Kept' \subseteq Kept
  BY DEF IInv, MarksInv, Kept, Fetch, marks
<1>1. job[j] # Idle /\ job[j] \in JobRecords /\ OpInv(job[j])
  BY Busied
<1>2. job[j].alone => Alone(j)
  BY <1>1 DEF AloneInv
<1>3. \/ Others(j) /\ job'[j] = Idle
      \/ /\ Others(j) /\ job'[j] \in JobRecords /\ OpInv(job'[j])
         /\ job'[j].pc = "store" /\ job'[j].alone = job[j].alone
  <2>1. CASE End(j)
    BY <2>1, Ending
  <2>2. ASSUME NEW v \in Versions,
               job' = [job EXCEPT ![j].pc = "store", ![j].prev = file[job[j].path],
                         ![j].base = Body(v, ~job[j].hint, {}, job[j].cfg.port, ~job[j].hint)]
        PROVE  /\ Others(j) /\ job'[j] \in JobRecords /\ OpInv(job'[j])
               /\ job'[j].pc = "store" /\ job'[j].alone = job[j].alone
    <3> DEFINE made == ~job[j].hint
               none == {}
               base == Body(v, made, none, job[j].cfg.port, made)
               prev == file[job[j].path]
               new == [job[j] EXCEPT !.pc = "store", !.prev = prev, !.base = base]
    <3>1. job[j].op = "download" /\ job[j].path \in Paths
      BY <1>1 DEF Fetch, JobRecords, OpInv, Injecting, Applying
    <3>2. prev \in Bodies \cup {Absent, Torn}
      BY <3>1 DEF Typed, Contents
    <3>3. v \in Versions \cup {"template"} /\ made \in BOOLEAN /\ none \in SUBSET Rules
          /\ job[j].cfg.port \in Ports
      BY <1>1 DEF JobRecords
    <3>4. job' = [job EXCEPT ![j] = new]
      BY <2>2 DEF JobsInv
    <3> HIDE DEF made
    <3>5. base \in Bodies /\ base.rules = none
      BY <3>3, BodyMade
    <3> HIDE DEF base, prev
    <3>6. new \in JobRecords /\ new.pc = "store" /\ new.op = "download" /\ new.path = job[j].path
          /\ new.hint = job[j].hint /\ new.alone = job[j].alone /\ new.base = base
      BY <1>1, <3>1, <3>2, <3>5 DEF JobRecords
    <3> HIDE DEF new
    <3>7. OpInv(new)
      BY <1>1, <3>1, <3>5, <3>6 DEF OpInv, Injecting
    <3> QED
      BY <3>4, <3>6, <3>7 DEF Others, JobsInv
  <2> QED
    BY <2>1, <2>2 DEF Fetch
<1>4. job'[j] # Idle => Alone(j)'
  BY <1>1, <1>3 DEF Alone, OpInv, JobRecords, Applying, Injecting
<1>5. JobsInv' /\ AloneInv'
  BY <1>3, <1>4, OneSteps
<1>6. Typed' /\ FilesInv'
  BY DEF Fetch, Typed, FilesInv
<1> QED
  BY <1>5, <1>6 DEF IInv

LEMMA StoreKeeps ==
  ASSUME IInv, NEW j \in Jobs, job[j].op # "idle", Store(j)
  PROVE  IInv'
<1> Typed /\ FilesInv /\ JobsInv /\ AloneInv
  BY DEF IInv
<1> MarksInv' /\ Kept' \subseteq Kept
  BY DEF IInv, MarksInv, Kept, Store, marks
<1>1. job[j] # Idle /\ job[j] \in JobRecords /\ OpInv(job[j])
  BY Busied
<1>2. job[j].alone => Alone(j)
  BY <1>1 DEF AloneInv
<1> DEFINE p == job[j].path
<1>3. /\ job[j].op = "download" /\ p \in Paths /\ (p \in Kept => job[j].hint)
      /\ job[j].base \in Bodies /\ job[j].base.rules = {}
  BY <1>1 DEF Store, JobRecords, OpInv, Injecting, Applying
<1>4. PICK content \in Contents :
        /\ file' = [file EXCEPT ![p] = content] /\ Clean(content)
        /\ \/ End(j)
           \/ content = job[j].base /\ Goto(j, IF job[j].hint THEN "compare" ELSE "loadRules")
  BY <1>3 DEF Store, Contents, Clean, Complete, Torn
<1>5. /\ file' \in [Paths -> Contents]
      /\ \A q \in Kept : Clean(file'[q])
      /\ \A q \in Paths : file'[q] = IF q = p THEN content ELSE file[q]
  BY <1>4, Written
<1>6. bak' \in [Paths -> Contents] /\ \A q \in Kept : Clean(bak'[q])
  BY <1>3, PathsAssumption DEF Store, Typed, FilesInv
<1>7. Typed' /\ FilesInv'
  BY <1>5, <1>6 DEF Store, Typed, FilesInv, Spend, BudgetKinds
<1>8. ASSUME End(j)
      PROVE  JobsInv' /\ AloneInv'
  BY <1>8, Ending, OneSteps
<1>9. ASSUME content = job[j].base /\ Goto(j, IF job[j].hint THEN "compare" ELSE "loadRules")
      PROVE  JobsInv' /\ AloneInv'
  <2> DEFINE pc == IF job[j].hint THEN "compare" ELSE "loadRules"
  <2>1. Moved(j, pc) /\ pc \in {"compare", "loadRules"} /\ (pc = "loadRules" => p \notin Kept)
        /\ (pc = "compare" => job[j].hint)
    BY <1>3, <1>9, Going DEF Pcs
  <2> HIDE DEF pc
  <2>2. OpInv(job'[j])
    BY <1>1, <1>3, <2>1 DEF Moved, OpInv, Injecting
  <2>3. Complete(file'[p])
    BY <1>3, <1>5, <1>9, Kinds
  <2>4. Alone(j)'
    BY <1>3, <2>1, <2>3 DEF Moved, Alone, Applying
  <2> QED
    BY <2>1, <2>2, <2>4, OneSteps DEF Moved
<1> QED
  BY <1>4, <1>7, <1>8, <1>9 DEF IInv

LEMMA CompareKeeps ==
  ASSUME IInv, NEW j \in Jobs, job[j].op # "idle", Compare(j)
  PROVE  IInv'
<1> Typed /\ FilesInv /\ JobsInv /\ AloneInv
  BY DEF IInv
<1> MarksInv' /\ Kept' \subseteq Kept
  BY DEF IInv, MarksInv, Kept, Compare, marks
<1>1. job[j] # Idle /\ job[j] \in JobRecords /\ OpInv(job[j])
  BY Busied
<1>2. job[j].alone => Alone(j)
  BY <1>1 DEF AloneInv
<1>3. job[j].op = "download"
  BY <1>1 DEF Compare, JobRecords, OpInv, Injecting, Applying
<1>4. ASSUME End(j)
      PROVE  JobsInv' /\ AloneInv'
  BY <1>4, Ending, OneSteps
<1>5. ASSUME Goto(j, "runtime")
      PROVE  JobsInv' /\ AloneInv'
  <2>1. Moved(j, "runtime")
    BY <1>5, Going DEF Pcs
  <2>2. OpInv(job'[j])
    BY <1>1, <1>3, <2>1 DEF Moved, OpInv, Injecting, Applying
  <2>3. Alone(j) => Alone(j)'
    BY <1>3, <2>1 DEF Compare, Moved, Alone, Applying, Enabled
  <2> QED
    BY <1>2, <2>1, <2>2, <2>3, OneSteps DEF Moved
<1>6. Typed' /\ FilesInv'
  BY DEF Compare, Typed, FilesInv
<1> QED
  BY <1>4, <1>5, <1>6 DEF Compare, IInv

LEMMA SaveRulesKeeps ==
  ASSUME IInv, NEW j \in Jobs, job[j].op # "idle", SaveRules(j)
  PROVE  IInv'
<1> Typed /\ FilesInv /\ JobsInv /\ AloneInv
  BY DEF IInv
<1> MarksInv' /\ Kept' \subseteq Kept
  BY DEF IInv, MarksInv, Kept, SaveRules, marks
<1>1. job[j] # Idle /\ job[j] \in JobRecords /\ OpInv(job[j])
  BY Busied
<1>2. job[j].alone => Alone(j)
  BY <1>1 DEF AloneInv
<1>3. job[j].op = "rule"
  BY <1>1 DEF SaveRules, JobRecords, OpInv, Injecting, Applying
<1>4. Moved(j, "findActive")
  BY Going DEF SaveRules, Pcs
<1>5. OpInv(job'[j])
  BY <1>1, <1>3, <1>4 DEF SaveRules, Moved, OpInv, Injecting
<1>6. Alone(j)'
  BY <1>3, <1>4 DEF Moved, Alone
<1>7. rules' \in [Rules -> {"none", "on", "off"}]
  BY <1>1 DEF SaveRules, RuleEdits, JobRecords
<1>8. JobsInv' /\ AloneInv'
  BY <1>4, <1>5, <1>6, OneSteps DEF Moved
<1>9. Typed' /\ FilesInv'
  BY <1>7 DEF SaveRules, Typed, FilesInv
<1> QED
  BY <1>8, <1>9 DEF IInv

LEMMA FindActiveKeeps ==
  ASSUME IInv, NEW j \in Jobs, job[j].op # "idle", FindActive(j)
  PROVE  IInv'
<1> Typed /\ FilesInv /\ JobsInv /\ AloneInv
  BY DEF IInv
<1> MarksInv' /\ Kept' \subseteq Kept
  BY DEF IInv, MarksInv, Kept, FindActive, marks
<1>1. job[j] # Idle /\ job[j] \in JobRecords /\ OpInv(job[j])
  BY Busied
<1>2. job[j].alone => Alone(j)
  BY <1>1 DEF AloneInv
<1>3. job[j].op = "rule"
  BY <1>1 DEF FindActive, JobRecords, OpInv, Injecting, Applying
<1>4. Typed' /\ FilesInv'
  BY DEF FindActive, Marked, Typed, FilesInv, Spend, BudgetKinds
<1>5. ASSUME End(j)
      PROVE  JobsInv' /\ AloneInv'
  BY <1>5, Ending, OneSteps
<1>6. ASSUME ~End(j)
      PROVE  JobsInv' /\ AloneInv'
  <2> DEFINE new == [job[j] EXCEPT !.pc = "loadRules", !.path = settings.active]
  <2>1. settings.active \in Paths \ Kept' /\ job' = [job EXCEPT ![j] = new]
    <3>1. /\ settings.active # NoPath /\ job' = [job EXCEPT ![j] = new]
          /\ astray' = astray \cup ({settings.active} \cap original)
      BY <1>6 DEF FindActive, JobsInv
    <3>2. settings.active \in Paths
      BY <3>1 DEF Typed
    <3> QED
      BY <3>1, <3>2 DEF IInv, MarksInv, Kept
  <2>2. new \in JobRecords /\ new.pc = "loadRules" /\ new.op = "rule" /\ new.path = settings.active
        /\ new.alone = job[j].alone
    BY <1>1, <1>3, <2>1 DEF JobRecords
  <2> HIDE DEF new
  <2>3. Others(j) /\ job'[j] = new
    BY <2>1 DEF Others, JobsInv
  <2>4. OpInv(job[j])'
    BY <2>1, <2>2, <2>3 DEF OpInv, Injecting
  <2>5. Alone(j)'
    BY <2>2, <2>3 DEF Alone
  <2> QED
    BY <2>2, <2>3, <2>4, <2>5, OneSteps
<1> QED
  BY <1>4, <1>5, <1>6 DEF IInv

LEMMA LoadRulesKeeps ==
  ASSUME IInv, NEW j \in Jobs, job[j].op # "idle", LoadRules(j)
  PROVE  IInv'
<1> Typed /\ FilesInv /\ JobsInv /\ AloneInv
  BY DEF IInv
<1> MarksInv' /\ Kept' \subseteq Kept
  BY DEF IInv, MarksInv, Kept, LoadRules, marks
<1>1. job[j] # Idle /\ job[j] \in JobRecords /\ OpInv(job[j])
  BY Busied
<1>2. job[j].alone => Alone(j)
  BY <1>1 DEF AloneInv
<1>3. job[j].pc \in Injecting
  BY DEF LoadRules, Injecting
<1>4. Typed' /\ FilesInv'
  BY DEF LoadRules, Typed, FilesInv
<1>5. ASSUME AfterInject(j) /\ ~Complete(file[job[j].path])
      PROVE  JobsInv' /\ AloneInv'
  <2>1. \/ job[j].op = "download" /\ Moved(j, "compare")
        \/ job[j].op = "activate" /\ Moved(j, "runtime")
        \/ job[j].op = "rule" /\ Others(j) /\ job'[j] = Idle
    BY <1>3, <1>5, AfterInjection
  <2>2. job'[j] = Idle \/ (job'[j] \in JobRecords /\ OpInv(job'[j]) /\ job'[j].alone = job[j].alone)
    BY <1>1, <2>1 DEF Moved, OpInv, Injecting, Applying
  <2>3. job'[j] # Idle /\ Alone(j) => Alone(j)'
    BY <1>5, <2>1 DEF LoadRules, Moved, Alone, Applying
  <2> QED
    BY <1>2, <2>1, <2>2, <2>3, OneSteps DEF Moved
<1>6. ASSUME job' = [job EXCEPT ![j].pc = "readFile", ![j].rules = rules]
      PROVE  JobsInv' /\ AloneInv'
  <2> DEFINE new == [job[j] EXCEPT !.pc = "readFile", !.rules = rules]
  <2>1. job' = [job EXCEPT ![j] = new]
    BY <1>6 DEF JobsInv
  <2>2. rules \in [Rules -> {"none", "on", "off"}]
    BY <1>1, <1>3, <1>6, Kinds DEF Typed, OpInv
  <2>3. new \in JobRecords /\ new.pc = "readFile" /\ new.op = job[j].op /\ new.path = job[j].path
        /\ new.hint = job[j].hint /\ new.alone = job[j].alone /\ new.rules = rules
    BY <1>1, <2>2 DEF JobRecords
  <2> HIDE DEF new
  <2>4. OpInv(new)
    BY <1>1, <1>3, <2>2, <2>3 DEF OpInv, Injecting, Applying, JobRecords
  <2>5. Others(j) /\ job'[j] = new
    BY <2>1 DEF Others, JobsInv
  <2>6. Alone(j) => Alone(j)'
    BY <1>3, <2>3, <2>5 DEF LoadRules, Alone, Applying, Injecting
  <2> QED
    BY <1>2, <2>3, <2>4, <2>5, <2>6, OneSteps
<1>7. \/ AfterInject(j) /\ ~Complete(file[job[j].path])
      \/ job' = [job EXCEPT ![j].pc = "readFile", ![j].rules = rules]
  BY DEF LoadRules, Complete, Absent
<1> QED
  BY <1>4, <1>5, <1>6, <1>7 DEF IInv

LEMMA ReadFileKeeps ==
  ASSUME IInv, NEW j \in Jobs, job[j].op # "idle", ReadFile(j)
  PROVE  IInv'
<1> Typed /\ FilesInv /\ JobsInv /\ AloneInv
  BY DEF IInv
<1> MarksInv' /\ Kept' \subseteq Kept
  BY DEF IInv, MarksInv, Kept, ReadFile, marks
<1>1. job[j] # Idle /\ job[j] \in JobRecords /\ OpInv(job[j])
  BY Busied
<1>2. job[j].alone => Alone(j)
  BY <1>1 DEF AloneInv
<1>3. job[j].pc \in Injecting
  BY DEF ReadFile, Injecting
<1>4. Typed' /\ FilesInv'
  BY DEF ReadFile, Typed, FilesInv
<1>5. ASSUME AfterInject(j) /\ ~Complete(file[job[j].path])
      PROVE  JobsInv' /\ AloneInv'
  <2>1. \/ job[j].op = "download" /\ Moved(j, "compare")
        \/ job[j].op = "activate" /\ Moved(j, "runtime")
        \/ job[j].op = "rule" /\ Others(j) /\ job'[j] = Idle
    BY <1>3, <1>5, AfterInjection
  <2>2. job'[j] = Idle \/ (job'[j] \in JobRecords /\ OpInv(job'[j]) /\ job'[j].alone = job[j].alone)
    BY <1>1, <2>1 DEF Moved, OpInv, Injecting, Applying
  <2>3. job'[j] # Idle /\ Alone(j) => Alone(j)'
    BY <1>5, <2>1 DEF ReadFile, Moved, Alone, Applying
  <2> QED
    BY <1>2, <2>1, <2>2, <2>3, OneSteps DEF Moved
<1>6. ASSUME job' = [job EXCEPT ![j].pc = "writeRules", ![j].base = file[job[j].path]],
             Complete(file[job[j].path])
      PROVE  JobsInv' /\ AloneInv'
  <2> DEFINE new == [job[j] EXCEPT !.pc = "writeRules", !.base = file[job[j].path]]
  <2>1. job' = [job EXCEPT ![j] = new]
    BY <1>6 DEF JobsInv
  <2>2. file[job[j].path] \in Bodies
    BY <1>1, <1>3, <1>6, Kinds DEF Typed, OpInv
  <2>3. new \in JobRecords /\ new.pc = "writeRules" /\ new.op = job[j].op /\ new.path = job[j].path
        /\ new.hint = job[j].hint /\ new.alone = job[j].alone /\ new.base = file[job[j].path]
        /\ new.rules = job[j].rules
    BY <1>1, <2>2 DEF JobRecords
  <2> HIDE DEF new
  <2>4. OpInv(new)
    BY <1>1, <1>3, <2>2, <2>3 DEF OpInv, Injecting, Applying, JobRecords
  <2>5. Others(j) /\ job'[j] = new
    BY <2>1 DEF Others, JobsInv
  <2>6. Alone(j) => Alone(j)'
    BY <1>3, <2>3, <2>5 DEF ReadFile, Alone, Applying, Injecting
  <2> QED
    BY <1>2, <2>3, <2>4, <2>5, <2>6, OneSteps
<1>7. \/ AfterInject(j) /\ ~Complete(file[job[j].path])
      \/ /\ job' = [job EXCEPT ![j].pc = "writeRules", ![j].base = file[job[j].path]]
         /\ Complete(file[job[j].path])
  BY DEF ReadFile, Complete, Absent
<1> QED
  BY <1>4, <1>5, <1>6, <1>7 DEF IInv

LEMMA WriteRulesKeeps ==
  ASSUME IInv, NEW j \in Jobs, job[j].op # "idle", WriteRules(j)
  PROVE  IInv'
<1> Typed /\ FilesInv /\ JobsInv /\ AloneInv
  BY DEF IInv
<1> MarksInv' /\ Kept' \subseteq Kept
  BY DEF IInv, MarksInv, Kept, WriteRules, marks
<1>1. job[j] # Idle /\ job[j] \in JobRecords /\ OpInv(job[j])
  BY Busied
<1>2. job[j].alone => Alone(j)
  BY <1>1 DEF AloneInv
<1>3. job[j].pc \in Injecting
  BY DEF WriteRules, Injecting
<1> DEFINE p == job[j].path
           content == Injected(job[j].base, job[j].rules)
<1>4. p \in Paths \ Kept /\ job[j].base \in Bodies
  BY <1>1, <1>3 DEF WriteRules, OpInv
<1>5. content \in Bodies /\ content.rules = {r \in Rules : job[j].rules[r] = "on"}
  BY <1>4, InjectedBody
<1>6. file' = [file EXCEPT ![p] = content]
  BY DEF WriteRules
<1> HIDE DEF content
<1>7. /\ file' \in [Paths -> Contents]
      /\ \A q \in Kept : Clean(file'[q])
      /\ \A q \in Paths : file'[q] = IF q = p THEN content ELSE file[q]
  BY <1>4, <1>5, <1>6, Written DEF Contents
<1>8. Typed' /\ FilesInv'
  BY <1>7 DEF WriteRules, Typed, FilesInv
<1>9. \/ job[j].op = "download" /\ Moved(j, "compare")
      \/ job[j].op = "activate" /\ Moved(j, "runtime")
      \/ job[j].op = "rule" /\ Others(j) /\ job'[j] = Idle
  BY <1>3, AfterInjection DEF WriteRules
<1>10. job'[j] = Idle \/ (job'[j] \in JobRecords /\ OpInv(job'[j]) /\ job'[j].alone = job[j].alone)
  BY <1>1, <1>9 DEF Moved, OpInv, Injecting, Applying
<1>11. Complete(file'[p])
  BY <1>4, <1>5, <1>7, Kinds DEF Contents
<1>12. ASSUME job'[j] # Idle, Alone(j) PROVE Alone(j)'
  <2>1. job[j].rules = rules
    BY <1>12 DEF Alone, WriteRules
  <2>2. file'[p].rules = Enabled'
    BY <1>4, <1>5, <1>7, <2>1 DEF WriteRules, Enabled
  <2> QED
    BY <1>9, <1>11, <1>12, <2>2 DEF WriteRules, Moved, Alone, Applying
<1>13. JobsInv' /\ AloneInv'
  BY <1>2, <1>9, <1>10, <1>12, OneSteps DEF Moved
<1> QED
  BY <1>8, <1>13 DEF IInv

LEMMA SaveActiveKeeps ==
  ASSUME IInv, NEW j \in Jobs, job[j].op # "idle", SaveActive(j)
  PROVE  IInv'
<1> Typed /\ FilesInv /\ JobsInv /\ AloneInv
  BY DEF IInv
<1> MarksInv' /\ Kept' \subseteq Kept
  BY DEF IInv, MarksInv, Kept, SaveActive, marks
<1>1. job[j] # Idle /\ job[j] \in JobRecords /\ OpInv(job[j])
  BY Busied
<1>2. job[j].alone => Alone(j)
  BY <1>1 DEF AloneInv
<1>3. job[j].op = "activate" /\ job[j].path \in Paths /\ (job[j].path \in Kept => job[j].hint)
  BY <1>1 DEF SaveActive, JobRecords, OpInv, Injecting, Applying
<1> DEFINE restart == job[j].restart \/ job[j].cfg.active # job[j].path
           pc == IF job[j].hint THEN "runtime" ELSE "loadRules"
           new == [job[j] EXCEPT !.restart = restart, !.pc = pc]
<1>4. job' = [job EXCEPT ![j] = new]
  BY DEF SaveActive, JobsInv
<1>5. restart \in BOOLEAN /\ pc \in {"runtime", "loadRules"}
      /\ (pc = "loadRules" => job[j].path \notin Kept)
      /\ (pc = "runtime" => job[j].hint)
  BY <1>3
<1> HIDE DEF restart, pc
<1>6. new \in JobRecords /\ new.pc = pc /\ new.op = "activate" /\ new.path = job[j].path
      /\ new.hint = job[j].hint /\ new.alone = job[j].alone
  BY <1>1, <1>3, <1>5 DEF JobRecords
<1> HIDE DEF new
<1>7. OpInv(new)
  BY <1>1, <1>3, <1>5, <1>6 DEF OpInv, Injecting, Applying
<1>8. Others(j) /\ job'[j] = new
  BY <1>4 DEF Others, JobsInv
<1>9. settings' \in [active : Paths \cup {NoPath}, port : Ports] /\ settings'.active = job[j].path
  BY <1>1, <1>3 DEF SaveActive, JobRecords
<1>10. Alone(j)'
  BY <1>3, <1>5, <1>6, <1>8, <1>9 DEF Alone, Applying
<1>11. JobsInv' /\ AloneInv'
  BY <1>6, <1>7, <1>8, <1>10, OneSteps
<1>12. Typed' /\ FilesInv'
  BY <1>9 DEF SaveActive, Typed, FilesInv
<1> QED
  BY <1>11, <1>12 DEF IInv

LEMMA EndSaveConfigKeeps ==
  ASSUME IInv, NEW j \in Jobs, job[j].op # "idle", EndSaveConfig(j)
  PROVE  IInv'
<1> Typed /\ FilesInv /\ JobsInv /\ AloneInv
  BY DEF IInv
<1> MarksInv' /\ Kept' \subseteq Kept
  BY DEF IInv, MarksInv, Kept, EndSaveConfig, marks
<1>1. job[j] # Idle /\ job[j] \in JobRecords /\ OpInv(job[j])
  BY Busied
<1>2. job[j].alone => Alone(j)
  BY <1>1 DEF AloneInv
<1>3. JobsInv' /\ AloneInv'
  BY Ending, OneSteps DEF EndSaveConfig
<1>4. Typed' /\ FilesInv'
  BY DEF EndSaveConfig, Typed, FilesInv
<1> QED
  BY <1>3, <1>4 DEF IInv

LEMMA RuntimeReadKeeps ==
  ASSUME IInv, NEW j \in Jobs, job[j].op # "idle", RuntimeRead(j)
  PROVE  IInv'
<1> Typed /\ FilesInv /\ JobsInv /\ AloneInv
  BY DEF IInv
<1> MarksInv' /\ Kept' \subseteq Kept
  BY DEF IInv, MarksInv, Kept, RuntimeRead, marks
<1>1. job[j] # Idle /\ job[j] \in JobRecords /\ OpInv(job[j])
  BY Busied
<1>2. job[j].alone => Alone(j)
  BY <1>1 DEF AloneInv
<1> DEFINE new == [job[j] EXCEPT !.pc = "patch", !.cfg = settings]
<1>3. job' = [job EXCEPT ![j] = new]
  BY DEF RuntimeRead, JobsInv
<1>4. new \in JobRecords /\ new.pc = "patch" /\ new.op = job[j].op /\ new.path = job[j].path
      /\ new.hint = job[j].hint /\ new.alone = job[j].alone
  BY <1>1 DEF JobRecords, Typed
<1> HIDE DEF new
<1>5. OpInv(new)
  BY <1>1, <1>4 DEF RuntimeRead, OpInv, Injecting, Applying
<1>6. Others(j) /\ job'[j] = new
  BY <1>3 DEF Others, JobsInv
<1>7. Alone(j) => Alone(j)'
  BY <1>4, <1>6 DEF RuntimeRead, Alone, Applying, Enabled
<1>8. JobsInv' /\ AloneInv'
  BY <1>2, <1>4, <1>5, <1>6, <1>7, OneSteps
<1>9. Typed' /\ FilesInv'
  BY DEF RuntimeRead, Typed, FilesInv
<1> QED
  BY <1>8, <1>9 DEF IInv

LEMMA RuntimePatchKeeps ==
  ASSUME IInv, NEW j \in Jobs, job[j].op # "idle", RuntimePatch(j)
  PROVE  IInv'
<1> Typed /\ FilesInv /\ JobsInv /\ AloneInv
  BY DEF IInv
<1> MarksInv' /\ Kept' \subseteq Kept
  BY DEF IInv, MarksInv, Kept, RuntimePatch, marks
<1>1. job[j] # Idle /\ job[j] \in JobRecords /\ OpInv(job[j])
  BY Busied
<1>2. job[j].alone => Alone(j)
  BY <1>1 DEF AloneInv
<1> DEFINE cfg == job[j].cfg
<1>3. cfg \in [active : Paths \cup {NoPath}, port : Ports]
      /\ job[j].op \in {"download", "activate", "save"}
  BY <1>1 DEF RuntimePatch, JobRecords, OpInv, Injecting
<1>4. PICK portsOnly \in BOOLEAN :
      \/ UNCHANGED file
      \/ /\ cfg.active \in Paths /\ Complete(file[cfg.active])
         /\ file' = [file EXCEPT ![cfg.active] = Patched(file[cfg.active], cfg, portsOnly)]
  BY PathsAssumption DEF RuntimePatch, EffectivePath
<1> DEFINE content == Patched(file[cfg.active], cfg, portsOnly)
           written == /\ cfg.active \in Paths /\ Complete(file[cfg.active])
                      /\ file' = [file EXCEPT ![cfg.active] = content]
<1>5. PICK pc : /\ Moved(j, pc)
                /\ pc \in {"proxy", "restart"} /\ (pc = "proxy" => job[j].op = "download")
  BY Going DEF RuntimePatch, Pcs
<1>6. cfg.active \in Paths /\ Complete(file[cfg.active])
      => content \in Bodies /\ content.rules = file[cfg.active].rules
  BY <1>3, PatchedBody, Kinds DEF Typed
<1>4a. UNCHANGED file \/ written
  BY <1>4
<1> HIDE DEF content
<1>7. /\ file' \in [Paths -> Contents]
      /\ \A q \in Kept : Clean(file'[q])
      /\ \A q \in Paths : /\ Complete(file'[q]) = Complete(file[q])
                          /\ Complete(file[q]) => file'[q].rules = file[q].rules
  <2>1. CASE UNCHANGED file
    BY <2>1 DEF Typed, FilesInv
  <2>2. CASE written
    <3>1. content \in Contents /\ Complete(content)
      BY <1>6, <2>2, Kinds DEF Contents
    <3>2. cfg.active \in Kept => Clean(content)
      BY <1>6, <2>2 DEF FilesInv, Clean
    <3> QED
      BY <1>6, <2>2, <3>1, <3>2, Written
  <2> QED
    BY <1>4a, <2>1, <2>2
<1>8. Typed' /\ FilesInv'
  BY <1>7 DEF RuntimePatch, Marked, Typed, FilesInv, Spend, BudgetKinds
<1>9. OpInv(job'[j])
  BY <1>1, <1>3, <1>5 DEF RuntimePatch, Moved, OpInv, Injecting, Applying
<1>10. job[j].op \in {"download", "activate"} => job[j].path \in Paths
  BY <1>1 DEF OpInv
<1>11. Alone(j) => Alone(j)'
  BY <1>3, <1>5, <1>7, <1>10 DEF RuntimePatch, Moved, Alone, Applying, Enabled
<1>12. JobsInv' /\ AloneInv'
  BY <1>2, <1>5, <1>9, <1>11, OneSteps DEF Moved
<1> QED
  BY <1>8, <1>12 DEF IInv

LEMMA RuntimeProxyKeeps ==
  ASSUME IInv, NEW j \in Jobs, job[j].op # "idle", RuntimeProxy(j)
  PROVE  IInv'
<1> Typed /\ FilesInv /\ JobsInv /\ AloneInv
  BY DEF IInv
<1> MarksInv' /\ Kept' \subseteq Kept
  BY DEF IInv, MarksInv, Kept, RuntimeProxy, marks
<1>1. job[j] # Idle /\ job[j] \in JobRecords /\ OpInv(job[j])
  BY Busied
<1>2. job[j].alone => Alone(j)
  BY <1>1 DEF AloneInv
<1> DEFINE p == EffectivePath(settings)
<1>3. job[j].op = "download" /\ job[j].path \in Paths /\ job[j].cfg.port \in Ports
  BY <1>1 DEF RuntimeProxy, JobRecords, OpInv, Injecting, Applying
<1>4. /\ p \in Paths
      /\ settings' \in [active : Paths \cup {NoPath}, port : Ports]
      /\ file' \in [Paths -> Contents]
      /\ \A q \in Kept : Clean(file'[q])
      /\ \A q \in Paths : q # p => file'[q] = file[q]
      /\ file'[p] \in Bodies
      /\ Complete(file[p]) => file'[p].rules = file[p].rules
  BY <1>3, Launched DEF RuntimeProxy
<1>5. Moved(j, "restart")
  BY Going DEF RuntimeProxy, Pcs
<1> HIDE DEF p
<1>6. OpInv(job'[j])
  BY <1>1, <1>3, <1>5 DEF RuntimeProxy, Moved, OpInv, Injecting, Applying
<1>7. Typed' /\ FilesInv'
  BY <1>4 DEF RuntimeProxy, Typed, FilesInv
<1>8. Complete(file'[p])
  BY <1>4, Kinds DEF Contents
<1>9. Alone(j) => Alone(j)'
  BY ZenonT(30), <1>3, <1>4, <1>5, <1>8 DEF RuntimeProxy, Moved, Alone, Applying, Enabled
<1>10. JobsInv' /\ AloneInv'
  BY <1>2, <1>5, <1>6, <1>9, OneSteps DEF Moved
<1> QED
  BY <1>7, <1>10 DEF IInv

LEMMA RuntimeRestartKeeps ==
  ASSUME IInv, NEW j \in Jobs, job[j].op # "idle", RuntimeRestart(j)
  PROVE  IInv'
<1> Typed /\ FilesInv /\ JobsInv /\ AloneInv
  BY DEF IInv
<1> MarksInv' /\ Kept' \subseteq Kept
  BY DEF IInv, MarksInv, Kept, RuntimeRestart, marks
<1>1. job[j] # Idle /\ job[j] \in JobRecords /\ OpInv(job[j])
  BY Busied
<1>2. job[j].alone => Alone(j)
  BY <1>1 DEF AloneInv
<1>3. JobsInv' /\ AloneInv'
  BY Ending, OneSteps DEF RuntimeRestart
<1>4. ASSUME Launch
      PROVE  Typed' /\ FilesInv'
  <2>1. /\ EffectivePath(settings) \in Paths
        /\ settings' \in [active : Paths \cup {NoPath}, port : Ports]
        /\ file' \in [Paths -> Contents]
        /\ \A q \in Kept : Clean(file'[q])
        /\ file'[EffectivePath(settings)] \in Bodies
        /\ file'[EffectivePath(settings)] = [Ensured(settings) EXCEPT !.port = settings.port]
    BY <1>4, Launched DEF Launch, Typed
  <2>2. kernel'.path \in Paths /\ kernel'.body \in Bodies
    BY <1>4, <2>1 DEF Launch
  <2> QED
    BY <2>1, <2>2 DEF RuntimeRestart, Typed, FilesInv
<1>5. ASSUME UNCHANGED <<file, settings, kernel>>
      PROVE  Typed' /\ FilesInv'
  BY <1>5 DEF RuntimeRestart, Typed, FilesInv
<1> QED
  BY <1>3, <1>4, <1>5 DEF RuntimeRestart, IInv

LEMMA BeginDownloadKeeps ==
  ASSUME IInv, NEW j \in Jobs, BeginDownload(j)
  PROVE  IInv'
<1> Typed /\ FilesInv /\ JobsInv /\ AloneInv
  BY DEF IInv
<1> MarksInv' /\ Kept' \subseteq Kept
  BY DEF IInv, MarksInv, Kept, BeginDownload, marks
<1>1. PICK p \in Paths \ {Default}, hint \in BOOLEAN, apply \in BOOLEAN :
        /\ Begin(j, "download", "fetch", p, hint, apply, TRUE, settings)
        /\ p \in Kept' => hint
  <2>1. PICK p \in Paths \ {Default}, automatic \in BOOLEAN :
          \/ /\ Begin(j, "download", "fetch", p, p \in original, automatic /\ p = roundPath,
                     TRUE, settings)
             /\ UNCHANGED astray
          \/ /\ Begin(j, "download", "fetch", p, FALSE, FALSE, TRUE, settings)
             /\ astray' = astray \cup {p}
    BY DEF BeginDownload
  <2>2. p \in Kept' => p \in original /\ p \notin astray'
    BY DEF IInv, MarksInv, Kept, BeginDownload
  <2> DEFINE marked == p \in original
             applies == automatic /\ p = roundPath
             no == FALSE
  <2>3. marked \in BOOLEAN /\ applies \in BOOLEAN /\ no \in BOOLEAN
    OBVIOUS
  <2>4. CASE /\ Begin(j, "download", "fetch", p, marked, applies, TRUE, settings)
             /\ UNCHANGED astray
    BY <2>2, <2>3, <2>4
  <2>5. CASE /\ Begin(j, "download", "fetch", p, no, no, TRUE, settings)
             /\ astray' = astray \cup {p}
    BY <2>2, <2>3, <2>5
  <2> QED
    BY <2>1, <2>4, <2>5
<1> DEFINE restarts == TRUE
<1>2. restarts \in BOOLEAN
  OBVIOUS
<1>3. Begin(j, "download", "fetch", p, hint, apply, restarts, settings)
  BY <1>1
<1> HIDE DEF restarts
<1>4. JobsInv' /\ AloneInv' /\ budget' \in [BudgetKinds -> Nat]
  <2>1. settings \in [active : Paths \cup {NoPath}, port : Ports] /\ p \in Paths \cup {NoPath}
    BY DEF Typed
  <2> QED
    BY <1>1, <1>2, <1>3, <2>1, Beginning
<1> QED
  BY <1>4 DEF IInv, BeginDownload, Typed, FilesInv

LEMMA BeginRuleKeeps ==
  ASSUME IInv, NEW j \in Jobs, BeginRule(j)
  PROVE  IInv'
<1> Typed /\ FilesInv /\ JobsInv /\ AloneInv
  BY DEF IInv
<1> MarksInv' /\ Kept' \subseteq Kept
  BY DEF IInv, MarksInv, Kept, BeginRule, marks
<1>1. NoPath \notin Kept'
  BY PathsAssumption DEF IInv, MarksInv, Kept
<1>2. JobsInv' /\ AloneInv' /\ budget' \in [BudgetKinds -> Nat]
  BY <1>1, Beginning DEF BeginRule, Typed
<1> QED
  BY <1>2 DEF IInv, BeginRule, Typed, FilesInv

LEMMA BeginActivateKeeps ==
  ASSUME IInv, NEW j \in Jobs, BeginActivate(j)
  PROVE  IInv'
<1> Typed /\ FilesInv /\ JobsInv /\ AloneInv
  BY DEF IInv
<1> MarksInv' /\ Kept' \subseteq Kept
  BY DEF IInv, MarksInv, Kept, BeginActivate, marks
<1>1. PICK p \in Paths \ {Default}, restart \in BOOLEAN :
        Begin(j, "activate", "saveActive", p, p \in original, TRUE, restart, settings)
  BY DEF BeginActivate
<1> DEFINE hint == p \in original
           apply == TRUE
           restarts == restart
<1>2. hint \in BOOLEAN /\ apply \in BOOLEAN /\ restarts \in BOOLEAN
      /\ (hint <=> p \in original)
  OBVIOUS
<1>3. Begin(j, "activate", "saveActive", p, hint, apply, restarts, settings)
  BY <1>1
<1>5. p \in Kept' => hint
  BY DEF IInv, MarksInv
<1> HIDE DEF hint, apply, restarts
<1>4. JobsInv' /\ AloneInv' /\ budget' \in [BudgetKinds -> Nat]
  <2>1. settings \in [active : Paths \cup {NoPath}, port : Ports] /\ p \in Paths \cup {NoPath}
    BY DEF Typed
  <2> QED
    BY <1>2, <1>3, <1>5, <2>1, Beginning
<1> QED
  BY <1>4 DEF IInv, BeginActivate, Typed, FilesInv

LEMMA BeginSaveConfigKeeps ==
  ASSUME IInv, NEW j \in Jobs, BeginSaveConfig(j)
  PROVE  IInv'
<1> Typed /\ FilesInv /\ JobsInv /\ AloneInv
  BY DEF IInv
<1> MarksInv' /\ Kept' \subseteq Kept
  BY DEF IInv, MarksInv, Kept, BeginSaveConfig, marks
<1>1. PICK port \in Ports, asked \in BOOLEAN :
        /\ settings' = [active |-> uiActive, port |-> port]
        /\ Begin(j, "save", IF asked THEN "runtime" ELSE "end", uiActive, uiActive \in original,
                 asked, TRUE, settings)
  BY DEF BeginSaveConfig
<1> DEFINE hint == uiActive \in original
           apply == asked
           restarts == TRUE
           pc == IF asked THEN "runtime" ELSE "end"
<1>2. hint \in BOOLEAN /\ apply \in BOOLEAN /\ restarts \in BOOLEAN
      /\ (hint <=> uiActive \in original) /\ pc \in {"runtime", "end"}
  OBVIOUS
<1>3. Begin(j, "save", pc, uiActive, hint, apply, restarts, settings)
  BY <1>1
<1>5. uiActive \in Kept' => hint
  BY DEF IInv, MarksInv
<1> HIDE DEF hint, apply, restarts, pc
<1>4. JobsInv' /\ AloneInv' /\ budget' \in [BudgetKinds -> Nat]
  <2>1. /\ settings \in [active : Paths \cup {NoPath}, port : Ports]
        /\ uiActive \in Paths \cup {NoPath}
    BY DEF Typed
  <2> QED
    BY <1>2, <1>3, <1>5, <2>1, Beginning
<1> QED
  BY <1>4, <1>1 DEF IInv, BeginSaveConfig, Typed, FilesInv

LEMMA HighlightKeeps ==
  ASSUME IInv, NEW p \in Paths, Highlight(p)
  PROVE  IInv'
<1> Typed /\ FilesInv /\ JobsInv /\ AloneInv
  BY DEF IInv
<1> MarksInv' /\ Kept' \subseteq Kept
  BY DEF IInv, MarksInv, Kept, Highlight, marks
<1>1. JobsInv' /\ AloneInv'
  BY Crowding DEF Highlight
<1>2. PICK content \in Contents : /\ file' = [file EXCEPT ![p] = content]
                                  /\ p \in Kept => Clean(content)
  <2> DEFINE portsOnly == p \in original
             content == Patched(file[p], settings, portsOnly)
  <2>1. file[p] \in Bodies /\ settings.port \in Ports /\ portsOnly \in BOOLEAN
    BY Kinds DEF Highlight, Typed
  <2>2. file' = [file EXCEPT ![p] = content]
    BY DEF Highlight
  <2>3. p \in Kept => file[p].rules = {}
    BY DEF Highlight, FilesInv, Clean
  <2> HIDE DEF portsOnly
  <2>4. content \in Bodies /\ content.rules = file[p].rules
    BY <2>1, PatchedBody
  <2> HIDE DEF content
  <2> QED
    BY <2>2, <2>3, <2>4 DEF Contents, Clean
<1>3. file' \in [Paths -> Contents] /\ \A q \in Kept : Clean(file'[q])
  BY <1>2, Written
<1>4. bak' \in [Paths -> Contents] /\ \A q \in Kept : Clean(bak'[q])
  BY PathsAssumption DEF Highlight, Typed, FilesInv, Contents, Clean, Complete, Absent
<1>5. Typed' /\ FilesInv'
  BY <1>3, <1>4 DEF Highlight, Typed, FilesInv, Spend, BudgetKinds
<1> QED
  BY <1>1, <1>5 DEF IInv

LEMMA DeleteConfigKeeps ==
  ASSUME IInv, NEW p \in Paths, DeleteConfig(p)
  PROVE  IInv'
<1> Typed /\ FilesInv /\ JobsInv /\ AloneInv
  BY DEF IInv
<1> MarksInv' /\ Kept' \subseteq Kept
  BY DEF IInv, MarksInv, Kept, DeleteConfig, marks
<1>1. JobsInv' /\ AloneInv'
  BY Crowding DEF DeleteConfig
<1> DEFINE content == Absent
<1>2. content \in Contents /\ Clean(content) /\ file' = [file EXCEPT ![p] = content]
  BY DEF DeleteConfig, Contents, Clean, Complete, Absent
<1> HIDE DEF content
<1>3. file' \in [Paths -> Contents] /\ \A q \in Kept : Clean(file'[q])
  BY <1>2, Written
<1>4. bak' \in [Paths -> Contents] /\ \A q \in Kept : Clean(bak'[q])
  BY PathsAssumption DEF DeleteConfig, Typed, FilesInv, Contents, Clean, Complete, Absent
<1>5. Typed' /\ FilesInv'
  BY <1>3, <1>4 DEF DeleteConfig, Typed, FilesInv, Spend, BudgetKinds
<1> QED
  BY <1>1, <1>5 DEF IInv

LEMMA RollbackConfigKeeps ==
  ASSUME IInv, NEW p \in Paths, RollbackConfig(p)
  PROVE  IInv'
<1> Typed /\ FilesInv /\ JobsInv /\ AloneInv
  BY DEF IInv
<1> MarksInv' /\ Kept' \subseteq Kept
  BY DEF IInv, MarksInv, Kept, RollbackConfig, marks
<1>1. JobsInv' /\ AloneInv'
  BY Crowding DEF RollbackConfig
<1>2. PICK content \in Contents : /\ file' = [file EXCEPT ![p] = content]
                                  /\ p \in Kept => Clean(content)
  BY DEF RollbackConfig, Typed, FilesInv
<1>3. file' \in [Paths -> Contents] /\ \A q \in Kept : Clean(file'[q])
  BY <1>2, Written
<1>4. bak' \in [Paths -> Contents] /\ \A q \in Kept : Clean(bak'[q])
  BY PathsAssumption DEF RollbackConfig, Typed, FilesInv, Contents, Clean, Complete, Absent
<1>5. Typed' /\ FilesInv'
  BY <1>3, <1>4 DEF RollbackConfig, Typed, FilesInv, Spend, BudgetKinds
<1> QED
  BY <1>1, <1>5 DEF IInv

LEMMA EditSubscriptionKeeps ==
  ASSUME IInv, NEW p \in Paths \ {Default}, EditSubscription(p)
  PROVE  IInv'
<1> Typed /\ FilesInv /\ JobsInv /\ AloneInv
  BY DEF IInv
<1>1. MarksInv' /\ Kept' \subseteq Kept
  BY DEF IInv, MarksInv, Kept, EditSubscription
<1>2. JobsInv' /\ AloneInv'
  BY <1>1, Crowding DEF EditSubscription
<1>3. Typed' /\ FilesInv'
  BY <1>1 DEF EditSubscription, Typed, FilesInv, Spend, BudgetKinds
<1> QED
  BY <1>1, <1>2, <1>3 DEF IInv

LEMMA BeginRoundKeeps ==
  ASSUME IInv, BeginRound
  PROVE  IInv'
<1> Typed /\ FilesInv /\ JobsInv /\ AloneInv
  BY DEF IInv
<1> MarksInv' /\ Kept' \subseteq Kept
  BY DEF IInv, MarksInv, Kept, BeginRound, marks
<1> QED
  BY DEF BeginRound, IInv, Typed, FilesInv, JobsInv, OpInv, AloneInv, Alone, Enabled

LEMMA UiFollowsKeeps ==
  ASSUME IInv, UiFollows
  PROVE  IInv'
<1> Typed /\ FilesInv /\ JobsInv /\ AloneInv
  BY DEF IInv
<1> MarksInv' /\ Kept' \subseteq Kept
  BY DEF IInv, MarksInv, Kept, UiFollows, marks
<1> QED
  BY DEF UiFollows, IInv, Typed, FilesInv, JobsInv, OpInv, AloneInv, Alone, Enabled

LEMMA StutterKeeps ==
  ASSUME IInv, UNCHANGED vars
  PROVE  IInv'
<1> Typed /\ FilesInv /\ JobsInv /\ AloneInv
  BY DEF IInv
<1> MarksInv' /\ Kept' \subseteq Kept
  BY DEF IInv, MarksInv, Kept, vars, marks
<1> QED
  BY DEF vars, IInv, Typed, FilesInv, JobsInv, OpInv, AloneInv, Alone, Enabled

LEMMA StartKernelKeeps ==
  ASSUME IInv, StartKernel
  PROVE  IInv'
<1> Typed /\ FilesInv /\ JobsInv /\ AloneInv
  BY DEF IInv
<1> MarksInv' /\ Kept' \subseteq Kept
  BY DEF IInv, MarksInv, Kept, StartKernel, marks
<1>1. JobsInv' /\ AloneInv'
  BY Crowding DEF StartKernel
<1>2. Typed' /\ FilesInv'
  <2>1. /\ EffectivePath(settings) \in Paths
        /\ settings' \in [active : Paths \cup {NoPath}, port : Ports]
        /\ file' \in [Paths -> Contents]
        /\ \A q \in Kept : Clean(file'[q])
        /\ file'[EffectivePath(settings)] \in Bodies
        /\ file'[EffectivePath(settings)] = [Ensured(settings) EXCEPT !.port = settings.port]
    BY Launched DEF StartKernel, Launch, Typed
  <2>2. kernel'.path \in Paths /\ kernel'.body \in Bodies
    BY <2>1 DEF StartKernel, Launch
  <2> QED
    BY <2>1, <2>2 DEF StartKernel, Typed, FilesInv, Spend, BudgetKinds
<1> QED
  BY <1>1, <1>2 DEF IInv

LEMMA StopKernelKeeps ==
  ASSUME IInv, StopKernel
  PROVE  IInv'
<1> Typed /\ FilesInv /\ JobsInv /\ AloneInv
  BY DEF IInv
<1> MarksInv' /\ Kept' \subseteq Kept
  BY DEF IInv, MarksInv, Kept, StopKernel, marks
<1>1. JobsInv' /\ AloneInv'
  BY Crowding DEF StopKernel
<1> QED
  BY <1>1 DEF IInv, StopKernel, Typed, FilesInv

LEMMA CrashKeeps ==
  ASSUME IInv, Crash
  PROVE  IInv'
<1> Typed /\ FilesInv /\ JobsInv /\ AloneInv
  BY DEF IInv
<1> MarksInv' /\ Kept' \subseteq Kept
  BY DEF IInv, MarksInv, Kept, Crash, marks
<1>1. JobsInv' /\ AloneInv'
  BY DEF Crash, JobsInv, AloneInv
<1>2. file' \in [Paths -> Contents] /\ \A q \in Kept : Clean(file'[q])
  BY PathsAssumption DEF Crash, Typed, FilesInv, Kept, Contents, Clean, Complete, Torn
<1>3. bak' \in [Paths -> Contents] /\ \A q \in Kept : Clean(bak'[q])
  BY PathsAssumption DEF Crash, Typed, FilesInv, Kept
<1>4. Typed' /\ FilesInv'
  BY <1>2, <1>3 DEF Crash, Typed, FilesInv, Spend, BudgetKinds
<1> QED
  BY <1>1, <1>4 DEF IInv

-----------------------------------------------------------------------------
(* The invariant holds in every state.                                      *)

LEMMA Starts == Init => IInv
<1> SUFFICES ASSUME Init PROVE IInv
  OBVIOUS
<1>1. Typed
  BY BudgetAssumption DEF Init, Typed, Contents
<1>2. FilesInv
  BY PathsAssumption DEF Init, FilesInv, Kept, Clean, Complete, Absent
<1>3. JobsInv /\ AloneInv
  BY DEF Init, JobsInv, AloneInv
<1>4. MarksInv
  BY PathsAssumption DEF Init, MarksInv, Kept
<1> QED
  BY <1>1, <1>2, <1>3, <1>4 DEF IInv

LEMMA JobSteps ==
  ASSUME IInv, NEW j \in Jobs, JobStep(j)
  PROVE  IInv'
BY BeginDownloadKeeps, BeginRuleKeeps, BeginActivateKeeps, BeginSaveConfigKeeps, FetchKeeps,
   StoreKeeps, CompareKeeps, SaveRulesKeeps, FindActiveKeeps, LoadRulesKeeps, ReadFileKeeps,
   WriteRulesKeeps, SaveActiveKeeps, EndSaveConfigKeeps, RuntimeReadKeeps, RuntimePatchKeeps,
   RuntimeProxyKeeps, RuntimeRestartKeeps DEF JobStep

LEMMA Step == IInv /\ [Next]_vars => IInv'
<1> SUFFICES ASSUME IInv, [Next]_vars PROVE IInv'
  OBVIOUS
<1>1. ASSUME NEW j \in Jobs, JobStep(j) PROVE IInv'
  BY <1>1, JobSteps
<1>2. ASSUME NEW p \in Paths \ {Default},
             Highlight(p) \/ EditSubscription(p) \/ DeleteConfig(p) \/ RollbackConfig(p)
      PROVE  IInv'
  BY <1>2, HighlightKeeps, EditSubscriptionKeeps, DeleteConfigKeeps, RollbackConfigKeeps
<1>3. CASE BeginRound \/ UiFollows \/ StartKernel \/ StopKernel \/ Crash
  BY <1>3, BeginRoundKeeps, UiFollowsKeeps, StartKernelKeeps, StopKernelKeeps, CrashKeeps
<1>4. CASE UNCHANGED vars
  BY <1>4, StutterKeeps
<1> QED
  BY <1>1, <1>2, <1>3, <1>4 DEF Next

LEMMA Held == Spec => []IInv
BY Starts, Step, PTL DEF Spec

\* Every file is absent, truncated or complete, whatever overlaps or crashes;
\* the kernel has only ever loaded a complete file, and what a command is about
\* to write (write_config_file, inject_custom_rules_into_config_file) is one.
THEOREM TypeCorrect == Spec => []TypeOK
<1>1. ASSUME IInv PROVE TypeOK
  <2>1. ASSUME NEW j \in Busy
        PROVE  /\ job[j] \in JobRecords
               /\ job[j].pc \in {"store", "writeRules"} => job[j].base \in Bodies
    BY <1>1, Busied DEF IInv, Busy, OpInv
  <2> QED
    BY <1>1, <2>1 DEF IInv, Typed, MarksInv, TypeOK, Contents
<1> QED
  BY <1>1, Held, PTL

\* No interleaving of downloads, rule edits, switches, saves, rollbacks, launches and
\* crashes puts a custom rule into the file of a subscription that keeps its original
\* configuration, unless the user edits its mark, has its file generated anew from the
\* page's editor, or a database error hides the mark from a rule edit
\* (inject_into_active_config and the guards on use_original_config).
THEOREM OriginalsStayClean == Spec => []OriginalNotInjected
<1>1. IInv => OriginalNotInjected
  BY DEF IInv, FilesInv, Kept, Clean, OriginalNotInjected
<1> QED
  BY <1>1, Held, PTL

-----------------------------------------------------------------------------
(* What a command has done when it ends alone.                              *)

\* A step of one command leaves the others where they were.
LEMMA OwnStep ==
  ASSUME JobsInv, NEW k \in Jobs, job[k].op # "idle", JobStep(k)
  PROVE  Others(k)
<1>1. CASE Fetch(k) \/ Store(k) \/ Compare(k) \/ SaveRules(k) \/ FindActive(k) \/ SaveActive(k)
  BY <1>1 DEF Fetch, Store, Compare, SaveRules, FindActive, SaveActive, Goto, End, Others, JobsInv
<1>2. CASE LoadRules(k) \/ ReadFile(k) \/ WriteRules(k)
  <2>1. CASE AfterInject(k)
    BY <2>1 DEF AfterInject, Goto, End, Others, JobsInv
  <2> QED
    BY <1>2, <2>1 DEF LoadRules, ReadFile, WriteRules, Others, JobsInv
<1>3. CASE \/ EndSaveConfig(k) \/ RuntimeRead(k) \/ RuntimePatch(k)
           \/ RuntimeProxy(k) \/ RuntimeRestart(k)
  BY <1>3 DEF EndSaveConfig, RuntimeRead, RuntimePatch, RuntimeProxy, RuntimeRestart, Goto, End,
              Others, JobsInv
<1> QED
  BY <1>1, <1>2, <1>3 DEF JobStep, BeginDownload, BeginRule, BeginActivate, BeginSaveConfig, Begin

\* The steps a command can end with.
LEMMA LastStep ==
  ASSUME IInv, Next, NEW j \in Jobs, Ends(j)
  PROVE  \/ Fetch(j) \/ Store(j) \/ Compare(j) \/ FindActive(j) \/ LoadRules(j) \/ ReadFile(j)
         \/ WriteRules(j) \/ EndSaveConfig(j) \/ RuntimeRestart(j)
<1> JobsInv /\ Typed
  BY DEF IInv
<1>1. job[j].op # "idle" /\ job'[j].op = "idle" /\ job[j] \in JobRecords
  BY Busied DEF Ends
<1>2. job' # Crowd(job)
  BY <1>1 DEF Crowd, JobRecords
<1>3. ASSUME NEW k \in Jobs, JobStep(k), job[k].op = "idle" PROVE FALSE
  <2>1. k # j
    BY <1>1, <1>3
  <2>2. job'[j] = Crowd(job)[j]
    BY <1>3, <2>1 DEF JobStep, BeginDownload, BeginRule, BeginActivate, BeginSaveConfig,
       Begin, Crowd
  <2> QED
    BY <1>1, <2>2 DEF Crowd, JobRecords
<1>4. ASSUME NEW k \in Jobs, JobStep(k), job[k].op # "idle" PROVE k = j
  BY <1>1, <1>4, OwnStep DEF Others
<1>5. ~Crash
  BY DEF Crash, Spend, Ends, Typed, BudgetKinds
<1>6. JobStep(j)
  BY <1>1, <1>2, <1>3, <1>4, <1>5 DEF Next, Highlight, EditSubscription, DeleteConfig, RollbackConfig, BeginRound,
     UiFollows, StartKernel, StopKernel
<1>7. ~SaveRules(j) /\ ~RuntimePatch(j) /\ ~RuntimeProxy(j)
  <2>1. ASSUME NEW pc \in Pcs, Goto(j, pc) PROVE FALSE
    BY <1>1, <2>1, Going DEF Moved
  <2> QED
    BY <2>1 DEF SaveRules, RuntimePatch, RuntimeProxy, Pcs
<1>8. ~SaveActive(j) /\ ~RuntimeRead(j)
  BY <1>1 DEF SaveActive, RuntimeRead, JobsInv, JobRecords
<1> QED
  BY <1>1, <1>6, <1>7, <1>8 DEF JobStep, BeginDownload, BeginRule, BeginActivate,
     BeginSaveConfig, Begin

\* Whatever crashes and overlapping commands left behind, a rule edit, a
\* switch or a download that runs alone over a readable file ends with the
\* enabled rules of the custom_rules row, and no others, in that file
\* (inject_custom_rules_into_config_file strips before it inserts).
THEOREM RulesHeal == Spec => RulesHealed
<1> DEFINE Healed ==
      \A j \in Jobs :
         (/\ Ends(j) /\ job[j].op # "save"
          /\ job[j].path \in Paths /\ ~job[j].hint /\ job[j].pc # "fetch"
          /\ Complete(file[job[j].path]) /\ Complete(file'[job[j].path]))
         => file'[job[j].path].rules = {r \in Rules : rules'[r] = "on"}
<1>1. ASSUME IInv, Next PROVE Healed
  <2> SUFFICES ASSUME NEW j \in Jobs, Ends(j), job[j].op # "save",
                      job[j].path \in Paths, ~job[j].hint, job[j].pc # "fetch",
                      Complete(file[job[j].path])
               PROVE  file'[job[j].path].rules = {r \in Rules : rules'[r] = "on"}
    OBVIOUS
  <2> DEFINE p == job[j].path
  <2> Typed /\ FilesInv /\ JobsInv /\ AloneInv
    BY <1>1 DEF IInv
  <2>1. job[j] # Idle /\ job[j] \in JobRecords /\ OpInv(job[j]) /\ Alone(j)
    BY Busied DEF Ends, AloneInv
  <2>2. CASE Compare(j)
    <3>1. job[j].op = "download"
      BY <2>1, <2>2 DEF Compare, JobRecords, OpInv, Injecting, Applying
    <3> QED
      BY <2>1, <2>2, <3>1 DEF Compare, Alone, Enabled
  <2>3. CASE WriteRules(j)
    <3>1. job[j].base \in Bodies /\ job[j].rules = rules
      BY <2>1, <2>3 DEF WriteRules, OpInv, Alone
    <3>2. file'[p] = Injected(job[j].base, job[j].rules)
      BY <2>3 DEF WriteRules, Typed
    <3> QED
      BY <2>3, <3>1, <3>2, InjectedBody DEF WriteRules
  <2>4. CASE RuntimeRestart(j)
    <3>1. job[j].op \in {"download", "activate"}
      BY <2>1, <2>4 DEF RuntimeRestart, JobRecords, OpInv, Injecting
    <3>2. file[p].rules = Enabled
      BY <2>1, <2>4, <3>1 DEF RuntimeRestart, Alone, Applying
    <3>3. file'[p].rules = file[p].rules
      <4>1. CASE Launch
        BY <4>1, Launched DEF Launch, Typed
      <4> QED
        BY <2>4, <4>1 DEF RuntimeRestart
    <3> QED
      BY <2>4, <3>2, <3>3 DEF RuntimeRestart, Enabled
  <2>5. ~EndSaveConfig(j)
    BY <2>1 DEF EndSaveConfig, JobRecords, OpInv, Injecting, Applying
  <2>6. ~FindActive(j)
    BY <2>1, PathsAssumption DEF FindActive, OpInv
  <2>7. ~LoadRules(j)
    BY <2>1 DEF LoadRules, Complete, Absent, Ends, JobsInv, JobRecords
  <2>8. ~ReadFile(j)
    BY <2>1 DEF ReadFile, Ends, JobsInv, JobRecords
  <2>9. ~Store(j)
    <3>1. ASSUME NEW pc \in Pcs, Goto(j, pc) PROVE FALSE
      BY <3>1, Going DEF Moved, Ends
    <3>2. ASSUME Spend("fault") PROVE FALSE
      BY <3>2 DEF Spend, Ends, Typed, BudgetKinds
    <3> QED
      BY <3>1, <3>2 DEF Store, Pcs
  <2> QED
    BY <1>1, <2>2, <2>3, <2>4, <2>5, <2>6, <2>7, <2>8, <2>9, LastStep DEF Fetch
<1>2. IInv /\ [Next]_vars => [Healed]_vars
  BY <1>1
<1> QED
  BY <1>2, Held, PTL DEF Spec, RulesHealed

\* A change that runs alone and asks for a restart leaves a running kernel
\* with the file as it is after the injection and the patch: the active path,
\* the saved port and, for a switch, the enabled rules (apply_runtime_change
\* after set_active_config_path).
THEOREM AppliedConfigsAreLive == Spec => AppliedConfigIsLive
<1> DEFINE Live ==
      \A j \in Jobs :
         (Ends(j) /\ job[j].pc = "restart" /\ job[j].restart /\ kernel # Stopped)
         => /\ kernel'.path = EffectivePath(settings')
            /\ kernel'.body = file'[kernel'.path]
            /\ kernel'.body.port = settings'.port
            /\ (/\ job[j].op = "activate" /\ ~job[j].hint
                /\ Complete(file[job[j].path]))
               => kernel'.body.rules = {r \in Rules : rules[r] = "on"}
<1>1. ASSUME IInv, Next PROVE Live
  <2> SUFFICES ASSUME NEW j \in Jobs, Ends(j), job[j].pc = "restart", job[j].restart,
                      kernel # Stopped
               PROVE  /\ kernel'.path = EffectivePath(settings')
                      /\ kernel'.body = file'[kernel'.path]
                      /\ kernel'.body.port = settings'.port
                      /\ (/\ job[j].op = "activate" /\ ~job[j].hint
                          /\ Complete(file[job[j].path]))
                         => kernel'.body.rules = {r \in Rules : rules[r] = "on"}
    OBVIOUS
  <2> DEFINE p == EffectivePath(settings)
  <2> Typed /\ FilesInv /\ JobsInv /\ AloneInv
    BY <1>1 DEF IInv
  <2>1. job[j] # Idle /\ job[j] \in JobRecords /\ OpInv(job[j]) /\ Alone(j)
    BY Busied DEF Ends, AloneInv
  <2>2. Launch
    BY <1>1, LastStep DEF Fetch, Store, Compare, FindActive, LoadRules, ReadFile, WriteRules,
       EndSaveConfig, RuntimeRestart
  <2>3. /\ p \in Paths /\ EffectivePath(settings') = p /\ settings'.port = settings.port
        /\ file'[p] = [Ensured(settings) EXCEPT !.port = settings.port]
        /\ file'[p].port = settings.port
        /\ Complete(file[p]) => file'[p].rules = file[p].rules
    BY <2>2, Launched DEF Launch, Typed
  <2>4. kernel'.path = p /\ kernel'.body = file'[p]
    BY <2>2, <2>3 DEF Launch
  <2>5. ASSUME job[j].op = "activate", ~job[j].hint, Complete(file[job[j].path])
        PROVE  kernel'.body.rules = {r \in Rules : rules[r] = "on"}
    <3>1. job[j].path \in Paths /\ settings.active = job[j].path
      BY <2>1, <2>5 DEF OpInv, Alone
    <3>2. p = job[j].path
      BY <3>1, PathsAssumption DEF EffectivePath
    <3>3. file[p].rules = Enabled
      BY <2>1, <2>5, <3>1, <3>2 DEF Alone, Applying
    <3> QED
      BY <2>3, <2>4, <2>5, <3>2, <3>3 DEF Enabled
  <2> QED
    BY <2>3, <2>4, <2>5
<1>2. IInv /\ [Next]_vars => [Live]_vars
  BY <1>1
<1> QED
  BY <1>2, Held, PTL DEF Spec, AppliedConfigIsLive
====
