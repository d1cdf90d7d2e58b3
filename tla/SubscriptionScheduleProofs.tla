--------------------- MODULE SubscriptionScheduleProofs ---------------------
(* Proofs about SubscriptionSchedule: an upgrade is not marked as done      *)
(* without a refresh, and the save at the end of an automatic round changes *)
(* the health fields only, for any set of subscriptions, any intervals,     *)
(* retries and backoffs, and any number of edits, failures and crashes.     *)
EXTENDS SubscriptionSchedule, TLAPS

-----------------------------------------------------------------------------
(* The invariant. Its core is CopyInv: what the round read before its save  *)
(* agrees with the stored list until somebody else writes, so that saving   *)
(* the copy loses nothing. The parts before it are what carries it through  *)
(* the steps: shapes, lists of entries, and that the loop has no download   *)
(* of its own under way while it saves.                                     *)

\* What the stored list and every copy of it are: entries, or gone.
Entry(sub) ==
  \/ sub = Gone
  \/ /\ DOMAIN sub = {"kind", "interval", "tried", "since", "backoff", "fails", "quota"}
     /\ sub.kind = "sub"
Listed(list) == DOMAIN list = Subs /\ \A s \in Subs : Entry(list[s])

Shaped ==
  /\ DOMAIN ui = {"list", "dirty", "event", "loading", "read", "told"}
  /\ DOMAIN loop = {"pc", "due", "seen", "patch", "patched", "age", "copy", "sleep"}
  /\ loop.due \subseteq Subs
  /\ DOMAIN upgrade = {"pc", "tries", "wait", "mark", "refreshed", "none", "shown"}
  /\ DOMAIN task = Actors
  /\ \A a \in Actors : DOMAIN task[a] = {"pc", "sub", "quota", "copy", "ok"} /\ task[a].sub \in Subs

ListsInv ==
  /\ Listed(db) /\ Listed(ui.list) /\ Listed(ui.read) /\ Listed(loop.copy)
  /\ \A a \in Actors : Listed(task[a].copy)

\* The loop downloads while it goes through what was due, and at no other time.
LoopInv == task["loop"].pc # "idle" => loop.pc = "pick"

\* Two lists with the same subscriptions, quotas and intervals.
Agree(list, other) ==
  \A s \in Subs : /\ (list[s] = Gone) = (other[s] = Gone)
                  /\ list[s] # Gone => /\ other[s].quota = list[s].quota
                                       /\ other[s].interval = list[s].interval

\* Unless somebody wrote, the list is still what the round read before its save.
CopyInv == loop.pc = "patchWrite" /\ ~touched => Agree(db, loop.copy)

IInv == Shaped /\ ListsInv /\ LoopInv /\ CopyInv /\ UpgradeNotForgotten

-----------------------------------------------------------------------------
(* The rules on lists, and the steps several actions share.                 *)

LEMMA EmptyList == Listed(NoList) /\ Listed(NoTask.copy) /\ Listed(LoopStart.copy)
BY DEF Listed, NoList, Entry, NoTask, LoopStart

LEMMA FreshEntry == \A interval : Entry(Fresh(interval)) /\ Fresh(interval) # Gone
BY DEF Entry, Fresh, Gone

LEMMA EditedList ==
  ASSUME NEW list, Listed(list), NEW s \in Subs, NEW sub, Entry(sub)
  PROVE  Listed([list EXCEPT ![s] = sub])
BY DEF Listed

\* The rules change entries in their place.
LEMMA UserinfoList ==
  ASSUME NEW list, Listed(list), NEW s \in Subs, NEW quota
  PROVE  Listed(WithUserinfo(list, s, quota))
<1> DEFINE sub == [list[s] EXCEPT !.quota = quota, !.since = IF list[s].tried THEN @ ELSE 0]
<1>1. CASE list[s] = Gone
  BY <1>1 DEF WithUserinfo
<1>2. CASE list[s] # Gone
  <2>1. Entry(sub)
    BY <1>2 DEF Listed, Entry
  <2>2. /\ DOMAIN WithUserinfo(list, s, quota) = Subs
        /\ \A t \in Subs : WithUserinfo(list, s, quota)[t] = IF t = s THEN sub ELSE list[t]
    BY <1>2 DEF WithUserinfo, Listed
  <2> HIDE DEF sub
  <2> QED
    BY <2>1, <2>2 DEF Listed
<1> QED
  BY <1>1, <1>2

LEMMA PatchedEntry ==
  ASSUME NEW sub, Entry(sub), sub # Gone, NEW patch, NEW age
  PROVE  LET new == Patched(sub, patch, age)
         IN  Entry(new) /\ new # Gone /\ new.quota = sub.quota /\ new.interval = sub.interval
BY DEF Entry, Patched, Gone

LEMMA AgedList ==
  ASSUME NEW list, Listed(list)
  PROVE  Listed(Aged(list)) /\ Agree(list, Aged(list))
<1>1. ASSUME NEW s \in Subs, list[s] # Gone
      PROVE  LET new == [list[s] EXCEPT !.since = Older(@, 1), !.backoff = Less(@, 1)]
             IN  Entry(new) /\ new # Gone /\ new.quota = list[s].quota /\ new.interval = list[s].interval
  BY <1>1 DEF Listed, Entry, Gone
<1> QED
  BY <1>1 DEF Aged, Listed, Agree, Entry

LEMMA StartedLoop ==
  ASSUME Shaped, LoopInv, LoopStarted
  PROVE  /\ DOMAIN loop' = DOMAIN loop /\ loop'.copy = loop.copy /\ loop'.due = loop.due
         /\ loop'.pc = loop.pc \/ (loop.pc = "off" /\ loop'.pc = "begin" /\ task["loop"].pc = "idle")
BY DEF Shaped, LoopInv, LoopStarted

\* A download that starts, or none, leaves the tasks well formed.
TasksKept == DOMAIN task' = Actors /\ \A b \in Actors : /\ DOMAIN task'[b] = DOMAIN task[b]
                                                       /\ task'[b].sub \in Subs
                                                       /\ Listed(task'[b].copy)

LEMMA StartedTask ==
  ASSUME Shaped, ListsInv, NEW a \in Actors,
         UNCHANGED task \/ \E s \in Subs : Download(a, s)
  PROVE  TasksKept
<1>1. CASE UNCHANGED task
  BY <1>1 DEF TasksKept, Shaped, ListsInv
<1>2. ASSUME NEW s \in Subs, Download(a, s) PROVE TasksKept
  <2> DEFINE new == [NoTask EXCEPT !.pc = "fetch", !.sub = s]
  <2>1. /\ DOMAIN new = {"pc", "sub", "quota", "copy", "ok"} /\ new.sub = s
        /\ new.copy = NoTask.copy
    BY DEF NoTask
  <2>2. task' = [task EXCEPT ![a] = new]
    BY <1>2 DEF Download
  <2> HIDE DEF new
  <2> QED
    BY <2>1, <2>2, EmptyList DEF Shaped, ListsInv, TasksKept
<1> QED
  BY <1>1, <1>2

-----------------------------------------------------------------------------
(* Every step keeps the invariant: one lemma for each action, and in it one *)
(* step for each part.                                                      *)

LEMMA FetchKeeps ==
  ASSUME IInv, NEW a \in Actors, Fetch(a)
  PROVE  IInv'
<1> Shaped /\ ListsInv /\ LoopInv /\ CopyInv /\ UpgradeNotForgotten
  BY DEF IInv
<1>1. Shaped'
  BY ActiveAssumption DEF Fetch, Shaped, Actors, Failed, NoTask, EndTask
<1>2. ListsInv'
  BY EmptyList DEF Fetch, ListsInv, Shaped, Actors, NoTask, EndTask
<1>3. LoopInv'
  BY DEF Fetch, LoopInv, Shaped, Actors, NoTask, EndTask
<1>4. CopyInv'
  BY DEF Fetch, CopyInv, Shaped, LoopInv, Agree, NoTask, EndTask
<1>5. UpgradeNotForgotten'
  BY DEF Fetch, UpgradeNotForgotten, Shaped, Failed, NoTask, EndTask
<1> QED
  BY <1>1, <1>2, <1>3, <1>4, <1>5 DEF IInv

LEMMA InfoReadKeeps ==
  ASSUME IInv, NEW a \in Actors, InfoRead(a)
  PROVE  IInv'
<1> Shaped /\ ListsInv /\ LoopInv /\ CopyInv /\ UpgradeNotForgotten
  BY DEF IInv
<1>1. Shaped'
  BY DEF InfoRead, Shaped, Actors, Failed, calm, Spend, EndTask
<1>2. ListsInv'
  BY EmptyList DEF InfoRead, ListsInv, Shaped, Actors, calm, Spend, EndTask
<1>3. LoopInv'
  BY DEF InfoRead, LoopInv, Shaped, Actors, calm, Spend, EndTask
<1>4. CopyInv'
  BY DEF InfoRead, CopyInv, Shaped, LoopInv, Agree, calm, Spend, EndTask
<1>5. UpgradeNotForgotten'
  BY DEF InfoRead, UpgradeNotForgotten, Shaped, Failed, calm, Spend, EndTask
<1> QED
  BY <1>1, <1>2, <1>3, <1>4, <1>5 DEF IInv

LEMMA InfoWriteKeeps ==
  ASSUME IInv, NEW a \in Actors, InfoWrite(a)
  PROVE  IInv'
<1> Shaped /\ ListsInv /\ LoopInv /\ CopyInv /\ UpgradeNotForgotten
  BY DEF IInv
<1>1. Shaped'
  BY DEF InfoWrite, Shaped, Actors, Failed, EndTask
<1>2. ListsInv'
  <2>1. Listed(db')
    BY UserinfoList DEF InfoWrite, Shaped, ListsInv
  <2>2. \A b \in Actors : Listed(task'[b].copy)
    BY EmptyList DEF InfoWrite, EndTask, Shaped, ListsInv
  <2> QED
    BY <2>1, <2>2 DEF InfoWrite, ListsInv
<1>3. LoopInv'
  BY DEF InfoWrite, LoopInv, Shaped, Actors, EndTask
<1>4. CopyInv'
  BY ZenonT(30) DEF InfoWrite, CopyInv, Shaped, LoopInv, Agree, EndTask
<1>5. UpgradeNotForgotten'
  BY DEF InfoWrite, UpgradeNotForgotten, Shaped, Failed, EndTask
<1> QED
  BY <1>1, <1>2, <1>3, <1>4, <1>5 DEF IInv

LEMMA RoundBeginKeeps ==
  ASSUME IInv, RoundBegin
  PROVE  IInv'
<1> Shaped /\ ListsInv /\ LoopInv /\ CopyInv /\ UpgradeNotForgotten
  BY DEF IInv
<1>1. Shaped'
  <2>1. ASSUME NEW due, NEW seen, due \subseteq Subs,
               loop' = [LoopStart EXCEPT !.pc = "pick", !.due = due, !.seen = seen]
        PROVE  DOMAIN loop' = DOMAIN LoopStart /\ loop'.due \subseteq Subs
    BY <2>1 DEF LoopStart
  <2>2. DOMAIN loop' = DOMAIN LoopStart /\ loop'.due \subseteq Subs
    <3>1. CASE loop' = [LoopStart EXCEPT !.pc = "interval"]
      BY <3>1 DEF LoopStart
    <3> QED
      BY <2>1, <3>1 DEF RoundBegin, Present
  <2> QED
    BY <2>2 DEF RoundBegin, Shaped, LoopStart
<1>2. ListsInv'
  BY EmptyList DEF RoundBegin, ListsInv, Shaped, Actors, Present, calm, Spend, LoopStart
<1>3. LoopInv'
  BY DEF RoundBegin, LoopInv, Shaped, Actors, Present, calm, Spend, LoopStart
<1>4. CopyInv'
  BY DEF RoundBegin, CopyInv, Shaped, LoopInv, Agree, Present, calm, Spend, LoopStart
<1>5. UpgradeNotForgotten'
  BY DEF RoundBegin, UpgradeNotForgotten, Shaped, Failed, Present, calm, Spend, LoopStart
<1> QED
  BY <1>1, <1>2, <1>3, <1>4, <1>5 DEF IInv

LEMMA RoundPickKeeps ==
  ASSUME IInv, RoundPick
  PROVE  IInv'
<1> Shaped /\ ListsInv /\ LoopInv /\ CopyInv /\ UpgradeNotForgotten
  BY DEF IInv
<1>1. Shaped'
  <2>1. UNCHANGED task \/ \E s \in Subs : Download("loop", s)
    BY DEF RoundPick, Shaped, Present
  <2>2. TasksKept
    BY <2>1, StartedTask DEF Actors
  <2> QED
    BY <2>2 DEF RoundPick, TasksKept, Shaped, Failed
<1>2. ListsInv'
  <2>1. UNCHANGED task \/ \E s \in Subs : Download("loop", s)
    BY DEF RoundPick, Shaped, Present
  <2>2. TasksKept
    BY <2>1, StartedTask DEF Actors
  <2> QED
    BY <2>2 DEF RoundPick, TasksKept, Shaped, ListsInv
<1>3. LoopInv'
  BY DEF RoundPick, LoopInv, Shaped, Actors, Download, NoTask
<1>4. CopyInv'
  BY DEF RoundPick, CopyInv, Shaped, LoopInv, Agree, Download, NoTask
<1>5. UpgradeNotForgotten'
  BY DEF RoundPick, UpgradeNotForgotten, Shaped, Failed, Download, NoTask
<1> QED
  BY <1>1, <1>2, <1>3, <1>4, <1>5 DEF IInv

LEMMA RoundResultKeeps ==
  ASSUME IInv, RoundResult
  PROVE  IInv'
<1> Shaped /\ ListsInv /\ LoopInv /\ CopyInv /\ UpgradeNotForgotten
  BY DEF IInv
<1>1. Shaped'
  BY ActiveAssumption DEF RoundResult, Shaped, Actors, Failed, NoTask
<1>2. ListsInv'
  BY EmptyList DEF RoundResult, ListsInv, Shaped, Actors, NoTask
<1>3. LoopInv'
  BY DEF RoundResult, LoopInv, Shaped, Actors, NoTask
<1>4. CopyInv'
  BY DEF RoundResult, CopyInv, Shaped, LoopInv, Agree, NoTask
<1>5. UpgradeNotForgotten'
  BY DEF RoundResult, UpgradeNotForgotten, Shaped, Failed, NoTask
<1> QED
  BY <1>1, <1>2, <1>3, <1>4, <1>5 DEF IInv

LEMMA PatchReadKeeps ==
  ASSUME IInv, PatchRead
  PROVE  IInv'
<1> Shaped /\ ListsInv /\ LoopInv /\ CopyInv /\ UpgradeNotForgotten
  BY DEF IInv
<1>1. Shaped'
  BY DEF PatchRead, Shaped, Actors, Failed, calm, Spend, LoopStart
<1>2. ListsInv'
  BY EmptyList DEF PatchRead, ListsInv, Shaped, Actors, calm, Spend, LoopStart
<1>3. LoopInv'
  BY DEF PatchRead, LoopInv, Shaped, Actors, calm, Spend, LoopStart
<1>4. CopyInv'
  BY DEF PatchRead, CopyInv, Shaped, LoopInv, Agree, calm, Spend, LoopStart
<1>5. UpgradeNotForgotten'
  BY DEF PatchRead, UpgradeNotForgotten, Shaped, Failed, calm, Spend, LoopStart
<1> QED
  BY <1>1, <1>2, <1>3, <1>4, <1>5 DEF IInv

LEMMA PatchWriteKeeps ==
  ASSUME IInv, PatchWrite
  PROVE  IInv'
<1> Shaped /\ ListsInv /\ LoopInv /\ CopyInv /\ UpgradeNotForgotten
  BY DEF IInv
<1>1. Shaped'
  BY DEF PatchWrite, Shaped, Actors, Failed, LoopStart
<1>2. ListsInv'
  <2>1. \A s \in Subs : Entry(loop.copy[s])
    BY DEF ListsInv, Listed
  <2>2. Listed(db')
    BY <2>1, PatchedEntry DEF PatchWrite, Listed
  <2>3. Listed(loop'.copy)
    BY EmptyList DEF PatchWrite, LoopStart
  <2> QED
    BY <2>2, <2>3 DEF PatchWrite, ListsInv
<1>3. LoopInv'
  BY DEF PatchWrite, LoopInv, Shaped, Actors, LoopStart
<1>4. CopyInv'
  BY DEF PatchWrite, CopyInv, Shaped, LoopInv, Agree, LoopStart
<1>5. UpgradeNotForgotten'
  BY DEF PatchWrite, UpgradeNotForgotten, Shaped, Failed, LoopStart
<1> QED
  BY <1>1, <1>2, <1>3, <1>4, <1>5 DEF IInv

LEMMA RoundEmitKeeps ==
  ASSUME IInv, RoundEmit
  PROVE  IInv'
<1> Shaped /\ ListsInv /\ LoopInv /\ CopyInv /\ UpgradeNotForgotten
  BY DEF IInv
<1>1. Shaped'
  BY DEF RoundEmit, Shaped, Actors, Failed, calm, Spend
<1>2. ListsInv'
  BY EmptyList DEF RoundEmit, ListsInv, Shaped, Actors, calm, Spend
<1>3. LoopInv'
  BY DEF RoundEmit, LoopInv, Shaped, Actors, calm, Spend
<1>4. CopyInv'
  BY DEF RoundEmit, CopyInv, Shaped, LoopInv, Agree, calm, Spend
<1>5. UpgradeNotForgotten'
  BY DEF RoundEmit, UpgradeNotForgotten, Shaped, Failed, calm, Spend
<1> QED
  BY <1>1, <1>2, <1>3, <1>4, <1>5 DEF IInv

LEMMA RoundSleepKeeps ==
  ASSUME IInv, RoundSleep
  PROVE  IInv'
<1> Shaped /\ ListsInv /\ LoopInv /\ CopyInv /\ UpgradeNotForgotten
  BY DEF IInv
<1>1. Shaped'
  BY DEF RoundSleep, Shaped, Actors, Failed, calm, Spend, LoopStart
<1>2. ListsInv'
  BY EmptyList DEF RoundSleep, ListsInv, Shaped, Actors, calm, Spend, LoopStart
<1>3. LoopInv'
  BY DEF RoundSleep, LoopInv, Shaped, Actors, calm, Spend, LoopStart
<1>4. CopyInv'
  BY DEF RoundSleep, CopyInv, Shaped, LoopInv, Agree, calm, Spend, LoopStart
<1>5. UpgradeNotForgotten'
  BY DEF RoundSleep, UpgradeNotForgotten, Shaped, Failed, calm, Spend, LoopStart
<1> QED
  BY <1>1, <1>2, <1>3, <1>4, <1>5 DEF IInv

LEMMA RoundWakeKeeps ==
  ASSUME IInv, RoundWake
  PROVE  IInv'
<1> Shaped /\ ListsInv /\ LoopInv /\ CopyInv /\ UpgradeNotForgotten
  BY DEF IInv
<1>1. Shaped'
  BY DEF RoundWake, Shaped, Actors, Failed, LoopStart
<1>2. ListsInv'
  BY EmptyList DEF RoundWake, ListsInv, Shaped, Actors, LoopStart
<1>3. LoopInv'
  BY DEF RoundWake, LoopInv, Shaped, Actors, LoopStart
<1>4. CopyInv'
  BY DEF RoundWake, CopyInv, Shaped, LoopInv, Agree, LoopStart
<1>5. UpgradeNotForgotten'
  BY DEF RoundWake, UpgradeNotForgotten, Shaped, Failed, LoopStart
<1> QED
  BY <1>1, <1>2, <1>3, <1>4, <1>5 DEF IInv

LEMMA UpgradeCheckKeeps ==
  ASSUME IInv, UpgradeCheck
  PROVE  IInv'
<1> Shaped /\ ListsInv /\ LoopInv /\ CopyInv /\ UpgradeNotForgotten
  BY DEF IInv
<1>1. Shaped'
  BY StartedLoop DEF UpgradeCheck, Shaped, Actors, Failed, calm, Spend
<1>2. ListsInv'
  BY StartedLoop, EmptyList DEF UpgradeCheck, ListsInv, Shaped, Actors, calm, Spend
<1>3. LoopInv'
  BY StartedLoop DEF UpgradeCheck, LoopInv, Shaped, Actors, calm, Spend
<1>4. CopyInv'
  BY StartedLoop DEF UpgradeCheck, CopyInv, Shaped, LoopInv, Agree, calm, Spend
<1>5. UpgradeNotForgotten'
  BY StartedLoop DEF UpgradeCheck, UpgradeNotForgotten, Shaped, Failed, calm, Spend
<1> QED
  BY <1>1, <1>2, <1>3, <1>4, <1>5 DEF IInv

LEMMA UpgradeAttemptKeeps ==
  ASSUME IInv, UpgradeAttempt
  PROVE  IInv'
<1> Shaped /\ ListsInv /\ LoopInv /\ CopyInv /\ UpgradeNotForgotten
  BY DEF IInv
<1>1. Shaped'
  <2>1. UNCHANGED task \/ \E s \in Subs : Download("upgrade", s)
    BY ActiveAssumption DEF UpgradeAttempt, Shaped, Present
  <2>2. TasksKept
    BY <2>1, StartedTask DEF Actors
  <2> QED
    BY StartedLoop, <2>2 DEF UpgradeAttempt, TasksKept, Shaped, Failed
<1>2. ListsInv'
  <2>1. UNCHANGED task \/ \E s \in Subs : Download("upgrade", s)
    BY ActiveAssumption DEF UpgradeAttempt, Shaped, Present
  <2>2. TasksKept
    BY <2>1, StartedTask DEF Actors
  <2> QED
    BY StartedLoop, <2>2 DEF UpgradeAttempt, TasksKept, Shaped, ListsInv
<1>3. LoopInv'
  BY StartedLoop DEF UpgradeAttempt, LoopInv, Shaped, Actors, Failed, Download, NoTask
<1>4. CopyInv'
  BY StartedLoop DEF UpgradeAttempt, CopyInv, Shaped, LoopInv, Agree, Failed, Download, NoTask
<1>5. UpgradeNotForgotten'
  BY ZenonT(30), StartedLoop DEF UpgradeAttempt, UpgradeNotForgotten, Shaped, Failed, Download, NoTask
<1> QED
  BY <1>1, <1>2, <1>3, <1>4, <1>5 DEF IInv

LEMMA UpgradeResultKeeps ==
  ASSUME IInv, UpgradeResult
  PROVE  IInv'
<1> Shaped /\ ListsInv /\ LoopInv /\ CopyInv /\ UpgradeNotForgotten
  BY DEF IInv
<1>1. Shaped'
  BY StartedLoop, ActiveAssumption DEF UpgradeResult, Shaped, Actors, Failed, NoTask, calm,
     Spend
<1>2. ListsInv'
  BY StartedLoop, EmptyList DEF UpgradeResult, ListsInv, Shaped, Actors, Failed, NoTask,
     calm, Spend
<1>3. LoopInv'
  BY StartedLoop DEF UpgradeResult, LoopInv, Shaped, Actors, Failed, NoTask, calm, Spend
<1>4. CopyInv'
  BY StartedLoop DEF UpgradeResult, CopyInv, Shaped, LoopInv, Agree, Failed, NoTask, calm, Spend
<1>5. UpgradeNotForgotten'
  BY ZenonT(30), StartedLoop DEF UpgradeResult, UpgradeNotForgotten, Shaped, Failed, NoTask, calm, Spend
<1> QED
  BY <1>1, <1>2, <1>3, <1>4, <1>5 DEF IInv

LEMMA UpgradeTimeoutKeeps ==
  ASSUME IInv, UpgradeTimeout
  PROVE  IInv'
<1> Shaped /\ ListsInv /\ LoopInv /\ CopyInv /\ UpgradeNotForgotten
  BY DEF IInv
<1>1. Shaped'
  BY StartedLoop, ActiveAssumption DEF UpgradeTimeout, Shaped, Actors, Failed, NoTask
<1>2. ListsInv'
  BY StartedLoop, EmptyList DEF UpgradeTimeout, ListsInv, Shaped, Actors, Failed, NoTask
<1>3. LoopInv'
  BY StartedLoop DEF UpgradeTimeout, LoopInv, Shaped, Actors, Failed, NoTask
<1>4. CopyInv'
  BY StartedLoop DEF UpgradeTimeout, CopyInv, Shaped, LoopInv, Agree, Failed, NoTask
<1>5. UpgradeNotForgotten'
  BY StartedLoop DEF UpgradeTimeout, UpgradeNotForgotten, Shaped, Failed, NoTask
<1> QED
  BY <1>1, <1>2, <1>3, <1>4, <1>5 DEF IInv

LEMMA UpgradeRetryKeeps ==
  ASSUME IInv, UpgradeRetry
  PROVE  IInv'
<1> Shaped /\ ListsInv /\ LoopInv /\ CopyInv /\ UpgradeNotForgotten
  BY DEF IInv
<1>1. Shaped'
  BY DEF UpgradeRetry, Shaped, Actors, Failed
<1>2. ListsInv'
  BY EmptyList DEF UpgradeRetry, ListsInv, Shaped, Actors
<1>3. LoopInv'
  BY DEF UpgradeRetry, LoopInv, Shaped, Actors
<1>4. CopyInv'
  BY DEF UpgradeRetry, CopyInv, Shaped, LoopInv, Agree
<1>5. UpgradeNotForgotten'
  BY DEF UpgradeRetry, UpgradeNotForgotten, Shaped, Failed
<1> QED
  BY <1>1, <1>2, <1>3, <1>4, <1>5 DEF IInv

LEMMA UiEditKeeps ==
  ASSUME IInv, UiEdit
  PROVE  IInv'
<1> Shaped /\ ListsInv /\ LoopInv /\ CopyInv /\ UpgradeNotForgotten
  BY DEF IInv
<1>1. Shaped'
  BY DEF UiEdit, Shaped, Actors, Failed, Edit, Spend
<1>2. ListsInv'
  <2>1. PICK s \in Subs :
           \/ \E i \in Intervals : ui.list[s] # Gone /\ Edit([ui.list EXCEPT ![s].interval = i])
           \/ Edit([ui.list EXCEPT ![s] = Gone])
           \/ \E i \in Intervals : Edit([ui.list EXCEPT ![s] = Fresh(i)])
    BY DEF UiEdit
  <2>2. ASSUME NEW i, ui.list[s] # Gone PROVE Listed([ui.list EXCEPT ![s].interval = i])
    <3>1. Entry([ui.list[s] EXCEPT !.interval = i])
      BY <2>2 DEF ListsInv, Listed, Entry
    <3> QED
      BY <3>1, EditedList DEF ListsInv, Listed
  <2>3. Listed([ui.list EXCEPT ![s] = Gone]) /\ \A i : Listed([ui.list EXCEPT ![s] = Fresh(i)])
    BY FreshEntry, EditedList DEF ListsInv, Entry
  <2>4. \E list : Listed(list) /\ Edit(list)
    BY <2>1, <2>2, <2>3
  <2> QED
    BY <2>4 DEF UiEdit, Edit, Shaped, ListsInv
<1>3. LoopInv'
  BY DEF UiEdit, LoopInv, Shaped, Actors, Edit, Spend
<1>4. CopyInv'
  BY DEF UiEdit, CopyInv, Shaped, LoopInv, Agree, Edit, Spend
<1>5. UpgradeNotForgotten'
  BY DEF UiEdit, UpgradeNotForgotten, Shaped, Failed, Edit, Spend
<1> QED
  BY <1>1, <1>2, <1>3, <1>4, <1>5 DEF IInv

LEMMA UiSaveKeeps ==
  ASSUME IInv, UiSave
  PROVE  IInv'
<1> Shaped /\ ListsInv /\ LoopInv /\ CopyInv /\ UpgradeNotForgotten
  BY DEF IInv
<1>1. Shaped'
  BY DEF UiSave, Shaped, Actors, Failed, calm, Spend
<1>2. ListsInv'
  BY EmptyList DEF UiSave, ListsInv, Shaped, Actors, calm, Spend
<1>3. LoopInv'
  BY DEF UiSave, LoopInv, Shaped, Actors, calm, Spend
<1>4. CopyInv'
  BY ZenonT(30) DEF UiSave, CopyInv, Shaped, LoopInv, Agree, calm, Spend
<1>5. UpgradeNotForgotten'
  BY DEF UiSave, UpgradeNotForgotten, Shaped, Failed, calm, Spend
<1> QED
  BY <1>1, <1>2, <1>3, <1>4, <1>5 DEF IInv

LEMMA UiLoadKeeps ==
  ASSUME IInv, UiLoad
  PROVE  IInv'
<1> Shaped /\ ListsInv /\ LoopInv /\ CopyInv /\ UpgradeNotForgotten
  BY DEF IInv
<1>1. Shaped'
  BY DEF UiLoad, Shaped, Actors, Failed
<1>2. ListsInv'
  BY EmptyList DEF UiLoad, ListsInv, Shaped, Actors
<1>3. LoopInv'
  BY DEF UiLoad, LoopInv, Shaped, Actors
<1>4. CopyInv'
  BY DEF UiLoad, CopyInv, Shaped, LoopInv, Agree
<1>5. UpgradeNotForgotten'
  BY DEF UiLoad, UpgradeNotForgotten, Shaped, Failed
<1> QED
  BY <1>1, <1>2, <1>3, <1>4, <1>5 DEF IInv

LEMMA UiAssignKeeps ==
  ASSUME IInv, UiAssign
  PROVE  IInv'
<1> Shaped /\ ListsInv /\ LoopInv /\ CopyInv /\ UpgradeNotForgotten
  BY DEF IInv
<1>1. Shaped'
  BY DEF UiAssign, Shaped, Actors, Failed
<1>2. ListsInv'
  BY EmptyList DEF UiAssign, ListsInv, Shaped, Actors
<1>3. LoopInv'
  BY DEF UiAssign, LoopInv, Shaped, Actors
<1>4. CopyInv'
  BY DEF UiAssign, CopyInv, Shaped, LoopInv, Agree
<1>5. UpgradeNotForgotten'
  BY DEF UiAssign, UpgradeNotForgotten, Shaped, Failed
<1> QED
  BY <1>1, <1>2, <1>3, <1>4, <1>5 DEF IInv

LEMMA UserRefreshKeeps ==
  ASSUME IInv, UserRefresh
  PROVE  IInv'
<1> Shaped /\ ListsInv /\ LoopInv /\ CopyInv /\ UpgradeNotForgotten
  BY DEF IInv
<1>1. Shaped'
  <2>1. \E s \in Subs : Download("user", s)
    BY DEF UserRefresh, Shaped, Present
  <2>2. TasksKept
    BY <2>1, StartedTask DEF Actors
  <2> QED
    BY <2>2 DEF UserRefresh, TasksKept, Shaped, Failed
<1>2. ListsInv'
  <2>1. \E s \in Subs : Download("user", s)
    BY DEF UserRefresh, Shaped, Present
  <2>2. TasksKept
    BY <2>1, StartedTask DEF Actors
  <2> QED
    BY <2>2 DEF UserRefresh, TasksKept, Shaped, ListsInv
<1>3. LoopInv'
  BY DEF UserRefresh, LoopInv, Shaped, Actors, Download, NoTask, Spend
<1>4. CopyInv'
  BY DEF UserRefresh, CopyInv, Shaped, LoopInv, Agree, Download, NoTask, Spend
<1>5. UpgradeNotForgotten'
  BY DEF UserRefresh, UpgradeNotForgotten, Shaped, Failed, Download, NoTask, Spend
<1> QED
  BY <1>1, <1>2, <1>3, <1>4, <1>5 DEF IInv

LEMMA UserResultKeeps ==
  ASSUME IInv, UserResult
  PROVE  IInv'
<1> Shaped /\ ListsInv /\ LoopInv /\ CopyInv /\ UpgradeNotForgotten
  BY DEF IInv
<1>1. Shaped'
  BY ActiveAssumption DEF UserResult, Shaped, Actors, Failed, Edit, NoTask
<1>2. ListsInv'
  <2>1. \E list : Listed(list) /\ Edit(list)
    BY UserinfoList DEF UserResult, Shaped, ListsInv, Actors
  <2>2. \A b \in Actors : Listed(task'[b].copy)
    BY EmptyList DEF UserResult, Shaped, ListsInv
  <2> QED
    BY <2>1, <2>2 DEF UserResult, Edit, Shaped, ListsInv
<1>3. LoopInv'
  BY DEF UserResult, LoopInv, Shaped, Actors, Edit, NoTask
<1>4. CopyInv'
  BY DEF UserResult, CopyInv, Shaped, LoopInv, Agree, Edit, NoTask
<1>5. UpgradeNotForgotten'
  BY DEF UserResult, UpgradeNotForgotten, Shaped, Failed, Edit, NoTask
<1> QED
  BY <1>1, <1>2, <1>3, <1>4, <1>5 DEF IInv

LEMMA TickKeeps ==
  ASSUME IInv, Tick
  PROVE  IInv'
<1> Shaped /\ ListsInv /\ LoopInv /\ CopyInv /\ UpgradeNotForgotten
  BY DEF IInv
<1>1. Shaped'
  BY DEF Tick, Shaped, Actors, Failed
<1>2. ListsInv'
  <2>1. Listed(db') /\ Listed(ui'.list) /\ ui'.read = ui.read /\ loop'.copy = loop.copy
    BY AgedList DEF Tick, Shaped, ListsInv
  <2> QED
    BY <2>1 DEF Tick, ListsInv
<1>3. LoopInv'
  BY DEF Tick, LoopInv, Shaped, Actors
<1>4. CopyInv'
  BY DEF Tick, CopyInv, Shaped, LoopInv, Agree
<1>5. UpgradeNotForgotten'
  BY DEF Tick, UpgradeNotForgotten, Shaped, Failed
<1> QED
  BY <1>1, <1>2, <1>3, <1>4, <1>5 DEF IInv

LEMMA CrashKeeps ==
  ASSUME IInv, Crash
  PROVE  IInv'
<1> Shaped /\ ListsInv /\ LoopInv /\ CopyInv /\ UpgradeNotForgotten
  BY DEF IInv
<1>1. Shaped'
  BY ActiveAssumption DEF Crash, Shaped, Actors, Failed, UiStart, LoopStart, NoTask, Spend
<1>2. ListsInv'
  BY EmptyList DEF Crash, ListsInv, Shaped, Actors, UiStart, LoopStart, NoTask, Spend
<1>3. LoopInv'
  BY DEF Crash, LoopInv, Shaped, Actors, UiStart, LoopStart, NoTask, Spend
<1>4. CopyInv'
  BY DEF Crash, CopyInv, Shaped, LoopInv, Agree, UiStart, LoopStart, NoTask, Spend
<1>5. UpgradeNotForgotten'
  BY DEF Crash, UpgradeNotForgotten, Shaped, Failed, UiStart, LoopStart, NoTask, Spend
<1> QED
  BY <1>1, <1>2, <1>3, <1>4, <1>5 DEF IInv

-----------------------------------------------------------------------------
(* The invariant holds in every state.                                      *)

LEMMA Starts == Init => IInv
<1> SUFFICES ASSUME Init PROVE IInv
  OBVIOUS
<1>1. Shaped
  BY ActiveAssumption DEF Init, Shaped, UiStart, LoopStart, NoTask, Actors
<1>2. Listed(db)
  <2>1. \A s \in Subs : Entry(db[s])
    BY FreshEntry DEF Init
  <2> QED
    BY <2>1 DEF Init, Listed
<1>3. ListsInv
  BY <1>2, EmptyList DEF Init, ListsInv, UiStart, LoopStart
<1>4. LoopInv /\ CopyInv /\ UpgradeNotForgotten
  BY DEF Init, LoopInv, CopyInv, UpgradeNotForgotten, Actors, NoTask, LoopStart
<1> QED
  BY <1>1, <1>3, <1>4 DEF IInv

LEMMA Stutters ==
  ASSUME IInv, UNCHANGED vars
  PROVE  IInv'
<1> Shaped /\ ListsInv /\ LoopInv /\ CopyInv /\ UpgradeNotForgotten
  BY DEF IInv
<1> /\ db' = db /\ ui' = ui /\ loop' = loop /\ task' = task
    /\ upgrade' = upgrade /\ touched' = touched
  BY DEF vars
<1> QED
  BY DEF IInv, Shaped, ListsInv, LoopInv, CopyInv, UpgradeNotForgotten, Listed, Entry, Agree

LEMMA Step == IInv /\ [Next]_vars => IInv'
<1> SUFFICES ASSUME IInv, [Next]_vars PROVE IInv'
  OBVIOUS
<1>1. CASE LoopStep
  BY <1>1, RoundBeginKeeps, RoundPickKeeps, RoundResultKeeps, PatchReadKeeps, PatchWriteKeeps,
     RoundEmitKeeps, RoundSleepKeeps, RoundWakeKeeps DEF LoopStep
<1>2. CASE UpgradeStep \/ UpgradeTimeout
  BY <1>2, UpgradeCheckKeeps, UpgradeAttemptKeeps, UpgradeResultKeeps, UpgradeRetryKeeps,
     UpgradeTimeoutKeeps DEF UpgradeStep
<1>3. CASE UiStep \/ UiEdit \/ UserRefresh
  BY <1>3, UiSaveKeeps, UiLoadKeeps, UiAssignKeeps, UserResultKeeps, UiEditKeeps,
     UserRefreshKeeps DEF UiStep
<1>4. ASSUME NEW a \in Actors, TaskStep(a) PROVE IInv'
  BY <1>4, FetchKeeps, InfoReadKeeps, InfoWriteKeeps DEF TaskStep
<1>5. CASE Tick \/ Crash
  BY <1>5, TickKeeps, CrashKeeps
<1>6. CASE UNCHANGED vars
  BY <1>6, Stutters
<1> QED
  BY <1>1, <1>2, <1>3, <1>4, <1>5, <1>6 DEF Next

LEMMA Held == Spec => []IInv
BY Starts, Step, PTL DEF Spec

-----------------------------------------------------------------------------
(* What it gives.                                                           *)

\* A version is marked as launched only when the active subscription has been
\* refreshed under it, or there was none, whatever failed, was cancelled or
\* crashed before (run_upgrade_subscription_refresh).
THEOREM UpgradesAreRefreshed == Spec => []UpgradeNotForgotten
<1>1. IInv => UpgradeNotForgotten
  BY DEF IInv
<1> QED
  BY <1>1, Held, PTL

\* The save at the end of a round changes health fields and nothing else when
\* nobody has written the list since that save read it (save_health_patches):
\* what the frontend, the user and the round's own downloads wrote before
\* stands.
THEOREM RoundsWriteHealthOnly == Spec => RoundWritesHealthOnly
<1> DEFINE HealthOnly ==
      \A s \in Subs : /\ (db[s] = Gone) = (db'[s] = Gone)
                      /\ db[s] # Gone => /\ db'[s].quota = db[s].quota
                                         /\ db'[s].interval = db[s].interval
<1>1. ASSUME IInv, PatchWrite, ~touched PROVE HealthOnly
  <2>1. Agree(db, loop.copy) /\ Listed(loop.copy)
    BY <1>1 DEF IInv, CopyInv, ListsInv, PatchWrite
  <2>2. Agree(loop.copy, db')
    BY <1>1, <2>1, PatchedEntry DEF PatchWrite, Agree, Listed
  <2> QED
    BY <2>1, <2>2 DEF Agree
<1>2. IInv /\ [Next]_vars => [PatchWrite /\ ~touched => HealthOnly]_vars
  BY <1>1
<1> QED
  BY <1>2, Held, PTL DEF Spec, RoundWritesHealthOnly
====
