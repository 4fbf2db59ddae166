-------------------------- MODULE LocalQueueProofs --------------------------
(***************************************************************************)
(* LocalQueue keeps one task per URL, tells the truth about what is saved, *)
(* and opens nothing else, for any sets of URLs and ids.  What makes the   *)
(* invariant inductive is that a file that is not torn is what was saved   *)
(* last, and that it is torn for as long as it is being written.           *)
(***************************************************************************)
EXTENDS LocalQueue, TLAPS

FileIsSaved ==
  /\ ~torn => file = saved
  /\ pc = "writing" => torn
  /\ \A t \in file : t.status = "Claimed" => t.claimedBy # Nobody

IInv == TypeOK /\ OneTaskPerUrl /\ OkIsSaved /\ FileIsSaved

---------------------------------------------------------------------------
\* What the calls put into `tasks`.
GoodTasks(S) ==
  /\ S \subseteq Task /\ UniqueUrl(S)
  /\ \A t \in S : t.status = "Claimed" => t.claimedBy # Nobody

LEMMA ChangeKeeps ==
  ASSUME IInv, NEW new, GoodTasks(new), Change(new)
  PROVE  IInv'
BY DEF IInv, TypeOK, OneTaskPerUrl, OkIsSaved, FileIsSaved, GoodTasks, Change, UniqueUrl

LEMMA ReplaceKeeps ==
  ASSUME IInv, NEW t \in tasks, NEW u \in Task, u.url = t.url,
         u.status = "Claimed" => u.claimedBy # Nobody,
         Replace(t, u)
  PROVE  IInv'
<1>1. GoodTasks((tasks \ {t}) \cup {u})
  BY DEF IInv, TypeOK, OneTaskPerUrl, UniqueUrl, GoodTasks
<1> QED BY <1>1, ChangeKeeps DEF Replace

LEMMA SyncGood ==
  ASSUME IInv, NEW list \in ServerList
  PROVE  GoodTasks(list \cup Kept(list))
<1>1. \A s \in list : \E i \in Id, u \in Url : s \in ServerTask(Fresh(i, u))
  BY DEF ServerList, ServerRows
<1>2. ASSUME NEW i \in Id, NEW u \in Url, NEW s \in ServerTask(Fresh(i, u))
      PROVE  s \in Task /\ (s.status = "Claimed" => s.claimedBy # Nobody)
  BY <1>2, DeviceAssumption DEF ServerTask, Fresh, Task, Status
<1>3. \A s \in list : s \in Task /\ (s.status = "Claimed" => s.claimedBy # Nobody)
  BY <1>1, <1>2
<1>4. \A t \in Kept(list) : t \in tasks /\ \A s \in list : s.url # t.url
  BY DEF Kept
<1>5. UniqueUrl(list)
  BY DEF ServerList
<1>6. UniqueUrl(list \cup Kept(list))
  BY <1>4, <1>5 DEF UniqueUrl, IInv, OneTaskPerUrl
<1> QED BY <1>3, <1>4, <1>6 DEF GoodTasks, IInv, TypeOK

LEMMA InitIInv == Init => IInv
  BY DEF Init, IInv, TypeOK, OneTaskPerUrl, UniqueUrl, OkIsSaved, FileIsSaved

LEMMA StepIInv == IInv /\ [Next]_vars => IInv'
<1> SUFFICES ASSUME IInv, [Next]_vars PROVE IInv'
  OBVIOUS
<1>1. ASSUME NEW i \in Id, NEW u \in Url, Add(i, u) PROVE IInv'
  <2>1. /\ Fresh(i, u) \in Task /\ Fresh(i, u).url = u
        /\ Fresh(i, u).status # "Claimed"
    BY DEF Fresh, Task, Status
  <2>2. UniqueUrl(tasks \cup {Fresh(i, u)})
    BY <1>1, <2>1 DEF Add, IInv, OneTaskPerUrl, UniqueUrl
  <2>3. GoodTasks(tasks \cup {Fresh(i, u)})
    BY <2>1, <2>2 DEF GoodTasks, IInv, TypeOK
  <2> QED BY <1>1, <2>3, ChangeKeeps DEF Add
<1>2. ASSUME NEW t \in tasks, Claim(t) \/ Complete(t) \/ ToQueued(t) PROVE IInv'
  <2>1. t \in Task
    BY DEF IInv, TypeOK
  <2>2. CASE Claim(t)
    BY <2>1, <2>2, ReplaceKeeps, DeviceAssumption DEF Claim, Task, Status
  <2>3. CASE Complete(t)
    BY <2>1, <2>3, ReplaceKeeps DEF Complete, Task, Status
  <2>4. CASE ToQueued(t)
    BY <2>1, <2>4, ReplaceKeeps DEF ToQueued, Task, Status
  <2> QED BY <1>2, <2>2, <2>3, <2>4
<1>3. ASSUME NEW t \in tasks, UpdateProgress(t) PROVE IInv'
  <2>1. GoodTasks(tasks)
    BY DEF IInv, TypeOK, OneTaskPerUrl, GoodTasks
  <2> QED BY <1>3, <2>1, ChangeKeeps DEF UpdateProgress
<1>4. ASSUME NEW list \in ServerList, Sync(list) PROVE IInv'
  BY <1>4, SyncGood, ChangeKeeps DEF Sync
<1>5. CASE SaveRefused \/ SaveTruncates \/ SaveBreaks \/ Saved
  BY <1>5 DEF SaveRefused, SaveTruncates, SaveBreaks, Saved,
              IInv, TypeOK, OneTaskPerUrl, UniqueUrl, OkIsSaved, FileIsSaved
<1>6. CASE Crash
  BY <1>6 DEF Crash, IInv, TypeOK, OneTaskPerUrl, UniqueUrl, OkIsSaved, FileIsSaved
<1>7. CASE Open
  BY <1>7 DEF Open, IInv, TypeOK, OneTaskPerUrl, OkIsSaved, FileIsSaved
<1>8. CASE UNCHANGED vars
  BY <1>8 DEF vars, IInv, TypeOK, OneTaskPerUrl, UniqueUrl, OkIsSaved, FileIsSaved
<1> QED BY <1>1, <1>2, <1>3, <1>4, <1>5, <1>6, <1>7, <1>8 DEF Next

---------------------------------------------------------------------------
LEMMA Inductive == Spec => []IInv
  BY InitIInv, StepIInv, PTL DEF Spec

\* The types, and no claimed task without a claimer, in memory and in the file.
THEOREM TypeCorrect == Spec => []TypeOK
<1>1. IInv => TypeOK
  BY DEF IInv
<1> QED BY <1>1, Inductive, PTL

\* OneTaskPerUrl: no order of local additions, merges of the server's list, failed
\* saves and restarts gives the queue two tasks of a URL (add_task,
\* sync_from_server).
THEOREM OneTaskPerUrlCorrect == Spec => []OneTaskPerUrl
<1>1. IInv => OneTaskPerUrl
  BY DEF IInv
<1> QED BY <1>1, Inductive, PTL

\* OkIsSaved: what a call reported as done is in the file (save).
THEOREM OkIsSavedCorrect == Spec => []OkIsSaved
<1>1. IInv => OkIsSaved
  BY DEF IInv
<1> QED BY <1>1, Inductive, PTL

\* OpensWhatWasSaved: a queue is opened with the last complete save or not at
\* all (load).
THEOREM OpensWhatWasSavedCorrect == Spec => OpensWhatWasSaved
<1>1. IInv /\ [Next]_vars => [pc = "down" /\ pc' = "idle" => tasks' = saved]_vars
  <2> SUFFICES ASSUME IInv, Next, pc = "down", pc' = "idle" PROVE tasks' = saved
    OBVIOUS
  <2>1. Open
    BY DEF Next, Add, Claim, Complete, UpdateProgress, ToQueued, Sync, Replace, Change,
           SaveRefused, SaveTruncates, SaveBreaks, Saved, Crash
  <2> QED BY <2>1 DEF Open, IInv, FileIsSaved
<1> QED BY <1>1, Inductive, PTL DEF Spec, OpensWhatWasSaved

\* NewTasksKept: a task added locally goes only when another one of its URL
\* takes its place (sync_from_server).
THEOREM NewTasksKeptCorrect == Spec => NewTasksKept
<1> DEFINE Keeps == pc = "idle" /\ pc' = "saving"
                    => \A t \in tasks : t.status = "New" => \E s \in tasks' : s.url = t.url
<1>1. IInv /\ [Next]_vars => [Keeps]_vars
  <2> SUFFICES ASSUME IInv, Next, pc = "idle", pc' = "saving",
                      NEW t \in tasks, t.status = "New"
               PROVE  \E s \in tasks' : s.url = t.url
    OBVIOUS
  <2>1. ASSUME NEW i \in Id, NEW u \in Url, Add(i, u) PROVE t \in tasks'
    BY <2>1 DEF Add, Change
  <2>2. ASSUME NEW k \in tasks, NEW r, r.url = k.url, Replace(k, r)
        PROVE  \E s \in tasks' : s.url = t.url
    BY <2>2 DEF Replace, Change
  <2>3. ASSUME NEW k \in tasks, Claim(k) \/ Complete(k) \/ ToQueued(k)
        PROVE  \E s \in tasks' : s.url = t.url
    <3>1. k \in Task
      BY DEF IInv, TypeOK
    <3>2. CASE Claim(k)    BY <2>2, <3>1, <3>2 DEF Claim, Task
    <3>3. CASE Complete(k) BY <2>2, <3>1, <3>3 DEF Complete, Task
    <3>4. CASE ToQueued(k) BY <2>2, <3>1, <3>4 DEF ToQueued, Task
    <3> QED BY <2>3, <3>2, <3>3, <3>4
  <2>4. ASSUME NEW k \in tasks, UpdateProgress(k) PROVE t \in tasks'
    BY <2>4 DEF UpdateProgress, Change
  <2>5. ASSUME NEW list \in ServerList, Sync(list) PROVE \E s \in tasks' : s.url = t.url
    BY <2>5 DEF Sync, Change, Kept
  <2>6. ~ (SaveRefused \/ SaveTruncates \/ SaveBreaks \/ Saved \/ Crash \/ Open)
    BY DEF SaveRefused, SaveTruncates, SaveBreaks, Saved, Crash, Open
  <2> QED BY <2>1, <2>3, <2>4, <2>5, <2>6 DEF Next
<1> QED BY <1>1, Inductive, PTL DEF Spec, NewTasksKept
=============================================================================
