----------------------------- MODULE LocalQueue -----------------------------
(***************************************************************************)
(* LocalQueue (client/queue.rs): the tasks a device knows, in memory and in*)
(* queue_state.json, which save() rewrites after every change.  A call is  *)
(* two steps, the change in memory and the writing of the file; the process*)
(* may stop or the file system fail in between.  A call that finds no task *)
(* or is refused changes nothing and is left out.                          *)
(***************************************************************************)
CONSTANTS Url,
          Id,    \* task ids: those that Task::new draws, and the server's
          Me,    \* this device
          Other, \* another device of the team
          Nobody

ASSUME DeviceAssumption == Nobody \notin {Me, Other}

VARIABLES
  tasks,   \* LocalQueue.tasks, as a set
  file,    \* queue_state.json: the tasks in it
  torn,    \* it was truncated and not written completely since
  pc,      \* "idle", "saving", "writing", or "down": no queue is open
  ok,      \* the last call returned Ok
  saved    \* history: what the last complete save wrote

vars == <<tasks, file, torn, pc, ok, saved>>

Status == {"New", "Queued", "Claimed", "Complete"}
\* `path` stands for local_path and file_size; progress is left out.
Task   == [id: Id, url: Url, status: Status, claimedBy: {Me, Other, Nobody}, path: BOOLEAN]

Fresh(i, u) == [id |-> i, url |-> u, status |-> "New", claimedBy |-> Nobody, path |-> FALSE]
\* What a list of the server may hold: no URL twice, no task in status New.
ServerRows == {Fresh(i, u) : i \in Id, u \in Url}
ServerTask(t) == {[t EXCEPT !.status = "Queued"],
                  [t EXCEPT !.status = "Claimed", !.claimedBy = Other],
                  [t EXCEPT !.status = "Complete", !.claimedBy = Other, !.path = TRUE]}
UniqueUrl(S)  == \A s, t \in S : s.url = t.url => s = t
UniqueId(S)   == \A s, t \in S : s.id = t.id => s = t
ServerList == {S \in SUBSET UNION {ServerTask(t) : t \in ServerRows} :
                 UniqueUrl(S) /\ UniqueId(S)}

---------------------------------------------------------------------------
Change(new) ==
  /\ pc = "idle"
  /\ tasks' = new
  /\ pc' = "saving"
  /\ UNCHANGED <<file, torn, ok, saved>>

Replace(t, u) == Change((tasks \ {t}) \cup {u})

Add(i, u) ==
  /\ \A t \in tasks : t.url # u /\ t.id # i
  /\ Change(tasks \cup {Fresh(i, u)})

Claim(t) ==
  /\ t.status = "Queued"
  /\ Replace(t, [t EXCEPT !.status = "Claimed", !.claimedBy = Me])

Complete(t) == Replace(t, [t EXCEPT !.status = "Complete", !.path = TRUE])

UpdateProgress(t) == Change(tasks)

ToQueued(t) == Replace(t, [t EXCEPT !.status = "Queued"])

\* Mutants: local tasks are told from the server's by their id; they are not kept.
KeptById(list)   == {t \in tasks : t.status = "New" /\ \A s \in list : s.id # t.id}
KeptNone(list)   == {}
Kept(list)       == {t \in tasks : t.status = "New" /\ \A s \in list : s.url # t.url}

\* An id the server drew is none that this device drew for another URL.
Sync(list) ==
  /\ \A s \in list, t \in tasks : s.id = t.id => s.url = t.url
  /\ Change(list \cup Kept(list))

\* create_dir_all, or opening the file, fails.
SaveRefused ==
  /\ pc = "saving"
  /\ pc' = "idle" /\ ok' = FALSE
  /\ UNCHANGED <<tasks, file, torn, saved>>

\* fs::write first truncates the file.
SaveTruncates ==
  /\ pc = "saving"
  /\ pc' = "writing" /\ file' = {} /\ torn' = TRUE
  /\ UNCHANGED <<tasks, ok, saved>>

\* Mutant: an error of fs::write is ignored.
SaveBreaksSilently ==
  /\ pc = "writing"
  /\ pc' = "idle" /\ ok' = TRUE
  /\ UNCHANGED <<tasks, file, torn, saved>>

SaveBreaks ==
  /\ pc = "writing"
  /\ pc' = "idle" /\ ok' = FALSE
  /\ UNCHANGED <<tasks, file, torn, saved>>

Saved ==
  /\ pc = "writing"
  /\ file' = tasks /\ torn' = FALSE /\ saved' = tasks
  /\ pc' = "idle" /\ ok' = TRUE
  /\ UNCHANGED tasks

Crash ==
  /\ pc # "down"
  /\ pc' = "down" /\ tasks' = {} /\ ok' = FALSE
  /\ UNCHANGED <<file, torn, saved>>

\* Mutant: what cannot be parsed is an empty queue, as in history.rs.
OpenAnything ==
  /\ pc = "down"
  /\ tasks' = file
  /\ pc' = "idle" /\ ok' = TRUE
  /\ UNCHANGED <<file, torn, saved>>

\* serde_json refuses a torn file: new() fails then, and goes on failing.
Open ==
  /\ pc = "down"
  /\ ~torn
  /\ tasks' = file
  /\ pc' = "idle" /\ ok' = TRUE
  /\ UNCHANGED <<file, torn, saved>>

Init == tasks = {} /\ file = {} /\ pc = "idle" /\ ok = TRUE /\ torn = FALSE /\ saved = {}

Next ==
  \/ \E i \in Id, u \in Url : Add(i, u)
  \/ \E t \in tasks : Claim(t) \/ Complete(t) \/ UpdateProgress(t) \/ ToQueued(t)
  \/ \E list \in ServerList : Sync(list)
  \/ SaveRefused \/ SaveTruncates \/ SaveBreaks \/ Saved
  \/ Crash \/ Open

Spec == Init /\ [][Next]_vars

---------------------------------------------------------------------------
\* The types; and a claimed task has a claimer.
TypeOK ==
  /\ tasks \subseteq Task
  /\ \A t \in tasks : t.status = "Claimed" => t.claimedBy # Nobody
  /\ file \subseteq Task /\ torn \in BOOLEAN
  /\ pc \in {"idle", "saving", "writing", "down"}
  /\ ok \in BOOLEAN
  /\ saved \subseteq Task

\* The queue never holds two tasks of one URL, whatever is added locally and
\* synchronised before the other side knows it (add_task, sync_from_server).
OneTaskPerUrl == UniqueUrl(tasks) /\ UniqueUrl(file)

\* A call that returned Ok is on disk: a restart then finds what it did.
OkIsSaved == pc = "idle" /\ ok => file = tasks /\ ~torn

\* A task added locally is dropped only for one of the same URL, or by a stop
\* of the process (sync_from_server: local new tasks are kept).
NewTasksKept ==
  [][/\ pc = "idle" /\ pc' = "saving"
     => \A t \in tasks : t.status = "New" => \E s \in tasks' : s.url = t.url]_vars

\* After a stop at any step a queue is opened with what the last complete save
\* wrote, or not at all: an empty queue never takes the place of a torn file
\* (load; the server's list would be merged with nothing).
OpensWhatWasSaved == [][pc = "down" /\ pc' = "idle" => tasks' = saved]_vars
=============================================================================
