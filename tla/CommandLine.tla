---------------------------- MODULE CommandLine ----------------------------
(***************************************************************************)
(* The command line (main.rs) on top of History: a program downloads the   *)
(* videos of a batch one after the other and records each, or it works on  *)
(* history and bookmarks.  The user may start several programs at a time   *)
(* and stop any of them at any step.                                       *)
(*                                                                         *)
(* What a program has to do is a sequence of jobs.  --gui, the server and  *)
(* the team commands do not touch these files.  A torn config.toml ends    *)
(* every program at its start, without a change; --init-config writes the  *)
(* file only if there is none.                                             *)
(***************************************************************************)
EXTENDS History

CONSTANTS Batches,  \* what batch files may hold
          MaxRuns   \* bound on the programs that are started

ASSUME BatchAssumption == Batches \subseteq Seq(Url)
ASSUME BoundAssumption == MaxRuns \in Nat

VARIABLES
  todo,         \* the jobs each program has left
  config_file,  \* config.toml
  runs,
  alone,   \* history: no other program ran since this one was started
  calm,    \* history: nothing has happened that may lose an entry
  log, marks  \* history: the entries and bookmarks a program may count on

past == <<log, marks, calm>>
vars == <<files, lists, step, todo, config_file, runs, alone, past>>

Job    == Entry \cup [op: {"bookmark"}, url: Url] \cup [op: {"clear"}, url: {NoUrl}]
Program ==
  {[k \in DOMAIN s |-> [op |-> op, url |-> s[k]]] : op \in {"direct", "ytdlp"}, s \in Batches}
  \cup {<<[op |-> "bookmark", url |-> u]>> : u \in Url}
  \cup {<<[op |-> "clear", url |-> NoUrl]>>}

Running(p)   == step[p] # "closed"
OthersRun(p) == \E q \in Prog \ {p} : Running(q)
Job1(p)      == Head(todo[p])
HasJob(p, ops) == step[p] = "open" /\ todo[p] # <<>> /\ Job1(p).op \in ops

\* Whether a program that ends at this step leaves files behind that are not
\* what they were.
Interrupts(p) == step[p] \in {"writeHistory", "saveBookmarks", "writeBookmarks", "writeConfig"}

\* From here on an entry may be lost; nothing is counted on.
Disturbed == calm' = FALSE /\ log' = <<>> /\ marks' = <<>>
DisturbedIf(condition) == IF condition THEN Disturbed ELSE UNCHANGED past

---------------------------------------------------------------------------
(* Starting and ending.                                                    *)

Begins(p) ==
  /\ runs < MaxRuns
  /\ runs' = runs + 1
  /\ alone' = [q \in Prog |-> q = p /\ ~OthersRun(p)]
  /\ DisturbedIf(OthersRun(p))

Start(p, jobs) ==
  /\ Begins(p)
  /\ config_file # "torn"
  /\ New(p)
  /\ todo' = [todo EXCEPT ![p] = jobs]
  /\ UNCHANGED config_file

\* Every --init-config writes the same text.
ConfigLeft == IF config_file = "whole" THEN {"whole"} ELSE {config_file, "torn", "whole"}

Ends(p) ==
  /\ todo' = [todo EXCEPT ![p] = <<>>]
  /\ config_file' \in IF step[p] = "writeConfig" THEN ConfigLeft ELSE {config_file}
  /\ Drop(p)
  /\ DisturbedIf(Interrupts(p))
  /\ alone' = [alone EXCEPT ![p] = FALSE]
  /\ UNCHANGED runs

Finish(p) == step[p] = "open" /\ todo[p] = <<>> /\ Ends(p)

\* Every error that run and run_history_commands pass on with `?`: no yt-dlp, a
\* batch file that cannot be read, no video info, a direct download that failed
\* after its retries, a yt-dlp that cannot be started.  The rest of the batch is
\* left.
Abort(p) == step[p] = "open" /\ todo[p] # <<>> /\ Ends(p)

\* So do the errors of History::new and of save; only those of a bookmark are
\* printed, and it is the program's last job.
Fail(p) == (LoadFails(p) \/ SaveMayFail(p)) /\ Ends(p)

Stop(p) == Running(p) /\ Ends(p)

---------------------------------------------------------------------------
(* The jobs.                                                               *)

Quiet == UNCHANGED <<todo, config_file, runs, alone, past>>

Load(p)       == (LoadHistory(p) \/ LoadBookmarks(p)) /\ Quiet

\* download_direct returns Ok, as it also does for a file that lacks segments.
DirectDownloaded(p) ==
  /\ HasJob(p, {"direct"})
  /\ add_entry(p, Job1(p))
  /\ Quiet

\* download_with_ytdlp returns Ok also when yt-dlp ended with an error, and the
\* video is recorded.
YtDlpRun(p) ==
  /\ HasJob(p, {"ytdlp"})
  /\ add_entry(p, Job1(p))
  /\ Quiet

Bookmark(p) ==
  /\ HasJob(p, {"bookmark"})
  /\ add_bookmark(p, Job1(p).url)
  /\ Quiet

BookmarkExists(p) ==
  /\ HasJob(p, {"bookmark"})
  /\ Has(bookmarks[p], Job1(p).url)
  /\ Ends(p)

ClearHistory(p) ==
  /\ HasJob(p, {"clear"})
  /\ clear(p)
  /\ Quiet

\* What a completed save leaves behind; a program that has been alone may count
\* on it, whatever had been lost before.
Recorded(p) ==
  IF ~alone[p] THEN UNCHANGED past
  ELSE IF ~calm
  THEN calm' = TRUE /\ log' = entries[p] /\ marks' = bookmarks[p]
  ELSE /\ log' = CASE Job1(p).op = "clear"    -> <<>>
                   [] Job1(p).op = "bookmark" -> log
                   [] OTHER                   -> <<Job1(p)>> \o log
       /\ marks' = IF Job1(p).op = "bookmark" THEN Append(marks, Job1(p).url) ELSE marks
       /\ UNCHANGED calm

\* save() returns Ok, and with it the job is done.
SaveDone(p) ==
  /\ WriteBookmarks(p)
  /\ Recorded(p)
  /\ todo' = [todo EXCEPT ![p] = Tail(@)]
  /\ UNCHANGED <<config_file, runs, alone>>

SaveStep(p) == (TruncateHistory(p) \/ WriteHistory(p) \/ TruncateBookmarks(p)) /\ Quiet

---------------------------------------------------------------------------
(* --init-config                                                           *)

StartInit(p) ==
  /\ Begins(p)
  /\ ~Running(p) /\ config_file = "missing"
  /\ step' = [step EXCEPT ![p] = "createConfig"]
  /\ UNCHANGED <<files, lists, todo, config_file>>

\* fs::write truncates what another program may have written since the check.
CreateConfig(p) ==
  /\ step[p] = "createConfig"
  /\ config_file' = "empty"
  /\ step' = [step EXCEPT ![p] = "writeConfig"]
  /\ UNCHANGED <<files, lists, todo, runs, alone, past>>

WriteConfig(p) ==
  /\ step[p] = "writeConfig"
  /\ config_file' = "whole"
  /\ step' = [step EXCEPT ![p] = "closed"]
  /\ alone' = [alone EXCEPT ![p] = FALSE]
  /\ UNCHANGED <<files, lists, todo, runs, past>>

---------------------------------------------------------------------------
Init ==
  /\ HistoryInit
  /\ todo = [p \in Prog |-> <<>>]
  /\ config_file = "missing"
  /\ runs = 0
  /\ alone = [p \in Prog |-> FALSE]
  /\ calm = TRUE /\ log = <<>> /\ marks = <<>>

Step(p) ==
  \/ Load(p)
  \/ DirectDownloaded(p) \/ YtDlpRun(p) \/ Bookmark(p) \/ BookmarkExists(p) \/ ClearHistory(p)
  \/ SaveStep(p) \/ SaveDone(p)
  \/ Abort(p) \/ Finish(p) \/ Fail(p)
  \/ CreateConfig(p) \/ WriteConfig(p)

Next ==
  \E p \in Prog :
    \/ \E jobs \in Program : Start(p, jobs)
    \/ StartInit(p)
    \/ Step(p)
    \/ Stop(p)

Spec == Init /\ [][Next]_vars

---------------------------------------------------------------------------
\* The types.
TypeOK ==
  /\ history_file \in [state: {"missing", "empty", "torn", "cut", "whole"}, list: Seq(Entry)]
  /\ bookmark_file \in [state: {"missing", "empty", "torn", "cut", "whole"}, list: Seq(Url)]
  /\ entries \in [Prog -> Seq(Entry)]
  /\ bookmarks \in [Prog -> Seq(Url)]
  /\ step \in [Prog -> {"closed", "loadHistory", "loadBookmarks", "open", "save", "writeHistory",
                        "saveBookmarks", "writeBookmarks", "createConfig", "writeConfig"}]
  /\ todo \in [Prog -> Seq(Job)]
  /\ config_file \in {"missing", "empty", "torn", "whole"}
  /\ runs \in 0..MaxRuns
  /\ alone \in [Prog -> BOOLEAN]
  /\ calm \in BOOLEAN
  /\ log \in Seq(Entry) /\ marks \in Seq(Url)

\* What programs that run one at a time have recorded stays in the files, newest
\* first, until it is cleared, and is what the next program starts from; only an
\* overlap of two programs, or a stop within a save, can lose an entry, and the
\* next completed save of a program that runs alone repairs files and order
\* (History::load and save, run, run_history_commands).
CalmFilesAreLog ==
  calm =>
    /\ (\A p \in Prog : ~Interrupts(p)) =>
         /\ history_file \in {Whole(log), Missing} /\ history_file.list = log
         /\ bookmark_file \in {Whole(marks), Missing} /\ bookmark_file.list = marks
         /\ config_file # "torn"
    /\ \A p \in Prog : step[p] = "open" => entries[p] = log /\ bookmarks[p] = marks

\* No list and no file ever has two bookmarks of a URL, although programs that
\* overlap load each other's files half written (add_bookmark).
NoDuplicates(list) == \A j, k \in 1..Len(list) : list[j] = list[k] => j = k
OneBookmarkPerUrl ==
  /\ NoDuplicates(bookmark_file.list)
  /\ \A p \in Prog : NoDuplicates(bookmarks[p])
=============================================================================
