------------------------- MODULE CommandLineProofs -------------------------
(***************************************************************************)
(* The history and the bookmarks under the command line's programs, for    *)
(* any number of programs, URLs, jobs and starts.                          *)
(***************************************************************************)
EXTENDS CommandLine, SequenceTheorems, TLAPS

---------------------------------------------------------------------------
(* Types                                                                   *)

FileOf(S) == [state: {"missing", "empty", "torn", "cut", "whole"}, list: Seq(S)]

LEMMA Sequences1 ==
  ASSUME NEW S, NEW s \in Seq(S), NEW e \in S
  PROVE  /\ Append(s, e) \in Seq(S) /\ <<e>> \o s \in Seq(S)
         /\ Len(Append(s, e)) = Len(s) + 1
         /\ \A k \in 1..Len(s) + 1 : Append(s, e)[k] = IF k <= Len(s) THEN s[k] ELSE e
         /\ Len(<<e>> \o s) = Len(s) + 1
         /\ \A k \in 1..Len(s) + 1 : (<<e>> \o s)[k] = IF k = 1 THEN e ELSE s[k - 1]
<1>1. <<e>> \in Seq(S) /\ Len(<<e>>) = 1 /\ <<e>>[1] = e
  OBVIOUS
<1>2. /\ <<e>> \o s \in Seq(S) /\ Len(<<e>> \o s) = 1 + Len(s)
      /\ \A k \in 1..1 + Len(s) : (<<e>> \o s)[k] = IF k <= 1 THEN <<e>>[k] ELSE s[k - 1]
  BY <1>1, ConcatProperties
<1>3. Len(s) \in Nat
  BY LenProperties
<1>4. Len(<<e>> \o s) = Len(s) + 1
  BY <1>2, <1>3
<1>5. \A k \in 1..Len(s) + 1 : (<<e>> \o s)[k] = IF k = 1 THEN e ELSE s[k - 1]
  BY <1>1, <1>2, <1>3
<1>6. Append(s, e) \in Seq(S) /\ Len(Append(s, e)) = Len(s) + 1
  OBVIOUS
<1>7. \A k \in 1..Len(s) + 1 : Append(s, e)[k] = IF k <= Len(s) THEN s[k] ELSE e
  BY <1>3
<1> QED BY <1>2, <1>4, <1>5, <1>6, <1>7

LEMMA FileTypes ==
  ASSUME NEW S
  PROVE  /\ {Missing, Empty, Torn, Cut} \subseteq FileOf(S)
         /\ \A list \in Seq(S) : Whole(list) \in FileOf(S)
         /\ \A file \in FileOf(S), list \in Seq(S) : Written(file, list) \subseteq FileOf(S)
         /\ \A file \in FileOf(S) : Broken(file) \subseteq FileOf(S)
<1>1. <<>> \in Seq(S)
  BY EmptySeq
<1>2. {Missing, Empty, Torn, Cut} \subseteq FileOf(S)
  BY <1>1 DEF Missing, Empty, Torn, Cut, FileOf
<1>3. \A list \in Seq(S) : Whole(list) \in FileOf(S)
  BY DEF Whole, FileOf
<1> QED BY <1>2, <1>3 DEF Written, Broken

\* What a program is given to do.
LEMMA ProgramJobs == \A jobs \in Program : jobs \in Seq(Job)
<1> SUFFICES ASSUME NEW jobs \in Program PROVE jobs \in Seq(Job)
  OBVIOUS
<1>1. CASE \E op \in {"direct", "ytdlp"}, s \in Batches :
             jobs = [k \in DOMAIN s |-> [op |-> op, url |-> s[k]]]
  <2>1. PICK op \in {"direct", "ytdlp"}, s \in Batches :
          jobs = [k \in DOMAIN s |-> [op |-> op, url |-> s[k]]]
    BY <1>1
  <2>2. PICK n \in Nat : s \in [1..n -> Url]
    BY BatchAssumption, SeqDef
  <2>3. \A k \in 1..n : [op |-> op, url |-> s[k]] \in Job
    BY <2>2 DEF Job, Entry
  <2>4. jobs \in [1..n -> Job]
    BY <2>1, <2>2, <2>3
  <2> QED BY <2>2, <2>4, SeqDef
<1>2. CASE \E u \in Url : jobs = <<[op |-> "bookmark", url |-> u]>>
  BY <1>2 DEF Job
<1>3. CASE jobs = <<[op |-> "clear", url |-> NoUrl]>>
  BY <1>3 DEF Job
<1> QED BY <1>1, <1>2, <1>3 DEF Program

LEMMA JobTypes ==
  ASSUME TypeOK, NEW p \in Prog, todo[p] # <<>>
  PROVE  /\ Job1(p) \in Job /\ Tail(todo[p]) \in Seq(Job)
         /\ Job1(p).op \in {"direct", "ytdlp"} => Job1(p) \in Entry
         /\ Job1(p).op = "bookmark" => Job1(p).url \in Url
<1>1. todo[p] \in Seq(Job)
  BY DEF TypeOK
<1>2. Job1(p) \in Job /\ Tail(todo[p]) \in Seq(Job)
  BY <1>1, HeadTailProperties DEF Job1
<1> QED BY <1>2 DEF Job, Entry

LEMMA TypeInit == Init => TypeOK
<1> SUFFICES ASSUME Init PROVE TypeOK
  OBVIOUS
<1>1. Missing \in FileOf(Entry) /\ Missing \in FileOf(Url)
  BY FileTypes
<1>2. <<>> \in Seq(Entry) /\ <<>> \in Seq(Url) /\ <<>> \in Seq(Job)
  BY EmptySeq
<1> QED BY <1>1, <1>2, BoundAssumption DEF Init, HistoryInit, TypeOK, FileOf

\* The jobs and what belongs to them; every other step of a program that runs
\* ends it.
Works(p) ==
  \/ Load(p)
  \/ DirectDownloaded(p) \/ YtDlpRun(p) \/ Bookmark(p) \/ ClearHistory(p)
  \/ SaveStep(p) \/ SaveDone(p)

LEMMA StepKinds ==
  ASSUME NEW p \in Prog, Step(p) \/ Stop(p)
  PROVE  Works(p) \/ CreateConfig(p) \/ WriteConfig(p) \/ (Running(p) /\ Ends(p))
BY DEF Step, Stop, Works, BookmarkExists, HasJob, Abort, Finish, Fail, LoadFails, SaveMayFail, Running

LEMMA NextKinds ==
  ASSUME [Next]_vars
  PROVE  \/ \E p \in Prog : \/ \E jobs \in Program : Start(p, jobs)
                            \/ StartInit(p) \/ Works(p)
                            \/ CreateConfig(p) \/ WriteConfig(p)
                            \/ Running(p) /\ Ends(p)
         \/ UNCHANGED vars
BY StepKinds DEF Next

LEMMA LeftTypes ==
  ASSUME TypeOK, NEW p \in Prog, LeftBroken(p)
  PROVE  history_file' \in FileOf(Entry) /\ bookmark_file' \in FileOf(Url)
<1>1. history_file \in FileOf(Entry) /\ bookmark_file \in FileOf(Url)
  BY DEF TypeOK, FileOf
<1> QED BY <1>1, FileTypes DEF LeftBroken

\* A save belongs to a job.
Saving(p) == step[p] \in {"save", "writeHistory", "saveBookmarks", "writeBookmarks"}
SavingHasJob == \A p \in Prog : Saving(p) => todo[p] # <<>>

LEMMA TypeWorks ==
  ASSUME TypeOK, SavingHasJob, NEW p \in Prog, Works(p)
  PROVE  TypeOK'
<1> USE DEF TypeOK, files, lists, past, Quiet
<1>1. CASE Load(p)
  <2>1. history_file.list \in Seq(Entry) /\ bookmark_file.list \in Seq(Url)
    OBVIOUS
  <2> QED BY <1>1, <2>1 DEF Load, LoadHistory, LoadBookmarks
<1>2. CASE DirectDownloaded(p) \/ YtDlpRun(p)
  <2>1. Job1(p) \in Entry
    BY <1>2, JobTypes DEF DirectDownloaded, YtDlpRun, HasJob
  <2>2. <<Job1(p)>> \o entries[p] \in Seq(Entry)
    BY <2>1, Sequences1
  <2>3. Job1(p).url \in Url
    BY <2>1 DEF Entry
  <2>4. add_entry(p, Job1(p)) => entries' \in [Prog -> Seq(Entry)]
    BY <2>2 DEF add_entry
  <2> QED BY <1>2, <2>3, <2>4 DEF DirectDownloaded, YtDlpRun, add_entry
<1>3. CASE Bookmark(p)
  <2>1. Job1(p).url \in Url
    BY <1>3, JobTypes DEF Bookmark, HasJob
  <2>2. Append(bookmarks[p], Job1(p).url) \in Seq(Url)
    BY <2>1
  <2> QED BY <1>3, <2>2 DEF Bookmark, add_bookmark
<1>4. CASE ClearHistory(p)
  <2>1. <<>> \in Seq(Entry)
    BY EmptySeq
  <2> QED BY <1>4, <2>1 DEF ClearHistory, clear
<1>5. CASE SaveStep(p)
  <2>1. history_file \in FileOf(Entry) /\ bookmark_file \in FileOf(Url)
    BY DEF FileOf
  <2>2. history_file' \in FileOf(Entry) /\ bookmark_file' \in FileOf(Url)
    BY <1>5, <2>1, FileTypes DEF SaveStep, TruncateHistory, WriteHistory, TruncateBookmarks
  <2> QED BY <1>5, <2>2 DEF SaveStep, TruncateHistory, WriteHistory, TruncateBookmarks, FileOf
<1>6. CASE SaveDone(p)
  <2>1. bookmark_file' \in FileOf(Url)
    BY <1>6, FileTypes DEF SaveDone, WriteBookmarks, FileOf
  <2>2. step' \in [Prog -> {"closed", "loadHistory", "loadBookmarks", "open", "save",
                            "writeHistory", "saveBookmarks", "writeBookmarks", "createConfig",
                            "writeConfig"}]
    BY <1>6 DEF SaveDone, WriteBookmarks
  <2>3. todo[p] # <<>>
    BY <1>6 DEF SaveDone, WriteBookmarks, SavingHasJob, Saving
  <2>4. todo' \in [Prog -> Seq(Job)]
    BY <1>6, <2>3, JobTypes DEF SaveDone
  <2>5. log' \in Seq(Entry) /\ marks' \in Seq(Url) /\ calm' \in BOOLEAN
    <3>1. CASE ~alone[p] \/ ~calm
      BY <1>6, <3>1 DEF SaveDone, Recorded
    <3>2. CASE alone[p] /\ calm
      <4>1. Job1(p).op \notin {"clear", "bookmark"} => Job1(p) \in Entry
        BY <2>3, JobTypes DEF Job
      <4>2. CASE Job1(p).op = "clear"
        BY <1>6, <3>2, <4>2, EmptySeq DEF SaveDone, Recorded
      <4>3. CASE Job1(p).op = "bookmark"
        <5>1. log' = log /\ marks' = Append(marks, Job1(p).url) /\ calm' = calm
          BY <1>6, <3>2, <4>3 DEF SaveDone, Recorded
        <5>2. Job1(p).url \in Url
          BY <2>3, <4>3, JobTypes
        <5> QED BY <5>1, <5>2, Sequences1
      <4>4. CASE Job1(p).op \notin {"clear", "bookmark"}
        <5>1. log' = <<Job1(p)>> \o log /\ marks' = marks /\ calm' = calm
          BY <1>6, <3>2, <4>4 DEF SaveDone, Recorded
        <5> QED BY <4>1, <4>4, <5>1, Sequences1
      <4> QED BY <4>2, <4>3, <4>4
    <3> QED BY <3>1, <3>2
  <2> QED BY <1>6, <2>1, <2>2, <2>4, <2>5 DEF SaveDone, WriteBookmarks, FileOf
<1> QED BY <1>1, <1>2, <1>3, <1>4, <1>5, <1>6 DEF Works

LEMMA TypeStep ==
  ASSUME TypeOK, SavingHasJob, [Next]_vars
  PROVE  TypeOK'
<1> USE DEF files, lists, past
<1>1. ASSUME NEW p \in Prog, NEW jobs \in Program, Start(p, jobs) PROVE TypeOK'
  <2>1. jobs \in Seq(Job)
    BY ProgramJobs
  <2>2. runs' \in 0..MaxRuns
    BY <1>1, BoundAssumption DEF Start, Begins, TypeOK
  <2>3. log' \in Seq(Entry) /\ marks' \in Seq(Url) /\ calm' \in BOOLEAN
    BY <1>1, EmptySeq DEF Start, Begins, DisturbedIf, Disturbed, TypeOK
  <2>4. alone' \in [Prog -> BOOLEAN]
    BY <1>1 DEF Start, Begins, TypeOK, OthersRun
  <2> QED BY <1>1, <2>1, <2>2, <2>3, <2>4 DEF Start, Begins, New, TypeOK
<1>2. ASSUME NEW p \in Prog, StartInit(p) PROVE TypeOK'
  <2>1. runs' \in 0..MaxRuns
    BY <1>2, BoundAssumption DEF StartInit, Begins, TypeOK
  <2>2. log' \in Seq(Entry) /\ marks' \in Seq(Url) /\ calm' \in BOOLEAN
    BY <1>2, EmptySeq DEF StartInit, Begins, DisturbedIf, Disturbed, TypeOK
  <2>3. alone' \in [Prog -> BOOLEAN]
    BY <1>2 DEF StartInit, Begins, TypeOK, OthersRun
  <2> QED BY <1>2, <2>1, <2>2, <2>3 DEF StartInit, Begins, TypeOK
<1>3. ASSUME NEW p \in Prog, Works(p) PROVE TypeOK'
  BY <1>3, TypeWorks
<1>4. ASSUME NEW p \in Prog, WriteConfig(p) PROVE TypeOK'
  BY <1>4 DEF WriteConfig, TypeOK
<1>7. ASSUME NEW p \in Prog, CreateConfig(p) PROVE TypeOK'
  BY <1>7 DEF CreateConfig, TypeOK
<1>5. ASSUME NEW p \in Prog, Ends(p) PROVE TypeOK'
  <2>1. history_file' \in FileOf(Entry) /\ bookmark_file' \in FileOf(Url)
    BY <1>5, LeftTypes DEF Ends, Drop
  <2>2. <<>> \in Seq(Entry) /\ <<>> \in Seq(Url) /\ <<>> \in Seq(Job)
    BY EmptySeq
  <2>3. log' \in Seq(Entry) /\ marks' \in Seq(Url) /\ calm' \in BOOLEAN
    BY <1>5, <2>2 DEF Ends, DisturbedIf, Disturbed, TypeOK
  <2>4. config_file' \in {"missing", "empty", "torn", "whole"}
    BY <1>5 DEF Ends, ConfigLeft, TypeOK
  <2> QED BY <1>5, <2>1, <2>2, <2>3, <2>4 DEF Ends, Drop, TypeOK, FileOf
<1>6. CASE UNCHANGED vars
  BY <1>6 DEF vars, TypeOK
<1> QED BY <1>1, <1>2, <1>3, <1>4, <1>5, <1>6, <1>7, NextKinds

---------------------------------------------------------------------------
(* What makes CalmFilesAreLog inductive                                    *)

\* A program that has been alone still is, with a configuration that is whole;
\* while nothing has been disturbed, every program that runs has been alone.
AloneIsAlone ==
  /\ \A p \in Prog : alone[p] => /\ Running(p)
                                 /\ \A q \in Prog \ {p} : ~Running(q)
                                 /\ step[p] # "writeConfig" => config_file # "torn"
  /\ calm => \A p \in Prog : Running(p) => alone[p]
  /\ calm => config_file # "torn"

\* How far a program that is alone has come with its save.
FilesWritten ==
  \A p \in Prog : alone[p] =>
    /\ step[p] = "writeHistory" => history_file = Empty
    /\ step[p] \in {"saveBookmarks", "writeBookmarks"} => history_file = Whole(entries[p])
    /\ step[p] = "writeBookmarks" => bookmark_file = Empty

\* Log and marks once the job of p is recorded.
NewLog(p) == CASE Job1(p).op = "clear"    -> <<>>
               [] Job1(p).op = "bookmark" -> log
               [] OTHER                   -> <<Job1(p)>> \o log
NewMarks(p) == IF Job1(p).op = "bookmark" THEN Append(marks, Job1(p).url) ELSE marks

\* Between two saves the files hold what has been recorded.
Rewrites(p) == step[p] \in {"writeHistory", "saveBookmarks", "writeBookmarks"}
FilesAreLog ==
  calm /\ (\A p \in Prog : ~Rewrites(p)) =>
    /\ history_file \in {Whole(log), Missing} /\ history_file.list = log
    /\ bookmark_file \in {Whole(marks), Missing} /\ bookmark_file.list = marks

\* A program holds what has been recorded, and from its job on what will be.
ListsAreLog ==
  calm => \A p \in Prog :
    /\ step[p] = "loadBookmarks" => entries[p] = log
    /\ step[p] = "open" => entries[p] = log /\ bookmarks[p] = marks
    /\ Saving(p) => entries[p] = NewLog(p) /\ bookmarks[p] = NewMarks(p)

IInv == TypeOK /\ SavingHasJob /\ AloneIsAlone /\ FilesWritten /\ FilesAreLog /\ ListsAreLog

LEMMA InitIInv == Init => IInv
<1> SUFFICES ASSUME Init PROVE IInv
  OBVIOUS
<1>1. TypeOK
  BY TypeInit
<1>2. Missing.list = <<>>
  BY DEF Missing
<1> QED
  BY <1>1, <1>2 DEF Init, HistoryInit, IInv, SavingHasJob, AloneIsAlone, FilesWritten,
     FilesAreLog, ListsAreLog, Running, Saving, Rewrites

LEMMA SavingHasJobStep ==
  ASSUME TypeOK, SavingHasJob, [Next]_vars
  PROVE  SavingHasJob'
<1> USE DEF TypeOK, SavingHasJob, Saving
<1>1. ASSUME NEW p \in Prog, NEW jobs \in Program, Start(p, jobs) PROVE SavingHasJob'
  BY <1>1 DEF Start, New
<1>2. ASSUME NEW p \in Prog, StartInit(p) PROVE SavingHasJob'
  BY <1>2 DEF StartInit
<1>3. ASSUME NEW p \in Prog, Works(p) PROVE SavingHasJob'
  <2>1. CASE Load(p)
    BY <2>1 DEF Load, LoadHistory, LoadBookmarks, Quiet
  <2>2. CASE DirectDownloaded(p) \/ YtDlpRun(p) \/ Bookmark(p) \/ ClearHistory(p)
    BY <2>2 DEF DirectDownloaded, YtDlpRun, Bookmark, ClearHistory, HasJob, Quiet,
                add_entry, add_bookmark, clear
  <2>3. CASE SaveStep(p)
    BY <2>3 DEF SaveStep, TruncateHistory, WriteHistory, TruncateBookmarks, Quiet
  <2>4. CASE SaveDone(p)
    BY <2>4 DEF SaveDone, WriteBookmarks
  <2> QED BY <1>3, <2>1, <2>2, <2>3, <2>4 DEF Works
<1>4. ASSUME NEW p \in Prog, WriteConfig(p) PROVE SavingHasJob'
  BY <1>4 DEF WriteConfig
<1>7. ASSUME NEW p \in Prog, CreateConfig(p) PROVE SavingHasJob'
  BY <1>7 DEF CreateConfig
<1>5. ASSUME NEW p \in Prog, Ends(p) PROVE SavingHasJob'
  BY <1>5 DEF Ends, Drop
<1>6. CASE UNCHANGED vars
  BY <1>6 DEF vars
<1> QED BY <1>1, <1>2, <1>3, <1>4, <1>5, <1>6, <1>7, NextKinds

\* The steps of a job are those of a program that runs, and it runs on.
LEMMA WorksFrame ==
  ASSUME TypeOK, NEW p \in Prog, Works(p)
  PROVE  /\ Running(p) /\ Running(p)' /\ step[p] # "writeConfig" /\ step'[p] # "writeConfig"
         /\ \A q \in Prog \ {p} : /\ step'[q] = step[q] /\ todo'[q] = todo[q]
                                  /\ entries'[q] = entries[q] /\ bookmarks'[q] = bookmarks[q]
         /\ UNCHANGED <<alone, config_file, runs>>
         /\ ~SaveDone(p) => UNCHANGED past
         /\ SaveDone(p) /\ ~alone[p] => UNCHANGED past
<1> USE DEF TypeOK, Running, files, lists, Quiet
<1>1. CASE Load(p)
  BY <1>1 DEF Load, LoadHistory, LoadBookmarks
<1>2. CASE DirectDownloaded(p) \/ YtDlpRun(p) \/ Bookmark(p) \/ ClearHistory(p)
  BY <1>2 DEF DirectDownloaded, YtDlpRun, Bookmark, ClearHistory, HasJob,
              add_entry, add_bookmark, clear
<1>3. CASE SaveStep(p)
  BY <1>3 DEF SaveStep, TruncateHistory, WriteHistory, TruncateBookmarks
<1>4. CASE SaveDone(p)
  BY <1>4 DEF SaveDone, WriteBookmarks, Recorded
<1> QED BY <1>1, <1>2, <1>3, <1>4 DEF Works

LEMMA AloneStep ==
  ASSUME TypeOK, AloneIsAlone, [Next]_vars
  PROVE  AloneIsAlone'
<1> USE DEF TypeOK, Running
<1>1. ASSUME NEW p \in Prog, NEW jobs \in Program, Start(p, jobs) PROVE AloneIsAlone'
  <2>1. \A q \in Prog : alone'[q] => q = p /\ \A r \in Prog \ {p} : ~Running(r)
    BY <1>1 DEF Start, Begins, OthersRun
  <2>2. step' = [step EXCEPT ![p] = "loadHistory"] /\ config_file' = config_file
        /\ config_file # "torn"
    BY <1>1 DEF Start, New
  <2>3. calm' => calm /\ alone'[p] /\ \A r \in Prog \ {p} : ~Running(r)
    BY <1>1 DEF Start, Begins, DisturbedIf, Disturbed, OthersRun, past
  <2> QED BY <2>1, <2>2, <2>3 DEF AloneIsAlone
<1>2. ASSUME NEW p \in Prog, StartInit(p) PROVE AloneIsAlone'
  <2>1. \A q \in Prog : alone'[q] => q = p /\ \A r \in Prog \ {p} : ~Running(r)
    BY <1>2 DEF StartInit, Begins, OthersRun
  <2>2. step' = [step EXCEPT ![p] = "createConfig"] /\ config_file' = "missing"
    BY <1>2 DEF StartInit
  <2>3. calm' => calm /\ alone'[p] /\ \A r \in Prog \ {p} : ~Running(r)
    BY <1>2 DEF StartInit, Begins, DisturbedIf, Disturbed, OthersRun, past
  <2> QED BY <2>1, <2>2, <2>3 DEF AloneIsAlone
<1>3. ASSUME NEW p \in Prog, Works(p) PROVE AloneIsAlone'
  <2>1. calm' => calm \/ alone[p]
    BY <1>3, WorksFrame DEF past
  <2>2. alone' = alone /\ config_file' = config_file
    BY <1>3, WorksFrame
  <2>3. \A q \in Prog : /\ step'[q] = "closed" <=> step[q] = "closed"
                        /\ step'[q] = "writeConfig" <=> step[q] = "writeConfig"
    BY <1>3, WorksFrame
  <2>4. alone[p] /\ ~calm => \A q \in Prog : Running(q) => alone[q]
    BY DEF AloneIsAlone
  <2>5. alone[p] => config_file # "torn"
    BY <1>3, WorksFrame DEF AloneIsAlone
  <2> QED BY <2>1, <2>2, <2>3, <2>4, <2>5 DEF AloneIsAlone
<1>4. ASSUME NEW p \in Prog, WriteConfig(p) PROVE AloneIsAlone'
  BY <1>4 DEF WriteConfig, AloneIsAlone, past
<1>7. ASSUME NEW p \in Prog, CreateConfig(p) PROVE AloneIsAlone'
  <2>1. /\ step' = [step EXCEPT ![p] = "writeConfig"] /\ step[p] = "createConfig"
        /\ config_file' = "empty" /\ alone' = alone /\ calm' = calm
    BY <1>7 DEF CreateConfig, past
  <2> QED BY <2>1 DEF AloneIsAlone
<1>5. ASSUME NEW p \in Prog, Running(p), Ends(p) PROVE AloneIsAlone'
  <2>1. step' = [step EXCEPT ![p] = "closed"] /\ alone' = [alone EXCEPT ![p] = FALSE]
    BY <1>5 DEF Ends, Drop
  <2>2. calm' => calm /\ config_file' = config_file
    BY <1>5 DEF Ends, DisturbedIf, Disturbed, Interrupts, past
  <2>3. \A q \in Prog \ {p} : ~alone[q]
    BY <1>5 DEF AloneIsAlone
  <2> QED BY <2>1, <2>2, <2>3 DEF AloneIsAlone
<1>6. CASE UNCHANGED vars
  BY <1>6 DEF vars, AloneIsAlone, past
<1> QED BY <1>1, <1>2, <1>3, <1>4, <1>5, <1>6, <1>7, NextKinds

\* What a step of p does while p is alone.
LEMMA OthersClosed ==
  ASSUME TypeOK, AloneIsAlone, NEW p \in Prog, alone[p] \/ (calm /\ Running(p))
  PROVE  alone[p] /\ Running(p) /\ \A q \in Prog \ {p} : step[q] = "closed" /\ ~alone[q]
BY DEF AloneIsAlone, Running

LEMMA FilesWrittenStep ==
  ASSUME TypeOK, AloneIsAlone, FilesWritten, [Next]_vars
  PROVE  FilesWritten'
<1> USE DEF TypeOK, files, lists
<1>1. ASSUME NEW p \in Prog, NEW jobs \in Program, Start(p, jobs) PROVE FilesWritten'
  <2>1. \A q \in Prog : alone'[q] => q = p
    BY <1>1 DEF Start, Begins
  <2>2. step'[p] = "loadHistory"
    BY <1>1 DEF Start, New
  <2> QED BY <2>1, <2>2 DEF FilesWritten
<1>2. ASSUME NEW p \in Prog, StartInit(p) PROVE FilesWritten'
  <2>1. \A q \in Prog : alone'[q] => q = p
    BY <1>2 DEF StartInit, Begins
  <2>2. step'[p] = "createConfig"
    BY <1>2 DEF StartInit
  <2> QED BY <2>1, <2>2 DEF FilesWritten
<1>3. ASSUME NEW p \in Prog, Works(p) PROVE FilesWritten'
  <2>1. alone' = alone /\ \A q \in Prog \ {p} : alone[q] => ~Running(p)
    BY <1>3, WorksFrame, OthersClosed DEF Running
  <2>2. \A q \in Prog \ {p} : ~alone'[q]
    BY <1>3, <2>1, WorksFrame
  <2>3. ASSUME alone[p]
        PROVE  /\ step'[p] = "writeHistory" => history_file' = Empty
               /\ step'[p] \in {"saveBookmarks", "writeBookmarks"}
                    => history_file' = Whole(entries'[p])
               /\ step'[p] = "writeBookmarks" => bookmark_file' = Empty
    <3>1. CASE Load(p)
      BY <3>1 DEF Load, LoadHistory, LoadBookmarks
    <3>2. CASE DirectDownloaded(p) \/ YtDlpRun(p) \/ Bookmark(p) \/ ClearHistory(p)
      BY <3>2 DEF DirectDownloaded, YtDlpRun, Bookmark, ClearHistory,
                  add_entry, add_bookmark, clear
    <3>3. CASE TruncateHistory(p)
      BY <3>3 DEF TruncateHistory
    <3>4. CASE WriteHistory(p)
      <4>1. history_file = Empty
        BY <2>3, <3>4 DEF FilesWritten, WriteHistory
      <4>2. history_file' = Whole(entries[p])
        BY <3>4, <4>1 DEF WriteHistory, Written
      <4> QED BY <3>4, <4>2 DEF WriteHistory
    <3>5. CASE TruncateBookmarks(p)
      BY <2>3, <3>5 DEF FilesWritten, TruncateBookmarks
    <3>6. CASE SaveDone(p)
      BY <3>6 DEF SaveDone, WriteBookmarks
    <3> QED BY <1>3, <3>1, <3>2, <3>3, <3>4, <3>5, <3>6 DEF Works, SaveStep
  <2> QED BY <2>1, <2>2, <2>3 DEF FilesWritten
<1>4. ASSUME NEW p \in Prog, WriteConfig(p) PROVE FilesWritten'
  <2>1. step' = [step EXCEPT ![p] = "closed"] /\ UNCHANGED <<files, entries>>
        /\ \A q \in Prog : alone'[q] => alone[q]
    BY <1>4 DEF WriteConfig
  <2> QED BY <2>1 DEF FilesWritten
<1>7. ASSUME NEW p \in Prog, CreateConfig(p) PROVE FilesWritten'
  BY <1>7 DEF CreateConfig, FilesWritten
<1>5. ASSUME NEW p \in Prog, Running(p), Ends(p) PROVE FilesWritten'
  <2>1. \A q \in Prog : ~alone'[q]
    BY <1>5 DEF Ends, AloneIsAlone
  <2> QED BY <2>1 DEF FilesWritten
<1>6. CASE UNCHANGED vars
  BY <1>6 DEF vars, FilesWritten
<1> QED BY <1>1, <1>2, <1>3, <1>4, <1>5, <1>6, <1>7, NextKinds

LEMMA WorksLog ==
  ASSUME IInv, NEW p \in Prog, Works(p), calm'
  PROVE  FilesAreLog' /\ ListsAreLog'
<1> USE DEF TypeOK, files, lists, past, Quiet, IInv
<1>1. alone[p] /\ \A q \in Prog \ {p} : step[q] = "closed" /\ step'[q] = "closed"
  BY WorksFrame, OthersClosed
<1>2. CASE Load(p)
  <2>1. calm /\ log' = log /\ marks' = marks
    BY <1>2 DEF Load
  <2>2. history_file.list = log /\ bookmark_file.list = marks
    BY <1>1, <1>2, <2>1 DEF Load, LoadHistory, LoadBookmarks, FilesAreLog, Rewrites
  <2>3. FilesAreLog'
    BY <1>1, <1>2, <2>1 DEF Load, LoadHistory, LoadBookmarks, FilesAreLog, Rewrites
  <2>4. CASE LoadHistory(p)
    <3>1. step'[p] = "loadBookmarks" /\ entries'[p] = log
      BY <2>2, <2>4 DEF LoadHistory
    <3> QED BY <1>1, <2>1, <2>3, <3>1 DEF ListsAreLog, Saving
  <2>5. CASE LoadBookmarks(p)
    <3>1. step'[p] = "open" /\ entries'[p] = log /\ bookmarks'[p] = marks
      BY <2>1, <2>2, <2>5 DEF LoadBookmarks, ListsAreLog
    <3> QED BY <1>1, <2>1, <2>3, <3>1 DEF ListsAreLog, Saving
  <2> QED BY <1>2, <2>4, <2>5 DEF Load
<1>3. CASE DirectDownloaded(p) \/ YtDlpRun(p) \/ Bookmark(p) \/ ClearHistory(p)
  <2>1. /\ calm /\ log' = log /\ marks' = marks /\ UNCHANGED <<files, todo>>
        /\ step[p] = "open" /\ step' = [step EXCEPT ![p] = "save"]
    BY <1>3 DEF DirectDownloaded, YtDlpRun, Bookmark, ClearHistory, add_entry, add_bookmark, clear
  <2>2. entries[p] = log /\ bookmarks[p] = marks
    BY <2>1 DEF ListsAreLog
  <2>3. entries'[p] = NewLog(p) /\ bookmarks'[p] = NewMarks(p)
    BY <1>3, <2>2 DEF DirectDownloaded, YtDlpRun, Bookmark, ClearHistory, HasJob,
                      add_entry, add_bookmark, clear, NewLog, NewMarks
  <2>4. NewLog(p)' = NewLog(p) /\ NewMarks(p)' = NewMarks(p)
    BY <2>1 DEF NewLog, NewMarks, Job1
  <2>5. FilesAreLog'
    BY <1>1, <2>1 DEF FilesAreLog, Rewrites
  <2>6. ListsAreLog'
    BY <1>1, <2>1, <2>3, <2>4 DEF ListsAreLog, Saving
  <2> QED BY <2>5, <2>6
<1>4. CASE SaveStep(p)
  <2>1. /\ calm /\ log' = log /\ marks' = marks /\ UNCHANGED <<lists, todo>>
        /\ step[p] \in {"save", "writeHistory", "saveBookmarks"} /\ Rewrites(p)'
        /\ step' = [step EXCEPT ![p] = step'[p]]
    BY <1>4 DEF SaveStep, TruncateHistory, WriteHistory, TruncateBookmarks, Rewrites
  <2>2. NewLog(p)' = NewLog(p) /\ NewMarks(p)' = NewMarks(p)
    BY <2>1 DEF NewLog, NewMarks, Job1
  <2>3. FilesAreLog'
    BY <2>1 DEF FilesAreLog
  <2>4. entries[p] = NewLog(p) /\ bookmarks[p] = NewMarks(p)
    BY <2>1 DEF ListsAreLog, Saving
  <2>5. ListsAreLog'
    BY <1>1, <2>1, <2>2, <2>4 DEF ListsAreLog, Rewrites, Saving
  <2> QED BY <2>3, <2>5
<1>5. CASE SaveDone(p)
  <2>1. history_file = Whole(entries[p]) /\ bookmark_file = Empty
    BY <1>1, <1>5 DEF FilesWritten, SaveDone, WriteBookmarks
  <2>2. /\ history_file' = Whole(entries[p]) /\ bookmark_file' = Whole(bookmarks[p])
        /\ step' = [step EXCEPT ![p] = "open"] /\ UNCHANGED lists
    BY <1>5, <2>1 DEF SaveDone, WriteBookmarks, Written
  <2>3. log' = entries[p] /\ marks' = bookmarks[p]
    <3>1. CASE ~calm
      BY <1>1, <1>5, <3>1 DEF SaveDone, Recorded
    <3>2. CASE calm
      <4>1. log' = NewLog(p) /\ marks' = NewMarks(p)
        BY <1>1, <1>5, <3>2 DEF SaveDone, Recorded, NewLog, NewMarks
      <4>2. entries[p] = NewLog(p) /\ bookmarks[p] = NewMarks(p)
        BY <1>5, <3>2 DEF SaveDone, WriteBookmarks, ListsAreLog, Saving
      <4> QED BY <4>1, <4>2
    <3> QED BY <3>1, <3>2
  <2>4. FilesAreLog'
    BY <2>2, <2>3 DEF FilesAreLog, Whole
  <2>5. ListsAreLog'
    BY <1>1, <2>2, <2>3 DEF ListsAreLog, Saving
  <2> QED BY <2>4, <2>5
<1> QED BY <1>2, <1>3, <1>4, <1>5 DEF Works

LEMMA LogStep ==
  ASSUME IInv, [Next]_vars
  PROVE  FilesAreLog' /\ ListsAreLog'
<1> USE DEF TypeOK, files, lists, past, IInv
<1> SUFFICES ASSUME calm' PROVE FilesAreLog' /\ ListsAreLog'
  BY DEF FilesAreLog, ListsAreLog
<1>1. ASSUME NEW p \in Prog, (\E jobs \in Program : Start(p, jobs)) \/ StartInit(p)
      PROVE  FilesAreLog' /\ ListsAreLog'
  <2>1. calm /\ log' = log /\ marks' = marks /\ \A q \in Prog \ {p} : step[q] = "closed"
    BY <1>1 DEF Start, StartInit, Begins, DisturbedIf, Disturbed, OthersRun, Running
  <2>2. step[p] = "closed" /\ UNCHANGED files
    BY <1>1 DEF Start, StartInit, New, Running
  <2>3. step'[p] \in {"loadHistory", "createConfig"} /\ \A q \in Prog \ {p} : step'[q] = "closed"
    BY <1>1, <2>1 DEF Start, StartInit, New
  <2> QED BY <2>1, <2>2, <2>3 DEF FilesAreLog, ListsAreLog, Rewrites, Saving
<1>2. ASSUME NEW p \in Prog, Works(p) PROVE FilesAreLog' /\ ListsAreLog'
  BY <1>2, WorksLog
<1>3. ASSUME NEW p \in Prog, CreateConfig(p) \/ WriteConfig(p) PROVE FilesAreLog' /\ ListsAreLog'
  <2>1. /\ calm /\ UNCHANGED <<files, log, marks>> /\ step[p] \in {"createConfig", "writeConfig"}
        /\ step' = [step EXCEPT ![p] = step'[p]] /\ step'[p] \in {"writeConfig", "closed"}
    BY <1>3 DEF CreateConfig, WriteConfig
  <2>2. \A q \in Prog \ {p} : step[q] = "closed"
    BY <2>1, OthersClosed DEF Running
  <2> QED BY <2>1, <2>2 DEF FilesAreLog, ListsAreLog, Rewrites, Saving
<1>4. ASSUME NEW p \in Prog, Running(p), Ends(p) PROVE FilesAreLog' /\ ListsAreLog'
  <2>1. calm /\ log' = log /\ marks' = marks /\ ~Interrupts(p)
    BY <1>4 DEF Ends, DisturbedIf, Disturbed
  <2>2. UNCHANGED files /\ step' = [step EXCEPT ![p] = "closed"]
    BY <1>4, <2>1 DEF Ends, Drop, LeftBroken, Interrupts
  <2>3. \A q \in Prog \ {p} : step[q] = "closed"
    BY <1>4, <2>1, OthersClosed
  <2> QED BY <2>1, <2>2, <2>3 DEF FilesAreLog, ListsAreLog, Rewrites, Saving, Interrupts
<1>5. CASE UNCHANGED vars
  <2>1. \A p \in Prog : NewLog(p)' = NewLog(p) /\ NewMarks(p)' = NewMarks(p)
    BY <1>5 DEF vars, NewLog, NewMarks, Job1
  <2> QED BY <1>5, <2>1 DEF vars, FilesAreLog, ListsAreLog, Rewrites, Saving
<1> QED BY <1>1, <1>2, <1>3, <1>4, <1>5, NextKinds

LEMMA StepIInv == IInv /\ [Next]_vars => IInv'
  BY TypeStep, SavingHasJobStep, AloneStep, FilesWrittenStep, LogStep DEF IInv

LEMMA Inductive == Spec => []IInv
  BY InitIInv, StepIInv, PTL DEF Spec

---------------------------------------------------------------------------
(* Bookmarks                                                               *)

LEMMA NothingLost == Missing.list = <<>> /\ Empty.list = <<>> /\ Torn.list = <<>> /\ Cut.list = <<>>
  BY DEF Missing, Empty, Torn, Cut

\* What is in a file after any step of p was there before or in p's list, or the
\* file is empty.
LEMMA FileLists ==
  ASSUME TypeOK, NEW p \in Prog, Works(p) \/ Ends(p)
  PROVE  /\ history_file'.list \in {history_file.list, entries[p], <<>>}
         /\ bookmark_file'.list \in {bookmark_file.list, bookmarks[p], <<>>}
<1>1. \A list : Whole(list).list = list
  BY DEF Whole
<1>2. CASE Load(p) \/ DirectDownloaded(p) \/ YtDlpRun(p) \/ Bookmark(p) \/ ClearHistory(p)
  BY <1>2 DEF Load, LoadHistory, LoadBookmarks, DirectDownloaded, YtDlpRun, Bookmark,
              ClearHistory, add_entry, add_bookmark, clear, files
<1>3. CASE SaveStep(p) \/ SaveDone(p)
  BY <1>1, <1>3, NothingLost DEF SaveStep, TruncateHistory, WriteHistory, TruncateBookmarks,
     SaveDone, WriteBookmarks, Written
<1>4. CASE Ends(p)
  BY <1>4, NothingLost DEF Ends, Drop, LeftBroken, Broken
<1> QED BY <1>2, <1>3, <1>4 DEF Works

LEMMA AppendNew ==
  ASSUME NEW S, NEW list \in Seq(S), NEW e \in S, NoDuplicates(list), ~Has(list, e)
  PROVE  NoDuplicates(Append(list, e))
<1>1. Len(list) \in Nat /\ Len(Append(list, e)) = Len(list) + 1
  OBVIOUS
<1>2. \A k \in 1..Len(list) + 1 : Append(list, e)[k] = IF k <= Len(list) THEN list[k] ELSE e
  BY Sequences1
<1> QED BY <1>1, <1>2 DEF NoDuplicates, Has

LEMMA BookmarkStep ==
  ASSUME TypeOK, OneBookmarkPerUrl, [Next]_vars
  PROVE  OneBookmarkPerUrl'
<1> USE DEF TypeOK, files, lists
<1>0. NoDuplicates(<<>>)
  BY EmptySeq DEF NoDuplicates
<1>1. ASSUME NEW p \in Prog, (\E jobs \in Program : Start(p, jobs)) \/ StartInit(p)
                              \/ CreateConfig(p) \/ WriteConfig(p)
      PROVE  OneBookmarkPerUrl'
  BY <1>1 DEF Start, StartInit, CreateConfig, WriteConfig, New, OneBookmarkPerUrl, NoDuplicates
<1>2. ASSUME NEW p \in Prog, Works(p) PROVE OneBookmarkPerUrl'
  <2>1. NoDuplicates(bookmark_file'.list)
    BY <1>0, <1>2, FileLists DEF OneBookmarkPerUrl
  <2>2. NoDuplicates(bookmarks'[p])
    <3>1. CASE Load(p)
      BY <3>1 DEF Load, LoadHistory, LoadBookmarks, OneBookmarkPerUrl
    <3>2. CASE Bookmark(p)
      <4> DEFINE u == Job1(p).url
                 old == bookmarks[p]
      <4>1. u \in Url
        BY <3>2, JobTypes DEF Bookmark, HasJob
      <4>2. old \in Seq(Url) /\ NoDuplicates(old)
        BY DEF OneBookmarkPerUrl
      <4>3. bookmarks'[p] = Append(old, u) /\ ~Has(old, u)
        BY <3>2 DEF Bookmark, add_bookmark
      <4> HIDE DEF u, old
      <4>4. NoDuplicates(Append(old, u))
        BY <4>1, <4>2, <4>3, AppendNew
      <4> QED BY <4>3, <4>4
    <3>3. CASE DirectDownloaded(p) \/ YtDlpRun(p) \/ ClearHistory(p)
      BY <3>3 DEF DirectDownloaded, YtDlpRun, ClearHistory, add_entry, clear, OneBookmarkPerUrl
    <3>4. CASE SaveStep(p) \/ SaveDone(p)
      BY <3>4 DEF SaveStep, TruncateHistory, WriteHistory, TruncateBookmarks, SaveDone,
                  WriteBookmarks, OneBookmarkPerUrl
    <3> QED BY <1>2, <3>1, <3>2, <3>3, <3>4 DEF Works
  <2>3. \A q \in Prog \ {p} : bookmarks'[q] = bookmarks[q]
    BY <1>2, WorksFrame
  <2>4. \A q \in Prog : NoDuplicates(bookmarks'[q])
    BY <2>2, <2>3 DEF OneBookmarkPerUrl
  <2> QED BY <2>1, <2>4 DEF OneBookmarkPerUrl, NoDuplicates
<1>3. ASSUME NEW p \in Prog, Ends(p) PROVE OneBookmarkPerUrl'
  <2>1. NoDuplicates(bookmark_file'.list)
    BY <1>0, <1>3, FileLists DEF OneBookmarkPerUrl
  <2>2. \A q \in Prog : NoDuplicates(bookmarks'[q])
    BY <1>0, <1>3 DEF Ends, Drop, OneBookmarkPerUrl
  <2> QED BY <2>1, <2>2 DEF OneBookmarkPerUrl, NoDuplicates
<1>4. CASE UNCHANGED vars
  BY <1>4 DEF vars, OneBookmarkPerUrl, NoDuplicates
<1> QED BY <1>1, <1>2, <1>3, <1>4, NextKinds

---------------------------------------------------------------------------
\* The types of files, lists and jobs.
THEOREM TypeCorrect == Spec => []TypeOK
<1>1. IInv => TypeOK
  BY DEF IInv
<1> QED BY <1>1, Inductive, PTL

\* CalmFilesAreLog: as long as no two programs overlap and none is stopped within
\* a save, the files hold all that was recorded, in order; and one undisturbed
\* save makes it so again (History::save, run).
THEOREM CalmFilesAreLogCorrect == Spec => []CalmFilesAreLog
<1>1. IInv => CalmFilesAreLog
  <2> SUFFICES ASSUME IInv, calm PROVE CalmFilesAreLog
    BY DEF CalmFilesAreLog
  <2>1. config_file # "torn"
    BY DEF IInv, AloneIsAlone
  <2>2. ASSUME \A p \in Prog : ~Interrupts(p) PROVE \A p \in Prog : ~Rewrites(p)
    BY <2>2 DEF Interrupts, Rewrites
  <2>3. \A p \in Prog : step[p] = "open" => entries[p] = log /\ bookmarks[p] = marks
    BY DEF IInv, ListsAreLog
  <2> QED BY <2>1, <2>2, <2>3 DEF IInv, FilesAreLog, CalmFilesAreLog
<1> QED BY <1>1, Inductive, PTL

\* OneBookmarkPerUrl: not even programs that overlap write a URL's bookmark twice
\* (add_bookmark).
THEOREM OneBookmarkPerUrlCorrect == Spec => []OneBookmarkPerUrl
<1>1. Init => OneBookmarkPerUrl
  BY EmptySeq, NothingLost DEF Init, HistoryInit, OneBookmarkPerUrl, NoDuplicates
<1>2. TypeOK /\ OneBookmarkPerUrl /\ [Next]_vars => OneBookmarkPerUrl'
  BY BookmarkStep
<1> QED BY <1>1, <1>2, TypeCorrect, PTL DEF Spec
=============================================================================
