------------------------------ MODULE History ------------------------------
(***************************************************************************)
(* History (history.rs): the downloads of the past, newest first, and the  *)
(* bookmarks.  Every program that is started has a History of its own: it  *)
(* loads history.json and bookmarks.json when it begins, and each change   *)
(* rewrites both files, first the one and then the other.  fs::write       *)
(* truncates a file before it writes, and two programs may do so at once.  *)
(*                                                                         *)
(* Ids, titles, sizes and times are left out.  remove_entry and            *)
(* remove_bookmark have no caller.                                         *)
(***************************************************************************)
EXTENDS Naturals, Sequences

CONSTANTS Prog,  \* programs that may run at the same time
          Url,
          NoUrl

ASSUME UrlAssumption == NoUrl \notin Url

VARIABLES
  history_file, bookmark_file,
  entries, bookmarks,   \* the two lists in the memory of each program
  step                  \* what each program's History does next

files   == <<history_file, bookmark_file>>
lists   == <<entries, bookmarks>>

\* An entry or a bookmark names its URL, and how the video was downloaded.
Entry == [op: {"direct", "ytdlp"}, url: Url]

\* A torn file is not JSON; a cut one is not even UTF-8, because a character of
\* more than one byte was cut.
Missing == [state |-> "missing", list |-> <<>>]
Empty   == [state |-> "empty",   list |-> <<>>]
Torn    == [state |-> "torn",    list |-> <<>>]
Cut     == [state |-> "cut",     list |-> <<>>]
Whole(list) == [state |-> "whole", list |-> list]

\* The file after a program that had truncated it writes its list: if another
\* one has written a longer list in the meantime, the rest of that is left.
Written(file, list) ==
  {Whole(list)} \cup (IF file \in {Empty, Whole(list)} THEN {} ELSE {Torn, Cut})
\* The file after a write that broke off.
Broken(file) == {file, Torn, Cut}

Has(list, u) == \E k \in 1..Len(list) : list[k] = u

---------------------------------------------------------------------------
New(p) ==
  /\ step[p] = "closed"
  /\ step' = [step EXCEPT ![p] = "loadHistory"]
  /\ UNCHANGED <<files, lists>>

\* load: unwrap_or_default makes an empty list of everything that is no JSON.
LoadHistory(p) ==
  /\ step[p] = "loadHistory"
  /\ history_file # Cut
  /\ entries' = [entries EXCEPT ![p] = history_file.list]
  /\ step' = [step EXCEPT ![p] = "loadBookmarks"]
  /\ UNCHANGED <<files, bookmarks>>

LoadBookmarks(p) ==
  /\ step[p] = "loadBookmarks"
  /\ bookmark_file # Cut
  /\ bookmarks' = [bookmarks EXCEPT ![p] = bookmark_file.list]
  /\ step' = [step EXCEPT ![p] = "open"]
  /\ UNCHANGED <<files, entries>>

\* read_to_string refuses what is not UTF-8.
LoadFails(p) == \/ step[p] = "loadHistory" /\ history_file = Cut
                \/ step[p] = "loadBookmarks" /\ bookmark_file = Cut

---------------------------------------------------------------------------
\* Mutant: the newest entry goes to the end.
add_entry_last(p, e) ==
  /\ step[p] = "open"
  /\ entries' = [entries EXCEPT ![p] = Append(@, e)]
  /\ step' = [step EXCEPT ![p] = "save"]
  /\ UNCHANGED <<files, bookmarks>>

add_entry(p, e) ==
  /\ step[p] = "open"
  /\ entries' = [entries EXCEPT ![p] = <<e>> \o @]
  /\ step' = [step EXCEPT ![p] = "save"]
  /\ UNCHANGED <<files, bookmarks>>

clear(p) ==
  /\ step[p] = "open"
  /\ entries' = [entries EXCEPT ![p] = <<>>]
  /\ step' = [step EXCEPT ![p] = "save"]
  /\ UNCHANGED <<files, bookmarks>>

\* Mutant: the list is not searched for the URL.
add_bookmark_again(p, u) ==
  /\ step[p] = "open"
  /\ bookmarks' = [bookmarks EXCEPT ![p] = Append(@, u)]
  /\ step' = [step EXCEPT ![p] = "save"]
  /\ UNCHANGED <<files, entries>>

add_bookmark(p, u) ==
  /\ step[p] = "open" /\ ~Has(bookmarks[p], u)
  /\ bookmarks' = [bookmarks EXCEPT ![p] = Append(@, u)]
  /\ step' = [step EXCEPT ![p] = "save"]
  /\ UNCHANGED <<files, entries>>

---------------------------------------------------------------------------
(* save                                                                    *)

TruncateHistory(p) ==
  /\ step[p] = "save"
  /\ history_file' = Empty
  /\ step' = [step EXCEPT ![p] = "writeHistory"]
  /\ UNCHANGED <<bookmark_file, lists>>

WriteHistory(p) ==
  /\ step[p] = "writeHistory"
  /\ history_file' \in Written(history_file, entries[p])
  /\ step' = [step EXCEPT ![p] = "saveBookmarks"]
  /\ UNCHANGED <<bookmark_file, lists>>

TruncateBookmarks(p) ==
  /\ step[p] = "saveBookmarks"
  /\ bookmark_file' = Empty
  /\ step' = [step EXCEPT ![p] = "writeBookmarks"]
  /\ UNCHANGED <<history_file, lists>>

WriteBookmarks(p) ==
  /\ step[p] = "writeBookmarks"
  /\ bookmark_file' \in Written(bookmark_file, bookmarks[p])
  /\ step' = [step EXCEPT ![p] = "open"]
  /\ UNCHANGED <<history_file, lists>>

\* What is left of the two files by a program that goes no further in save().
LeftBroken(p) ==
  /\ history_file' \in IF step[p] = "writeHistory" THEN Broken(history_file) ELSE {history_file}
  /\ bookmark_file' \in IF step[p] = "writeBookmarks" THEN Broken(bookmark_file) ELSE {bookmark_file}

\* A directory that cannot be created, a file that cannot be opened, a full disk.
SaveMayFail(p) == step[p] \in {"save", "writeHistory", "saveBookmarks", "writeBookmarks"}

\* The program ends, by itself or because it is stopped.
Drop(p) ==
  /\ LeftBroken(p)
  /\ step' = [step EXCEPT ![p] = "closed"]
  /\ entries' = [entries EXCEPT ![p] = <<>>]
  /\ bookmarks' = [bookmarks EXCEPT ![p] = <<>>]

HistoryInit ==
  /\ history_file = Missing /\ bookmark_file = Missing
  /\ entries = [p \in Prog |-> <<>>]
  /\ bookmarks = [p \in Prog |-> <<>>]
  /\ step = [p \in Prog |-> "closed"]
=============================================================================
