-------------------------------- MODULE Gui --------------------------------
(***************************************************************************)
(* App (gui.rs): update() handles one message at a time; what it starts,   *)
(* yt-dlp processes for a video's data or for a download, runs beside it   *)
(* and reports back in any order.  The output directory goes the way of the*)
(* cookie and is left out, as are texts and the progress bar.  A file      *)
(* dialog that returns a path is an edit of the field.                     *)
(***************************************************************************)
EXTENDS Integers, Sequences, TLC

CONSTANTS
  Url,        \* URLs that validate_url accepts
  Direct,     \* those that contain video.twimg.com
  NoUrl,      \* any other text in the URL field; no video info
  Cookie, NoCookie,
  FormatsOf,  \* the formats yt-dlp lists for a URL
  MaxShown,   \* 8, the formats the view takes
  Best, NoFormat,
  Slot        \* commands that run at the same time

ASSUME UrlAssumption    == Direct \subseteq Url /\ NoUrl \notin Url
ASSUME FormatAssumption ==
  /\ MaxShown \in Nat
  /\ \A u \in Url : Len(FormatsOf[u]) \in Nat
  /\ \A u \in Url : \A k \in 1..Len(FormatsOf[u]) :
       /\ FormatsOf[u][k].id # NoFormat
       /\ FormatsOf[u][k].video \in BOOLEAN /\ FormatsOf[u][k].size \in Nat

VARIABLES
  url_input, cookie_file,
  video_info,      \* the URL whose info is shown, or NoUrl
  selected_format, \* an index, counted from 1; 0 is None
  is_fetching, is_downloading, error,
  fetches,         \* the get_video_info that run: their URL, or NoUrl
  downloads,       \* the yt-dlp downloads that run, or Nothing
  config,          \* the cookie in gui_config.json; NoCookie also if unreadable
  clicked          \* history: the format on the button whose index is selected,
                   \* or NoFormat if no button was pressed

input == <<url_input, cookie_file, config>>
vars  == <<input, video_info, selected_format, is_fetching, is_downloading, error,
           fetches, downloads, clicked>>

---------------------------------------------------------------------------
Formats(u) == FormatsOf[u]
IsVideo(f) == f.video             \* not audio_only, and a known extension
Larger(f, g) == f.size > g.size

\* The buttons of the view: the first MaxShown video formats, by size.
Buttons(u) ==
  LET videos == SelectSeq(Formats(u), IsVideo)
  IN SortSeq(SubSeq(videos, 1, IF Len(videos) < MaxShown THEN Len(videos) ELSE MaxShown),
             Larger)

\* selected_format.unwrap_or(0) indexes all formats of the info.
Index  == IF selected_format = 0 THEN 1 ELSE selected_format
Format == IF url_input \in Direct \/ Index > Len(Formats(video_info))
          THEN Best ELSE Formats(video_info)[Index].id

Nothing == [url |-> NoUrl, info |-> NoUrl, format |-> NoFormat, clicked |-> NoFormat]

---------------------------------------------------------------------------
EditUrl(u) ==
  /\ url_input' = u
  /\ UNCHANGED <<cookie_file, config, video_info, selected_format, is_fetching,
                 is_downloading, error, fetches, downloads, clicked>>

EditCookie(k) ==
  /\ cookie_file' = k
  /\ UNCHANGED <<url_input, config, video_info, selected_format, is_fetching,
                 is_downloading, error, fetches, downloads, clicked>>

SetError(e) ==
  /\ error' = e
  /\ UNCHANGED <<input, video_info, selected_format, is_fetching, is_downloading,
                 fetches, downloads, clicked>>

FetchRefused == url_input \notin Url /\ SetError(TRUE)

\* Neither button is disabled while a command runs.
FetchInfo(s) ==
  /\ url_input \in Url
  /\ fetches[s] = NoUrl
  /\ fetches' = [fetches EXCEPT ![s] = url_input]
  /\ is_fetching' = TRUE /\ error' = FALSE /\ video_info' = NoUrl
  /\ UNCHANGED <<input, selected_format, is_downloading, downloads, clicked>>

\* Mutant: an index that was selected for another info stays.
InfoFetchedKeeps(s) ==
  /\ fetches[s] # NoUrl
  /\ fetches' = [fetches EXCEPT ![s] = NoUrl]
  /\ is_fetching' = FALSE
  /\ video_info' = fetches[s]
  /\ UNCHANGED <<input, selected_format, is_downloading, error, downloads, clicked>>

InfoFetched(s) ==
  /\ fetches[s] # NoUrl
  /\ fetches' = [fetches EXCEPT ![s] = NoUrl]
  /\ is_fetching' = FALSE
  /\ video_info' = fetches[s]
  /\ selected_format' = IF Formats(fetches[s]) = <<>> THEN 0 ELSE 1
  /\ clicked' = NoFormat
  /\ UNCHANGED <<input, is_downloading, error, downloads>>

\* Mutant: the flag is only cleared by a success.
FetchFailsBusy(s) ==
  /\ fetches[s] # NoUrl
  /\ fetches' = [fetches EXCEPT ![s] = NoUrl]
  /\ error' = TRUE
  /\ UNCHANGED <<input, video_info, selected_format, is_fetching, is_downloading,
                 downloads, clicked>>

FetchFails(s) ==
  /\ fetches[s] # NoUrl
  /\ fetches' = [fetches EXCEPT ![s] = NoUrl]
  /\ is_fetching' = FALSE /\ error' = TRUE
  /\ UNCHANGED <<input, video_info, selected_format, is_downloading, downloads, clicked>>

SelectFormat(i) ==
  /\ video_info # NoUrl /\ i \in 1..Len(Buttons(video_info))
  /\ selected_format' = i
  /\ clicked' = Buttons(video_info)[i].id
  /\ UNCHANGED <<input, video_info, is_fetching, is_downloading, error, fetches, downloads>>

\* The button is there only with an info.
DownloadRefused == video_info # NoUrl /\ url_input \notin Url /\ SetError(TRUE)

StartDownload(s) ==
  /\ url_input \in Url /\ video_info # NoUrl
  /\ downloads[s] = Nothing
  /\ downloads' = [downloads EXCEPT ![s] =
       [url |-> url_input, info |-> video_info, format |-> Format, clicked |-> clicked]]
  /\ is_downloading' = TRUE /\ error' = FALSE
  /\ UNCHANGED <<input, video_info, selected_format, is_fetching, fetches, clicked>>

DownloadCompleted(s, ok) ==
  /\ downloads[s] # Nothing
  /\ downloads' = [downloads EXCEPT ![s] = Nothing]
  /\ is_downloading' = FALSE
  /\ error' = (error \/ ~ok)
  /\ UNCHANGED <<input, video_info, selected_format, is_fetching, fetches, clicked>>

ClearError == error /\ SetError(FALSE)

SaveCookie ==
  /\ config' = cookie_file
  /\ UNCHANGED <<url_input, cookie_file, video_info, selected_format, is_fetching,
                 is_downloading, error, fetches, downloads, clicked>>

\* The file cannot be opened, or is left truncated: then load_config finds none.
SaveFails ==
  /\ config' \in {config, NoCookie}
  /\ error' = TRUE
  /\ UNCHANGED <<url_input, cookie_file, video_info, selected_format, is_fetching,
                 is_downloading, fetches, downloads, clicked>>

Init ==
  /\ url_input = NoUrl /\ video_info = NoUrl /\ selected_format = 0
  /\ is_fetching = FALSE /\ is_downloading = FALSE /\ error = FALSE
  /\ fetches = [s \in Slot |-> NoUrl]
  /\ downloads = [s \in Slot |-> Nothing]
  /\ clicked = NoFormat
  /\ config = NoCookie /\ cookie_file = NoCookie

\* The program is closed and started again.
Restart ==
  /\ url_input' = NoUrl /\ video_info' = NoUrl /\ selected_format' = 0
  /\ is_fetching' = FALSE /\ is_downloading' = FALSE /\ error' = FALSE
  /\ fetches' = [s \in Slot |-> NoUrl]
  /\ downloads' = [s \in Slot |-> Nothing]
  /\ clicked' = NoFormat
  /\ cookie_file' = config
  /\ UNCHANGED config

Next ==
  \/ \E u \in Url \cup {NoUrl} : EditUrl(u)
  \/ \E k \in Cookie \cup {NoCookie} : EditCookie(k)
  \/ FetchRefused \/ DownloadRefused \/ ClearError
  \/ SaveCookie \/ SaveFails \/ Restart
  \/ \E s \in Slot : \/ FetchInfo(s) \/ InfoFetched(s) \/ FetchFails(s)
                     \/ StartDownload(s)
                     \/ \E ok \in BOOLEAN : DownloadCompleted(s, ok)
  \/ \E i \in 1..MaxShown : SelectFormat(i)

Spec == Init /\ [][Next]_vars

---------------------------------------------------------------------------
\* The types.
TypeOK ==
  /\ url_input \in Url \cup {NoUrl} /\ video_info \in Url \cup {NoUrl}
  /\ {cookie_file, config} \subseteq Cookie \cup {NoCookie}
  /\ selected_format \in 0..MaxShown \cup {1}
  /\ is_fetching \in BOOLEAN /\ is_downloading \in BOOLEAN /\ error \in BOOLEAN
  /\ fetches \in [Slot -> Url \cup {NoUrl}]
  /\ downloads = [s \in Slot |-> downloads[s]]
  /\ \A s \in Slot : downloads[s].info \in Url \cup {NoUrl}

\* "..." and "Downloading..." are never shown for ever: while they are, a
\* command runs whose report will clear them, although commands may overlap and
\* the first report clears the flag of all (FetchInfo, InfoFetched).
BusyMeansWorking ==
  /\ is_fetching => \E s \in Slot : fetches[s] # NoUrl
  /\ is_downloading => \E s \in Slot : downloads[s] # Nothing

\* A selection is never carried over to another video: while a fetch is under
\* way, and when two overlap and their infos arrive one on top of the other, the
\* selected index is that of a button of the info shown, or none was pressed; and
\* so it is for each download that was started (InfoFetched, SelectFormat).  That
\* the index then picks another format of that info is another matter.
IsButton(u, f) == \E k \in 1..Len(Buttons(u)) : Buttons(u)[k].id = f
SelectionOfInfo ==
  /\ video_info # NoUrl /\ clicked # NoFormat =>
       /\ selected_format \in 1..Len(Buttons(video_info))
       /\ Buttons(video_info)[selected_format].id = clicked
  /\ \A s \in Slot : downloads[s].clicked # NoFormat =>
       IsButton(downloads[s].info, downloads[s].clicked)
=============================================================================
