------------------------------- MODULE MCGui -------------------------------
(* Two videos; and what gui.rs shows its user and does not do.             *)
EXTENDS Gui

CONSTANTS u1, u2, f1, f2, f3, f4

\* u1 lists an audio format first, and its video formats from small to large.
Listed ==
  u1 :> <<[id |-> f1, video |-> FALSE, size |-> 1],
          [id |-> f2, video |-> TRUE, size |-> 2],
          [id |-> f3, video |-> TRUE, size |-> 3]>>
  @@ u2 :> <<[id |-> f4, video |-> TRUE, size |-> 1]>>

\* view: a button shows the resolution and size of the format it selects.
ClickedIsDownloaded ==
  \A s \in Slot : downloads[s].clicked # NoFormat /\ downloads[s].url \notin Direct =>
                    downloads[s].format = downloads[s].clicked

\* "Please get video info first": a download needs the info of its video.
InfoIsOfUrl == \A s \in Slot : downloads[s].url = downloads[s].info
=============================================================================
