--------------------------- MODULE MCCollabClient ---------------------------
(* What comments of client/ws.rs and main.rs say and the code does not do.  *)
EXTENDS CollabClient

\* subscribe: who subscribed receives the server's messages.
SubscribersHear == heard = arrived

\* ConnectionState: Connected means connected; a client that lost its link is
\* Disconnected, Reconnecting or Failed.
LossNoticed == caller = "ready" /\ link[gen] = "down" ~> state # Connected
=============================================================================
