--------------------------- MODULE MCPeerDownload ---------------------------
(* What comments of transfer/downloader.rs say and the code does not do.   *)
EXTENDS PeerDownload

\* download_from_peer: at the early return the file is complete.
CompleteIsWhole == result.by = "complete" => Len(output) >= len

\* download_parallel downloads over several connections: without a failure it
\* downloads the file.
ParallelWhole ==
  peer = "range" /\ result.by = "parallel" /\ result.status = "ok" /\ flaws = {} =>
    output = Content

\* A download from a peer resumes where it broke off: one that goes on from a
\* beginning of the file ends with the file.
PeerResumes ==
  /\ result.status = "ok" /\ result.by = "peer" /\ flaws = {}
  /\ IsPrefixOfFile(before)
  => output = Content
=============================================================================
