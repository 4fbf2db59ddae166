-------------------------- MODULE MCDirectDownload --------------------------
(* What comments of downloader.rs and types.rs say and the code does not do. *)
EXTENDS DirectDownload

\* types.rs: DownloadResult.file_size is the size of the file in bytes.
SizeIsFileSize == result.status = "ok" => result.size = Len(output)

\* downloader.rs: download has a retry mechanism.  It gives up only after the
\* configured number of attempts.
FailsAfterRetries ==
  [][result'.status = "err" /\ pc # "resume" => attempt = Retries - 1]_vars

\* downloader.rs: an interrupted download can be resumed.  What resume_download
\* reports as successful on a beginning of the file is the file.
ResumeIsWhole ==
  [][pc = "resume" /\ IsPrefix(output) /\ result'.status = "ok" => output' = Content]_vars
=============================================================================
