---------------------------- MODULE MCFileServer ----------------------------
(* What comments of http_server.rs say and the code does not do.           *)
EXTENDS FileServer

\* serve_file: the requested range is streamed.
BodyIsRange ==
  \A c \in Conn : reply[c].status = 206 /\ reply[c].body # {} =>
                    reply[c].body = reply[c].first..reply[c].last

\* MAX_RANGE_SIZE is the largest range a single request may ask for.
RangeWithinMax ==
  \A c \in Conn : reply[c].status = 206 /\ req[c].range.end # Open =>
                    req[c].range.end - req[c].range.start + 1 <= MaxRange

\* CorsAllowList: pages of this host are allowed.  All of Origin are such.
LocalOriginAllowed == \A c \in Conn : reply[c].status # 403

\* The server serves files: a client that sent its request is answered, also
\* when it leaves the connection open for the answer.
OpenClientsAnswered == \A c \in Conn : pc[c] = "reading" ~> pc[c] # "reading"
=============================================================================
