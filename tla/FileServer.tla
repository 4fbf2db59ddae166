----------------------------- MODULE FileServer -----------------------------
(***************************************************************************)
(* FileServer (http_server.rs): GET /file/{id} of the files registered for *)
(* a task id.  Each connection is a tokio task; `files` is behind an       *)
(* RwLock, which register_file and unregister_file take for writing and a  *)
(* request takes for reading, from the look-up to the last byte of the     *)
(* answer.  tokio's RwLock is fair: whoever asks for it joins a queue.     *)
(*                                                                         *)
(* A file is the set of its byte positions, and all files have FileLen     *)
(* bytes.  A request is what the properties tell apart: the task id of its *)
(* request line (NoTask: any line but GET /file/{uuid}), its Origin header *)
(* and its Range header.                                                   *)
(***************************************************************************)
EXTENDS Integers, Sequences, FiniteSets

CONSTANTS
  Conn, Ip, Window, MaxRequests,
  Task, NoTask,
  Path, NoPath,      \* files below ./files: register_file refuses others
  Origin, NoOrigin,  \* Origin headers; NoOrigin: the request has none
  FileLen,
  MaxRange,          \* MAX_RANGE_SIZE
  MaxU64,            \* u64::MAX
  NoRange, Open,     \* no Range header; a range without an end
  MaxQueue           \* bound on the waiters of the lock

ASSUME LenAssumption == /\ FileLen \in Nat /\ MaxRange \in Nat
                        /\ MaxU64 \in Nat /\ MaxQueue \in Nat
                        /\ FileLen <= MaxU64 /\ MaxRange <= MaxU64
ASSUME ConnAssumption == IsFiniteSet(Conn)
ASSUME LimiterAssumption == Window \in Nat \ {0} /\ MaxRequests \in Nat \ {0}

VARIABLES
  requests, admitted,  \* of the RateLimiter
  files,    \* the path registered for each task
  queue,    \* tasks that wait for the lock of files, in order
  readers,  \* connections that hold it
  pc,       \* what each connection does next
  from,     \* the IP address of its client
  req,      \* the request its client sends
  path,     \* the path serve_file was called with
  reply     \* what it has answered

limiter == <<requests, admitted>>
lock    == <<files, queue, readers>>
client  == <<from, req>>
vars    == <<limiter, lock, pc, client, path, reply>>

Limiter == INSTANCE RateLimiter

U64     == 0..MaxU64
Ranges  == {NoRange} \cup [start: U64, end: U64 \cup {Open}]
Request == [task: Task \cup {NoTask}, origin: Origin \cup {NoOrigin}, range: Ranges]
Plain   == [task |-> NoTask, origin |-> NoOrigin, range |-> NoRange]

\* `body`: the bytes of the file that were sent after the header.
Answer(s, a, b) == [status |-> s, first |-> a, last |-> b, body |-> {}]
Empty(s)        == Answer(s, 0, -1)
NoReply         == Empty(0)
Whole           == 0..(FileLen - 1)

Reading(c)    == [op |-> "read", conn |-> c]
Writing(t, p) == [op |-> "write", task |-> t, path |-> p]
Waits(w)      == \E k \in 1..Len(queue) : queue[k] = w

---------------------------------------------------------------------------
(* Connections, up to the request.                                         *)

Accept(c, ip, r) ==
  /\ pc[c] = "closed"
  /\ pc' = [pc EXCEPT ![c] = "accepted"]
  /\ from' = [from EXCEPT ![c] = ip]
  /\ req' = [req EXCEPT ![c] = r]
  /\ path' = [path EXCEPT ![c] = NoPath]
  /\ reply' = [reply EXCEPT ![c] = NoReply]
  /\ UNCHANGED <<limiter, lock>>

AnswerThen(c, next, r) ==
  /\ pc' = [pc EXCEPT ![c] = next]
  /\ reply' = [reply EXCEPT ![c] = r]
  /\ UNCHANGED <<client, path>>

Close(c, r) == AnswerThen(c, "closed", r)

\* Mutant: the guard of the limiter is not given a block of its own and lives as
\* long as the request.
HoldsLimiterOn(c) == pc[c] \notin {"closed", "accepted"}

\* The limiter is behind a lock too, whose guard lives until the 429 is written.
HoldsLimiter(c) == pc[c] = "refusing"
LimiterFree     == \A c \in Conn : ~HoldsLimiter(c)

\* The limiter is asked before a byte of the request is read.
Admit(c) ==
  /\ pc[c] = "accepted"
  /\ LimiterFree
  /\ Limiter!Admit(from[c])
  /\ pc' = [pc EXCEPT ![c] = "reading"]
  /\ UNCHANGED <<lock, client, path, reply>>

Refuse(c) ==
  /\ pc[c] = "accepted"
  /\ LimiterFree
  /\ Limiter!Refuse(from[c])
  /\ AnswerThen(c, "refusing", Empty(429))
  /\ UNCHANGED lock

\* get_origin_from_request takes what is between the first two colons of the
\* header line: of http://host:port that is `http`, which is no URL.
Allowed(origin) == origin = NoOrigin

\* The request is complete only when the client closes its side: read() = 0.
Forbidden(c) ==
  /\ pc[c] = "reading"
  /\ ~Allowed(req[c].origin)
  /\ AnswerThen(c, "answering", Empty(403))
  /\ UNCHANGED <<limiter, lock>>

NotAFile(c) ==
  /\ pc[c] = "reading"
  /\ Allowed(req[c].origin)
  /\ req[c].task = NoTask
  /\ AnswerThen(c, "answering", Empty(404))
  /\ UNCHANGED <<limiter, lock>>

AskForLock(c) ==
  /\ pc[c] = "reading"
  /\ Allowed(req[c].origin)
  /\ req[c].task # NoTask
  /\ pc' = [pc EXCEPT ![c] = "waiting"]
  /\ queue' = Append(queue, Reading(c))
  /\ UNCHANGED <<limiter, files, readers, client, path, reply>>

\* An answer without a body was written, or its client went away.
Answered(c) ==
  /\ pc[c] \in {"refusing", "answering"}
  /\ Close(c, reply[c])
  /\ UNCHANGED <<limiter, lock>>

ClientEnds(c) == Forbidden(c) \/ NotAFile(c) \/ AskForLock(c)

---------------------------------------------------------------------------
(* files.read(), the look-up and serve_file.                               *)

NotRegistered(c) ==
  /\ queue # <<>> /\ queue[1] = Reading(c)
  /\ files[req[c].task] = NoPath
  /\ queue' = Tail(queue)
  /\ AnswerThen(c, "answering", Empty(404))
  /\ UNCHANGED <<limiter, files, readers>>

\* Mutant: the guard is dropped before serve_file.
FoundUnlocked(c) ==
  /\ queue # <<>> /\ queue[1] = Reading(c)
  /\ files[req[c].task] # NoPath
  /\ queue' = Tail(queue)
  /\ path' = [path EXCEPT ![c] = files[req[c].task]]
  /\ pc' = [pc EXCEPT ![c] = "header"]
  /\ UNCHANGED <<limiter, files, readers, client, reply>>

Found(c) ==
  /\ queue # <<>> /\ queue[1] = Reading(c)
  /\ files[req[c].task] # NoPath
  /\ queue' = Tail(queue)
  /\ readers' = readers \cup {c}
  /\ path' = [path EXCEPT ![c] = files[req[c].task]]
  /\ pc' = [pc EXCEPT ![c] = "header"]
  /\ UNCHANGED <<limiter, files, client, reply>>

\* A range whose start is after its end is no range.
parse_range(r) ==
  IF r # NoRange /\ r.end # Open /\ r.start > r.end THEN NoRange ELSE r

EndOf(r)      == IF r.end = Open THEN FileLen - 1 ELSE r.end
\* end - start + 1 in u64: a release build wraps around (a debug build
\* panics, which is ServeFails).
range_size(r) == (EndOf(r) - r.start + 1) % (MaxU64 + 1)
\* Mutant: the end is not limited to the file.
LastByteAsked(r) == EndOf(r)
LastByte(r)   == IF EndOf(r) > FileLen - 1 THEN FileLen - 1 ELSE EndOf(r)

Unsatisfiable(r) == \/ r.start >= FileLen
                    \/ r.start > EndOf(r)
                    \/ range_size(r) > MaxRange

SendHeader(c) ==
  LET r == parse_range(req[c].range) IN
  /\ pc[c] = "header"
  /\ IF r # NoRange /\ Unsatisfiable(r)
     THEN /\ Close(c, Empty(416))
          /\ readers' = readers \ {c}
     ELSE /\ reply' = [reply EXCEPT ![c] =
                         IF r = NoRange THEN Answer(200, 0, FileLen - 1)
                                        ELSE Answer(206, r.start, LastByte(r))]
          /\ pc' = [pc EXCEPT ![c] = "body"]
          /\ UNCHANGED <<readers, client, path>>
  /\ UNCHANGED <<limiter, files, queue>>

\* tokio::io::copy sends the file from its beginning, whatever the header says.
SendBody(c) ==
  /\ pc[c] = "body"
  /\ readers' = readers \ {c}
  /\ Close(c, [reply[c] EXCEPT !.body = Whole])
  /\ UNCHANGED <<limiter, files, queue>>

\* Mutant: the guard survives an error of serve_file.
GiveUpKeepsLock(c) ==
  /\ pc[c] \in {"reading", "header", "body"}
  /\ Close(c, reply[c])
  /\ UNCHANGED <<limiter, lock>>

\* The client goes away, sends nothing or more than 10 MB; the path is not
\* below ./files any more; the file cannot be read.  `?` drops the guard.
GiveUp(c) ==
  /\ pc[c] \in {"reading", "header", "body"}
  /\ Close(c, reply[c])
  /\ readers' = readers \ {c}
  /\ UNCHANGED <<limiter, files, queue>>

---------------------------------------------------------------------------
(* register_file and unregister_file.                                      *)

AskToWrite(t, p) ==
  /\ Len(queue) < MaxQueue
  /\ queue' = Append(queue, Writing(t, p))
  /\ UNCHANGED <<limiter, files, readers, pc, client, path, reply>>

Register(t, p) == AskToWrite(t, p)
Unregister(t)  == AskToWrite(t, NoPath)

Write ==
  /\ queue # <<>> /\ queue[1].op = "write" /\ readers = {}
  /\ files' = [files EXCEPT ![queue[1].task] = queue[1].path]
  /\ queue' = Tail(queue)
  /\ UNCHANGED <<limiter, readers, pc, client, path, reply>>

TimePasses == Limiter!Tick    /\ UNCHANGED <<lock, pc, client, path, reply>>
CleansUp   == /\ LimiterFree
              /\ Limiter!Cleanup
              /\ UNCHANGED <<lock, pc, client, path, reply>>

Init ==
  /\ Limiter!Init
  /\ files = [t \in Task |-> NoPath]
  /\ queue = <<>>
  /\ readers = {}
  /\ pc = [c \in Conn |-> "closed"]
  /\ from \in [Conn -> Ip]
  /\ req = [c \in Conn |-> Plain]
  /\ path = [c \in Conn |-> NoPath]
  /\ reply = [c \in Conn |-> NoReply]

Serve(c) == NotRegistered(c) \/ Found(c) \/ SendHeader(c) \/ SendBody(c) \/ GiveUp(c)

Next ==
  \/ \E c \in Conn :
       \/ \E ip \in Ip, r \in Request : Accept(c, ip, r)
       \/ Admit(c) \/ Refuse(c) \/ ClientEnds(c) \/ Serve(c) \/ Answered(c)
  \/ \E t \in Task : Unregister(t) \/ \E p \in Path : Register(t, p)
  \/ Write
  \/ TimePasses \/ CleansUp

Spec == Init /\ [][Next]_vars

\* tokio runs every task that can run, and its lock gives everyone who asks a
\* turn: hence SF for the limiter, whose queue the model leaves out.  The interval
\* of the cleanup task ticks for ever.  No write to a client has a time limit, so
\* SendHeader, SendBody and Answered are not fair: a client may keep them waiting.
FairSpec ==
  /\ Spec
  /\ WF_vars(TimePasses) /\ SF_vars(CleansUp)
  /\ WF_vars(Write)
  /\ \A c \in Conn : /\ SF_vars(Admit(c) \/ Refuse(c))
                     /\ WF_vars(NotRegistered(c) \/ Found(c))

---------------------------------------------------------------------------
\* The types; and a connection is in the queue just while it waits for the lock.
TypeOK ==
  /\ files \in [Task -> Path \cup {NoPath}]
  /\ Len(queue) <= MaxQueue + Cardinality(Conn)
  /\ \A c \in Conn : pc[c] = "waiting" <=> Waits(Reading(c))
  /\ readers \subseteq Conn
  /\ pc \in [Conn -> {"closed", "accepted", "refusing", "reading", "answering", "waiting",
                   "header", "body"}]
  /\ from \in [Conn -> Ip]
  /\ req \in [Conn -> Request]
  /\ path \in [Conn -> Path \cup {NoPath}]

\* While a file is sent it is the one registered for the task: unregister_file
\* and register_file return only when no request is still served what they
\* replaced (the guard of handle_request lives until serve_file returns).
ServedIsRegistered ==
  \A c \in Conn : pc[c] \in {"header", "body"} => files[req[c].task] = path[c]

\* The range a 206 answer announces lies in the file and in what was asked for;
\* only requests without a usable range get the whole file (serve_file).
HeaderFits ==
  \A c \in Conn : LET r == req[c].range IN
    /\ reply[c].status = 206 =>
         /\ reply[c].first = r.start
         /\ reply[c].last \in r.start..(FileLen - 1)
         /\ r.end # Open => reply[c].last <= r.end
    /\ reply[c].status = 200 => r = NoRange \/ (r.end # Open /\ r.start > r.end)

\* Some client leaves its answer unread for ever.
Stalls(steps) == \E d \in Conn : [](pc[d] \in steps)

\* Registering and unregistering a file does not wait for ever, whatever
\* requests come in meanwhile: later readers queue behind the writer.  Only a
\* client that is sent a file and never takes it can keep it waiting, and then
\* does: serve_file writes under the read guard, without a time limit.
WritesComplete ==
  \A t \in Task, p \in Path \cup {NoPath} :
    Waits(Writing(t, p)) ~> files[t] = p \/ Stalls({"header", "body"})

\* The limiter keeps its bound with requests and cleanups in any order, and its
\* table of addresses does not grow for ever (is_allowed, cleanup), unless a
\* client never takes its 429.
RateBound == Limiter!RateBound
Forgotten ==
  \A ip \in Ip :
    Limiter!Quiet(ip) ~>
      ip \notin DOMAIN requests \/ ~Limiter!Quiet(ip) \/ Stalls({"refusing"})

\* A connection gets past each of the two locks: its request is read, or refused,
\* and once it is looked up its answer begins.  No client is in another's way by
\* not ending its request, by ending it or by leaving, only by leaving unread what
\* is written to it under a guard: a 429 or a file (handle_request).
RequestsFinish ==
  \A c \in Conn :
    /\ pc[c] = "accepted" ~> pc[c] # "accepted" \/ Stalls({"refusing"})
    /\ pc[c] = "waiting" ~> pc[c] # "waiting" \/ Stalls({"header", "body"})
=============================================================================
