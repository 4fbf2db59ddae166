# Verification of x_video_downloader

TLA+ models of the Rust program in this repository: a video downloader (command
line and GUI), and the collaboration system with which several devices share a
list of downloads (a WebSocket server with a database, its client, a local
queue, and file transfer between devices). TLC checks the models on small
instances; TLAPS proves every invariant and action property that the runs check
for every value of their constants. Paths below are those of the repository: its
Rust sources are under `src/src/`.

Contents: [inventory](#inventory), [modules](#modules),
[runs](#runs), [bounds](#bounds-and-why-they-are-enough),
[fairness](#fairness), [reductions](#what-is-one-step-and-why),
[proofs](#proofs), [findings](#findings),
[not modelled](#not-modelled), [plan](#plan).

To run: `tlc -config <run>.cfg <Module>` for a row of the runs' table below, and
`tlapm <Module>Proofs.tla` for the eight modules under [Proofs](#proofs).

## Inventory

### How the parts interact

```
 GUI ----> yt-dlp <---- command line ---> direct downloader (HTTP)
                             |   |
        create / join team   |   +--> history, bookmarks, config.toml
                             v
                    collaboration client --WebSocket--> server connections
                                                          | messages
   local queue <- - - (nothing calls sync yet)            v
                                              handlers <-> sessions, ring
   peer downloader --HTTP--> file server          |           ^
   (of one device)           (of another)         v           | broadcast
                                              database <-- timeout sweep
```

The server is one process with many tokio tasks on a multi-threaded runtime: one
per connection, which reads messages and writes queued answers inside one
`select!`, and one for the timeout sweep. They share the session table behind an
`RwLock` and the SQLite database behind a mutex **that each call takes for
itself**: a handler that reads a row, changes the copy and writes it back does
so in three separate steps. The client has a task per connection that joins a
read, a write and a heartbeat loop, connected to callers by bounded channels.
The file server has one task per HTTP connection and a fair `RwLock` on its
table of files. Each start of the command line is a process of its own, and
nothing keeps two of them from the same files. The downloaders start a task per segment or chunk. The GUI is
an iced application: one message at a time, with external processes that report
back in any order.

### Components

| component | state | operations | what is hard | what makes it correct |
|---|---|---|---|---|
| Server connections and sessions (`server/ws.rs`, `server/handler.rs`) | session table, a broadcast channel of 100 messages per session, hash ring | accept and authenticate, register (two locks), update the session, read loop, write loop, unregister, restart | two connections of one device; Register messages at any time and with any ids; a session displaced while its connection is in a handler; a client that does not read, and overflow of the channel; `select!` drops a handler at any await | no session outlives its connection; displaced sessions stay out; handlers finish; an overflowed connection is closed once its client reads |
| Message handlers (`server/handler.rs`) | the values a handler holds between two database calls | create, join, leave team; add, claim, progress, complete task; request file; heartbeat | SELECT and UPDATE are not one step; UPDATE goes by id alone; every database error path | rows stay consistent; a handler writes tasks of its own team only; a complete task's file is at its claimer; tasks are never lost; only the sweep releases claims |
| Timeout sweep (`server/handler.rs` 486-518, `server/ws.rs`) | the teams and rows it read | read teams, read claims, release overdue ones, announce | decides on old rows; runs beside handlers; restarts | an overdue claim of a swept team is released or completed |
| Server database (`server/db.rs`) | tables teams, devices, tasks | the queries, with UNIQUE and FOREIGN KEY constraints | failing calls | references exist |
| Collaboration client (`client/ws.rs`, `main.rs`) | connection state, write channel, subscribers | connect, greet, reconnect with growing delays, send, subscribe, three loops | reconnecting while old loops run; a link that breaks unnoticed; the order of the greeting | greeting first; messages not lost on a live link; failure reported once after the last attempt; loops end; a peer that never answers |
| Local task queue (`client/queue.rs`) | tasks in memory, one JSON file | add, claim, progress, complete, merge the server's list, load, save | a failed or interrupted save; merging by URL | one task per URL; what returned Ok is saved; unsent tasks survive the merge |
| Direct downloader (`downloader.rs`) | output file, temporary segment files | download with retries, parallel segments and merge, resume | interrupted bodies, bodies that end early, writes that fail late; servers without Range; failed segments; retries over old files | segments without a failure make the file; old content is kept until an answer is there; bytes in order; a resumption goes on at the byte that is missing; calls return |
| Peer downloader (`transfer/downloader.rs`) | output file, chunk files | resume from a peer, parallel chunks and merge | broken and early ended bodies, refusals whose text is written, failed chunks, left-over chunk files | what is there is only extended; resuming goes on at the byte that is missing; chunks are merged in order; calls end with a result |
| Rate limiter (`transfer/http_server.rs`) | instants of requests per address | admit or refuse, clean up | the edge of the window | at most N requests in any window; idle addresses are forgotten |
| File server (`transfer/http_server.rs`) | registered files behind a fair lock | accept, parse, look up, send header and body; register, unregister | readers that hold the lock for a whole transfer; range arithmetic in u64; clients that stay open or stop reading | what is sent is registered; the header describes the body; writers and requests get the locks unless a client stops reading |
| GUI (`gui.rs`) | input fields, fetched info, selected format, busy flags, config file | every arm of `update()` the view can send | overlapping fetches and downloads; fields edited in between | busy means something works; a selection is never carried over to another video |
| Hash ring (`crypto/hashring.rs`) | a map from hash to device (a second map is written and never read) | add, remove, get_owner | the wrap past the last device; the order of joins | owner is on the ring; a change of membership moves only what it must, and all of it to or from the device that changed |
| Command line, history, configuration (`main.rs`, `history.rs`, `config.rs`) | what a program has left to do; two lists in the memory of each program; three files | batch and single downloads, direct and with yt-dlp; add, clear, bookmark; load, save; `--init-config` | programs that run at the same time over the same files; a stop within a write; errors that end a batch | what undisturbed programs recorded stays; bookmarks are unique |
| Authentication token (`crypto/auth.rs`) | none | generate, parse, verify | the edges of the window | a fresh token of the other side is accepted |

The components that are only listed (types, yt-dlp wrapper, discovery, STUN,
theme, script) are under [Not modelled](#not-modelled). The
hazards, each at its line, with the properties that cover it, are in
`PROJECT.json`.

## Modules

`TaskBoard` is what the server promises about tasks: devices look at a task,
change it later in the name of what they saw, and overdue claims may be put
back. `CollabServer` is the server; `Board == INSTANCE TaskBoard WITH ...` is its
refinement mapping (a complete task shows the device that has its file; an
intent is the row that a handler holds between SELECT and UPDATE).
`FileServer` composes with `RateLimiter` (`Limiter == INSTANCE RateLimiter`).
`CollabServer` extends `HashRing`, whose operators its handlers call, and
`CommandLine` extends `History`, whose steps it makes part of a program's.
`MC*` modules hold the instances, the initial states and the properties that
quote a document. `*Proofs` modules hold theorems.

| module | models | state and actions |
|---|---|---|
| `TaskBoard` | abstract | `board`, `intent`, `overdue` |
| `CollabServer` | `server/ws.rs`, `server/handler.rs`, `server/db.rs` | the three tables; `conn[c].pc` is the await or lock a connection's task is at, `conn[c].row` the copy of a row it holds; `sessions`, `unread` (fill of each broadcast channel), `sending` (the connections whose write loop is suspended in `write.send()`), `ring`, `sweep` (the background task, with its own steps), `now`, `restarts`. One action per database call or lock of each handler, error paths (`DatabaseFails`, `UpdateTaskFails`, `SweepReadFails`, ...) included |
| `DirectDownload` | `downloader.rs` | a file is the sequence of its byte positions, so that a wrong file differs visibly from the right one; retry loop, segment tasks, merge, resume; a body may end early without an error, and the last write of an unflushed file may fail unseen |
| `RateLimiter` | `http_server.rs` 20-64 | ages instead of instants, up to a window; `admitted`, a history, has those of the last `MaxRequests + 1` requests let through |
| `FileServer` | `http_server.rs` 67-492 | the lock with its queue of waiters, one pc per connection, the request and the answer (status, range of the header, range of the body); a 429 is written under the limiter's guard (`refusing`), a file under that of the table (`header`, `body`), other answers under none (`answering`) |
| `CollabClient` | `client/ws.rs`, `main.rs` 649-714 | a generation is one call of `init_ws_connection_with_receiver`, which waits for its peer without a time limit (`Awaiting`): its link, its loops, its channel, and `wire`, what its server got |
| `LocalQueue` | `client/queue.rs` | memory, file, torn file; each call is the change and the save |
| `Gui` | `gui.rs` | the fields of `App`, the commands that run, the config file |
| `HashRing` | `crypto/hashring.rs` | operators on a ring, a function from hashes to devices; each operation is its one lock on `nodes` |
| `History` | `history.rs` | the lists in memory of each program, the two files; each file access is a step, `fs::write` two: it truncates, then writes |
| `CommandLine` | `main.rs` (dispatch, `run`, history commands), `config.rs` | a program is a sequence of jobs (`--init-config`: the check, `fs::write`'s truncation and its end apart); programs start, overlap, fail and are stopped at any step; which losses are due to a disturbance is kept in `calm`, `log`, `marks` |
| `PeerDownload` | `transfer/downloader.rs` | as `DirectDownload`, but no status is looked at: the text of a refusal (byte 0) is written like a body; the merge appends one chunk file per step, so that an error leaves on disk what a crash there would; a peer that honours Range, ignores it, or sends the beginning of the file (what `FileServer` does) |

Definitions marked "Mutant" in a comment are wrong on purpose: plausible
mistakes in the code, each of which breaks the property it is listed with in
`PROJECT.json` when it takes the place of the definition after it. No
specification uses them.

## Runs

| run | module | shows |
|---|---|---|
| `server_sessions` | `MCCollabServer` | two connections and two devices, one of them the nil device, every operation on sessions and teams, any Register messages. No session outlives its connection (`SessionsOwned`), displaced ones stay out (`DisplacedStaysOut`), a message taken up is dealt with (`HandlersFinish`), an overflowed connection is closed unless its client never takes the message that is being sent (`LaggedIsClosed`) |
| `server_tasks` | `MCCollabServer` | two devices and the sweep race on one task, stale writes included. Rows never mix two states (`RowsConsistent`), a complete task's file is at its claimer (`FileAtClaimer`), only the sweep releases (`OnlySweepReleases`), the server implements `TaskBoard` (`ImplementsTaskBoard`) |
| `server_whole` | `MCCollabServer` | every action of the server with one connection, two teams and a restart. No handler writes another team's task (`WritesOwnTeam`), no task is lost or moved (`TasksKept`), an overdue claim, also one made before a restart, is released or completed (`OverdueReleased`) |
| `download_files` | `DirectDownload` (`MCDirectDownload`) | two calls in a row, all interruptions, servers with and without Range. A download in segments of which none failed or ended early is the file, whatever was retried (`OkIsWhole`); earlier content is kept until the server answers (`KeptUntilServed`); bytes stay in order (`InOrder`); a beginning of the file stays one and gets no shorter, however resumptions end (`ResumeExtends`); calls return (`CallsReturn`) |
| `files_lock` | `MCFileServer` | two connections, registrations in the lock's queue, clients that may leave their side open or their answer unread for ever. What is being sent is still registered (`ServedIsRegistered`); writers get the lock, except behind a client that never takes its file (`WritesComplete`); a connection gets past both locks, except behind one that never takes its 429 or its file (`RequestsFinish`) |
| `files_ranges` | `MCFileServer` | every start, end and open range at the borders of file, limit and u64, with the limiter in front. The header's range lies in the file (`HeaderFits`); at most `MaxRequests` in any window (`RateBound`); an idle address is forgotten, unless a client never takes its 429 (`Forgotten`) |
| `client_messages` | `MCCollabClient` | a connection and a reconnection of two attempts. Greeting first (`GreetingFirst`), failure reported once after the last attempt (`FailedAfterAllAttempts`); accepted messages are sent on a link that holds (`AcceptedSent`), loops of a broken link end (`LoopsEnd`), `reconnect` ends unless a peer never answers one of its attempts (`ReconnectEnds`) |
| `queue_state` | `LocalQueue` | all calls, failed saves, stops at any step. One task per URL (`OneTaskPerUrl`), what returned Ok is on disk (`OkIsSaved`), new tasks survive a merge (`NewTasksKept`), opening the queue finds what was saved last or refuses a torn file, and never starts from less (`OpensWhatWasSaved`) |
| `gui_commands` | `MCGui` | overlapping fetches and downloads in any order. Busy flags mean work (`BusyMeansWorking`), a selected format is one of the video shown, and a download starts with one of its own video, although two infos may replace each other (`SelectionOfInfo`) |
| `command_line` | `MCCommandLine` | three programs, two at a time, with batches, bookmarks, clearing and `--init-config`, each of which may fail or be stopped at any step. What programs that ran one at a time recorded is in the files, in order, and the next undisturbed save repairs what an overlap or a stop has lost (`CalmFilesAreLog`); a URL has one bookmark even when programs read each other's half-written files (`OneBookmarkPerUrl`) |
| `peer_files` | `MCPeerDownload` | three calls, three kinds of peers, more chunks than connections, files left by earlier merges. Resuming only extends (`PeerAppends`); a call that is not refused leaves a longer beginning of the file, and the file if its whole body was written (`ResumeCompletes`); the bytes of merged chunks are in order, also around the text of a refusal (`MergedInOrder`) |
| `doc_optimistic_lock` | `MCCollabServer` | TLC violates what the design document says; see [Findings](#findings) |

## Bounds and why they are enough

All bounds are constants with a name that begins with `Max`, or a capacity.

- **Server.** Every race in this code is between two connections of one device,
  two devices on one row, or a device and the sweep: `server_sessions` has the
  first, `server_tasks` the others. Two teams in `server_whole`, where a connection moves
  from one to the other. One URL: rows of different URLs meet only in the loops of
  the sweep, which treats each alone. `Timeout = 1` makes a claim overdue after one
  `Tick`. `ChanCap = 1` instead of 100: overflow is reached with one client that
  does not read. `MaxVersion` bounds the writes to a row: 3 are an add, a claim
  and a release or second claim, with the stale writes between them. The whole
  system with two connections and all operations is too large; sessions without
  tasks, sweep and restart (`Url = {}`) and tasks among members (`MemberSpec`, from a state that `Init`
  leads to) overlap, `server_whole` fires every action, and the proofs cover the
  product.
- **Downloads.** Files of up to 4 bytes and 2 segments: lengths that divide
  evenly and that do not, an empty file, one byte per segment. Two calls in a row
  are what a resumption needs, two attempts what a retry needs. Peers: three
  calls and chunks of 2 bytes in files of up to 5, so that the last chunk may be
  short and that there may be more chunks than connections.
- **File server.** `files_ranges` takes `MaxU64` one above the file's length and the
  limit below it, so that every comparison goes both ways and subtraction and
  addition wrap around; a window of 2 with 2 requests. `files_lock` has two readers
  and a waiting writer, which the next writer joins once it is through.
- **Client.** Three generations are connect and two attempts. A channel of 2
  fills with one message and one heartbeat.
- **Command line.** Two programs at a time are what a race over a file needs, and
  the third finds what the two have left. Batches are of up to two URLs, not the
  same one twice (`SmallBatches`): a program has a save behind it and one in front
  of it when another one starts. The proofs are for any set of batches.
- **Queue, GUI.** Two URLs and two ids, or two videos with lists of formats
  in which the view's sorting and filtering changes positions.

## Fairness

Nothing is assumed of users, clients, networks or clocks unless it says so here.

- `ConnectionFairness`: a handler that was started goes on (tokio runs ready
  tasks; no step of a handler waits for another one). `Lagged` is strongly fair:
  a write loop that has come back to `recv()` is polled each time the connection's
  task wakes, and between two of those the read loop may disable it. `WriteSent` is
  not fair: `write.send()` to a client that does not read need never return, and
  `LaggedIsClosed` says what then is.
- `SweepFairness`: the interval task goes on; a database call that fails again
  and again is not assumed to succeed at a given time, but not to fail for ever
  (`SF` of `SweepRead`, `SweepRelease`).
- `DirectDownload!FairSpec`: requests end, since the HTTP client has a timeout.
- `FileServer!FairSpec`: ready tasks run, both locks are handed on in turn (the
  limiter's queue is left out, hence strong fairness of `Admit`, `Refuse` and
  `CleansUp`), time passes, and the cleanup loop that `start` spawns ticks. Nothing is
  assumed of clients. No write to a client has a time limit, so `SendHeader`,
  `SendBody` and `Answered` are not fair, and `WritesComplete`, `RequestsFinish` and
  `Forgotten` name the client that stops reading what is written to it under a
  guard (`Stalls`). Clients that keep their sending side open are in nobody's way;
  `OpenClientsAnswered` in `MCFileServer` states what does not hold of themselves.
- `CollabClient!FairSpec`: spawned loops are polled, timers fire, and a send into a
  broken link fails (`AttemptBroken`). The other steps of an attempt are not fair:
  `connect_async` and the two sends of the greeting have no time limit, and
  `ReconnectEnds` names the peer that never answers. `WF(Writing)` of the write loop
  assumes of a link that holds that the server takes what is written to it.

## What is one step, and why

- A session lookup and the first database call of a handler are one step: the
  lookup reads one entry that only its own connection and a displacing
  `register_client` write, and the values are copied.
- `Utc::now()` in the claim handler is read with the SELECT before it. The sweep
  reads its clock in a step of its own, after the rows, as the code does.
- Receiving from a channel and sending to the socket in the server's write loop are
  two steps (`WriteRecv`, `WriteSent`): while the socket does not take the message, the
  channel may fill up and overflow. A socket's buffer is not modelled, so that the
  first message may be stuck already.
- A task's id is identified with its URL in `CollabServer`: `url` is UNIQUE and
  rows are never deleted. `LocalQueue` keeps both apart, because devices and
  server draw different ids.
- In the downloaders a request and everything read of its body is one step with
  all its possible ends: nobody else opens a file while it is written. No length is
  compared with what was announced, so that a body may end early without an error
  (any prefix of it). A `tokio::fs::File` that is dropped without a flush loses the
  error of its last write: `resume_download`, `download_from_peer`, `download_file` and
  the chunk tasks return Ok without a tail of what came; `do_download` and
  `download_segment` flush. A last write that is still
  under way when its call returns is taken to be over before the next call, or the
  next attempt, opens the file; that it might land in a file that was truncated since
  is left out.
- `PeerDownload` lets each call have the file's length or 0 for what
  `content_length()` makes of a HEAD answer: it may take the length of the answer's own
  body, which is empty. `DirectDownload` reads the header, which may be missing.
- `fs::write` is two steps, truncation and write, in `History`, `CommandLine` and
  `LocalQueue`. A write over a file into which another program has written in the
  meantime may leave the rest of that (`Written`); one that is stopped leaves any
  beginning (`Broken`). Of such a file only two things matter to `load`: whether
  it is UTF-8 (`cut` if not: an error) and whether it is JSON (`torn` if not: an
  empty list).
- What a program of the command line does between two file accesses, a download
  included, is one step: other programs share nothing with it but the files.
- All files of `FileServer` have one length, which does not change.
- u64 arithmetic is modulo `MaxU64 + 1`, as in a release build.

## Proofs

`CollabServerProofs` proves, from the named assumptions on the constants in
`CollabServer` only, for any number of connections, devices, teams and URLs and
any bounds:

- `TypeCorrect`: `Spec => []TypeOK`.
- `InductiveInvariant`: `Spec => []IInv`. `IInv` adds to the invariants what makes
  them inductive. The rows that handlers hold between SELECT and UPDATE will be
  written by id, whatever is in the table then, so they have to be consistent
  already (`PreparedConsistent`) and of the handler's team (`WritesOwnTeam`, which
  needs that rows are never deleted and never change teams); the ids the sweep
  holds are those of existing rows (`SweepHoldsRows`), and what it writes is a
  consistent row whatever the row was. `DeviceKnown` says that a session, and a
  handler that has read it, has a device, whatever Register messages came in between,
  without which a prepared row could be a claim of nobody. `RingEmpty` is needed for `Assign`, the step of `handle_add_task`
  that would claim a new task. `TeamKnown` carries a team's id from the call
  that found it to `register_device`.
- `SessionsOwnedCorrect`, `RowsConsistentCorrect`, `FileAtClaimerCorrect`,
  `WritesOwnTeamCorrect`, `ReferencesExistCorrect` follow from it.
- `TasksKeptCorrect`, `OnlySweepReleasesCorrect`, `DisplacedStaysOutCorrect`: action
  properties, from `IInv` and one case per action.
- `BoardImplemented`: `Spec => ImplementsTaskBoard`. The initial states map to
  the board's initial state; adding is `Add`, a SELECT of a claim, progress or
  completion handler is `Intend` (allowed because such a handler gives up unless
  the row is free or its own), the UPDATE is `Apply`, a dropped or failed
  handler and a restart are `Forget`, the sweep's read is `Notice` and its UPDATE
  is `Release`; everything else leaves the board alone.
- `HandlersGoForwardCorrect`, `OverflowLastsCorrect`, `ChannelOfSessionCorrect`: the safety
  halves of `HandlersFinish` and `LaggedIsClosed`. A message costs its connection at
  most four more steps (`StepsLeft`) and none of them leads back; a channel that lost a
  message stays marked until its connection is on its way out; and a connection without a
  session has an empty channel, so that the next one does not begin with its messages.
- `SweepSoundCorrect`: what the sweep holds between its read and its writes are claims
  with a time that has been (`Dates`: rows and prepared rows have no future ones), of
  the team it tells. `SweepShortensCorrect`: each step of a round leaves fewer teams, a later
  phase or fewer releases; the safety half of `OverdueReleased`.
- The ring, for every set of devices and hashes: the owner of a URL is on the ring
  (`OwnerOnRing`); a device that joins takes URLs only to itself, one that leaves
  gives up only its own (`JoinMovesToJoined`, `LeaveMovesFromLeft`); leaving undoes joining
  and the order of joins does not matter (`LeaveUndoesJoin`, `JoinOrder`), as long as
  the devices' hashes differ.

`FileServerProofs`, for any finite number of connections, any writers, files and
width of the integers: `TypeCorrect`; `ServedIsRegisteredCorrect`, since between
look-up and last byte the request holds the read lock (`ServingHoldsLock`), and a
write needs that nobody holds it; `HeaderFitsCorrect`, since the answer is computed from the request it is
given to and both stay as they are until the next request of that connection
(`AnswerFits`, `OneReply`), although the arithmetic wraps around.

`RateBoundCorrect` is about the limiter in front, for any window and limit. What
`retain` keeps of a list is defined by recursion over the list; its proof follows
the recursion with the set of positions up to which a claim holds, since the
library's induction takes an operator. `LimiterInv` says that the last
`MaxRequests + 1` requests let through are in the order of their ages with the
oldest a window ago, and that retaining what is fresh of them and of the table
gives the same list; a cleanup between two requests then changes nothing that
`is_allowed` sees. `QuietIsForgottenCorrect`, the safety half of `Forgotten`: a cleanup
leaves no entry of an address of which nothing was let through for a window, and
such an address is not refused.

`LockInv` is the invariant of the lock: the guards out are those of the
connections being served (`GuardsServed`), and a connection is in the queue just
while it waits and only once (`QueuedOnce`), so that the queue is bounded by the
connections that wait and `MaxQueue`. From it follow `LockMovesCorrect` (someone in or
before the queue can always go on: every path out of `serve_file` returns its
guard), the safety half of `WritesComplete` and `RequestsFinish`.

`DirectDownloadProofs`, for any number of segments, attempts and calls and files of
any length above the limit. `RangesAdjoin` is the arithmetic: with the chunk size
rounded up, no segment begins beyond the file (this is where the assumption
`RangeAssumption`, 10 MB in 4 segments, is needed), each begins where the one
before it ends, and the last one ends with the file. The merge loop is an
induction over steps, not over data: after every step the output is the beginning
of the file up to the next border (`Merged`), so that after the last one it is
the file (`OkIsWholeCorrect`, for segments that neither failed nor ended early;
`torn` remembers the others). When segments failed, their files still hold
beginnings of their ranges (`PartsInside`), so that the output is increasing and
below the next border (`MergedBelow`), which gives `InOrderCorrect`.
`KeptUntilServedCorrect` needs that a merge follows a created file;
`ResumeExtendsCorrect` that any beginning of the rest, appended, is a longer beginning.
`CallBoundedCorrect` and `CallShortensCorrect` are the safety half of `CallsReturn`: the
measure `Work`, the attempts that are left and within one the phases, the segments'
retries and the merge, is a natural number that every step of a call makes
smaller, whatever the server does.

`PeerDownloadProofs`, for files, chunks and numbers of connections of any size:
`TypeCorrect` (a merge never leaves the chunks of the file), `PeerAppendsCorrect`,
`ResumeCompletesCorrect` and `MergedInOrderCorrect`. The chunk files of a peer that
honours Range hold increasing bytes of their own chunk, or the text of a refusal,
whichever of the calls left them there (`PartsInside`), and so the output is increasing and below the chunk that
comes next (`MergedBelow`). `CallBoundedCorrect` and `CallShortensCorrect` say that a call
has at most twice the chunks of the longest file and two steps, and ends with a result.

`CollabClientProofs`, for any number of messages, generations and attempts:
`TypeCorrect`; `GreetingFirstCorrect` (a connection's loops are spawned after its
greeting was sent, `LoopsGreeted`, and later generations have nothing yet, `Unspawned`);
`FailedAfterAllAttemptsCorrect` (`Counted` ties the attempts to the state); and
`AtMostOnceCorrect`: a message is at one place of one channel, or has reached one
server once. Reconnecting makes a new channel and sends nothing again, so that
`AcceptedSent` could not be met by sending twice. `ReconnectBoundedCorrect` and
`ReconnectShortensCorrect` count the steps that a call of `reconnect` has left
(`StepsLeft`), over all its attempts, and show that `MaxGen` never cuts one short (`Room`); `EndsOnceCorrect`
says that nothing revives a broken link or starts loops again. These are the safety
halves of `ReconnectEnds` and `LoopsEnd`.

`LocalQueueProofs`, for any URLs, ids and devices: `OneTaskPerUrlCorrect`,
`OkIsSavedCorrect`, `OpensWhatWasSavedCorrect` and `NewTasksKeptCorrect`. What is
inductive is that a file is torn for as long as it is being written and is
otherwise what was saved last (`FileIsSaved`).

`GuiProofs`, for any videos, formats and number of external processes:
`BusyMeansWorkingCorrect` and `SelectionOfInfoCorrect`.

`CommandLineProofs`, for any programs, URLs and batches: `CalmFilesAreLogCorrect`,
`OneBookmarkPerUrlCorrect`. Its invariant says of every
step of a save what each file then is, as long as the state is calm
(`FilesWritten`, `FilesAreLog`, `ListsAreLog`); that a program which believes to be
alone is (`AloneIsAlone`), without which a program that starts in between would
spoil the log; and that a program that saves has the job it saves for
(`SavingHasJob`).

Where a module has a theorem `TypeCorrect`, the types are part of its invariant.
The invariants and action properties of the runs' table are both checked by TLC and
proved; the server's `IInv` is proved. What is stated in a `*Proofs` module only, such
as the measures, is proved only.

Only model-checked: liveness, since the prover has no ENABLED and fairness cannot
be used without it. These are `HandlersFinish`, `LaggedIsClosed`, `OverdueReleased`,
`CallsReturn`, `WritesComplete`, `RequestsFinish`, `Forgotten`, `AcceptedSent`,
`LoopsEnd` and `ReconnectEnds`. What of them is safety, a measure that each step makes
smaller or an order that no step breaks, is proved as said above; that those steps
are taken is what the runs add.

## Findings

One disagreement between the code and its documents is kept as a run that TLC
must violate; the quoted line is in `PROJECT.json`.

| run | the code | what is said of it |
|---|---|---|
| `doc_optimistic_lock` | two devices that read one queued row both claim it; `version` is never compared | design: `version` is an optimistic lock |

The models have further behaviours that a comment or document does not lead one
to expect. Where a property is named, the `MC` module of the component states it;
adding it to a configuration of that module (with two devices, or with the
documented kind of server or peer) makes TLC print the run.

| where | behaviour | property |
|---|---|---|
| `handler.rs:500` | a completion between the sweep's read and its write is reset to Queued | `CompleteNotReleased` |
| `handler.rs:60` | two simultaneous connections of a device keep two sessions | `OneSessionPerDevice` |
| `handler.rs:500` | progress of 1.0 without completion exempts a claim from the sweep for ever | `UnfinishedReleased` |
| `handler.rs:499` | the timeout counts from the claim, not from the last progress | |
| `db.rs:466` | teams other than the first are never swept, although the sweep is said to check all teams | `AllTeamsSwept` |
| `handler.rs:204` | a device that joins a team gets no row | `JoinedDeviceRegistered` |
| `handler.rs:300` | the hash ring is always empty: tasks are never assigned | `NewTaskAssigned` |
| `downloader.rs:280` | failed segments, or whole copies, in a file that is reported with HEAD's length | `SizeIsFileSize` |
| `downloader.rs:132` | one failed HEAD ends the download without a retry | `FailsAfterRetries` |
| `downloader.rs:432` | resuming appends a 200 answer, the whole file | `ResumeIsWhole` |
| `http_server.rs:472` | after a 206 header the file's first bytes are sent | `BodyIsRange` |
| `http_server.rs:442` | the size check wraps around | `RangeWithinMax` |
| `http_server.rs:143` | every request with an Origin header is refused, localhost too | `LocalOriginAllowed` |
| `http_server.rs:286` | the answer comes only after the client closed its side | `OpenClientsAnswered` |
| `client/ws.rs:120` | subscribers listen to a channel into which nothing is sent | `SubscribersHear` |
| `client/ws.rs:145` | a lost link leaves the state Connected | `LossNoticed` |
| `server/ws.rs:194` | a client that stops reading keeps its connection, session and overflowed channel for ever | |
| `handler.rs:74` | a Register message may give a session any device and team, whatever its token says | |
| `downloader.rs:506` | a body that ends early counts as whole | |
| `downloader.rs:452`, `transfer/downloader.rs:83` | no flush: Ok is returned for a file without its last write | |
| `transfer/downloader.rs:78` | the status is not looked at: the text of a 404 or 429 is appended to the file, or merged as a chunk | |
| `http_server.rs:269` | the limiter's guard is held while a 429 is written: a client that does not take it stops all requests | |
| `client/ws.rs:111` | a peer that never answers the handshake keeps `reconnect` waiting for ever | |
| `gui.rs:266` | the index of the sorted view is used in the unsorted list | `ClickedIsDownloaded` |
| `gui.rs:262` | URL of the field, title and format of another video | `InfoIsOfUrl` |
| `main.rs:453` | a run of yt-dlp that failed is recorded as a download | |
| `main.rs:295` | a direct download that fails ends the program, and the rest of its batch is not tried | |
| `main.rs:487` | all URLs of a batch that is downloaded directly go to the same file | |
| `history.rs:60` | a torn file counts as an empty list, and the next save makes that final | |
| `history.rs:70` | of two programs that run at a time the one that saves last removes the other's entries | |
| `config.rs:169` | after a stop within `--init-config` no program starts any more, and `--init-config` says that the file exists | |
| `transfer/downloader.rs:58` | a refused HEAD counts as a complete file | `CompleteIsWhole` |
| `transfer/downloader.rs:135` | chunks beyond the number of connections are never fetched | `ParallelWhole` |
| `transfer/downloader.rs:83` | resuming from `FileServer` repeats the file's beginning | `PeerResumes` |

## Not modelled

- Authentication token (`crypto/auth.rs`): a pure function of a string and two
  clocks, with a signature that a library checks; it keeps no state. The server's
  and the client's models only tell whether a first message is accepted.
- `CollaborationClientWithFileHandler`: nothing constructs it.
- Tables and queries that no code of the server calls (offline messages,
  devices of a team), `download_chunk`, `ClearSavedCookie`: no caller.
- Argument parsing and printing of the command line, names of output files, the
  values of the settings; `remove_entry` and `remove_bookmark`, which have no caller.
- yt-dlp, its options and output: `CommandLine` and `Gui` have its outcomes;
  `types.rs` (serialisation); `discovery.rs` (a stub); `stun.rs` (one UDP exchange and
  its byte layout); `theme.rs` (not compiled); the shell script.
- The contents of messages and files, wording, logging, progress figures.

## Plan

The order is that of what can go wrong for a user: first what all devices share,
then what a download leaves on disk, then the programs around it.

Done: `TaskBoard`, `CollabServer`; `DirectDownload`; `RateLimiter`, `FileServer`;
`CollabClient`; `LocalQueue`; `Gui`; `PeerDownload`; `HashRing`; `History`,
`CommandLine`; and the proofs above.

What could follow:

1. `PeerTransfer`: `PeerDownload` composed with `FileServer`, in place of the
   constant `Peers`, with `unregister_file` between two chunks.
2. `Collaboration`: `CollabClient` composed with the server's connection, so that
   loss between the client's channel and the server's handlers is one model.
3. Theorems about these compositions, from the invariants of their parts.
