--------------------------- MODULE CollabServer ---------------------------
(***************************************************************************)
(* The collaboration server: WsServer (server/ws.rs), MessageHandler       *)
(* (server/handler.rs) and Database (server/db.rs).                        *)
(*                                                                         *)
(* Every connection runs its own tokio task on a multi-threaded runtime    *)
(* and handles its messages one at a time.  A handler makes several        *)
(* database calls, and Database locks its mutex once per call: between the *)
(* SELECT and the UPDATE of one handler any other task may run.  Each such *)
(* call, and each acquisition of the sessions lock, is one step here, and  *)
(* conn[c].pc names the step the connection takes next.                    *)
(*                                                                         *)
(* What the properties do not tell apart is left out: names, invite codes  *)
(* (a code stands for its team), the text of the messages (a channel is    *)
(* the number of messages the client has not read).  tasks.url is UNIQUE   *)
(* and a row is never deleted, so a task's id is identified with its URL.  *)
(***************************************************************************)
EXTENDS Integers, HashRing

CONSTANTS
  Conn,        \* connections; a connection is also its session key
  Device,      \* device ids that clients present
  NilDevice,   \* Uuid::nil(), one of them: the id register_device is called with
  Team,        \* team ids that create_team can generate
  NilTeam,     \* Uuid::nil(), the team id of a client without a team
  Url,         \* task URLs
  NoUrl,       \* a connection that works on no task
  Timeout,     \* the 5 minutes of check_task_timeouts
  ChanCap,     \* capacity of a connection's broadcast channel
  MaxClock,    \* bound on the clock
  MaxVersion,  \* bound on tasks.version: no client write starts from it
  MaxRestarts  \* bound on server restarts

ASSUME DeviceAssumption == NoDevice \notin Device /\ NilDevice \in Device
ASSUME TeamAssumption   == NilTeam \notin Team
ASSUME UrlAssumption    == NoUrl \notin Url
ASSUME HashAssumption   == HashDevice \in [Device -> Nat] /\ HashUrl \in [Url -> Nat]
ASSUME BoundAssumption  == /\ Timeout \in Nat \ {0}
                           /\ ChanCap \in Nat \ {0}
                           /\ MaxClock \in Nat
                           /\ MaxVersion \in Nat
                           /\ MaxRestarts \in Nat

VARIABLES
  teams,     \* table teams: the ids created so far
  devices,   \* table devices
  tasks,     \* table tasks
  conn,      \* the task of each connection: its step and the values it holds
  sessions,  \* MessageHandler.sessions
  unread,    \* messages in a connection's channel; ChanCap + 1: it overflowed
  sending,   \* connections whose write loop is suspended in write.send()
  ring,      \* MessageHandler.hash_ring: devices by hash
  sweep,     \* the background task that releases timed-out claims
  now,       \* Utc::now(), in units of which Timeout make 5 minutes
  restarts   \* server restarts so far

db   == <<teams, devices, tasks>>
vars == <<teams, devices, tasks, conn, sessions, unread, sending, ring, sweep, now, restarts>>

---------------------------------------------------------------------------
(* Rows, sessions and connections.  An absent row or session is a record   *)
(* of the same shape, so that every table is a total function.             *)

TeamId   == Team \cup {NilTeam}
Holder   == Device \cup {NoDevice}
NoTime   == -1
Full     == 2                  \* progress: 0 is 0.0, 1 below 1.0, 2 at least 1.0
Progress == 0..Full
Status   == {"Absent", "Queued", "Claimed", "Complete"}

\* `file` stands for local_path and file_size, which are written together:
\* the device whose disk the path is on.
Task     == [team: TeamId, status: Status, claimedBy: Holder, claimedAt: Int,
             progress: Progress, file: Holder, version: Nat]
NoTask   == [team |-> NilTeam, status |-> "Absent", claimedBy |-> NoDevice,
             claimedAt |-> NoTime, progress |-> 0, file |-> NoDevice, version |-> 0]
NewTask(t) == [team |-> t, status |-> "Queued", claimedBy |-> NoDevice,
               claimedAt |-> NoTime, progress |-> 0, file |-> NoDevice, version |-> 1]

DeviceRow == [team: TeamId, online: BOOLEAN]
NoRow     == [team |-> NilTeam, online |-> FALSE]

Session   == [device: Holder, team: TeamId]
NoSession == [device |-> NoDevice, team |-> NilTeam]

\* Steps at which handle_connection is suspended inside select!: only there
\* can the write loop run, and only there can the read future be dropped.
AwaitPoint == {"ready", "readSession", "setTeam", "notify", "assign",
               "leaveRing", "toTeam", "toDevice", "toSelf"}
Step == AwaitPoint \cup {"closed", "purge", "insert", "write", "regDevice", "unregister"}

Connection == [pc: Step, device: Holder, team: TeamId, url: Url \cup {NoUrl}, row: Task]
NoConn     == [pc |-> "closed", device |-> NoDevice, team |-> NilTeam,
               url |-> NoUrl, row |-> NoTask]
\* A connection between two messages holds nothing.
Ready      == [NoConn EXCEPT !.pc = "ready"]

SweepItem == [url: Url, claimedAt: Int, progress: Progress]
NoSweep   == [pc |-> "idle", teams |-> {}, team |-> NilTeam, items |-> {}, due |-> {}]

Exists(u)  == tasks[u].status # "Absent"
Live(c)    == sessions[c] # NoSession

---------------------------------------------------------------------------
(* Sending.  broadcast::Sender::send never blocks: on a full channel the   *)
(* oldest message is lost, and the receiver's next recv() is an error.     *)

Deliver(keys) ==
  unread' = [c \in Conn |-> IF c \in keys /\ unread[c] <= ChanCap
                            THEN unread[c] + 1 ELSE unread[c]]

SessionsOf(d)   == {c \in Conn : Live(c) /\ sessions[c].device = d}
TeamSessions(t) == {c \in Conn : Live(c) /\ sessions[c].team = t}

send_to_device(d)    == Deliver(SessionsOf(d))
broadcast_to_team(t) == Deliver(TeamSessions(t))
send_error(c)        == Deliver({k \in {c} : Live(k)})

---------------------------------------------------------------------------
(* Connections: handle_connection                                          *)

\* accept, the AUTH handshake and the token's device and team.
Connect(c, d, t) ==
  /\ conn[c].pc = "closed"
  /\ conn' = [conn EXCEPT ![c] = [NoConn EXCEPT !.pc = "purge", !.device = d, !.team = t]]
  /\ UNCHANGED <<db, sessions, unread, sending, ring, sweep, now, restarts>>

\* register_client, first lock: drop the sessions of this device, unless it is
\* the nil device.
RegisterPurge(c) ==
  /\ conn[c].pc = "purge"
  /\ sessions' = [k \in Conn |-> IF conn[c].device # NilDevice /\ k \in SessionsOf(conn[c].device)
                                 THEN NoSession ELSE sessions[k]]
  /\ conn' = [conn EXCEPT ![c].pc = "insert"]
  /\ UNCHANGED <<db, unread, sending, ring, sweep, now, restarts>>

\* register_client, second lock: insert the new session.
RegisterInsert(c) ==
  /\ conn[c].pc = "insert"
  /\ sessions' = [sessions EXCEPT ![c] = [device |-> conn[c].device, team |-> conn[c].team]]
  /\ conn' = [conn EXCEPT ![c] = Ready]
  /\ UNCHANGED <<db, unread, sending, ring, sweep, now, restarts>>

\* A Register message, which a client may send at any time, as often as it likes
\* and with any ids: update_session, if there is a session, then a handle_message
\* that does nothing.
Register(c, d, t) ==
  /\ conn[c].pc = "ready"
  /\ sessions' = [sessions EXCEPT ![c] = IF Live(c) THEN [device |-> d, team |-> t] ELSE @]
  /\ UNCHANGED <<db, conn, unread, sending, ring, sweep, now, restarts>>

\* The write loop takes a message from the channel and starts to send it.
WriteRecv(c) ==
  /\ conn[c].pc \in AwaitPoint /\ c \notin sending
  /\ unread[c] \in 1..ChanCap
  /\ unread' = [unread EXCEPT ![c] = @ - 1]
  /\ sending' = sending \cup {c}
  /\ UNCHANGED <<db, conn, sessions, ring, sweep, now, restarts>>

\* write.send() returns: the client reads, and the socket has taken the message.
WriteSent(c) ==
  /\ conn[c].pc \in AwaitPoint /\ c \in sending
  /\ sending' = sending \ {c}
  /\ UNCHANGED <<db, conn, sessions, unread, ring, sweep, now, restarts>>

\* select! ends and drops the other future wherever it waits.
LeaveLoop(c) ==
  /\ conn[c].pc \in AwaitPoint
  /\ conn' = [conn EXCEPT ![c] = [NoConn EXCEPT !.pc = "unregister"]]
  /\ sending' = sending \ {c}
  /\ UNCHANGED <<db, sessions, unread, ring, sweep, now, restarts>>

\* Mutant: the claims of a device that goes away are put back at once.
DisconnectReleases(c) ==
  /\ conn[c].pc \in AwaitPoint
  /\ conn' = [conn EXCEPT ![c] = [NoConn EXCEPT !.pc = "unregister"]]
  /\ sending' = sending \ {c}
  /\ tasks' = [u \in Url |-> IF Live(c) /\ tasks[u].claimedBy = sessions[c].device
                             THEN NewTask(tasks[u].team) ELSE tasks[u]]
  /\ UNCHANGED <<teams, devices, sessions, unread, ring, sweep, now, restarts>>

\* The peer closes the connection, or a read or a write on it fails.
Disconnect(c) == LeaveLoop(c)

\* Mutant: the write loop goes on with what is left in the channel.
LaggedGoesOn(c) ==
  /\ unread[c] = ChanCap + 1 /\ conn[c].pc \in AwaitPoint /\ c \notin sending
  /\ unread' = [unread EXCEPT ![c] = ChanCap]
  /\ UNCHANGED <<db, conn, sessions, sending, ring, sweep, now, restarts>>

\* recv() returns Lagged after the channel overflowed: the write loop ends.  It
\* gets there only when the send() before has returned.
Lagged(c) == unread[c] = ChanCap + 1 /\ c \notin sending /\ LeaveLoop(c)

\* Mutant: the connection ends without removing its session.
UnregisterForgets(c) ==
  /\ conn[c].pc = "unregister"
  /\ conn' = [conn EXCEPT ![c] = NoConn]
  /\ unread' = [unread EXCEPT ![c] = 0]
  /\ UNCHANGED <<db, sessions, sending, ring, sweep, now, restarts>>

\* unregister_client_by_key
Unregister(c) ==
  /\ conn[c].pc = "unregister"
  /\ sessions' = [sessions EXCEPT ![c] = NoSession]
  /\ conn' = [conn EXCEPT ![c] = NoConn]
  /\ unread' = [unread EXCEPT ![c] = 0]
  /\ UNCHANGED <<db, sending, ring, sweep, now, restarts>>

---------------------------------------------------------------------------
(* Handlers.  handle_message looks the session up first and ignores a      *)
(* message whose session is gone; the device and team it read are the ones *)
(* the whole handler works with (Begin).  Nobody but the connection itself *)
(* changes them in its session.                                            *)

Handling(c) == conn[c].pc = "ready" /\ Live(c)

Then(c, pc, t, u, r) ==
  conn' = [conn EXCEPT ![c] = [pc |-> pc, device |-> conn[c].device, team |-> t,
                               url |-> u, row |-> r]]
Begin(c, pc, t, u, r) ==
  conn' = [conn EXCEPT ![c] = [pc |-> pc, device |-> sessions[c].device, team |-> t,
                               url |-> u, row |-> r]]
Fail(c, pc) == Begin(c, pc, NilTeam, NoUrl, NoTask)
Done(c) == conn' = [conn EXCEPT ![c] = Ready]

\* A message that arrives on a connection whose session was displaced.
Ignore(c) ==
  /\ conn[c].pc = "ready" /\ ~Live(c)
  /\ UNCHANGED vars

Heartbeat(c) ==
  /\ Handling(c)
  /\ devices' = [devices EXCEPT ![sessions[c].device] =
                   IF @ = NoRow THEN @ ELSE [@ EXCEPT !.online = TRUE]]
  /\ UNCHANGED <<teams, tasks, conn, sessions, unread, sending, ring, sweep, now, restarts>>

\* handle_create_team: INSERT INTO teams.
CreateTeam(c, t) ==
  /\ Handling(c) /\ t \notin teams
  /\ teams' = teams \cup {t}
  /\ Begin(c, "readSession", t, NoUrl, NoTask)
  /\ UNCHANGED <<devices, tasks, sessions, unread, sending, ring, sweep, now, restarts>>

\* A handler's first database call returns an error: handle_create_team and
\* handle_join_team tell the connection, handle_add_task and handle_claim_task
\* the device, handle_leave_team goes on, and the others end.
DatabaseFails(c) ==
  /\ Handling(c)
  /\ \/ \E pc \in {"toSelf", "toDevice", "leaveRing"} : Fail(c, pc)
     \/ UNCHANGED conn
  /\ UNCHANGED <<db, sessions, unread, sending, ring, sweep, now, restarts>>

\* handle_join_team: look the team of the invite code up.
JoinTeam(c, t) ==
  /\ Handling(c)
  /\ IF t \in teams THEN Begin(c, "readSession", t, NoUrl, NoTask)
                    ELSE Fail(c, "toSelf")
  /\ UNCHANGED <<db, sessions, unread, sending, ring, sweep, now, restarts>>

\* Mutant: the handler waits for a session that is gone.
ReadSessionWaits(c) ==
  /\ conn[c].pc = "readSession" /\ Live(c)
  /\ conn' = [conn EXCEPT ![c].pc = "setTeam"]
  /\ UNCHANGED <<db, sessions, unread, sending, ring, sweep, now, restarts>>

\* Both handlers go on with the session's device id, if there is a session.
ReadSession(c) ==
  /\ conn[c].pc = "readSession"
  /\ conn' = [conn EXCEPT ![c].pc = IF Live(c) THEN "setTeam" ELSE "regDevice"]
  /\ UNCHANGED <<db, sessions, unread, sending, ring, sweep, now, restarts>>

\* Mutant: insert where the code has get_mut.
SetTeamInserts(c) ==
  /\ conn[c].pc = "setTeam"
  /\ sessions' = [sessions EXCEPT ![c] = [device |-> conn[c].device, team |-> conn[c].team]]
  /\ conn' = [conn EXCEPT ![c].pc = "notify"]
  /\ UNCHANGED <<db, unread, sending, ring, sweep, now, restarts>>

SetTeam(c) ==
  /\ conn[c].pc = "setTeam"
  /\ sessions' = [sessions EXCEPT ![c] = IF Live(c) THEN [@ EXCEPT !.team = conn[c].team] ELSE @]
  /\ conn' = [conn EXCEPT ![c].pc = "notify"]
  /\ UNCHANGED <<db, unread, sending, ring, sweep, now, restarts>>

\* TeamCreated or TeamJoined to the device.
Notify(c) ==
  /\ conn[c].pc = "notify"
  /\ send_to_device(conn[c].device)
  /\ conn' = [conn EXCEPT ![c].pc = "regDevice"]
  /\ UNCHANGED <<db, sessions, sending, ring, sweep, now, restarts>>

\* register_device with id nil: an upsert that never changes team_id.
RegisterDevice(c) ==
  /\ conn[c].pc = "regDevice"
  /\ devices' = [devices EXCEPT ![NilDevice] =
                   IF @ = NoRow THEN [team |-> conn[c].team, online |-> TRUE]
                                ELSE [@ EXCEPT !.online = TRUE]]
  /\ Done(c)
  /\ UNCHANGED <<teams, tasks, sessions, unread, sending, ring, sweep, now, restarts>>

\* The error of register_device is only logged.
RegisterDeviceFails(c) ==
  /\ conn[c].pc = "regDevice"
  /\ Done(c)
  /\ UNCHANGED <<db, sessions, unread, sending, ring, sweep, now, restarts>>

\* handle_leave_team: set_device_offline, then off the hash ring.
LeaveTeam(c) ==
  /\ Handling(c)
  /\ devices' = [devices EXCEPT ![sessions[c].device] =
                   IF @ = NoRow THEN @ ELSE [@ EXCEPT !.online = FALSE]]
  /\ Begin(c, "leaveRing", NilTeam, NoUrl, NoTask)
  /\ UNCHANGED <<teams, tasks, sessions, unread, sending, ring, sweep, now, restarts>>

LeaveRing(c) ==
  /\ conn[c].pc = "leaveRing"
  /\ ring' = remove_device(ring, conn[c].device)
  /\ Done(c)
  /\ UNCHANGED <<db, sessions, unread, sending, sweep, now, restarts>>

---------------------------------------------------------------------------
(* Tasks                                                                   *)

\* Mutant: INSERT OR REPLACE.
AddTaskReplaces(c, u) ==
  LET t == sessions[c].team IN
  /\ Handling(c) /\ t \in teams
  /\ tasks' = [tasks EXCEPT ![u] = NewTask(t)]
  /\ Begin(c, "assign", t, u, NewTask(t))
  /\ UNCHANGED <<teams, devices, sessions, unread, sending, ring, sweep, now, restarts>>

\* handle_add_task: INSERT INTO tasks.  It fails on the URL (UNIQUE over all
\* teams) and on a team that is not in teams (FOREIGN KEY).
AddTask(c, u) ==
  LET t == sessions[c].team IN
  /\ Handling(c)
  /\ IF ~Exists(u) /\ t \in teams
     THEN /\ tasks' = [tasks EXCEPT ![u] = NewTask(t)]
          /\ Begin(c, "assign", t, u, NewTask(t))
     ELSE /\ Fail(c, "toDevice")
          /\ UNCHANGED tasks
  /\ UNCHANGED <<teams, devices, sessions, unread, sending, ring, sweep, now, restarts>>

\* With an owner: update_task with the row as it was inserted (an error of it is
\* ignored), and TaskClaimed to the owner.
Assign(c) ==
  LET u == conn[c].url
      d == get_owner(ring, u)
  IN
  /\ conn[c].pc = "assign"
  /\ tasks' \in IF d = NoDevice THEN {tasks}
                ELSE {tasks, [tasks EXCEPT ![u] = [conn[c].row EXCEPT
                        !.status = "Claimed", !.claimedBy = d, !.claimedAt = now]]}
  /\ IF d = NoDevice THEN UNCHANGED unread ELSE send_to_device(d)
  /\ Then(c, "toTeam", conn[c].team, NoUrl, NoTask)
  /\ UNCHANGED <<teams, devices, sessions, sending, ring, sweep, now, restarts>>

\* Mutant: look the task up by id alone.
VisibleToAll(c, u) == Exists(u)

\* The handlers below read the team's tasks and look for one of them.
Visible(c, u) == Exists(u) /\ tasks[u].team = sessions[c].team

\* The update a handler prepares is written by a later step (UpdateTask).
Prepare(c, u, r) ==
  /\ tasks[u].version < MaxVersion
  /\ Begin(c, "write", sessions[c].team, u, [r EXCEPT !.version = r.version + 1])

\* Mutant: a task that somebody has already claimed can be claimed.
ClaimTaskUnchecked(c, u) ==
  /\ Handling(c)
  /\ IF Visible(c, u)
     THEN Prepare(c, u, [tasks[u] EXCEPT !.status = "Claimed",
                           !.claimedBy = sessions[c].device, !.claimedAt = now])
     ELSE Fail(c, "toDevice")
  /\ UNCHANGED <<db, sessions, unread, sending, ring, sweep, now, restarts>>

\* handle_claim_task
ClaimTask(c, u) ==
  /\ Handling(c)
  /\ IF Visible(c, u) /\ tasks[u].status = "Queued"
     THEN Prepare(c, u, [tasks[u] EXCEPT !.status = "Claimed",
                           !.claimedBy = sessions[c].device, !.claimedAt = now])
     ELSE Fail(c, "toDevice")
  /\ UNCHANGED <<db, sessions, unread, sending, ring, sweep, now, restarts>>

\* handle_update_progress: only the claimer, whatever the status.
UpdateProgress(c, u, p) ==
  /\ Handling(c)
  /\ Visible(c, u) /\ tasks[u].claimedBy = sessions[c].device
  /\ Prepare(c, u, [tasks[u] EXCEPT !.progress = p])
  /\ UNCHANGED <<db, sessions, unread, sending, ring, sweep, now, restarts>>

\* Mutant: anybody may report completion.
TaskCompleteByAnyone(c, u) ==
  /\ Handling(c)
  /\ Visible(c, u) /\ tasks[u].claimedBy # NoDevice
  /\ Prepare(c, u, [tasks[u] EXCEPT !.status = "Complete", !.progress = Full,
                                    !.file = sessions[c].device])
  /\ UNCHANGED <<db, sessions, unread, sending, ring, sweep, now, restarts>>

\* handle_task_complete: only the claimer.
TaskComplete(c, u) ==
  /\ Handling(c)
  /\ Visible(c, u) /\ tasks[u].claimedBy = sessions[c].device
  /\ Prepare(c, u, [tasks[u] EXCEPT !.status = "Complete", !.progress = Full,
                                    !.file = sessions[c].device])
  /\ UNCHANGED <<db, sessions, unread, sending, ring, sweep, now, restarts>>

\* A progress or completion message from a device that is not the claimer.
NotClaimer(c, u) ==
  /\ Handling(c)
  /\ ~(Visible(c, u) /\ tasks[u].claimedBy = sessions[c].device)
  /\ UNCHANGED vars

\* update_task: the whole row but its team, by id, whatever version it has.
update_task(u, r) == tasks' = [tasks EXCEPT ![u] = [r EXCEPT !.team = tasks[u].team]]

UpdateTask(c) ==
  /\ conn[c].pc = "write"
  /\ update_task(conn[c].url, conn[c].row)
  /\ Then(c, "toTeam", conn[c].team, NoUrl, NoTask)
  /\ UNCHANGED <<teams, devices, sessions, unread, sending, ring, sweep, now, restarts>>

\* update_task returns an error: the handler gives up without a broadcast.
UpdateTaskFails(c) ==
  /\ conn[c].pc = "write"
  /\ Done(c)
  /\ UNCHANGED <<db, sessions, unread, sending, ring, sweep, now, restarts>>

\* handle_request_file: FileAvailable if somebody claimed the task.
RequestFile(c, u) ==
  /\ Handling(c)
  /\ IF Visible(c, u) /\ tasks[u].claimedBy # NoDevice THEN Fail(c, "toDevice")
                                                       ELSE UNCHANGED conn
  /\ UNCHANGED <<db, sessions, unread, sending, ring, sweep, now, restarts>>

\* The last step of a handler: TaskAdded, TaskClaimed or TaskUpdated to the
\* team, an answer to the device, or an error to the connection itself.
Reply(c) ==
  /\ \/ conn[c].pc = "toTeam"   /\ broadcast_to_team(conn[c].team)
     \/ conn[c].pc = "toDevice" /\ send_to_device(conn[c].device)
     \/ conn[c].pc = "toSelf"   /\ send_error(c)
  /\ Done(c)
  /\ UNCHANGED <<db, sessions, sending, ring, sweep, now, restarts>>

---------------------------------------------------------------------------
(* The timeout sweep: check_all_task_timeouts, every 60 seconds            *)

\* get_all_team_ids: SELECT DISTINCT team_id FROM devices.
get_all_team_ids == {devices[d].team : d \in {i \in DOMAIN devices : devices[i] # NoRow}}

SweepStart ==
  /\ sweep.pc = "idle"
  /\ sweep' = [sweep EXCEPT !.pc = "pick", !.teams = get_all_team_ids]
  /\ UNCHANGED <<db, conn, sessions, unread, sending, ring, now, restarts>>

\* get_claimed_tasks of the next team.
get_claimed_tasks(t) ==
  {[url |-> u, claimedAt |-> tasks[u].claimedAt, progress |-> tasks[u].progress] :
     u \in {v \in Url : tasks[v].team = t /\ tasks[v].status = "Claimed"}}

SweepRead(t) ==
  /\ sweep.pc = "pick" /\ t \in sweep.teams
  /\ sweep' = [pc |-> "clock", teams |-> sweep.teams \ {t}, team |-> t,
               items |-> get_claimed_tasks(t), due |-> {}]
  /\ UNCHANGED <<db, conn, sessions, unread, sending, ring, now, restarts>>

\* get_claimed_tasks returns an error: on to the next team.
SweepReadFails(t) ==
  /\ sweep.pc = "pick" /\ t \in sweep.teams
  /\ sweep' = [sweep EXCEPT !.teams = @ \ {t}]
  /\ UNCHANGED <<db, conn, sessions, unread, sending, ring, now, restarts>>

\* Mutant: more than Timeout instead of at least.
TimedOutLate(i) == i.claimedAt # NoTime /\ now - i.claimedAt > Timeout /\ i.progress < Full
TimedOut(i) == i.claimedAt # NoTime /\ now - i.claimedAt >= Timeout /\ i.progress < Full

\* One reading of the clock decides which of the tasks read are released.
SweepClock ==
  /\ sweep.pc = "clock"
  /\ sweep' = [sweep EXCEPT !.pc = "release", !.items = {},
                            !.due = {i.url : i \in {j \in sweep.items : TimedOut(j)}}]
  /\ UNCHANGED <<db, conn, sessions, unread, sending, ring, now, restarts>>

\* Mutant: claimed_by is not cleared.
ReleaseKeepsClaimer(u) ==
  tasks' = [tasks EXCEPT ![u] = [tasks[u] EXCEPT
              !.status = "Queued", !.claimedAt = NoTime,
              !.progress = 0, !.version = tasks[u].version + 1]]

\* release_task: by id, whatever the row has become since it was read.
release_task(u) ==
  tasks' = [tasks EXCEPT ![u] = [tasks[u] EXCEPT
              !.status = "Queued", !.claimedBy = NoDevice, !.claimedAt = NoTime,
              !.progress = 0, !.version = tasks[u].version + 1]]

SweepRelease(u) ==
  /\ sweep.pc = "release" /\ u \in sweep.due
  /\ release_task(u)
  /\ sweep' = [sweep EXCEPT !.pc = "announce", !.due = @ \ {u}]
  /\ UNCHANGED <<teams, devices, conn, sessions, unread, sending, ring, now, restarts>>

\* release_task returns an error: on to the next task.
SweepReleaseFails(u) ==
  /\ sweep.pc = "release" /\ u \in sweep.due
  /\ sweep' = [sweep EXCEPT !.due = @ \ {u}]
  /\ UNCHANGED <<db, conn, sessions, unread, sending, ring, now, restarts>>

\* TaskReleased to the team.
SweepAnnounce ==
  /\ sweep.pc = "announce"
  /\ broadcast_to_team(sweep.team)
  /\ sweep' = [sweep EXCEPT !.pc = "release"]
  /\ UNCHANGED <<db, conn, sessions, sending, ring, now, restarts>>

SweepNextTeam ==
  /\ sweep.pc = "release" /\ sweep.due = {}
  /\ sweep' = [sweep EXCEPT !.pc = "pick", !.team = NilTeam]
  /\ UNCHANGED <<db, conn, sessions, unread, sending, ring, now, restarts>>

SweepEnd ==
  /\ sweep.pc = "pick" /\ sweep.teams = {}
  /\ sweep' = NoSweep
  /\ UNCHANGED <<db, conn, sessions, unread, sending, ring, now, restarts>>

---------------------------------------------------------------------------
Tick ==
  /\ now < MaxClock
  /\ now' = now + 1
  /\ UNCHANGED <<db, conn, sessions, unread, sending, ring, sweep, restarts>>

\* The process stops and is started again: only the database survives.
Restart ==
  /\ restarts < MaxRestarts
  /\ restarts' = restarts + 1
  /\ conn' = [c \in Conn |-> NoConn]
  /\ sessions' = [c \in Conn |-> NoSession]
  /\ unread' = [c \in Conn |-> 0]
  /\ sending' = {}
  /\ ring' = EmptyRing
  /\ sweep' = NoSweep
  /\ UNCHANGED <<db, now>>

Init ==
  /\ teams = {}
  /\ devices = [d \in Device |-> NoRow]
  /\ tasks = [u \in Url |-> NoTask]
  /\ conn = [c \in Conn |-> NoConn]
  /\ sessions = [c \in Conn |-> NoSession]
  /\ unread = [c \in Conn |-> 0]
  /\ sending = {}
  /\ ring = EmptyRing
  /\ sweep = NoSweep
  /\ now = 0
  /\ restarts = 0

SessionNext(c) ==
  \/ \E d \in Device, t \in TeamId : Connect(c, d, t) \/ Register(c, d, t)
  \/ RegisterPurge(c) \/ RegisterInsert(c)
  \/ WriteRecv(c) \/ WriteSent(c) \/ Disconnect(c) \/ Lagged(c) \/ Unregister(c)
  \/ Ignore(c)

TeamNext(c) ==
  \/ \E t \in Team : CreateTeam(c, t) \/ JoinTeam(c, t)
  \/ DatabaseFails(c) \/ ReadSession(c) \/ SetTeam(c) \/ Notify(c)
  \/ RegisterDevice(c) \/ RegisterDeviceFails(c)
  \/ Heartbeat(c) \/ LeaveTeam(c) \/ LeaveRing(c)

TaskNext(c) ==
  \/ \E u \in Url : \/ AddTask(c, u) \/ ClaimTask(c, u) \/ TaskComplete(c, u)
                    \/ NotClaimer(c, u) \/ RequestFile(c, u)
                    \/ \E p \in Progress : UpdateProgress(c, u, p)
  \/ Assign(c) \/ UpdateTask(c) \/ UpdateTaskFails(c) \/ Reply(c)

SweepStep ==
  \/ SweepStart \/ SweepClock \/ SweepAnnounce \/ SweepNextTeam \/ SweepEnd
  \/ \E t \in TeamId : SweepRead(t) \/ SweepReadFails(t)
  \/ \E u \in Url : SweepRelease(u) \/ SweepReleaseFails(u)

Next ==
  \/ \E c \in Conn : SessionNext(c) \/ TeamNext(c) \/ TaskNext(c)
  \/ SweepStep
  \/ Tick
  \/ Restart

Spec == Init /\ [][Next]_vars

\* The server's own tasks run on: a handler that was started goes on by itself,
\* and the sweep's interval keeps ticking.  select! polls the write loop each time
\* the connection's task wakes, so that a loop that has come back to recv() notices
\* an overflow although messages keep coming in; a failing database call may fail
\* again, but not for ever: strong fairness of Lagged, SweepRead and SweepRelease.
\* Nothing is assumed of clients, of the clock or of restarts: WriteSent is not fair,
\* since a send() to a client that does not read need never return.
HandlerStep(c) ==
  \/ RegisterPurge(c) \/ RegisterInsert(c) \/ Unregister(c)
  \/ ReadSession(c) \/ SetTeam(c) \/ Notify(c)
  \/ RegisterDevice(c) \/ RegisterDeviceFails(c) \/ LeaveRing(c)
  \/ Assign(c) \/ UpdateTask(c) \/ UpdateTaskFails(c) \/ Reply(c)

ConnectionFairness == \A c \in Conn : WF_vars(HandlerStep(c)) /\ SF_vars(Lagged(c))
SweepFairness ==
  /\ WF_vars(SweepStep)
  /\ \A t \in TeamId : SF_vars(SweepRead(t))
  /\ \A u \in Url : SF_vars(SweepRelease(u))

ConnectionSpec == Spec /\ ConnectionFairness

---------------------------------------------------------------------------
(* Safety                                                                  *)

TypeOK ==
  /\ teams \subseteq Team
  /\ devices \in [Device -> DeviceRow]
  /\ tasks \in [Url -> Task]
  /\ conn \in [Conn -> Connection]
  /\ sessions \in [Conn -> Session]
  /\ unread \in [Conn -> 0..(ChanCap + 1)]
  /\ sending \subseteq Conn
  /\ DOMAIN ring \subseteq Nat /\ \A h \in DOMAIN ring : ring[h] \in Device
  /\ sweep \in [pc: {"idle", "pick", "clock", "release", "announce"}, teams: SUBSET TeamId,
                team: TeamId, items: SUBSET SweepItem, due: SUBSET Url]
  /\ now \in Nat
  /\ restarts \in Nat

\* A task row makes sense: it has a claimer and a claim time exactly when it
\* is claimed or complete, a queued task has no progress, and a completed one
\* has a file.
Consistent(r) ==
  /\ r.status \in {"Absent", "Queued"} <=> r.claimedBy = NoDevice
  /\ r.claimedAt = NoTime <=> r.claimedBy = NoDevice
  /\ r.status = "Queued" => r.progress = 0
  /\ r.status = "Complete" => r.file # NoDevice

\* Whatever handlers and sweeps interleave between their SELECT and their
\* UPDATE (update_task rewrites the whole row, release_task a part of it), the
\* table never holds a row with the parts of two different states.
RowsConsistent == \A u \in Url : Consistent(tasks[u])

\* handle_request_file announces claimed_by as the device to fetch local_path
\* from: a completed task's claimer is the device that holds the file.
FileAtClaimer ==
  \A u \in Url : tasks[u].status = "Complete" => tasks[u].file = tasks[u].claimedBy

\* A handler between its SELECT and its UPDATE is about to write a row of its
\* own team, in the name of its own device (those of its session when the message
\* was read): a message of one team's device never changes another team's task,
\* although UPDATE goes by id alone.
WritesOwnTeam ==
  \A c \in Conn : conn[c].pc = "write" =>
    /\ conn[c].url \in Url /\ Exists(conn[c].url)
    /\ tasks[conn[c].url].team = conn[c].team
    /\ conn[c].row.claimedBy = conn[c].device

\* Foreign keys: the teams named by the tasks and the devices exist.
ReferencesExist ==
  /\ \A u \in Url : Exists(u) => tasks[u].team \in teams
  /\ get_all_team_ids \subseteq teams

\* A session belongs to a connection whose task is still running and will
\* remove it, whatever ids its client registers, whoever displaces it and wherever
\* select! drops a handler: no session is leaked, so that no message is queued for a
\* connection nobody reads.
SessionsOwned ==
  \A c \in Conn : Live(c) => conn[c].pc \notin {"closed", "purge", "insert"}

\* A session that register_client displaced stays displaced: no later step of
\* the old connection (update_session, the team_id updates of handle_create_team
\* and handle_join_team) brings it back.
DisplacedStaysOut ==
  [][\A c \in Conn : ~Live(c) /\ Live(c)' => conn[c].pc = "insert"]_vars

\* A task, once added, is never lost or moved to another team, not by a second
\* AddTask of the same URL and not by a restart.
TasksKept ==
  [][\A u \in Url : Exists(u) => Exists(u)' /\ tasks'[u].team = tasks[u].team]_vars

\* A claim ends without a new claimer only in the sweep: not when the claimer
\* disconnects, leaves the team or fails, and not by a handler's stale write.
OnlySweepReleases ==
  [][\A u \in Url : tasks[u].claimedBy # NoDevice /\ tasks'[u].claimedBy = NoDevice
       => sweep.pc = "release" /\ u \in sweep.due]_vars

---------------------------------------------------------------------------
(* The inductive invariant.  The rows that handlers hold between SELECT    *)
(* and UPDATE, and the ids the sweep holds, will be written to the table   *)
(* by id: what the table promises has to hold of them already.             *)

PreparedRow(r) ==
  /\ Consistent(r)
  /\ r.status \in {"Claimed", "Complete"}
  /\ r.status = "Complete" => r.file = r.claimedBy
PreparedConsistent == \A c \in Conn : conn[c].pc = "write" => PreparedRow(conn[c].row)

\* The device id of a token, of a session, and of a handler that has read it.
DeviceKnown ==
  \A c \in Conn :
    /\ Live(c) => sessions[c].device \in Device
    /\ conn[c].pc \notin {"closed", "ready", "unregister"} => conn[c].device \in Device

\* A team id between the database call that found it and register_device.
TeamKnown ==
  \A c \in Conn : conn[c].pc \in {"readSession", "setTeam", "notify", "regDevice"}
                    => conn[c].team \in teams

\* The sweep holds ids of rows, and rows are never deleted.
SweepHoldsRows ==
  /\ \A u \in sweep.due : Exists(u)
  /\ \A i \in sweep.items : Exists(i.url)

\* No code of the server calls add_device: get_owner returns None.
RingEmpty == ring = EmptyRing

IInv ==
  /\ TypeOK
  /\ RowsConsistent /\ FileAtClaimer /\ PreparedConsistent
  /\ SessionsOwned /\ DeviceKnown
  /\ WritesOwnTeam /\ SweepHoldsRows /\ RingEmpty
  /\ ReferencesExist /\ TeamKnown

---------------------------------------------------------------------------
(* Liveness                                                                *)

Overdue(u) ==
  /\ tasks[u].status = "Claimed" /\ tasks[u].progress < Full
  /\ now - tasks[u].claimedAt >= Timeout

\* An overdue claim in a team that get_all_team_ids returns does not last: it
\* is released, or its device reports completion.
OverdueReleased ==
  \A u \in Url : (Overdue(u) /\ tasks[u].team \in get_all_team_ids) ~> ~Overdue(u)

\* Every message that is taken up is dealt with: the connection gets back to
\* reading, or is closed.
HandlersFinish ==
  \A c \in Conn : (conn[c].pc \notin {"closed", "ready"}) ~> (conn[c].pc \in {"closed", "ready"})

\* A connection whose channel overflowed has lost a message; it does not go on
\* as if nothing had happened: either it is closed, or its client never again reads
\* enough for the message being sent to go out, and gets no other one.
LaggedIsClosed ==
  \A c \in Conn : (unread[c] = ChanCap + 1)
                    ~> (conn[c].pc \in {"unregister", "closed"} \/ [](c \in sending))

---------------------------------------------------------------------------
(* Refinement.  The board shows for a completed task the device with its    *)
(* file; an intent is the row a handler holds between SELECT and UPDATE.    *)

HolderOf(u) == IF tasks[u].status = "Complete" THEN tasks[u].file ELSE tasks[u].claimedBy

Board == INSTANCE TaskBoard WITH
  Client  <- Conn,
  board   <- [u \in Url |-> [state |-> tasks[u].status, holder |-> HolderOf(u)]],
  intent  <- [c \in Conn |-> IF conn[c].pc = "write"
                             THEN [url |-> conn[c].url, device |-> conn[c].row.claimedBy]
                             ELSE [url |-> NoUrl, device |-> NoDevice]],
  overdue <- IF sweep.pc = "clock" THEN {i.url : i \in sweep.items} ELSE sweep.due

\* The server is a TaskBoard: a device becomes the holder of a task only if the
\* task was free or its own when its handler looked, a release concerns a task
\* the sweep saw claimed, and nothing else changes what the board shows.
ImplementsTaskBoard == Board!Spec
===========================================================================
