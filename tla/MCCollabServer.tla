-------------------------- MODULE MCCollabServer --------------------------
(***************************************************************************)
(* Instances of CollabServer for TLC.  The state space of the whole server *)
(* is explored in two halves that overlap: sessions and teams without      *)
(* tasks (Spec with an empty Url), and tasks among members of a team.      *)
(***************************************************************************)
EXTENDS CollabServer, FiniteSets, TLC
CONSTANTS c1, c2, d1, d2

CONSTANT DeviceOf    \* the device each connection presents in the task runs

Symmetric == Permutations(Conn) \cup Permutations(Device)

\* A state Init leads to: the teams of the connections were created, and the
\* first of them registered the one row of table devices.
TeamsInit(first) ==
  /\ teams = Team
  /\ devices = [d \in Device |->
                  IF d = NilDevice THEN [team |-> first, online |-> TRUE] ELSE NoRow]
  /\ tasks = [u \in Url |-> NoTask]
  /\ conn = [c \in Conn |-> NoConn]
  /\ sessions = [c \in Conn |-> NoSession]
  /\ unread = [c \in Conn |-> 0]
  /\ sending = {}
  /\ ring = EmptyRing
  /\ sweep = NoSweep
  /\ now = 0
  /\ restarts = 0

\* Clients that do not read: what is in a channel, and whether the write loop
\* waits, matters to no task.
MemberNext(c) ==
  \/ \E t \in Team : Connect(c, DeviceOf[c], t) \/ (\E d \in Device : Register(c, d, t))
  \/ RegisterPurge(c) \/ RegisterInsert(c)
  \/ Disconnect(c) \/ Unregister(c)
  \/ Ignore(c)
  \/ TaskNext(c)

MemberStep == (\E c \in Conn : MemberNext(c)) \/ SweepStep \/ Tick \/ Restart

MemberInit     == \E t \in Team : TeamsInit(t)
MemberSpec     == MemberInit /\ [][MemberStep]_vars
SweptSpec      == MemberSpec /\ SweepFairness
MemberFairSpec == SweptSpec /\ ConnectionFairness

\* Clients that present the ids of a token without a team, and come to a team by
\* CreateTeam and JoinTeam.
ClientNext(c) ==
  \/ \E d \in Device : Connect(c, d, NilTeam) \/ Register(c, d, NilTeam)
  \/ RegisterPurge(c) \/ RegisterInsert(c)
  \/ WriteRecv(c) \/ WriteSent(c) \/ Disconnect(c) \/ Lagged(c) \/ Unregister(c)
  \/ Ignore(c)
  \/ TeamNext(c) \/ Reply(c)

ClientSpec == Init /\ [][\E c \in Conn : ClientNext(c)]_vars /\ ConnectionFairness

\* Every operation of the server.
SweptServerSpec == Spec /\ SweepFairness

TwoDevices == (c1 :> d1) @@ (c2 :> d2)
OneDevice  == (c1 :> d1)

DeviceHash == [d \in Device |-> IF d = d1 THEN 1 ELSE 2]
UrlHash    == [u \in Url |-> 2]

---------------------------------------------------------------------------
(* What the repository's documents and comments say of the server, and the *)
(* code does not do.  Each is the property of one run that violates it.    *)

\* design.md: Task.version is an optimistic lock.  A claim that is in the table
\* is not overwritten by another device's claim that was read before it.
ClaimNotOverwritten ==
  [][\A u \in Url : tasks[u].claimedBy # NoDevice
       => tasks'[u].claimedBy \in {tasks[u].claimedBy, NoDevice}]_vars

\* handler.rs: a task is released when it was not completed in 5 minutes.  A
\* task whose completion is in the table is not released.
CompleteNotReleased ==
  [][\A u \in Url : tasks[u].status = "Complete" => tasks'[u].status # "Queued"]_vars

\* handler.rs, register_client: if the device id is there already, its old
\* session is removed.  A device has at most one session.
OneSessionPerDevice == \A d \in Device : Cardinality(SessionsOf(d)) <= 1

\* server/ws.rs: the sweep checks the overdue claims of all teams.
AllTeamsSwept == \A u \in Url : Overdue(u) ~> ~Overdue(u)

\* handler.rs: a claim that is not completed after 5 minutes is released, in a
\* team that the sweep visits at all.
UnfinishedReleased ==
  \A u \in Url :
    (/\ tasks[u].status = "Claimed" /\ now - tasks[u].claimedAt >= Timeout
     /\ tasks[u].team \in get_all_team_ids) ~> (tasks[u].status # "Claimed")

\* central-service/spec.md: the server registers a device that joins a team.
\* When handle_create_team or handle_join_team is done, its device has a row.
JoinedDeviceRegistered ==
  [][\A c \in Conn : conn[c].pc = "regDevice" /\ conn'[c].pc = "ready"
       => devices'[conn[c].device] # NoRow]_vars

\* task-distribution/spec.md: a new task is assigned to a device, which claims
\* it.  handle_add_task leaves get_owner's step with a claimed task.
NewTaskAssigned ==
  [][\A c \in Conn : conn[c].pc = "assign" /\ conn'[c].pc = "toTeam"
       => tasks'[conn[c].url].claimedBy # NoDevice]_vars
===========================================================================
