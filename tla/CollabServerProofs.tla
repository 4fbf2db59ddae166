------------------------ MODULE CollabServerProofs ------------------------
(***************************************************************************)
(* Theorems about HashRing and CollabServer, for every value of their      *)
(* constants: what consistent hashing promises, the inductive invariant of *)
(* the server and the properties that follow from it, the refinement of    *)
(* TaskBoard, and the safety halves of the liveness properties: handlers go*)
(* forward, an overflow lasts until the connection is closed, a round of   *)
(* the sweep becomes shorter.                                              *)
(***************************************************************************)
EXTENDS CollabServer, WellFoundedInduction, TLAPS

---------------------------------------------------------------------------
(* The ring: what consistent hashing promises.  An owner is on the ring, and*)
(* a device that comes or goes moves only URLs to or from itself.  Only the *)
(* values of the two hash functions are assumed to be numbers, and where it *)
(* is said, that the devices' hashes differ.                                *)

\* A ring that add_device and remove_device have made: a device is at its hash.
IsRing(nodes) ==
  /\ DOMAIN nodes \subseteq Nat
  /\ nodes = [h \in DOMAIN nodes |-> nodes[h]]
  /\ \A h \in DOMAIN nodes : HashDevice[nodes[h]] = h

\* What get_owner chooses from.
From(nodes, u) == IF AtOrAfter(nodes, u) # {} THEN AtOrAfter(nodes, u) ELSE DOMAIN nodes

---------------------------------------------------------------------------
LEMMA LeastIsLeast ==
  ASSUME NEW S \in SUBSET Nat, S # {}
  PROVE  Least(S) \in S /\ \A k \in S : Least(S) <= k
<1>1. PICK h \in S : \A k \in S : ~ (<<k, h>> \in OpToRel(<, Nat))
  BY NatLessThanWellFounded, WFMin
<1>2. \A j, k \in Nat : j < k => <<j, k>> \in OpToRel(<, Nat)
  BY DEF OpToRel
<1>3. \A k \in S : h \in Nat /\ k \in Nat /\ ~ (k < h)
  BY <1>1, <1>2
<1>4. \A k \in S : h <= k
  BY <1>3
<1> QED BY <1>4 DEF Least

LEMMA LeastUnique ==
  ASSUME NEW S \in SUBSET Nat, NEW h \in S, \A k \in S : h <= k
  PROVE  Least(S) = h
<1>1. Least(S) \in Nat /\ h \in Nat /\ Least(S) <= h /\ h <= Least(S)
  BY LeastIsLeast
<1> QED BY <1>1

LEMMA OwnerFrom ==
  ASSUME NEW nodes, DOMAIN nodes \subseteq Nat, DOMAIN nodes # {}, NEW u
  PROVE  /\ From(nodes, u) \subseteq DOMAIN nodes
         /\ Least(From(nodes, u)) \in From(nodes, u)
         /\ \A k \in From(nodes, u) : Least(From(nodes, u)) <= k
         /\ get_owner(nodes, u) = nodes[Least(From(nodes, u))]
<1>1. From(nodes, u) \subseteq DOMAIN nodes /\ From(nodes, u) # {}
  BY DEF From, AtOrAfter
<1>2. get_owner(nodes, u) = nodes[Least(From(nodes, u))]
  BY DEF get_owner, From
<1>3. From(nodes, u) \in SUBSET Nat
  BY <1>1
<1> QED BY <1>1, <1>2, <1>3, LeastIsLeast

---------------------------------------------------------------------------
\* The owner of a URL is a device of the ring, and there is one unless the ring
\* is empty (get_owner).
THEOREM OwnerOnRing ==
  ASSUME NEW nodes, IsRing(nodes), NEW u, DOMAIN nodes # {}
  PROVE  \E h \in DOMAIN nodes : get_owner(nodes, u) = nodes[h]
BY OwnerFrom DEF IsRing

\* Rings stay rings, whatever comes and goes (add_device, remove_device); also
\* when two devices have the same hash, and the second takes the first's place.
THEOREM RingKept ==
  ASSUME NEW nodes, IsRing(nodes), NEW d, HashDevice[d] \in Nat
  PROVE  IsRing(add_device(nodes, d)) /\ IsRing(remove_device(nodes, d))
BY DEF IsRing, add_device, remove_device

\* A device that joins takes URLs over from others and moves none between them
\* (add_device).
THEOREM JoinMovesToJoined ==
  ASSUME NEW nodes, IsRing(nodes), NEW d, HashDevice[d] \in Nat,
         NEW u, HashUrl[u] \in Nat
  PROVE  get_owner(add_device(nodes, d), u) \in {d, get_owner(nodes, u)}
<1> DEFINE hd   == HashDevice[d]
           more == add_device(nodes, d)
           h    == Least(From(more, u))
<1>1. /\ DOMAIN more = DOMAIN nodes \cup {hd} /\ DOMAIN more \subseteq Nat
      /\ \A k \in DOMAIN nodes : k # hd => more[k] = nodes[k]
      /\ more[hd] = d
  BY DEF add_device, IsRing
<1> HIDE DEF more
<1>2. /\ h \in From(more, u) /\ h \in DOMAIN more
      /\ \A k \in From(more, u) : h <= k
      /\ get_owner(more, u) = more[h]
  BY <1>1, OwnerFrom
<1>3. CASE h = hd
  <2>1. get_owner(more, u) = d
    BY <1>1, <1>2, <1>3
  <2> QED BY <2>1 DEF more
<1>4. CASE h # hd
  <2>1. h \in DOMAIN nodes /\ more[h] = nodes[h]
    BY <1>1, <1>2, <1>4
  <2>2. AtOrAfter(nodes, u) \subseteq AtOrAfter(more, u)
    BY <1>1 DEF AtOrAfter
  <2>3. h \in From(nodes, u)
    <3>1. CASE AtOrAfter(more, u) # {}
      BY <2>1, <3>1, <1>2 DEF From, AtOrAfter
    <3>2. CASE AtOrAfter(more, u) = {}
      BY <2>1, <2>2, <3>2 DEF From
    <3> QED BY <3>1, <3>2
  <2>4. From(nodes, u) \subseteq From(more, u)
    <3>1. CASE AtOrAfter(more, u) # {}
      <4>1. AtOrAfter(nodes, u) # {}
        BY <2>1, <3>1, <1>2 DEF From, AtOrAfter
      <4> QED BY <4>1, <3>1, <2>2 DEF From
    <3>2. CASE AtOrAfter(more, u) = {}
      BY <2>2, <3>2, <1>1 DEF From
    <3> QED BY <3>1, <3>2
  <2>5. From(nodes, u) \in SUBSET Nat
    BY DEF From, AtOrAfter, IsRing
  <2>6. Least(From(nodes, u)) = h
    BY <1>2, <2>3, <2>4, <2>5, LeastUnique
  <2>7. get_owner(nodes, u) = nodes[h]
    BY <2>1, <2>6, OwnerFrom DEF IsRing
  <2> QED BY <1>2, <2>1, <2>7 DEF more
<1> QED BY <1>3, <1>4

\* Removing undoes adding: a device that joins and leaves again leaves the ring
\* as it was, unless its hash was another device's (remove_device).
THEOREM LeaveUndoesJoin ==
  ASSUME NEW nodes, IsRing(nodes), NEW d, HashDevice[d] \notin DOMAIN nodes
  PROVE  remove_device(add_device(nodes, d), d) = nodes
BY DEF IsRing, add_device, remove_device

\* A device that leaves gives its own URLs away, and no other URL changes its
\* owner (remove_device).
THEOREM LeaveMovesFromLeft ==
  ASSUME NEW nodes, IsRing(nodes), NEW d, HashDevice[d] \in DOMAIN nodes,
         nodes[HashDevice[d]] = d,
         NEW u, HashUrl[u] \in Nat, get_owner(nodes, u) # d
  PROVE  get_owner(remove_device(nodes, d), u) = get_owner(nodes, u)
<1> DEFINE less == remove_device(nodes, d)
<1>1. IsRing(less) /\ HashDevice[d] \in Nat /\ HashDevice[d] \notin DOMAIN less
  BY RingKept DEF IsRing, remove_device
<1>2. add_device(less, d) = nodes
  BY DEF add_device, remove_device, IsRing
<1> HIDE DEF less
<1>3. get_owner(nodes, u) \in {d, get_owner(less, u)}
  BY <1>1, <1>2, JoinMovesToJoined
<1> QED BY <1>3 DEF less

\* The order in which devices join does not matter: every client that knows the
\* same devices computes the same owners (add_device).
THEOREM JoinOrder ==
  ASSUME NEW nodes, NEW d, NEW e, HashDevice[d] # HashDevice[e]
  PROVE  add_device(add_device(nodes, d), e) = add_device(add_device(nodes, e), d)
BY DEF add_device

---------------------------------------------------------------------------
(* The records the actions build are of the types they are stored under.   *)

LEMMA EmptyRecords ==
  /\ NoTask \in Task /\ NoRow \in DeviceRow /\ NoSession \in Session /\ NoConn \in Connection
  /\ Ready \in Connection
  /\ \A t \in TeamId : NewTask(t) \in Task
<1>1. NoTask \in Task
  BY DEF NoTask, Task, TeamId, Status, Holder, NoTime, Progress, Full
<1>2. NoConn \in Connection
  BY <1>1 DEF NoConn, Connection, Step, Holder, TeamId
<1>3. Ready \in Connection
  BY <1>1 DEF NoConn, Ready, Connection, Step, AwaitPoint, Holder, TeamId
<1>4. \A t \in TeamId : NewTask(t) \in Task
  BY DEF NewTask, Task, Status, Holder, NoTime, Progress, Full
<1> QED
  BY <1>1, <1>2, <1>3, <1>4 DEF NoRow, DeviceRow, NoSession, Session, TeamId, Holder

LEMMA Steps ==
  /\ {"closed", "purge", "insert", "ready", "readSession", "setTeam",
      "notify"} \subseteq Step
  /\ {"assign", "leaveRing", "toTeam", "toDevice", "toSelf", "write", "regDevice",
      "unregister"} \subseteq Step
  BY DEF Step, AwaitPoint

\* What SessionNext, TeamNext and TaskNext store in conn.
LEMMA ConnSet ==
  ASSUME conn \in [Conn -> Connection], NEW c \in Conn, NEW r \in Connection,
         conn' = [conn EXCEPT ![c] = r]
  PROVE  conn' \in [Conn -> Connection]
  OBVIOUS

LEMMA ConnGoto ==
  ASSUME conn \in [Conn -> Connection], NEW c \in Conn, NEW p \in Step,
         conn' = [conn EXCEPT ![c].pc = p]
  PROVE  conn' \in [Conn -> Connection]
  BY DEF Connection

LEMMA ConnThen ==
  ASSUME conn \in [Conn -> Connection], NEW c \in Conn, NEW p \in Step, NEW t \in TeamId,
         NEW u \in Url \cup {NoUrl}, NEW r \in Task, Then(c, p, t, u, r)
  PROVE  conn' \in [Conn -> Connection]
  BY DEF Connection, Then

LEMMA ConnBegin ==
  ASSUME conn \in [Conn -> Connection], sessions \in [Conn -> Session], NEW c \in Conn,
         NEW p \in Step, NEW t \in TeamId, NEW u \in Url \cup {NoUrl}, NEW r \in Task,
         Begin(c, p, t, u, r)
  PROVE  conn' \in [Conn -> Connection]
  BY DEF Connection, Session, Begin

LEMMA DeliverType ==
  ASSUME unread \in [Conn -> 0..(ChanCap + 1)], NEW K, Deliver(K)
  PROVE  unread' \in [Conn -> 0..(ChanCap + 1)]
  BY BoundAssumption DEF Deliver

---------------------------------------------------------------------------
(* Type correctness                                                        *)

LEMMA TypeInit == Init => TypeOK
  BY EmptyRecords, BoundAssumption DEF Init, TypeOK, NoSweep, TeamId, EmptyRing

LEMMA TypeSession ==
  ASSUME TypeOK, NEW c \in Conn, SessionNext(c)
  PROVE  TypeOK'
<1> USE EmptyRecords, Steps DEF TypeOK, db, vars
<1>1. ASSUME NEW d \in Device, NEW t \in TeamId, Connect(c, d, t) PROVE TypeOK'
  <2>1. [NoConn EXCEPT !.pc = "purge", !.device = d, !.team = t] \in Connection
    BY DEF Connection, NoConn, Holder
  <2> QED BY <1>1, <2>1 DEF Connect
<1>2. CASE RegisterPurge(c)
  <2>1. conn' \in [Conn -> Connection] BY <1>2, ConnGoto DEF RegisterPurge
  <2> QED BY <1>2, <2>1 DEF RegisterPurge
<1>3. CASE RegisterInsert(c)
  <2>1. conn' \in [Conn -> Connection] BY <1>3, ConnGoto DEF RegisterInsert
  <2>2. [device |-> conn[c].device, team |-> conn[c].team] \in Session
    BY DEF Connection, Session
  <2> QED BY <1>3, <2>1, <2>2 DEF RegisterInsert
<1>4. ASSUME NEW d \in Device, NEW t \in TeamId, Register(c, d, t) PROVE TypeOK'
  <2>1. [device |-> d, team |-> t] \in Session BY DEF Session, Holder
  <2> QED BY <1>4, <2>1 DEF Register
<1>5. CASE WriteRecv(c) \/ WriteSent(c)
  BY <1>5, BoundAssumption DEF WriteRecv, WriteSent
<1>6. CASE LeaveLoop(c)
  <2>1. [NoConn EXCEPT !.pc = "unregister"] \in Connection
    BY DEF Connection, NoConn
  <2> QED BY <1>6, <2>1 DEF LeaveLoop
<1>7. CASE Unregister(c)      BY <1>7, BoundAssumption DEF Unregister
<1>8. CASE Ignore(c)          BY <1>8 DEF Ignore
<1> QED BY <1>1, <1>2, <1>3, <1>4, <1>5, <1>6, <1>7, <1>8 DEF SessionNext, Disconnect, Lagged

LEMMA TypeTeam ==
  ASSUME TypeOK, NEW c \in Conn, TeamNext(c)
  PROVE  TypeOK'
<1> USE EmptyRecords, Steps DEF TypeOK, db, vars
<1>0. NilTeam \in TeamId /\ NoUrl \in Url \cup {NoUrl} /\ conn[c].team \in TeamId
  BY DEF TeamId, Connection
<1>1. ASSUME NEW t \in Team, CreateTeam(c, t) PROVE TypeOK'
  <2>1. conn' \in [Conn -> Connection]
    <3>1. t \in TeamId BY DEF TeamId
    <3> QED BY <1>0, <1>1, <3>1, ConnBegin DEF CreateTeam
  <2> QED BY <1>1, <2>1 DEF CreateTeam
<1>2. ASSUME NEW t \in Team, JoinTeam(c, t) PROVE TypeOK'
  <2>1. conn' \in [Conn -> Connection]
    <3>1. t \in TeamId BY DEF TeamId
    <3> QED BY <1>0, <1>2, <3>1, ConnBegin DEF JoinTeam, Fail
  <2> QED BY <1>2, <2>1 DEF JoinTeam
<1>3. CASE DatabaseFails(c)
  <2>1. ASSUME NEW pc \in {"toSelf", "toDevice", "leaveRing"}, Fail(c, pc)
        PROVE  conn' \in [Conn -> Connection]
    BY <1>0, <2>1, ConnBegin DEF Fail
  <2>2. conn' \in [Conn -> Connection] BY <1>3, <2>1 DEF DatabaseFails
  <2> QED BY <1>3, <2>2 DEF DatabaseFails
<1>4. CASE ReadSession(c)
  <2>1. conn' \in [Conn -> Connection] BY <1>4, ConnGoto DEF ReadSession
  <2> QED BY <1>4, <2>1 DEF ReadSession
<1>5. CASE SetTeam(c)
  <2>1. conn' \in [Conn -> Connection] BY <1>5, ConnGoto DEF SetTeam
  <2>2. [sessions[c] EXCEPT !.team = conn[c].team] \in Session BY <1>0 DEF Session
  <2> QED BY <1>5, <2>1, <2>2 DEF SetTeam
<1>6. CASE Notify(c)
  <2>1. conn' \in [Conn -> Connection] BY <1>6, ConnGoto DEF Notify
  <2>2. unread' \in [Conn -> 0..(ChanCap + 1)] BY <1>6, DeliverType DEF Notify, send_to_device
  <2> QED BY <1>6, <2>1, <2>2 DEF Notify
<1>7. CASE RegisterDevice(c)
  <2>1. conn' \in [Conn -> Connection] BY <1>0, <1>7, ConnSet DEF RegisterDevice, Done
  <2>2. devices' \in [Device -> DeviceRow]
    BY <1>0, <1>7 DEF RegisterDevice, DeviceRow
  <2> QED BY <1>7, <2>1, <2>2 DEF RegisterDevice
<1>8. CASE Heartbeat(c)
  <2>1. devices' \in [Device -> DeviceRow]
    BY <1>8 DEF Heartbeat, DeviceRow
  <2> QED BY <1>8, <2>1 DEF Heartbeat
<1>9. CASE LeaveTeam(c)
  <2>1. devices' \in [Device -> DeviceRow]
    BY <1>9 DEF LeaveTeam, DeviceRow
  <2>2. conn' \in [Conn -> Connection] BY <1>0, <1>9, ConnBegin DEF LeaveTeam
  <2> QED BY <1>9, <2>1, <2>2 DEF LeaveTeam
<1>10. CASE LeaveRing(c)
  <2>1. conn' \in [Conn -> Connection] BY <1>0, <1>10, ConnSet DEF LeaveRing, Done
  <2>2. DOMAIN ring' \subseteq Nat /\ \A h \in DOMAIN ring' : ring'[h] \in Device
    BY <1>10 DEF LeaveRing, remove_device
  <2> QED BY <1>10, <2>1, <2>2 DEF LeaveRing
<1>11. CASE RegisterDeviceFails(c)
  <2>1. conn' \in [Conn -> Connection] BY <1>0, <1>11, ConnSet DEF RegisterDeviceFails, Done
  <2> QED BY <1>11, <2>1 DEF RegisterDeviceFails
<1> QED
  BY <1>1, <1>2, <1>3, <1>4, <1>5, <1>6, <1>7, <1>8, <1>9, <1>10, <1>11 DEF TeamNext

\* The rows that handlers and the sweep compute from a row of the table.
LEMMA RowUpdates ==
  ASSUME NEW r \in Task
  PROVE  /\ \A d \in Holder, k \in Int :
              [r EXCEPT !.status = "Claimed", !.claimedBy = d, !.claimedAt = k] \in Task
         /\ \A p \in Progress : [r EXCEPT !.progress = p] \in Task
         /\ \A d \in Holder : [r EXCEPT !.status = "Complete", !.progress = Full, !.file = d] \in Task
         /\ [r EXCEPT !.version = r.version + 1] \in Task
         /\ \A t \in TeamId : [r EXCEPT !.team = t] \in Task
         /\ [r EXCEPT !.status = "Queued", !.claimedBy = NoDevice, !.claimedAt = NoTime,
                      !.progress = 0, !.version = r.version + 1] \in Task
<1>1. /\ {"Queued", "Claimed", "Complete"} \subseteq Status
      /\ {0, Full} \subseteq Progress /\ NoTime \in Int /\ NoDevice \in Holder
  BY DEF Status, Progress, Full, NoTime, Holder
<1>2. r.version + 1 \in Nat BY DEF Task
<1> QED BY <1>1, <1>2 DEF Task

LEMMA TypeTask ==
  ASSUME TypeOK, NEW c \in Conn, TaskNext(c)
  PROVE  TypeOK'
<1> USE EmptyRecords, Steps DEF TypeOK, db, vars
<1>0. /\ NilTeam \in TeamId /\ NoUrl \in Url \cup {NoUrl} /\ now \in Int
      /\ conn[c].team \in TeamId /\ conn[c].device \in Holder /\ conn[c].row \in Task
      /\ conn[c].url \in Url \cup {NoUrl}
      /\ sessions[c].team \in TeamId /\ sessions[c].device \in Holder
  <2>1. NilTeam \in TeamId BY DEF TeamId
  <2>2. conn[c] \in Connection /\ sessions[c] \in Session OBVIOUS
  <2>3. /\ conn[c].team \in TeamId /\ conn[c].device \in Holder /\ conn[c].row \in Task
        /\ conn[c].url \in Url \cup {NoUrl}
    BY <2>2 DEF Connection
  <2> QED BY <2>1, <2>2, <2>3 DEF Session
\* Prepare stores a row of the right type.
<1>1. ASSUME NEW u \in Url, NEW r \in Task, Prepare(c, u, r) PROVE conn' \in [Conn -> Connection]
  <2>1. [r EXCEPT !.version = r.version + 1] \in Task BY RowUpdates
  <2> QED BY <1>0, <1>1, <2>1, ConnBegin DEF Prepare
<1>2. ASSUME NEW u \in Url, AddTask(c, u) PROVE TypeOK'
  <2>1. conn' \in [Conn -> Connection] BY <1>0, <1>2, ConnBegin DEF AddTask, Fail
  <2>2. tasks' \in [Url -> Task] BY <1>0, <1>2 DEF AddTask
  <2> QED BY <1>2, <2>1, <2>2 DEF AddTask
<1>3. ASSUME NEW u \in Url, ClaimTask(c, u) PROVE TypeOK'
  <2>1. [tasks[u] EXCEPT !.status = "Claimed", !.claimedBy = sessions[c].device,
                         !.claimedAt = now] \in Task
    BY <1>0, RowUpdates
  <2>2. conn' \in [Conn -> Connection]
    BY <1>0, <1>1, <1>3, <2>1, ConnBegin DEF ClaimTask, Fail
  <2> QED BY <1>3, <2>2 DEF ClaimTask
<1>4. ASSUME NEW u \in Url, TaskComplete(c, u) PROVE TypeOK'
  <2>1. [tasks[u] EXCEPT !.status = "Complete", !.progress = Full,
                         !.file = sessions[c].device] \in Task
    BY <1>0, RowUpdates
  <2>2. conn' \in [Conn -> Connection] BY <1>1, <1>4, <2>1 DEF TaskComplete
  <2> QED BY <1>4, <2>2 DEF TaskComplete
<1>5. ASSUME NEW u \in Url, NEW p \in Progress, UpdateProgress(c, u, p) PROVE TypeOK'
  <2>1. [tasks[u] EXCEPT !.progress = p] \in Task BY RowUpdates
  <2>2. conn' \in [Conn -> Connection] BY <1>1, <1>5, <2>1 DEF UpdateProgress
  <2> QED BY <1>5, <2>2 DEF UpdateProgress
<1>6. ASSUME NEW u \in Url, NotClaimer(c, u) PROVE TypeOK'
  BY <1>6 DEF NotClaimer
<1>7. ASSUME NEW u \in Url, RequestFile(c, u) PROVE TypeOK'
  <2>1. conn' \in [Conn -> Connection] BY <1>0, <1>7, ConnBegin DEF RequestFile, Fail
  <2> QED BY <1>7, <2>1 DEF RequestFile
<1>8. CASE Assign(c)
  <2>1. conn' \in [Conn -> Connection] BY <1>0, <1>8, ConnThen DEF Assign
  <2>2. unread' \in [Conn -> 0..(ChanCap + 1)]
    BY <1>8, DeliverType DEF Assign, send_to_device
  <2>3. tasks' \in [Url -> Task]
    <3> DEFINE d == get_owner(ring, conn[c].url)
    <3>1. d \in Holder
      <4>1. CASE DOMAIN ring = {}
        BY <4>1 DEF get_owner, Holder
      <4>2. CASE DOMAIN ring # {}
        BY <4>2, OwnerFrom DEF Holder
      <4> QED BY <4>1, <4>2
    <3>2. [conn[c].row EXCEPT !.status = "Claimed", !.claimedBy = d, !.claimedAt = now] \in Task
      BY <1>0, <3>1, RowUpdates
    <3> QED BY <1>8, <3>2 DEF Assign
  <2> QED BY <1>8, <2>1, <2>2, <2>3 DEF Assign
<1>9. CASE UpdateTask(c)
  <2>1. conn' \in [Conn -> Connection] BY <1>0, <1>9, ConnThen DEF UpdateTask
  <2>2. tasks' \in [Url -> Task]
    <3>1. CASE conn[c].url \in Url
      <4>1. tasks[conn[c].url].team \in TeamId BY <3>1 DEF Task
      <4>2. [conn[c].row EXCEPT !.team = tasks[conn[c].url].team] \in Task
        BY <1>0, <4>1, RowUpdates
      <4> QED BY <1>9, <3>1, <4>2 DEF UpdateTask, update_task
    <3>2. CASE conn[c].url \notin Url BY <1>9, <3>2 DEF UpdateTask, update_task
    <3> QED BY <3>1, <3>2
  <2> QED BY <1>9, <2>1, <2>2 DEF UpdateTask
<1>10. CASE UpdateTaskFails(c)
  <2>1. conn' \in [Conn -> Connection] BY <1>0, <1>10, ConnSet DEF UpdateTaskFails, Done
  <2> QED BY <1>10, <2>1 DEF UpdateTaskFails
<1>11. CASE Reply(c)
  <2>1. conn' \in [Conn -> Connection] BY <1>0, <1>11, ConnSet DEF Reply, Done
  <2>2. unread' \in [Conn -> 0..(ChanCap + 1)]
    BY <1>11, DeliverType DEF Reply, send_to_device, broadcast_to_team, send_error
  <2> QED BY <1>11, <2>1, <2>2 DEF Reply
<1> QED
  BY <1>2, <1>3, <1>4, <1>5, <1>6, <1>7, <1>8, <1>9, <1>10, <1>11 DEF TaskNext

LEMMA TypeSweep ==
  ASSUME TypeOK, SweepStep
  PROVE  TypeOK'
<1> USE DEF TypeOK, db
<1>1. CASE SweepStart
  <2>1. get_all_team_ids \subseteq TeamId BY DEF get_all_team_ids, DeviceRow
  <2> QED BY <1>1, <2>1 DEF SweepStart
<1>2. CASE SweepClock
  <2>1. {i.url : i \in {j \in sweep.items : TimedOut(j)}} \subseteq Url BY DEF SweepItem
  <2> QED BY <1>2, <2>1 DEF SweepClock
<1>3. CASE SweepAnnounce
  <2>1. unread' \in [Conn -> 0..(ChanCap + 1)]
    BY <1>3, DeliverType DEF SweepAnnounce, broadcast_to_team
  <2> QED BY <1>3, <2>1 DEF SweepAnnounce
<1>4. CASE SweepNextTeam BY <1>4 DEF SweepNextTeam, TeamId
<1>5. CASE SweepEnd BY <1>5 DEF SweepEnd, NoSweep, TeamId
<1>6. ASSUME NEW t \in TeamId, SweepRead(t) PROVE TypeOK'
  <2>1. \A u \in Url : [url |-> u, claimedAt |-> tasks[u].claimedAt,
                         progress |-> tasks[u].progress] \in SweepItem
    BY DEF SweepItem, Task
  <2>2. get_claimed_tasks(t) \subseteq SweepItem BY <2>1 DEF get_claimed_tasks
  <2> QED BY <1>6, <2>2 DEF SweepRead
<1>7. ASSUME NEW u \in Url, SweepRelease(u) PROVE TypeOK'
  <2>1. tasks' \in [Url -> Task] BY <1>7, RowUpdates DEF SweepRelease, release_task
  <2> QED BY <1>7, <2>1 DEF SweepRelease
<1>8. ASSUME NEW u \in Url, SweepReleaseFails(u) PROVE TypeOK'
  BY <1>8 DEF SweepReleaseFails
<1>9. ASSUME NEW t \in TeamId, SweepReadFails(t) PROVE TypeOK'
  BY <1>9 DEF SweepReadFails
<1> QED BY <1>1, <1>2, <1>3, <1>4, <1>5, <1>6, <1>7, <1>8, <1>9 DEF SweepStep

LEMMA TypeStep ==
  ASSUME TypeOK, [Next]_vars
  PROVE  TypeOK'
<1>1. CASE Tick    BY <1>1 DEF Tick, TypeOK, db
<1>2. CASE Restart
  BY <1>2, EmptyRecords, BoundAssumption DEF Restart, TypeOK, db, NoSweep, TeamId, EmptyRing
<1>3. CASE UNCHANGED vars BY <1>3 DEF vars, TypeOK
<1> QED BY <1>1, <1>2, <1>3, TypeSession, TypeTeam, TypeTask, TypeSweep DEF Next

\* Every table, and every value a task of the server holds, keeps its type.
THEOREM TypeCorrect == Spec => []TypeOK
<1>1. Init => TypeOK BY TypeInit
<1>2. TypeOK /\ [Next]_vars => TypeOK' BY TypeStep
<1> QED BY <1>1, <1>2, PTL DEF Spec

---------------------------------------------------------------------------
(* Sessions and connections                                                *)

ConnInv == SessionsOwned /\ DeviceKnown /\ RingEmpty

LEMMA ConnInvInit == Init => ConnInv
  BY DEF Init, ConnInv, SessionsOwned, DeviceKnown, RingEmpty, Live, NoConn

\* An empty ring stays empty.
LEMMA RemoveFromEmpty == \A d : remove_device(EmptyRing, d) = EmptyRing
  BY DEF remove_device, EmptyRing

LEMMA ReadyFields == Ready.pc = "ready"
  BY DEF Ready, NoConn

\* A handler's step that leaves the sessions alone: it has the device it read from
\* its session, or goes on with the one it has, or is done.
LEMMA ConnInvFrame ==
  ASSUME TypeOK, ConnInv, sessions' = sessions, ring' = EmptyRing, NEW c \in Conn,
         \A k \in Conn : k # c => conn'[k] = conn[k],
         \/ conn'[c] = conn[c]
         \/ /\ {conn[c].pc, conn'[c].pc} \cap {"closed", "purge", "insert"} = {}
            /\ \/ conn'[c].pc = "ready"
               \/ Live(c) /\ conn'[c].device = sessions[c].device
               \/ /\ conn[c].pc \notin {"ready", "unregister"}
                  /\ conn'[c].device = conn[c].device
  PROVE  ConnInv'
  BY DEF ConnInv, SessionsOwned, DeviceKnown, RingEmpty, Live

LEMMA ConnInvSession ==
  ASSUME TypeOK, ConnInv, NEW c \in Conn, SessionNext(c)
  PROVE  ConnInv'
<1> USE DEF ConnInv, SessionsOwned, DeviceKnown, RingEmpty, Live, TypeOK, NoConn
<1>0. \A k \in Conn : conn[k] \in Connection /\ sessions[k] \in Session OBVIOUS
<1>1. ASSUME NEW d \in Device, NEW t \in TeamId, Connect(c, d, t) PROVE ConnInv'
  BY <1>1 DEF Connect
<1>2. CASE RegisterPurge(c)
  BY <1>2 DEF RegisterPurge, SessionsOf, Connection
<1>3. CASE RegisterInsert(c)
  BY <1>3, ReadyFields DEF RegisterInsert, Connection
<1>4. ASSUME NEW d \in Device, NEW t \in TeamId, Register(c, d, t) PROVE ConnInv'
  BY <1>4 DEF Register
<1>5. CASE WriteRecv(c) \/ WriteSent(c)
  BY <1>5 DEF WriteRecv, WriteSent
<1>6. CASE LeaveLoop(c)
  BY <1>6 DEF LeaveLoop, AwaitPoint
<1>7. CASE Unregister(c) BY <1>7 DEF Unregister
<1>8. CASE Ignore(c)     BY <1>8 DEF Ignore, vars
<1> QED BY <1>1, <1>2, <1>3, <1>4, <1>5, <1>6, <1>7, <1>8 DEF SessionNext, Disconnect, Lagged

LEMMA ConnInvTeam ==
  ASSUME TypeOK, ConnInv, NEW c \in Conn, TeamNext(c)
  PROVE  ConnInv'
<1> USE DEF TypeOK, Handling
<1>0. ring' = EmptyRing BY RemoveFromEmpty DEF TeamNext, CreateTeam, JoinTeam, DatabaseFails, ReadSession, SetTeam,
        Notify, RegisterDevice, RegisterDeviceFails, Heartbeat, LeaveTeam, LeaveRing, ConnInv,
        RingEmpty
<1>1. CASE SetTeam(c)
  BY <1>0, <1>1 DEF SetTeam, ConnInv, SessionsOwned, DeviceKnown, RingEmpty, Live, Connection, Session
<1>2. ASSUME NEW t \in Team, CreateTeam(c, t) \/ JoinTeam(c, t) PROVE ConnInv'
  BY <1>0, <1>2, ConnInvFrame DEF CreateTeam, JoinTeam, Begin, Fail
<1>3. CASE DatabaseFails(c) \/ LeaveTeam(c)
  BY <1>0, <1>3, ConnInvFrame DEF DatabaseFails, LeaveTeam, Begin, Fail
<1>4. CASE ReadSession(c) \/ Notify(c)
  BY <1>0, <1>4, ConnInvFrame DEF ReadSession, Notify, Connection
<1>5. CASE RegisterDevice(c) \/ RegisterDeviceFails(c) \/ LeaveRing(c)
  BY <1>0, <1>5, ReadyFields, ConnInvFrame DEF RegisterDevice, RegisterDeviceFails, LeaveRing, Done
<1>6. CASE Heartbeat(c)
  BY <1>0, <1>6, ConnInvFrame DEF Heartbeat
<1> QED BY <1>1, <1>2, <1>3, <1>4, <1>5, <1>6 DEF TeamNext

LEMMA ConnInvTask ==
  ASSUME TypeOK, ConnInv, NEW c \in Conn, TaskNext(c)
  PROVE  ConnInv'
<1> USE DEF TypeOK, Handling
<1>1. ASSUME NEW u \in Url, AddTask(c, u) \/ ClaimTask(c, u) \/ TaskComplete(c, u)
                            \/ NotClaimer(c, u) \/ RequestFile(c, u)
      PROVE  ConnInv'
  BY <1>1, ConnInvFrame DEF AddTask, ClaimTask, TaskComplete, NotClaimer, RequestFile, Prepare,
                            Begin, Fail, ConnInv, RingEmpty, vars
<1>2. ASSUME NEW u \in Url, NEW p \in Progress, UpdateProgress(c, u, p) PROVE ConnInv'
  BY <1>2, ConnInvFrame DEF UpdateProgress, Prepare, Begin, ConnInv, RingEmpty
<1>3. CASE Assign(c) \/ UpdateTask(c)
  BY <1>3, ConnInvFrame DEF Assign, UpdateTask, Then, ConnInv, RingEmpty
<1>4. CASE UpdateTaskFails(c) \/ Reply(c)
  BY <1>4, ReadyFields, ConnInvFrame DEF UpdateTaskFails, Reply, Done, ConnInv, RingEmpty
<1> QED BY <1>1, <1>2, <1>3, <1>4 DEF TaskNext

LEMMA ConnInvStep ==
  ASSUME TypeOK, ConnInv, [Next]_vars
  PROVE  ConnInv'
<1>1. CASE SweepStep \/ Tick \/ UNCHANGED vars
  <2>1. sessions' = sessions /\ conn' = conn /\ ring' = ring
    BY <1>1 DEF SweepStep, SweepStart, SweepClock, SweepAnnounce, SweepNextTeam, SweepEnd,
                SweepRead, SweepReadFails, SweepRelease, SweepReleaseFails, Tick, vars
  <2> QED BY <2>1 DEF ConnInv, SessionsOwned, DeviceKnown, RingEmpty, Live
<1>2. CASE Restart
  BY <1>2 DEF Restart, ConnInv, SessionsOwned, DeviceKnown, RingEmpty, Live, NoConn
<1> QED BY <1>1, <1>2, ConnInvSession, ConnInvTeam, ConnInvTask DEF Next

\* No connection leaves a session behind, whatever ids its client registers.
THEOREM SessionsOwnedCorrect == Spec => []SessionsOwned
<1>1. Init => TypeOK /\ ConnInv BY TypeInit, ConnInvInit
<1>2. TypeOK /\ ConnInv /\ [Next]_vars => TypeOK' /\ ConnInv' BY TypeStep, ConnInvStep
<1>3. ConnInv => SessionsOwned BY DEF ConnInv
<1> QED BY <1>1, <1>2, <1>3, PTL DEF Spec

---------------------------------------------------------------------------
(* Which steps touch the tasks: AddTask inserts a row, the three handlers  *)
(* that go through Prepare come to hold one, UpdateTask and SweepRelease   *)
(* write one.  Every other step is quiet.                                  *)

Quiet == /\ tasks' = tasks
         /\ \A k \in Conn : conn'[k].pc = "write" => conn'[k] = conn[k]

Preparing(c, u) ==
  \/ ClaimTask(c, u) \/ TaskComplete(c, u)
  \/ \E p \in Progress : UpdateProgress(c, u, p)

LEMMA QuietSession ==
  ASSUME TypeOK, NEW c \in Conn, SessionNext(c)
  PROVE  Quiet
<1> USE DEF TypeOK, db, vars, Quiet
<1>1. ASSUME NEW d \in Device, NEW t \in TeamId, Connect(c, d, t) PROVE Quiet
  BY <1>1 DEF Connect, NoConn
<1>2. CASE RegisterPurge(c) \/ RegisterInsert(c)
  BY <1>2, ReadyFields DEF RegisterPurge, RegisterInsert, Connection
<1>3. ASSUME NEW d \in Device, NEW t \in TeamId, Register(c, d, t) PROVE Quiet
    BY <1>3 DEF Register
<1>4. CASE LeaveLoop(c)     BY <1>4 DEF LeaveLoop, NoConn
<1>5. CASE Unregister(c)    BY <1>5 DEF Unregister, NoConn
<1>6. CASE WriteRecv(c) \/ WriteSent(c) \/ Ignore(c) BY <1>6 DEF WriteRecv, WriteSent, Ignore
<1> QED BY <1>1, <1>2, <1>3, <1>4, <1>5, <1>6 DEF SessionNext, Disconnect, Lagged

LEMMA QuietTeam ==
  ASSUME TypeOK, NEW c \in Conn, TeamNext(c)
  PROVE  Quiet
<1> USE DEF TypeOK, db, Quiet
<1>1. ASSUME NEW t \in Team, CreateTeam(c, t) \/ JoinTeam(c, t) PROVE Quiet
  BY <1>1 DEF CreateTeam, JoinTeam, Begin, Fail
<1>2. CASE DatabaseFails(c) \/ LeaveTeam(c)
  BY <1>2 DEF DatabaseFails, LeaveTeam, Begin, Fail
<1>3. CASE ReadSession(c) \/ SetTeam(c) \/ Notify(c)
  BY <1>3 DEF ReadSession, SetTeam, Notify, Connection
<1>4. CASE RegisterDevice(c) \/ RegisterDeviceFails(c) \/ LeaveRing(c)
  BY <1>4, ReadyFields DEF RegisterDevice, RegisterDeviceFails, LeaveRing, Done
<1>5. CASE Heartbeat(c) BY <1>5 DEF Heartbeat
<1> QED BY <1>1, <1>2, <1>3, <1>4, <1>5 DEF TeamNext

LEMMA QuietTask ==
  ASSUME TypeOK, RingEmpty, NEW c \in Conn, TaskNext(c)
  PROVE  \/ Quiet
         \/ \E u \in Url : AddTask(c, u) \/ Preparing(c, u)
         \/ UpdateTask(c)
<1> USE DEF TypeOK, db, vars, Quiet
<1>1. ASSUME NEW u \in Url, NotClaimer(c, u) \/ RequestFile(c, u) PROVE Quiet
  BY <1>1 DEF NotClaimer, RequestFile, Begin, Fail
<1>2. CASE Assign(c)
  <2>1. get_owner(ring, conn[c].url) = NoDevice BY DEF get_owner, RingEmpty, EmptyRing
  <2> QED BY <1>2, <2>1 DEF Assign, Then
<1>3. CASE UpdateTaskFails(c) \/ Reply(c)
  BY <1>3, ReadyFields DEF UpdateTaskFails, Reply, Done
<1> QED BY <1>1, <1>2, <1>3 DEF TaskNext, Preparing

LEMMA StepKinds ==
  ASSUME TypeOK, RingEmpty, [Next]_vars
  PROVE  \/ Quiet
         \/ \E c \in Conn, u \in Url : AddTask(c, u) \/ Preparing(c, u)
         \/ \E c \in Conn : UpdateTask(c)
         \/ \E u \in Url : SweepRelease(u)
<1>1. CASE SweepStep
  BY <1>1 DEF SweepStep, SweepStart, SweepClock, SweepAnnounce, SweepNextTeam, SweepEnd,
              SweepRead, SweepReadFails, SweepReleaseFails, db, Quiet
<1>2. CASE Tick \/ UNCHANGED vars BY <1>2 DEF Tick, db, vars, Quiet
<1>3. CASE Restart BY <1>3 DEF Restart, db, Quiet, NoConn
<1> QED BY <1>1, <1>2, <1>3, QuietSession, QuietTeam, QuietTask DEF Next

\* What a handler comes to hold when it prepares an update of u: a new claim of a
\* queued row, or the row of its own claim with other progress or completed.
NewClaim(c, u) ==
  /\ tasks[u].status = "Queued"
  /\ conn'[c].row.status = "Claimed"
  /\ conn'[c].row.claimedBy = sessions[c].device
  /\ conn'[c].row.claimedAt = now

OwnClaim(c, u) ==
  /\ tasks[u].claimedBy = sessions[c].device
  /\ conn'[c].row.claimedBy = tasks[u].claimedBy
  /\ conn'[c].row.claimedAt = tasks[u].claimedAt
  /\ \/ conn'[c].row.status = tasks[u].status /\ conn'[c].row.file = tasks[u].file
     \/ conn'[c].row.status = "Complete" /\ conn'[c].row.file = sessions[c].device

Prepared(c, u) ==
  /\ tasks' = tasks
  /\ Handling(c) /\ Visible(c, u)
  /\ \A k \in Conn : k # c => conn'[k] = conn[k]
  /\ conn'[c].pc = "write" /\ conn'[c].url = u
  /\ conn'[c].device = sessions[c].device /\ conn'[c].team = sessions[c].team
  /\ NewClaim(c, u) \/ OwnClaim(c, u)

LEMMA PrepareEffect ==
  ASSUME TypeOK, NEW c \in Conn, NEW u \in Url, NEW r \in Task, Prepare(c, u, r)
  PROVE  /\ \A k \in Conn : k # c => conn'[k] = conn[k]
         /\ conn'[c].pc = "write" /\ conn'[c].url = u
         /\ conn'[c].device = sessions[c].device /\ conn'[c].team = sessions[c].team
         /\ conn'[c].row.status = r.status /\ conn'[c].row.claimedBy = r.claimedBy
         /\ conn'[c].row.claimedAt = r.claimedAt /\ conn'[c].row.file = r.file
  BY DEF Prepare, Begin, TypeOK, Task

LEMMA PreparingEffect ==
  ASSUME TypeOK, NEW c \in Conn, NEW u \in Url, Preparing(c, u)
  PROVE  Quiet \/ Prepared(c, u)
<1> USE DEF TypeOK, db, Handling
<1>0. tasks[u] \in Task OBVIOUS
<1>1. CASE ClaimTask(c, u)
  <2>1. CASE Visible(c, u) /\ tasks[u].status = "Queued"
    <3> DEFINE r == [tasks[u] EXCEPT !.status = "Claimed", !.claimedBy = sessions[c].device,
                                     !.claimedAt = now]
    <3>1. r.status = "Claimed" /\ r.claimedBy = sessions[c].device /\ r.claimedAt = now
      BY <1>0 DEF Task
    <3>2. r \in Task
      <4>1. sessions[c].device \in Holder /\ now \in Int BY DEF Session
      <4> QED BY <1>0, <4>1, RowUpdates
    <3>3. Prepare(c, u, r) /\ tasks' = tasks BY <1>1, <2>1 DEF ClaimTask
    <3> HIDE DEF r
    <3> QED BY <1>1, <2>1, <3>1, <3>2, <3>3, PrepareEffect DEF ClaimTask, Prepared, NewClaim
  <2>2. CASE ~(Visible(c, u) /\ tasks[u].status = "Queued")
    BY <1>1, <2>2 DEF ClaimTask, Fail, Begin, Quiet
  <2> QED BY <2>1, <2>2
<1>2. CASE TaskComplete(c, u)
  BY <1>0, <1>2 DEF TaskComplete, Prepare, Begin, Prepared, OwnClaim, Task
<1>3. ASSUME NEW p \in Progress, UpdateProgress(c, u, p) PROVE Prepared(c, u)
  BY <1>0, <1>3 DEF UpdateProgress, Prepare, Begin, Prepared, OwnClaim, Task
<1> QED BY <1>1, <1>2, <1>3 DEF Preparing

\* The rows that the four writing steps leave in the table.
LEMMA AddTaskEffect ==
  ASSUME TypeOK, NEW c \in Conn, NEW u \in Url, AddTask(c, u)
  PROVE  /\ \A k \in Conn : conn'[k].pc = "write" => conn'[k] = conn[k]
         /\ \/ tasks' = tasks
            \/ /\ ~Exists(u) /\ sessions[c].team \in teams /\ teams' = teams
               /\ tasks' = [tasks EXCEPT ![u] = NewTask(sessions[c].team)]
  BY DEF AddTask, Begin, Fail, TypeOK

LEMMA UpdateTaskEffect ==
  ASSUME TypeOK, NEW c \in Conn, UpdateTask(c)
  PROVE  /\ conn[c].pc = "write" /\ conn'[c].pc # "write"
         /\ \A k \in Conn : k # c => conn'[k] = conn[k]
         /\ \A u \in Url : tasks'[u] = IF u = conn[c].url
                                       THEN [conn[c].row EXCEPT !.team = tasks[u].team]
                                       ELSE tasks[u]
  BY DEF UpdateTask, update_task, Then, TypeOK

LEMMA ReleaseEffect ==
  ASSUME TypeOK, NEW u \in Url, SweepRelease(u)
  PROVE  /\ conn' = conn /\ u \in sweep.due /\ sweep.pc = "release"
         /\ \A v \in Url : v # u => tasks'[v] = tasks[v]
         /\ tasks'[u].status = "Queued" /\ tasks'[u].claimedBy = NoDevice
         /\ tasks'[u].claimedAt = NoTime /\ tasks'[u].progress = 0
         /\ tasks'[u].team = tasks[u].team
<1>1. tasks[u] \in Task BY DEF TypeOK
<1> QED BY <1>1 DEF SweepRelease, release_task, TypeOK, Task

---------------------------------------------------------------------------
(* Rows                                                                    *)

RowInv == RowsConsistent /\ FileAtClaimer /\ PreparedConsistent

LEMMA RowInvInit == Init => RowInv
  BY DEF Init, RowInv, RowsConsistent, FileAtClaimer, PreparedConsistent, Consistent, NoTask, NoConn

LEMMA RowInvStep ==
  ASSUME TypeOK, ConnInv, RowInv, [Next]_vars
  PROVE  RowInv'
<1> USE DEF RowInv, RowsConsistent, FileAtClaimer, PreparedConsistent
<1>1. CASE Quiet BY <1>1 DEF Quiet
<1>2. ASSUME NEW c \in Conn, NEW u \in Url, AddTask(c, u) PROVE RowInv'
  BY <1>2, AddTaskEffect DEF NewTask, Consistent, TypeOK
<1>3. ASSUME NEW c \in Conn, NEW u \in Url, Prepared(c, u) PROVE RowInv'
  <2>1. sessions[c].device \in Device /\ sessions[c].device # NoDevice /\ now # NoTime
    BY <1>3, DeviceAssumption
       DEF Prepared, Handling, ConnInv, SessionsOwned, DeviceKnown, TypeOK, NoTime
  <2>2. PreparedRow(conn'[c].row)
    BY <1>3, <2>1 DEF Prepared, NewClaim, OwnClaim, PreparedRow, Consistent, TypeOK, Task, Status,
                      Visible, Exists
  <2> QED BY <1>3, <2>2 DEF Prepared
<1>4. ASSUME NEW c \in Conn, UpdateTask(c) PROVE RowInv'
  <2>1. PreparedRow(conn[c].row) BY <1>4, UpdateTaskEffect
  <2>2. conn[c].row \in Task BY DEF TypeOK, Connection
  <2>3. \A t : /\ Consistent([conn[c].row EXCEPT !.team = t])
               /\ [conn[c].row EXCEPT !.team = t].status = "Complete"
                    => [conn[c].row EXCEPT !.team = t].file
                         = [conn[c].row EXCEPT !.team = t].claimedBy
    BY <2>1, <2>2 DEF PreparedRow, Consistent, Task
  <2>4. RowsConsistent' /\ FileAtClaimer'
    <3> SUFFICES ASSUME NEW u \in Url
                 PROVE  /\ Consistent(tasks[u])'
                        /\ (tasks[u].status = "Complete" => tasks[u].file = tasks[u].claimedBy)'
      OBVIOUS
    <3>1. CASE u = conn[c].url
      <4>1. tasks'[u] = [conn[c].row EXCEPT !.team = tasks[u].team]
        BY <1>4, <3>1, UpdateTaskEffect
      <4> QED BY <2>3, <4>1 DEF Consistent
    <3>2. CASE u # conn[c].url
      <4>1. tasks'[u] = tasks[u] BY <1>4, <3>2, UpdateTaskEffect
      <4> QED BY <4>1 DEF Consistent
    <3> QED BY <3>1, <3>2
  <2>5. PreparedConsistent' BY <1>4, UpdateTaskEffect
  <2> QED BY <2>4, <2>5
<1>5. ASSUME NEW u \in Url, SweepRelease(u) PROVE RowInv'
  BY <1>5, ReleaseEffect DEF Consistent
<1> QED
  BY <1>1, <1>2, <1>3, <1>4, <1>5, StepKinds, PreparingEffect DEF ConnInv

\* No interleaving of handlers and sweeps leaves a row whose status, claimer,
\* claim time, progress and file do not belong together.
THEOREM RowsConsistentCorrect == Spec => []RowsConsistent
<1>1. Init => TypeOK /\ ConnInv /\ RowInv BY TypeInit, ConnInvInit, RowInvInit
<1>2. TypeOK /\ ConnInv /\ RowInv /\ [Next]_vars => TypeOK' /\ ConnInv' /\ RowInv'
  BY TypeStep, ConnInvStep, RowInvStep
<1>3. RowInv => RowsConsistent BY DEF RowInv
<1> QED BY <1>1, <1>2, <1>3, PTL DEF Spec

\* A completed task is announced at the device that holds its file.
THEOREM FileAtClaimerCorrect == Spec => []FileAtClaimer
<1>1. Init => TypeOK /\ ConnInv /\ RowInv BY TypeInit, ConnInvInit, RowInvInit
<1>2. TypeOK /\ ConnInv /\ RowInv /\ [Next]_vars => TypeOK' /\ ConnInv' /\ RowInv'
  BY TypeStep, ConnInvStep, RowInvStep
<1>3. RowInv => FileAtClaimer BY DEF RowInv
<1> QED BY <1>1, <1>2, <1>3, PTL DEF Spec

\* Only the sweep takes a claim away without giving it to another device.
THEOREM OnlySweepReleasesCorrect == Spec => OnlySweepReleases
<1>1. Init => TypeOK /\ ConnInv /\ RowInv BY TypeInit, ConnInvInit, RowInvInit
<1>2. TypeOK /\ ConnInv /\ RowInv /\ [Next]_vars => TypeOK' /\ ConnInv' /\ RowInv'
  BY TypeStep, ConnInvStep, RowInvStep
<1>3. ASSUME TypeOK, ConnInv, RowInv, [Next]_vars, NEW u \in Url,
             tasks[u].claimedBy # NoDevice, tasks'[u].claimedBy = NoDevice
      PROVE  sweep.pc = "release" /\ u \in sweep.due
  <2>1. ~Quiet BY <1>3 DEF Quiet
  <2>2. ASSUME NEW c \in Conn, NEW v \in Url, AddTask(c, v) PROVE FALSE
    <3>1. ~Exists(v) => tasks[v].claimedBy = NoDevice
      BY <1>3 DEF Exists, RowInv, RowsConsistent, Consistent
    <3> QED BY <1>3, <2>2, <3>1, AddTaskEffect DEF TypeOK
  <2>3. ASSUME NEW c \in Conn, NEW v \in Url, Prepared(c, v) PROVE FALSE
    BY <1>3, <2>3 DEF Prepared
  <2>4. ASSUME NEW c \in Conn, UpdateTask(c) PROVE FALSE
    <3>1. conn[c].row.claimedBy # NoDevice
      BY <1>3, <2>4, UpdateTaskEffect DEF RowInv, PreparedConsistent, PreparedRow, Consistent
    <3>2. [conn[c].row EXCEPT !.team = tasks[u].team].claimedBy = conn[c].row.claimedBy
      BY <1>3 DEF TypeOK, Connection, Task
    <3> QED BY <1>3, <2>4, <3>1, <3>2, UpdateTaskEffect
  <2>5. \E v \in Url : SweepRelease(v)
    BY <1>3, <2>1, <2>2, <2>3, <2>4, StepKinds, PreparingEffect DEF ConnInv
  <2> QED BY <1>3, <2>5, ReleaseEffect
<1>4. TypeOK /\ ConnInv /\ RowInv /\ [Next]_vars
        => [\A u \in Url : tasks[u].claimedBy # NoDevice /\ tasks'[u].claimedBy = NoDevice
              => sweep.pc = "release" /\ u \in sweep.due]_vars
  BY <1>3
<1> QED BY <1>1, <1>2, <1>4, PTL DEF Spec, OnlySweepReleases

---------------------------------------------------------------------------
(* Rows stay, and handlers and the sweep only hold ids of rows of the team *)
(* they work for.                                                          *)

Kept == \A u \in Url : Exists(u) => tasks'[u].status # "Absent" /\ tasks'[u].team = tasks[u].team

LEMMA KeptStep ==
  ASSUME TypeOK, ConnInv, RowInv, [Next]_vars
  PROVE  Kept
<1>1. CASE Quiet BY <1>1 DEF Quiet, Kept, Exists
<1>2. ASSUME NEW c \in Conn, NEW u \in Url, AddTask(c, u) PROVE Kept
  BY <1>2, AddTaskEffect DEF Kept, Exists, TypeOK
<1>3. ASSUME NEW c \in Conn, NEW u \in Url, Prepared(c, u) PROVE Kept
  BY <1>3 DEF Prepared, Kept, Exists
<1>4. ASSUME NEW c \in Conn, UpdateTask(c) PROVE Kept
  <2>1. conn[c].row \in Task BY DEF TypeOK, Connection
  <2>2. conn[c].row.status # "Absent"
    BY <1>4, UpdateTaskEffect DEF RowInv, PreparedConsistent, PreparedRow
  <2>3. \A t : /\ [conn[c].row EXCEPT !.team = t].status # "Absent"
               /\ [conn[c].row EXCEPT !.team = t].team = t
    BY <2>1, <2>2 DEF Task
  <2> SUFFICES ASSUME NEW u \in Url, Exists(u)
               PROVE  tasks'[u].status # "Absent" /\ tasks'[u].team = tasks[u].team
    BY DEF Kept
  <2>4. \/ tasks'[u] = [conn[c].row EXCEPT !.team = tasks[u].team]
        \/ tasks'[u] = tasks[u]
    BY <1>4, UpdateTaskEffect
  <2> QED BY <2>3, <2>4 DEF Exists
<1>5. ASSUME NEW u \in Url, SweepRelease(u) PROVE Kept
  BY <1>5, ReleaseEffect DEF Kept, Exists
<1> QED
  BY <1>1, <1>2, <1>3, <1>4, <1>5, StepKinds, PreparingEffect DEF ConnInv

\* No handler touches the sweep or the clock.
LEMMA HandlersFrame ==
  ASSUME NEW c \in Conn, SessionNext(c) \/ TeamNext(c) \/ TaskNext(c)
  PROVE  sweep' = sweep /\ now' = now
<1>1. CASE SessionNext(c)
  BY <1>1 DEF SessionNext, Connect, RegisterPurge, RegisterInsert, Register, WriteRecv, WriteSent,
              Disconnect, Lagged, LeaveLoop, Unregister, Ignore, vars
<1>2. CASE TeamNext(c)
  BY <1>2 DEF TeamNext, CreateTeam, JoinTeam, DatabaseFails, ReadSession, SetTeam, Notify,
              RegisterDevice, RegisterDeviceFails, Heartbeat, LeaveTeam, LeaveRing
<1>3. CASE TaskNext(c)
  <2>1. ASSUME NEW u \in Url, AddTask(c, u) \/ RequestFile(c, u) \/ NotClaimer(c, u)
        PROVE  sweep' = sweep /\ now' = now
    BY <2>1 DEF AddTask, RequestFile, NotClaimer, vars
  <2>2. ASSUME NEW u \in Url, Preparing(c, u) PROVE sweep' = sweep /\ now' = now
    BY <2>2 DEF Preparing, ClaimTask, TaskComplete, UpdateProgress
  <2>3. CASE Assign(c) \/ UpdateTask(c) BY <2>3 DEF Assign, UpdateTask
  <2>4. CASE UpdateTaskFails(c) \/ Reply(c) BY <2>4 DEF UpdateTaskFails, Reply
  <2> QED BY <1>3, <2>1, <2>2, <2>3, <2>4 DEF TaskNext, Preparing
<1> QED BY <1>1, <1>2, <1>3

HoldInv == WritesOwnTeam /\ SweepHoldsRows

LEMMA HoldInvInit == Init => HoldInv
  BY DEF Init, HoldInv, WritesOwnTeam, SweepHoldsRows, NoConn, NoSweep

LEMMA WritesOwnTeamStep ==
  ASSUME TypeOK, ConnInv, RowInv, WritesOwnTeam, [Next]_vars
  PROVE  WritesOwnTeam'
\* Who was writing before still writes a row of its team; only a handler that
\* prepared an update joins the writers.
<1>1. ASSUME NEW k \in Conn, conn'[k] = conn[k], conn[k].pc = "write"
      PROVE  /\ conn[k].url \in Url /\ Exists(conn[k].url)'
             /\ tasks'[conn[k].url].team = conn[k].team
             /\ conn[k].row.claimedBy = conn[k].device
  BY <1>1, KeptStep DEF Kept, WritesOwnTeam, Exists
<1>2. ASSUME \A k \in Conn : conn'[k].pc = "write" => conn'[k] = conn[k]
      PROVE  WritesOwnTeam'
  BY <1>1, <1>2 DEF WritesOwnTeam, Exists
<1>3. ASSUME NEW c \in Conn, UpdateTask(c)
      PROVE  \A k \in Conn : conn'[k].pc = "write" => conn'[k] = conn[k]
  BY <1>3, UpdateTaskEffect
<1>4. ASSUME NEW c \in Conn, NEW u \in Url, Prepared(c, u) PROVE WritesOwnTeam'
  <2>1. tasks[u].team = sessions[c].team /\ Exists(u)
    BY <1>4 DEF Prepared, Visible
  <2>2. tasks' = tasks /\ conn'[c].url = u /\ conn'[c].team = sessions[c].team
    BY <1>4 DEF Prepared
  <2>4. conn'[c].row.claimedBy = conn'[c].device
    BY <1>4 DEF Prepared, NewClaim, OwnClaim
  <2>5. /\ conn'[c].url \in Url /\ tasks'[conn'[c].url].status # "Absent"
        /\ tasks'[conn'[c].url].team = conn'[c].team
    BY <2>1, <2>2 DEF Exists
  <2>3. \A k \in Conn : k # c => conn'[k] = conn[k] BY <1>4 DEF Prepared
  <2> QED BY <1>1, <2>3, <2>4, <2>5 DEF WritesOwnTeam, Exists
<1> QED
  BY <1>2, <1>3, <1>4, StepKinds, PreparingEffect, AddTaskEffect, ReleaseEffect DEF ConnInv, Quiet

LEMMA SweepHoldsRowsStep ==
  ASSUME TypeOK, ConnInv, RowInv, SweepHoldsRows, [Next]_vars
  PROVE  SweepHoldsRows'
<1>0. \A u \in Url : Exists(u) => tasks'[u].status # "Absent" BY KeptStep DEF Kept
<1>1. /\ \A u \in sweep.due : u \in Url /\ Exists(u)
      /\ \A i \in sweep.items : i.url \in Url /\ Exists(i.url)
  BY DEF TypeOK, SweepItem, SweepHoldsRows
<1>2. ASSUME /\ \A u \in sweep'.due : u \in Url /\ Exists(u)
             /\ \A i \in sweep'.items : i.url \in Url /\ Exists(i.url)
      PROVE  SweepHoldsRows'
  BY <1>0, <1>2 DEF SweepHoldsRows, Exists
<1>3. ASSUME NEW t \in TeamId, SweepRead(t) PROVE SweepHoldsRows'
  <2>1. \A i \in get_claimed_tasks(t) : i.url \in Url /\ Exists(i.url)
    BY DEF get_claimed_tasks, Exists
  <2> QED BY <1>2, <1>3, <2>1 DEF SweepRead
<1>4. CASE SweepClock BY <1>1, <1>2, <1>4 DEF SweepClock, TypeOK
<1>5. CASE SweepStart \/ SweepAnnounce \/ SweepNextTeam \/ \E t \in TeamId : SweepReadFails(t)
  BY <1>1, <1>2, <1>5 DEF SweepStart, SweepAnnounce, SweepNextTeam, SweepReadFails, TypeOK
<1>6. CASE SweepEnd BY <1>2, <1>6 DEF SweepEnd, NoSweep
<1>7. ASSUME NEW u \in Url, SweepRelease(u) \/ SweepReleaseFails(u) PROVE SweepHoldsRows'
  BY <1>1, <1>2, <1>7 DEF SweepRelease, SweepReleaseFails, TypeOK
<1>8. CASE Restart BY <1>2, <1>8 DEF Restart, NoSweep
<1>9. CASE sweep' = sweep BY <1>1, <1>2, <1>9
<1>10. ASSUME NEW c \in Conn, SessionNext(c) \/ TeamNext(c) \/ TaskNext(c) PROVE sweep' = sweep
  BY <1>10, HandlersFrame
<1>11. CASE Tick \/ UNCHANGED vars BY <1>9, <1>11 DEF Tick, vars
<1> QED
  BY <1>3, <1>4, <1>5, <1>6, <1>7, <1>8, <1>9, <1>10, <1>11 DEF Next, SweepStep

\* A message of one team's device never leads to a write on another team's task,
\* and a device's handler writes only in that device's name.
THEOREM WritesOwnTeamCorrect == Spec => []WritesOwnTeam
<1>1. Init => TypeOK /\ ConnInv /\ RowInv /\ HoldInv
  BY TypeInit, ConnInvInit, RowInvInit, HoldInvInit
<1>2. TypeOK /\ ConnInv /\ RowInv /\ HoldInv /\ [Next]_vars
        => TypeOK' /\ ConnInv' /\ RowInv' /\ HoldInv'
  BY TypeStep, ConnInvStep, RowInvStep, WritesOwnTeamStep, SweepHoldsRowsStep DEF HoldInv
<1>3. HoldInv => WritesOwnTeam BY DEF HoldInv
<1> QED BY <1>1, <1>2, <1>3, PTL DEF Spec

\* A task that was added stays in the table, in its team, whatever happens:
\* the same URL added again, stale writes, releases, restarts.
THEOREM TasksKeptCorrect == Spec => TasksKept
<1>1. Init => TypeOK /\ ConnInv /\ RowInv BY TypeInit, ConnInvInit, RowInvInit
<1>2. TypeOK /\ ConnInv /\ RowInv /\ [Next]_vars => TypeOK' /\ ConnInv' /\ RowInv'
  BY TypeStep, ConnInvStep, RowInvStep
<1>3. TypeOK /\ ConnInv /\ RowInv /\ [Next]_vars
        => [\A u \in Url : Exists(u) => Exists(u)' /\ tasks'[u].team = tasks[u].team]_vars
  BY KeptStep DEF Kept, Exists
<1> QED BY <1>1, <1>2, <1>3, PTL DEF Spec, TasksKept

---------------------------------------------------------------------------
(* Foreign keys: teams are never removed, so an id that was found in the   *)
(* table teams stays valid while a handler carries it to its INSERT.       *)

TeamInv == ReferencesExist /\ TeamKnown

LEMMA TeamInvInit == Init => TeamInv
  BY DEF Init, TeamInv, ReferencesExist, TeamKnown, get_all_team_ids, Exists, NoTask, NoConn

LEMMA TeamsGrow ==
  ASSUME [Next]_vars
  PROVE  teams \subseteq teams'
<1>1. ASSUME NEW c \in Conn, SessionNext(c) PROVE teams' = teams
  BY <1>1 DEF SessionNext, Connect, RegisterPurge, RegisterInsert, Register, WriteRecv, WriteSent, Disconnect,
       Lagged, LeaveLoop, Unregister, Ignore, db, vars
<1>2. ASSUME NEW c \in Conn, TeamNext(c) PROVE teams \subseteq teams'
  BY <1>2 DEF TeamNext, CreateTeam, JoinTeam, DatabaseFails, ReadSession, SetTeam, Notify,
       RegisterDevice, RegisterDeviceFails, Heartbeat, LeaveTeam, LeaveRing, db
<1>3. ASSUME NEW c \in Conn, TaskNext(c) PROVE teams' = teams
  BY <1>3 DEF TaskNext, AddTask, ClaimTask, TaskComplete, NotClaimer, RequestFile, UpdateProgress,
       Assign, UpdateTask, UpdateTaskFails, Reply, db, vars
<1>4. CASE SweepStep
  BY <1>4 DEF SweepStep, SweepStart, SweepClock, SweepAnnounce, SweepNextTeam, SweepEnd, SweepRead,
       SweepReadFails,
       SweepRelease, SweepReleaseFails, db
<1>5. CASE Tick \/ Restart \/ UNCHANGED vars BY <1>5 DEF Tick, Restart, db, vars
<1> QED BY <1>1, <1>2, <1>3, <1>4, <1>5 DEF Next

\* A row that is new in the table was inserted by AddTask, into an existing team.
LEMMA NewRowTeam ==
  ASSUME TypeOK, ConnInv, HoldInv, [Next]_vars, NEW u \in Url,
         ~Exists(u), tasks'[u].status # "Absent"
  PROVE  tasks'[u].team \in teams
<1>1. ~Quiet BY DEF Quiet, Exists
<1>2. ASSUME NEW c \in Conn, NEW v \in Url, AddTask(c, v) PROVE tasks'[u].team \in teams
  BY <1>2, AddTaskEffect DEF Exists, TypeOK, NewTask
<1>3. ASSUME NEW c \in Conn, NEW v \in Url, Prepared(c, v) PROVE FALSE
  BY <1>3 DEF Prepared, Exists
<1>4. ASSUME NEW c \in Conn, UpdateTask(c) PROVE FALSE
  <2>1. u # conn[c].url BY <1>4, UpdateTaskEffect DEF HoldInv, WritesOwnTeam
  <2> QED BY <1>4, <2>1, UpdateTaskEffect DEF Exists
<1>5. ASSUME NEW v \in Url, SweepRelease(v) PROVE FALSE
  <2>1. u # v BY <1>5, ReleaseEffect DEF HoldInv, SweepHoldsRows
  <2> QED BY <1>5, <2>1, ReleaseEffect DEF Exists
<1> QED BY <1>1, <1>2, <1>3, <1>4, <1>5, StepKinds, PreparingEffect DEF ConnInv

LEMMA Online ==
  \A r \in DeviceRow, b \in BOOLEAN :
    [r EXCEPT !.online = b] \in DeviceRow /\ [r EXCEPT !.online = b].team = r.team
  BY DEF DeviceRow

\* The one step that inserts a device row takes its team from the handler.
LEMMA DeviceTeams ==
  ASSUME TypeOK, TeamInv, [Next]_vars
  PROVE  get_all_team_ids' \subseteq teams
<1>0. NilDevice \in Device /\ \A d \in Device : devices[d] # NoRow => devices[d].team \in teams
  BY DeviceAssumption DEF TypeOK, TeamInv, ReferencesExist, get_all_team_ids
<1> DEFINE Rows == /\ devices' \in [Device -> DeviceRow]
                   /\ \A d \in Device :
                        devices'[d] # NoRow => devices'[d].team \in teams
<1>1. Rows => get_all_team_ids' \subseteq teams BY DEF get_all_team_ids
<1>2. CASE devices' = devices BY <1>0, <1>1, <1>2 DEF TypeOK
<1>3. ASSUME NEW c \in Conn, RegisterDevice(c) PROVE Rows
  <2>1. conn[c].team \in teams /\ conn[c].team \in TeamId
    BY <1>3 DEF RegisterDevice, TeamInv, TeamKnown, TypeOK, TeamId
  <2>2. \A d \in Device : d # NilDevice => devices'[d] = devices[d]
    BY <1>3 DEF RegisterDevice, TypeOK
  <2>3. devices'[NilDevice] = IF devices[NilDevice] = NoRow
                               THEN [team |-> conn[c].team, online |-> TRUE]
                               ELSE [devices[NilDevice] EXCEPT !.online = TRUE]
    BY <1>0, <1>3 DEF RegisterDevice, TypeOK
  <2>4. devices'[NilDevice] \in DeviceRow /\ devices'[NilDevice].team \in teams
    <3>1. devices[NilDevice] \in DeviceRow BY <1>0 DEF TypeOK
    <3>2. CASE devices[NilDevice] = NoRow BY <2>1, <2>3, <3>2 DEF DeviceRow
    <3>3. CASE devices[NilDevice] # NoRow BY <1>0, <2>3, <3>1, <3>3, Online
    <3> QED BY <3>2, <3>3
  <2>5. devices' \in [Device -> DeviceRow]
    BY <1>3, <2>2, <2>4 DEF RegisterDevice, TypeOK
  <2> QED BY <1>0, <2>2, <2>4, <2>5
<1>4. ASSUME NEW c \in Conn, Heartbeat(c) \/ LeaveTeam(c) PROVE Rows
  <2>1. ASSUME NEW d \in Device
        PROVE  \/ devices'[d] = devices[d]
               \/ \E b \in BOOLEAN : /\ devices[d] # NoRow
                                     /\ devices'[d] = [devices[d] EXCEPT !.online = b]
    BY <1>4 DEF Heartbeat, LeaveTeam, TypeOK
  <2>2. \A d \in Device : devices[d] \in DeviceRow BY DEF TypeOK
  <2>3. ASSUME NEW d \in Device
        PROVE  devices'[d] \in DeviceRow /\ (devices'[d] # NoRow => devices'[d].team \in teams)
    <3>1. CASE devices'[d] = devices[d] BY <1>0, <2>2, <3>1
    <3>2. ASSUME NEW b \in BOOLEAN, devices[d] # NoRow,
                 devices'[d] = [devices[d] EXCEPT !.online = b]
          PROVE  devices'[d] \in DeviceRow /\ devices'[d].team \in teams
      <4>1. devices[d] \in DeviceRow /\ devices[d].team \in teams BY <1>0, <2>2, <3>2
      <4> QED BY <3>2, <4>1, Online
    <3> QED BY <2>1, <3>1, <3>2
  <2>4. devices' = [d \in Device |-> devices'[d]]
    BY <1>4 DEF Heartbeat, LeaveTeam, TypeOK
  <2> QED BY <2>3, <2>4
<1>5. ASSUME NEW c \in Conn, SessionNext(c) PROVE devices' = devices
  BY <1>5 DEF SessionNext, Connect, RegisterPurge, RegisterInsert, Register, WriteRecv, WriteSent, Disconnect,
       Lagged, LeaveLoop, Unregister, Ignore, db, vars
<1>6. ASSUME NEW c \in Conn, TeamNext(c)
      PROVE  devices' = devices \/ RegisterDevice(c) \/ Heartbeat(c) \/ LeaveTeam(c)
  BY <1>6 DEF TeamNext, CreateTeam, JoinTeam, DatabaseFails, ReadSession, SetTeam, Notify,
       RegisterDeviceFails, LeaveRing, db
<1>7. ASSUME NEW c \in Conn, TaskNext(c) PROVE devices' = devices
  BY <1>7 DEF TaskNext, AddTask, ClaimTask, TaskComplete, NotClaimer, RequestFile, UpdateProgress,
       Assign, UpdateTask, UpdateTaskFails, Reply, db, vars
<1>8. CASE SweepStep
  <2>1. devices' = devices
    BY <1>8 DEF SweepStep, SweepStart, SweepClock, SweepAnnounce, SweepNextTeam, SweepEnd,
         SweepRead, SweepReadFails,
         SweepRelease, SweepReleaseFails, db
  <2> QED BY <1>2, <2>1
<1>9. CASE Tick \/ Restart \/ UNCHANGED vars BY <1>2, <1>9 DEF Tick, Restart, db, vars
<1> QED BY <1>1, <1>2, <1>3, <1>4, <1>5, <1>6, <1>7, <1>8, <1>9 DEF Next

Carrying == {"readSession", "setTeam", "notify", "regDevice"}

LEMMA TeamKnownStep ==
  ASSUME TypeOK, TeamInv, [Next]_vars
  PROVE  TeamKnown'
<1>0. \A k \in Conn : conn[k].pc \in Carrying => conn[k].team \in teams'
  BY TeamsGrow DEF TeamInv, TeamKnown, Carrying
\* One connection moves; what it comes to carry is a team of the table.
<1>1. ASSUME NEW c \in Conn, \A k \in Conn : k # c => conn'[k] = conn[k],
             conn'[c].pc \in Carrying => conn'[c].team \in teams'
      PROVE  TeamKnown'
  BY <1>0, <1>1 DEF TeamKnown, Carrying
<1>2. ASSUME conn' = conn PROVE TeamKnown'
  BY <1>0, <1>2 DEF TeamKnown, Carrying
<1>3. ASSUME NEW c \in Conn, SessionNext(c) PROVE TeamKnown'
  <2> USE DEF TypeOK, vars, Carrying
  <2>1. ASSUME NEW d \in Device, NEW t \in TeamId, Connect(c, d, t) PROVE TeamKnown'
    BY <1>1, <2>1 DEF Connect, NoConn
  <2>2. CASE RegisterPurge(c) \/ RegisterInsert(c)
    BY <1>1, <2>2, ReadyFields DEF RegisterPurge, RegisterInsert, Connection
  <2>3. ASSUME NEW d \in Device, NEW t \in TeamId, Register(c, d, t) PROVE TeamKnown'
    BY <1>2, <2>3 DEF Register
  <2>4. CASE LeaveLoop(c)     BY <1>1, <2>4 DEF LeaveLoop, NoConn
  <2>5. CASE Unregister(c)    BY <1>1, <2>5 DEF Unregister, NoConn
  <2>6. CASE WriteRecv(c) \/ WriteSent(c) \/ Ignore(c) BY <1>2, <2>6 DEF WriteRecv, WriteSent, Ignore
  <2> QED BY <1>3, <2>1, <2>2, <2>3, <2>4, <2>5, <2>6 DEF SessionNext, Disconnect, Lagged
<1>4. ASSUME NEW c \in Conn, TeamNext(c) PROVE TeamKnown'
  <2> USE DEF TypeOK, Carrying
  <2>1. ASSUME NEW t \in Team, CreateTeam(c, t) \/ JoinTeam(c, t) PROVE TeamKnown'
    BY <1>1, <2>1 DEF CreateTeam, JoinTeam, Begin, Fail, db
  <2>2. CASE DatabaseFails(c) \/ LeaveTeam(c)
    BY <1>1, <1>2, <2>2 DEF DatabaseFails, LeaveTeam, Begin, Fail
  <2>3. CASE ReadSession(c) \/ SetTeam(c) \/ Notify(c)
    BY <1>0, <1>1, <2>3 DEF ReadSession, SetTeam, Notify, Connection
  <2>4. CASE RegisterDevice(c) \/ RegisterDeviceFails(c) \/ LeaveRing(c)
    BY <1>1, <2>4, ReadyFields DEF RegisterDevice, RegisterDeviceFails, LeaveRing, Done
  <2>5. CASE Heartbeat(c) BY <1>2, <2>5 DEF Heartbeat
  <2> QED BY <1>4, <2>1, <2>2, <2>3, <2>4, <2>5 DEF TeamNext
<1>5. ASSUME NEW c \in Conn, TaskNext(c) PROVE TeamKnown'
  <2> USE DEF TypeOK, Carrying
  <2>1. ASSUME NEW u \in Url, AddTask(c, u) PROVE TeamKnown'
    BY <1>1, <2>1 DEF AddTask, Begin, Fail
  <2>5. ASSUME NEW u \in Url, ClaimTask(c, u) PROVE TeamKnown'
    BY <1>1, <2>5 DEF ClaimTask, Prepare, Begin, Fail
  <2>6. ASSUME NEW u \in Url, TaskComplete(c, u) PROVE TeamKnown'
    BY <1>1, <2>6 DEF TaskComplete, Prepare, Begin
  <2>7. ASSUME NEW u \in Url, NEW p \in Progress, UpdateProgress(c, u, p) PROVE TeamKnown'
    BY <1>1, <2>7 DEF UpdateProgress, Prepare, Begin
  <2>2. ASSUME NEW u \in Url, NotClaimer(c, u) \/ RequestFile(c, u) PROVE TeamKnown'
    BY <1>1, <1>2, <2>2 DEF NotClaimer, RequestFile, Begin, Fail, vars
  <2>3. CASE Assign(c) \/ UpdateTask(c) BY <1>1, <2>3 DEF Assign, UpdateTask, Then
  <2>4. CASE UpdateTaskFails(c) \/ Reply(c)
    BY <1>1, <2>4, ReadyFields DEF UpdateTaskFails, Reply, Done
  <2> QED BY <1>5, <2>1, <2>2, <2>3, <2>4, <2>5, <2>6, <2>7 DEF TaskNext
<1>6. CASE SweepStep
  BY <1>2, <1>6 DEF SweepStep, SweepStart, SweepClock, SweepAnnounce, SweepNextTeam, SweepEnd,
       SweepRead, SweepReadFails, SweepRelease, SweepReleaseFails
<1>7. CASE Tick \/ UNCHANGED vars BY <1>2, <1>7 DEF Tick, vars
<1>8. CASE Restart BY <1>8 DEF Restart, TeamKnown, NoConn
<1> QED BY <1>3, <1>4, <1>5, <1>6, <1>7, <1>8 DEF Next

LEMMA ReferencesStep ==
  ASSUME TypeOK, ConnInv, RowInv, HoldInv, TeamInv, [Next]_vars
  PROVE  ReferencesExist'
<1>1. ASSUME NEW u \in Url, tasks'[u].status # "Absent" PROVE tasks'[u].team \in teams
  <2>1. CASE Exists(u) BY <2>1, KeptStep DEF Kept, TeamInv, ReferencesExist
  <2>2. CASE ~Exists(u) BY <1>1, <2>2, NewRowTeam
  <2> QED BY <2>1, <2>2
<1> QED BY <1>1, DeviceTeams, TeamsGrow DEF ReferencesExist, Exists

\* IInv is inductive, so it holds for any number of connections, devices, teams,
\* tasks and restarts, and for every value of the bounds.
THEOREM InductiveInvariant == Spec => []IInv
<1> DEFINE All == TypeOK /\ ConnInv /\ RowInv /\ HoldInv /\ TeamInv
<1>1. Init => All BY TypeInit, ConnInvInit, RowInvInit, HoldInvInit, TeamInvInit
<1>2. All /\ [Next]_vars => All'
  BY TypeStep, ConnInvStep, RowInvStep, WritesOwnTeamStep, SweepHoldsRowsStep, TeamKnownStep,
     ReferencesStep DEF HoldInv, TeamInv
<1>3. All => IInv BY DEF IInv, ConnInv, RowInv, HoldInv, TeamInv
<1> QED BY <1>1, <1>2, <1>3, PTL DEF Spec

\* A task and a device row never name a team that does not exist.
THEOREM ReferencesExistCorrect == Spec => []ReferencesExist
<1>1. IInv => ReferencesExist BY DEF IInv
<1> QED BY <1>1, InductiveInvariant, PTL

---------------------------------------------------------------------------
(* Displaced sessions                                                      *)

LEMMA RevivedByInsert ==
  ASSUME TypeOK, ConnInv, [Next]_vars, NEW c \in Conn, ~Live(c), sessions'[c] # NoSession
  PROVE  conn[c].pc = "insert"
<1> USE DEF Live
<1>1. ASSUME NEW k \in Conn, SessionNext(k) PROVE conn[c].pc = "insert"
  BY <1>1 DEF SessionNext, Connect, RegisterPurge, RegisterInsert, Register, WriteRecv, WriteSent, Disconnect,
       Lagged, LeaveLoop, Unregister, Ignore, vars, TypeOK
<1>2. ASSUME NEW k \in Conn, TeamNext(k) PROVE FALSE
  BY <1>2 DEF TeamNext, CreateTeam, JoinTeam, DatabaseFails, ReadSession, SetTeam, Notify,
       RegisterDevice, RegisterDeviceFails, Heartbeat, LeaveTeam, LeaveRing, TypeOK
<1>3. ASSUME NEW k \in Conn, TaskNext(k) PROVE FALSE
  BY <1>3 DEF TaskNext, AddTask, ClaimTask, TaskComplete, NotClaimer, RequestFile, UpdateProgress,
       Assign, UpdateTask, UpdateTaskFails, Reply, vars
<1>4. CASE SweepStep
  BY <1>4 DEF SweepStep, SweepStart, SweepClock, SweepAnnounce, SweepNextTeam, SweepEnd, SweepRead,
       SweepReadFails,
       SweepRelease, SweepReleaseFails
<1>5. CASE Tick \/ Restart \/ UNCHANGED vars BY <1>5 DEF Tick, Restart, vars
<1> QED BY <1>1, <1>2, <1>3, <1>4, <1>5 DEF Next

\* A session that another connection displaced does not come back.
THEOREM DisplacedStaysOutCorrect == Spec => DisplacedStaysOut
<1>1. Init => TypeOK /\ ConnInv BY TypeInit, ConnInvInit
<1>2. TypeOK /\ ConnInv /\ [Next]_vars => TypeOK' /\ ConnInv' BY TypeStep, ConnInvStep
<1>3. TypeOK /\ ConnInv /\ [Next]_vars
        => [\A c \in Conn : ~Live(c) /\ Live(c)' => conn[c].pc = "insert"]_vars
  BY RevivedByInsert DEF Live
<1> QED BY <1>1, <1>2, <1>3, PTL DEF Spec, DisplacedStaysOut
---------------------------------------------------------------------------
(* The server implements TaskBoard.                                        *)

OverdueBar == IF sweep.pc = "clock" THEN {i.url : i \in sweep.items} ELSE sweep.due
Intent(c)  == IF conn[c].pc = "write"
              THEN [url |-> conn[c].url, device |-> conn[c].row.claimedBy]
              ELSE Board!NoIntent

LEMMA BoardInit == Init => Board!Init
  BY DEF Init, Board!Init, Board!Blank, Board!NoIntent, HolderOf, NoTask, NoConn, NoSweep

\* Only SweepRead makes the sweep hold ids it did not hold, and those are claimed.
LEMMA OverdueStep ==
  ASSUME TypeOK, [Next]_vars
  PROVE  \/ /\ tasks' = tasks /\ conn' = conn
            /\ OverdueBar' \subseteq {u \in Url : tasks[u].status = "Claimed"}
         \/ OverdueBar' \subseteq OverdueBar /\ (sweep' = sweep \/ Quiet)
         \/ \E u \in Url : SweepRelease(u)
<1> USE DEF OverdueBar, Quiet
<1>1. CASE sweep' = sweep BY <1>1
<1>2. ASSUME NEW t \in TeamId, SweepRead(t)
      PROVE  /\ tasks' = tasks /\ conn' = conn
             /\ OverdueBar' \subseteq {u \in Url : tasks[u].status = "Claimed"}
  <2>1. {i.url : i \in get_claimed_tasks(t)} \subseteq {u \in Url : tasks[u].status = "Claimed"}
    BY DEF get_claimed_tasks
  <2>2. sweep'.pc = "clock" /\ sweep'.items = get_claimed_tasks(t)
    BY <1>2 DEF SweepRead
  <2> QED BY <1>2, <2>1, <2>2 DEF SweepRead, db
<1>3. CASE SweepClock
  <2>1. sweep'.pc = "release" /\ sweep'.due = {i.url : i \in {j \in sweep.items : TimedOut(j)}}
    BY <1>3 DEF SweepClock, TypeOK
  <2>2. sweep'.due \subseteq {i.url : i \in sweep.items} BY <2>1
  <2> QED BY <1>3, <2>1, <2>2 DEF SweepClock, db
<1>4. CASE SweepStart \/ SweepAnnounce \/ SweepNextTeam
  BY <1>4 DEF SweepStart, SweepAnnounce, SweepNextTeam, TypeOK, db
<1>5. CASE SweepEnd \/ Restart BY <1>5 DEF SweepEnd, Restart, NoSweep, NoConn, db
<1>6. ASSUME NEW t \in TeamId, SweepReadFails(t)
      PROVE OverdueBar' \subseteq OverdueBar /\ Quiet
  BY <1>6 DEF SweepReadFails, TypeOK, db
<1>7. ASSUME NEW u \in Url, SweepReleaseFails(u)
      PROVE OverdueBar' \subseteq OverdueBar /\ Quiet
  BY <1>7 DEF SweepReleaseFails, TypeOK, db
<1>8. CASE SweepStep BY <1>2, <1>3, <1>4, <1>5, <1>6, <1>7, <1>8 DEF SweepStep
<1>9. CASE UNCHANGED vars \/ Tick BY <1>1, <1>9 DEF vars, Tick
<1>10. ASSUME NEW c \in Conn, SessionNext(c) \/ TeamNext(c) \/ TaskNext(c) PROVE sweep' = sweep
  BY <1>10, HandlersFrame
<1> QED BY <1>1, <1>5, <1>8, <1>9, <1>10 DEF Next

LEMMA BoardStep ==
  ASSUME TypeOK, ConnInv, RowInv, HoldInv, [Next]_vars
  PROVE  [Board!Next]_Board!boardVars
<1> DEFINE B    == [u \in Url |-> [state |-> tasks[u].status, holder |-> HolderOf(u)]]
           Bars == <<B, [c \in Conn |-> Intent(c)], OverdueBar>>
<1>0. Bars = Board!boardVars
  BY DEF Board!boardVars, Intent, OverdueBar, Board!NoIntent
<1>1. CASE \E u \in Url : SweepRelease(u)
  <2>1. PICK u \in Url : SweepRelease(u) BY <1>1
  <2>2. OverdueBar' = OverdueBar \ {u} /\ u \in OverdueBar
    BY <2>1 DEF SweepRelease, OverdueBar, TypeOK
  <2>3. B' = [B EXCEPT ![u] = [state |-> "Queued", holder |-> NoDevice]]
    BY <2>1, ReleaseEffect DEF HolderOf
  <2>4. \A c \in Conn : Intent(c)' = Intent(c)
    BY <2>1, ReleaseEffect DEF Intent, Board!NoIntent
  <2>5. Board!Release(u)
    BY <2>2, <2>3, <2>4 DEF Board!Release, Board!Set, Intent, OverdueBar, Board!NoIntent
  <2> QED BY <2>5 DEF Board!Next
<1>2. CASE OverdueBar' \subseteq OverdueBar /\ (sweep' = sweep \/ Quiet)
  <2>1. CASE Quiet
    <3>1. B' = B BY <2>1 DEF Quiet, HolderOf
    <3>2. \A c \in Conn : Intent(c)' \in {Intent(c), Board!NoIntent}
      BY <2>1 DEF Quiet, Intent, Board!NoIntent
    <3>3. Board!Forget
      BY <1>2, <3>1, <3>2 DEF Board!Forget, Intent, OverdueBar, Board!NoIntent
    <3> QED BY <3>3 DEF Board!Next
  <2>2. ASSUME NEW c \in Conn, NEW u \in Url, Prepared(c, u), ~Quiet
        PROVE  Board!Next
    <3>1. PICK d \in Device : d = sessions[c].device
      BY <2>2 DEF Prepared, Handling, ConnInv, SessionsOwned, DeviceKnown
    <3>2. B[u].state # "Absent" BY <2>2 DEF Prepared, Visible, Exists
    <3>3. tasks[u].claimedBy \in {NoDevice, d} /\ conn'[c].row.claimedBy = d
      BY <2>2, <3>1 DEF Prepared, NewClaim, OwnClaim, RowInv, RowsConsistent, Consistent
    <3>4. B[u].holder \in {NoDevice, d} BY <3>3 DEF HolderOf, RowInv, FileAtClaimer
    <3>5. B' = B BY <2>2 DEF Prepared, HolderOf
    <3>6. Intent(c)' = [url |-> u, device |-> d] BY <2>2, <3>3 DEF Prepared, Intent
    <3>7. \A k \in Conn : k # c => Intent(k)' = Intent(k)
      BY <2>2 DEF Prepared, Intent, Board!NoIntent
    <3>8. OverdueBar' = OverdueBar BY <1>2, <2>2 DEF OverdueBar
    <3>9. Board!Intend(c, u, d)
      BY <3>2, <3>4, <3>5, <3>6, <3>7, <3>8
         DEF Board!Intend, Intent, OverdueBar, Board!NoIntent
    <3> QED BY <3>1, <3>9 DEF Board!Next
  <2>3. ASSUME NEW c \in Conn, NEW u \in Url, AddTask(c, u), ~Quiet
        PROVE  Board!Next
    <3>1. /\ ~Exists(u)
          /\ tasks' = [tasks EXCEPT ![u] = NewTask(sessions[c].team)]
          /\ \A k \in Conn : conn'[k].pc = "write" => conn'[k] = conn[k]
      BY <2>3, AddTaskEffect DEF Quiet
    <3>2. \A k \in Conn : Intent(k)' = Intent(k)
      <4>1. \A k \in Conn : conn[k].pc = "write" => conn'[k] = conn[k]
        BY <2>3 DEF AddTask, Handling, Begin, Fail, TypeOK
      <4> QED BY <3>1, <4>1 DEF Intent, Board!NoIntent
    <3>3. B' = [B EXCEPT ![u] = [state |-> "Queued", holder |-> NoDevice]]
      BY <3>1 DEF HolderOf, NewTask, TypeOK
    <3>4. OverdueBar' = OverdueBar BY <1>2, <2>3 DEF OverdueBar
    <3>5. Board!Add(u)
      BY <3>1, <3>2, <3>3, <3>4
         DEF Board!Add, Board!Set, Exists, Intent, OverdueBar, Board!NoIntent
    <3> QED BY <3>5 DEF Board!Next
  <2>4. ASSUME NEW c \in Conn, UpdateTask(c), ~Quiet PROVE Board!Next
    <3> DEFINE r == conn[c].row
    <3>0. PICK u \in Url : u = conn[c].url
      BY <2>4, UpdateTaskEffect DEF HoldInv, WritesOwnTeam
    <3>1. PreparedRow(r) /\ r \in Task /\ Intent(c) # Board!NoIntent
      BY <2>4, UpdateTaskEffect, UrlAssumption
         DEF HoldInv, WritesOwnTeam, RowInv, PreparedConsistent, TypeOK, Connection, Intent,
             Board!NoIntent
    <3>2. \A t : /\ [r EXCEPT !.team = t].status = r.status
                 /\ [r EXCEPT !.team = t].claimedBy = r.claimedBy
                 /\ [r EXCEPT !.team = t].file = r.file
      BY <3>1 DEF Task
    <3>3. \A v \in Url : B'[v] = IF v = u THEN [state |-> r.status, holder |-> r.claimedBy]
                                          ELSE B[v]
      <4> SUFFICES ASSUME NEW v \in Url
                   PROVE  [state |-> tasks'[v].status, holder |-> HolderOf(v)']
                            = IF v = u THEN [state |-> r.status, holder |-> r.claimedBy]
                                       ELSE [state |-> tasks[v].status, holder |-> HolderOf(v)]
        OBVIOUS
      <4>1. CASE v = u
        <5>1. tasks'[v] = [r EXCEPT !.team = tasks[v].team]
          BY <2>4, <3>0, <4>1, UpdateTaskEffect
        <5>2. tasks'[v].status = r.status /\ HolderOf(v)' = r.claimedBy
          BY <3>1, <3>2, <5>1 DEF HolderOf, PreparedRow
        <5> QED BY <4>1, <5>2
      <4>2. CASE v # u
        <5>1. tasks'[v] = tasks[v] BY <2>4, <3>0, <4>2, UpdateTaskEffect
        <5> QED BY <4>2, <5>1 DEF HolderOf
      <4> QED BY <4>1, <4>2
    <3>4. B' = [B EXCEPT ![u] = [state |-> r.status, holder |-> r.claimedBy]]
      BY <3>3
    <3>5. /\ Intent(c)' = Board!NoIntent
          /\ \A k \in Conn : k # c => Intent(k)' = Intent(k)
          /\ Intent(c) = [url |-> u, device |-> r.claimedBy]
      BY <2>4, <3>0, UpdateTaskEffect DEF Intent, Board!NoIntent
    <3>6. OverdueBar' = OverdueBar BY <1>2, <2>4 DEF OverdueBar
    <3>7. r.status \in {"Claimed", "Complete"} BY <3>1 DEF PreparedRow
    <3>8. Board!Apply(c)
      <4>1. B' = [B EXCEPT ![Intent(c).url] = [state |-> r.status, holder |-> Intent(c).device]]
        BY <3>4, <3>5
      <4> QED
        BY <3>1, <3>5, <3>6, <3>7, <4>1
           DEF Board!Apply, Board!Set, Intent, OverdueBar, Board!NoIntent
    <3> QED BY <3>8 DEF Board!Next
  <2> QED
    BY <1>1, <2>1, <2>2, <2>3, <2>4, StepKinds, PreparingEffect DEF ConnInv
<1>3. CASE /\ tasks' = tasks /\ conn' = conn
           /\ OverdueBar' \subseteq {u \in Url : tasks[u].status = "Claimed"}
  <2>1. B' = B BY <1>3 DEF HolderOf
  <2>2. \A c \in Conn : Intent(c)' = Intent(c) BY <1>3 DEF Intent, Board!NoIntent
  <2>3. OverdueBar' \subseteq {u \in Url : B[u].state = "Claimed"} BY <1>3
  <2>4. Board!Notice
    BY <2>1, <2>2, <2>3 DEF Board!Notice, Intent, OverdueBar, Board!NoIntent
  <2> QED BY <2>4 DEF Board!Next
<1> QED BY <1>1, <1>2, <1>3, OverdueStep

\* The server implements TaskBoard: a device becomes the holder of a task only if
\* the task was free or its own when its handler looked, a release concerns a claim
\* the sweep saw, and every other step leaves the board alone.
THEOREM BoardImplemented == Spec => ImplementsTaskBoard
<1>1. Init => Board!Init /\ TypeOK /\ ConnInv /\ RowInv /\ HoldInv
  BY BoardInit, TypeInit, ConnInvInit, RowInvInit, HoldInvInit
<1>2. TypeOK /\ ConnInv /\ RowInv /\ HoldInv /\ [Next]_vars
        => TypeOK' /\ ConnInv' /\ RowInv' /\ HoldInv'
  BY TypeStep, ConnInvStep, RowInvStep, WritesOwnTeamStep, SweepHoldsRowsStep DEF HoldInv
<1>3. TypeOK /\ ConnInv /\ RowInv /\ HoldInv /\ [Next]_vars => [Board!Next]_Board!boardVars
  BY BoardStep
<1> QED BY <1>1, <1>2, <1>3, PTL DEF Spec, ImplementsTaskBoard, Board!Spec

---------------------------------------------------------------------------
(* Handlers go forward, and an overflowed channel is noticed               *)

\* The steps that a connection has left in what it does: none where it waits for
\* its peer.
StepsLeft(pc) ==
  CASE pc \in {"closed", "ready"}                                         -> 0
    [] pc \in {"insert", "unregister", "regDevice"}                       -> 1
    [] pc \in {"purge", "notify", "leaveRing", "toTeam", "toDevice", "toSelf"} -> 2
    [] pc \in {"setTeam", "assign", "write"}                              -> 3
    [] pc = "readSession"                                                 -> 4

\* The channel of a connection is made with its session: nothing is sent into one
\* whose connection is gone, or is yet to come (handle_connection,
\* unregister_client_by_key).
ChannelOfSession ==
  \A c \in Conn : conn[c].pc \in {"closed", "purge", "insert"} => unread[c] = 0

\* A message that was taken up costs its connection at most four more steps of its
\* own and never sends it back, whatever the other connections, the sweep and the
\* database do in between; only where it waits for its peer does it take up more.
HandlersGoForward ==
  [][\A c \in Conn : \/ conn'[c].pc = conn[c].pc
                     \/ StepsLeft(conn[c].pc) = 0
                     \/ StepsLeft(conn'[c].pc) < StepsLeft(conn[c].pc)]_vars

\* Nothing takes a message out of a channel that lost one, and nothing makes it look
\* whole again: that lasts until the connection is closed.
OverflowLasts ==
  [][\A c \in Conn : unread[c] = ChanCap + 1 =>
       \/ unread'[c] = ChanCap + 1
       \/ unread'[c] = 0 /\ conn'[c].pc = "closed"]_vars

Forward(c) == \/ conn'[c].pc = conn[c].pc
              \/ StepsLeft(conn[c].pc) = 0
              \/ StepsLeft(conn'[c].pc) < StepsLeft(conn[c].pc)

LEMMA ForwardStep ==
  ASSUME TypeOK, [Next]_vars, NEW k \in Conn
  PROVE  Forward(k)
<1> USE DEF TypeOK, StepsLeft, Forward
<1>0. conn[k].pc \in Step
  BY DEF Connection
<1>1. ASSUME NEW c \in Conn, SessionNext(c) PROVE Forward(k)
  <2>1. ASSUME NEW d \in Device, NEW t \in TeamId, Connect(c, d, t) PROVE Forward(k)
    BY <2>1 DEF Connect
  <2>2. CASE RegisterPurge(c)
    BY <2>2 DEF RegisterPurge, Connection
  <2>7. CASE RegisterInsert(c)
    BY <2>7, ReadyFields DEF RegisterInsert
  <2>3. ASSUME NEW d \in Device, NEW t \in TeamId, Register(c, d, t) PROVE Forward(k)
    BY <2>3 DEF Register
  <2>4. CASE LeaveLoop(c)     BY <2>4 DEF LeaveLoop, NoConn, AwaitPoint
  <2>5. CASE Unregister(c)    BY <2>5 DEF Unregister, NoConn
  <2>6. CASE WriteRecv(c) \/ WriteSent(c) \/ Ignore(c) BY <2>6 DEF WriteRecv, WriteSent, Ignore, vars
  <2> QED BY <1>1, <2>1, <2>2, <2>3, <2>4, <2>5, <2>6, <2>7 DEF SessionNext, Disconnect, Lagged
<1>2. ASSUME NEW c \in Conn, TeamNext(c) PROVE Forward(k)
  <2>1. ASSUME NEW t \in Team, CreateTeam(c, t) \/ JoinTeam(c, t) PROVE Forward(k)
    BY <2>1 DEF CreateTeam, JoinTeam, Begin, Fail, Handling
  <2>2. CASE DatabaseFails(c) \/ LeaveTeam(c)
    BY <2>2 DEF DatabaseFails, LeaveTeam, Begin, Fail, Handling
  <2>3. CASE ReadSession(c) \/ SetTeam(c) \/ Notify(c)
    BY <2>3 DEF ReadSession, SetTeam, Notify, Connection
  <2>4. CASE RegisterDevice(c) \/ RegisterDeviceFails(c) \/ LeaveRing(c)
    BY <2>4, ReadyFields DEF RegisterDevice, RegisterDeviceFails, LeaveRing, Done
  <2>5. CASE Heartbeat(c) BY <2>5 DEF Heartbeat
  <2> QED BY <1>2, <2>1, <2>2, <2>3, <2>4, <2>5 DEF TeamNext
<1>3. ASSUME NEW c \in Conn, TaskNext(c) PROVE Forward(k)
  <2>1. ASSUME NEW u \in Url, AddTask(c, u) \/ ClaimTask(c, u) \/ TaskComplete(c, u)
                              \/ NotClaimer(c, u) \/ RequestFile(c, u)
        PROVE  Forward(k)
    BY <2>1 DEF AddTask, ClaimTask, TaskComplete, NotClaimer, RequestFile, Prepare, Begin, Fail,
                Handling, vars
  <2>2. ASSUME NEW u \in Url, NEW p \in Progress, UpdateProgress(c, u, p) PROVE Forward(k)
    BY <2>2 DEF UpdateProgress, Prepare, Begin, Handling
  <2>3. CASE Assign(c) \/ UpdateTask(c)
    BY <2>3 DEF Assign, UpdateTask, Then
  <2>4. CASE UpdateTaskFails(c) \/ Reply(c)
    BY <2>4, ReadyFields DEF UpdateTaskFails, Reply, Done
  <2> QED BY <1>3, <2>1, <2>2, <2>3, <2>4 DEF TaskNext
<1>4. CASE SweepStep \/ Tick \/ UNCHANGED vars
  BY <1>4 DEF SweepStep, SweepStart, SweepClock, SweepAnnounce, SweepNextTeam, SweepEnd,
              SweepRead, SweepReadFails, SweepRelease, SweepReleaseFails, Tick, vars
<1>5. CASE Restart
  BY <1>0, <1>5 DEF Restart, NoConn, Step, AwaitPoint
<1> QED BY <1>1, <1>2, <1>3, <1>4, <1>5 DEF Next

\* What any step does to the channels.
Sends(K) == Deliver(K) /\ \A c \in K : Live(c)

LEMMA UnreadStep ==
  ASSUME TypeOK, RingEmpty, [Next]_vars
  PROVE  \/ UNCHANGED unread
         \/ \E K \in SUBSET Conn : Sends(K)
         \/ \E c \in Conn : WriteRecv(c) \/ Unregister(c)
         \/ Restart
<1>1. ASSUME NEW c \in Conn, SessionNext(c)
      PROVE  UNCHANGED unread \/ WriteRecv(c) \/ Unregister(c)
  BY <1>1 DEF SessionNext, Connect, RegisterPurge, RegisterInsert, Register, WriteSent,
              Disconnect, Lagged, LeaveLoop, Ignore, vars
<1>2. /\ \A d : SessionsOf(d) \in SUBSET Conn /\ \A c \in SessionsOf(d) : Live(c)
      /\ \A t : TeamSessions(t) \in SUBSET Conn /\ \A c \in TeamSessions(t) : Live(c)
      /\ \A c \in Conn : {k \in {c} : Live(k)} \in SUBSET Conn
  BY DEF SessionsOf, TeamSessions
<1>3. ASSUME NEW c \in Conn, TeamNext(c)
      PROVE  UNCHANGED unread \/ \E K \in SUBSET Conn : Sends(K)
  <2>1. CASE Notify(c)
    <3>1. Sends(SessionsOf(conn[c].device))
      BY <1>2, <2>1 DEF Notify, send_to_device, Sends
    <3> QED BY <1>2, <3>1
  <2>2. Notify(c) \/ UNCHANGED unread
    BY <1>3 DEF TeamNext, CreateTeam, JoinTeam, DatabaseFails, ReadSession, SetTeam,
                RegisterDevice, RegisterDeviceFails, Heartbeat, LeaveTeam, LeaveRing
  <2> QED BY <2>1, <2>2
<1>4. ASSUME NEW c \in Conn, TaskNext(c)
      PROVE  UNCHANGED unread \/ \E K \in SUBSET Conn : Sends(K)
  <2>1. CASE Reply(c)
    <3>1. \/ Sends(TeamSessions(conn[c].team)) \/ Sends(SessionsOf(conn[c].device))
          \/ Sends({k \in {c} : Live(k)})
      BY <1>2, <2>1 DEF Reply, broadcast_to_team, send_to_device, send_error, Sends
    <3> QED BY <1>2, <3>1
  <2>2. CASE Assign(c)
    <3>1. get_owner(ring, conn[c].url) = NoDevice
      BY DEF get_owner, RingEmpty, EmptyRing
    <3> QED BY <2>2, <3>1 DEF Assign
  <2>3. Reply(c) \/ Assign(c) \/ UNCHANGED unread
    BY <1>4 DEF TaskNext, AddTask, ClaimTask, TaskComplete, NotClaimer, RequestFile,
                UpdateProgress, UpdateTask, UpdateTaskFails, vars
  <2> QED BY <2>1, <2>2, <2>3
<1>5. CASE SweepStep
  <2>1. CASE SweepAnnounce
    <3>1. Sends(TeamSessions(sweep.team))
      BY <1>2, <2>1 DEF SweepAnnounce, broadcast_to_team, Sends
    <3> QED BY <1>2, <3>1
  <2>2. SweepAnnounce \/ UNCHANGED unread
    BY <1>5 DEF SweepStep, SweepStart, SweepClock, SweepNextTeam, SweepEnd, SweepRead,
                SweepReadFails, SweepRelease, SweepReleaseFails
  <2> QED BY <2>1, <2>2
<1>6. CASE Tick \/ UNCHANGED vars
  BY <1>6 DEF Tick, vars
<1> QED BY <1>1, <1>3, <1>4, <1>5, <1>6 DEF Next

LEMMA OverflowStep ==
  ASSUME TypeOK, RingEmpty, [Next]_vars, NEW c \in Conn, unread[c] = ChanCap + 1
  PROVE  unread'[c] = ChanCap + 1 \/ (unread'[c] = 0 /\ conn'[c].pc = "closed")
<1> USE BoundAssumption DEF TypeOK
<1>1. ASSUME NEW K \in SUBSET Conn, Sends(K) PROVE unread'[c] = ChanCap + 1
  BY <1>1 DEF Sends, Deliver
<1>2. ASSUME NEW k \in Conn, WriteRecv(k) \/ Unregister(k)
      PROVE  unread'[c] = ChanCap + 1 \/ (unread'[c] = 0 /\ conn'[c].pc = "closed")
  BY <1>2 DEF WriteRecv, Unregister, NoConn
<1>3. CASE Restart
  BY <1>3 DEF Restart, NoConn
<1> QED BY <1>1, <1>2, <1>3, UnreadStep

LEMMA ChannelStep ==
  ASSUME TypeOK, ConnInv, ChannelOfSession, [Next]_vars
  PROVE  ChannelOfSession'
<1> DEFINE Without == {"closed", "purge", "insert"}
<1> SUFFICES ASSUME NEW c \in Conn, conn'[c].pc \in Without PROVE unread'[c] = 0
  BY DEF ChannelOfSession
<1>1. Unregister(c) \/ Restart \/ conn[c].pc \in Without
  <2> USE DEF TypeOK
  <2>1. ASSUME NEW k \in Conn, SessionNext(k) PROVE Unregister(c) \/ conn[c].pc \in Without
    <3>1. ASSUME NEW d \in Device, NEW t \in TeamId, Connect(k, d, t) PROVE conn[c].pc \in Without
      BY <3>1 DEF Connect
    <3>2. CASE RegisterPurge(k) \/ RegisterInsert(k)
      BY <3>2, ReadyFields DEF RegisterPurge, RegisterInsert, Connection
    <3>3. ASSUME NEW d \in Device, NEW t \in TeamId, Register(k, d, t) PROVE conn[c].pc \in Without
    BY <3>3 DEF Register
    <3>4. CASE LeaveLoop(k)     BY <3>4 DEF LeaveLoop, NoConn
    <3>5. CASE Unregister(k)    BY <3>5 DEF Unregister
    <3>6. CASE WriteRecv(k) \/ WriteSent(k) \/ Ignore(k) BY <3>6 DEF WriteRecv, WriteSent, Ignore, vars
    <3> QED BY <2>1, <3>1, <3>2, <3>3, <3>4, <3>5, <3>6 DEF SessionNext, Disconnect, Lagged
  <2>2. ASSUME NEW k \in Conn, TeamNext(k) PROVE conn[c].pc \in Without
    <3>1. ASSUME NEW t \in Team, CreateTeam(k, t) \/ JoinTeam(k, t) PROVE conn[c].pc \in Without
      BY <3>1 DEF CreateTeam, JoinTeam, Begin, Fail
    <3>2. CASE DatabaseFails(k) \/ LeaveTeam(k)
      BY <3>2 DEF DatabaseFails, LeaveTeam, Begin, Fail
    <3>3. CASE ReadSession(k) \/ SetTeam(k) \/ Notify(k)
      <4>1. \E p \in {"setTeam", "regDevice", "notify"} : conn' = [conn EXCEPT ![k].pc = p]
        BY <3>3 DEF ReadSession, SetTeam, Notify
      <4> QED BY <4>1 DEF Connection
    <3>4. CASE RegisterDevice(k) \/ RegisterDeviceFails(k) \/ LeaveRing(k)
      BY <3>4, ReadyFields DEF RegisterDevice, RegisterDeviceFails, LeaveRing, Done
    <3>5. CASE Heartbeat(k) BY <3>5 DEF Heartbeat
    <3> QED BY <2>2, <3>1, <3>2, <3>3, <3>4, <3>5 DEF TeamNext
  <2>3. ASSUME NEW k \in Conn, TaskNext(k) PROVE conn[c].pc \in Without
    <3>1. ASSUME NEW u \in Url, AddTask(k, u) \/ ClaimTask(k, u) \/ TaskComplete(k, u)
                                \/ NotClaimer(k, u) \/ RequestFile(k, u)
          PROVE  conn[c].pc \in Without
      BY <3>1 DEF AddTask, ClaimTask, TaskComplete, NotClaimer, RequestFile, Prepare, Begin, Fail,
                  vars
    <3>2. ASSUME NEW u \in Url, NEW p \in Progress, UpdateProgress(k, u, p)
          PROVE  conn[c].pc \in Without
      BY <3>2 DEF UpdateProgress, Prepare, Begin
    <3>3. CASE Assign(k) \/ UpdateTask(k)
      BY <3>3 DEF Assign, UpdateTask, Then
    <3>4. CASE UpdateTaskFails(k) \/ Reply(k)
      BY <3>4, ReadyFields DEF UpdateTaskFails, Reply, Done
    <3> QED BY <2>3, <3>1, <3>2, <3>3, <3>4 DEF TaskNext
  <2>4. CASE SweepStep \/ Tick \/ UNCHANGED vars
    BY <2>4 DEF SweepStep, SweepStart, SweepClock, SweepAnnounce, SweepNextTeam, SweepEnd,
                SweepRead, SweepReadFails, SweepRelease, SweepReleaseFails, Tick, vars
  <2> QED BY <2>1, <2>2, <2>3, <2>4 DEF Next
<1>2. CASE Unregister(c) \/ Restart
  BY <1>2 DEF Unregister, Restart, TypeOK
<1>3. CASE conn[c].pc \in Without
  <2>1. unread[c] = 0 /\ ~Live(c)
    BY <1>3 DEF ChannelOfSession, ConnInv, SessionsOwned
  <2>2. ASSUME NEW K \in SUBSET Conn, Sends(K) PROVE unread'[c] = 0
    BY <2>1, <2>2 DEF Sends, Deliver
  <2>3. ASSUME NEW k \in Conn, WriteRecv(k) \/ Unregister(k) PROVE unread'[c] = 0
    BY <2>1, <2>3, BoundAssumption DEF WriteRecv, Unregister, TypeOK
  <2>4. CASE Restart
    BY <2>4 DEF Restart
  <2> QED BY <2>1, <2>2, <2>3, <2>4, UnreadStep DEF ConnInv
<1> QED BY <1>1, <1>2, <1>3

\* The safety half of HandlersFinish: no handler is sent back to an earlier step.
THEOREM HandlersGoForwardCorrect == Spec => HandlersGoForward
<1>1. TypeOK /\ [Next]_vars
        => [\A c \in Conn : \/ conn'[c].pc = conn[c].pc
                            \/ StepsLeft(conn[c].pc) = 0
                            \/ StepsLeft(conn'[c].pc) < StepsLeft(conn[c].pc)]_vars
  BY ForwardStep DEF Forward
<1> QED BY <1>1, TypeCorrect, PTL DEF Spec, HandlersGoForward

\* The safety half of LaggedIsClosed: a lost message is never forgotten.
THEOREM OverflowLastsCorrect == Spec => OverflowLasts
<1>1. Init => TypeOK /\ ConnInv BY TypeInit, ConnInvInit
<1>2. TypeOK /\ ConnInv /\ [Next]_vars => TypeOK' /\ ConnInv' BY TypeStep, ConnInvStep
<1>3. TypeOK /\ ConnInv /\ [Next]_vars
        => [\A c \in Conn : unread[c] = ChanCap + 1 =>
              \/ unread'[c] = ChanCap + 1
              \/ unread'[c] = 0 /\ conn'[c].pc = "closed"]_vars
  BY OverflowStep DEF ConnInv
<1> QED BY <1>1, <1>2, <1>3, PTL DEF Spec, OverflowLasts

\* A message is sent only into the channel of a connection that has begun: a new
\* connection starts with an empty one.
THEOREM ChannelOfSessionCorrect == Spec => []ChannelOfSession
<1>1. Init => TypeOK /\ ConnInv /\ ChannelOfSession
  BY TypeInit, ConnInvInit DEF Init, ChannelOfSession
<1>2. TypeOK /\ ConnInv /\ ChannelOfSession /\ [Next]_vars
        => TypeOK' /\ ConnInv' /\ ChannelOfSession'
  BY TypeStep, ConnInvStep, ChannelStep
<1> QED BY <1>1, <1>2, PTL DEF Spec

---------------------------------------------------------------------------
(* The sweep                                                               *)

\* What the sweep holds, however long it holds it, while handlers write rows and a
\* device moves between teams: the claims it read all have a time, and not a future
\* one, so that each is compared with the clock; they are of the team to which their
\* release will be announced; and no claim is decided twice by one reading
\* (check_all_task_timeouts).
SweepSound ==
  /\ \A i \in sweep.items : i.claimedAt \in 0..now /\ tasks[i.url].team = sweep.team
  /\ \A u \in sweep.due : tasks[u].team = sweep.team
  /\ sweep.items # {} => sweep.pc = "clock"

\* A round of the sweep comes to an end: it takes up no team twice and releases no
\* task twice, and what happens in between gives it no more to do.
Phase(pc) == CASE pc = "clock" -> 2 [] pc \in {"release", "announce"} -> 1 [] OTHER -> 0
Smaller(S, T) == S \subseteq T /\ S # T
RoundShortens ==
  \/ sweep'.pc = "idle"
  \/ Smaller(sweep'.teams, sweep.teams)
  \/ sweep'.teams = sweep.teams /\ Phase(sweep'.pc) < Phase(sweep.pc)
  \/ /\ sweep'.teams = sweep.teams /\ Phase(sweep'.pc) = 1 /\ Phase(sweep.pc) = 1
     /\ \/ Smaller(sweep'.due, sweep.due)
        \/ /\ sweep'.due = sweep.due
           /\ sweep.pc = "announce" /\ sweep'.pc = "release"
SweepShortens == [][sweep.pc # "idle" => sweep' = sweep \/ RoundShortens]_vars

\* A time of a claim that has been.
Dated(r) == r.claimedAt = NoTime \/ r.claimedAt \in 0..now
Dates ==
  /\ \A u \in Url : Dated(tasks[u])
  /\ \A c \in Conn : conn[c].pc = "write" => Dated(conn[c].row)

LEMMA SweepAlone ==
  ASSUME [Next]_vars
  PROVE  SweepStep \/ Restart \/ sweep' = sweep
BY HandlersFrame DEF Next, Tick, vars

LEMMA TimeGoesOn ==
  ASSUME TypeOK, [Next]_vars
  PROVE  now \in Nat /\ now' \in Nat /\ now <= now'
<1>1. now \in Nat BY DEF TypeOK
<1>2. now' \in {now, now + 1}
  <2>1. CASE SweepStep
    BY <2>1 DEF SweepStep, SweepStart, SweepClock, SweepAnnounce, SweepNextTeam, SweepEnd,
                SweepRead, SweepReadFails, SweepRelease, SweepReleaseFails
  <2>2. CASE Restart \/ Tick \/ UNCHANGED vars BY <2>2 DEF Restart, Tick, vars
  <2> QED BY <2>1, <2>2, HandlersFrame DEF Next
<1> QED BY <1>1, <1>2

LEMMA DatesInit == Init => Dates
BY DEF Init, Dates, Dated, NoTask, NoConn

LEMMA DatesStep ==
  ASSUME TypeOK, ConnInv, Dates, [Next]_vars
  PROVE  Dates'
<1>0. now \in Nat /\ now' \in Nat /\ now <= now' BY TimeGoesOn
<1>1. /\ \A x : x = NoTime \/ x \in 0..now => x = NoTime \/ x \in 0..now'
      /\ now \in 0..now'
  BY <1>0
<1> USE DEF Dates, Dated
<1>2. CASE Quiet BY <1>1, <1>2 DEF Quiet
<1>3. ASSUME NEW c \in Conn, NEW u \in Url, AddTask(c, u) PROVE Dates'
  BY <1>1, <1>3, AddTaskEffect DEF NewTask, TypeOK
<1>4. ASSUME NEW c \in Conn, NEW u \in Url, Prepared(c, u) PROVE Dates'
  <2>1. conn'[c].row.claimedAt \in {now, tasks[u].claimedAt} /\ tasks' = tasks
        /\ \A k \in Conn : k # c => conn'[k] = conn[k]
    BY <1>4 DEF Prepared, NewClaim, OwnClaim
  <2> QED BY <1>1, <2>1
<1>5. ASSUME NEW c \in Conn, UpdateTask(c) PROVE Dates'
  <2>1. conn[c].row \in Task BY DEF TypeOK, Connection
  <2>2. \A t : [conn[c].row EXCEPT !.team = t].claimedAt = conn[c].row.claimedAt
    BY <2>1 DEF Task
  <2>3. Dated(conn[c].row) BY <1>5, UpdateTaskEffect
  <2>4. \A u \in Url : tasks'[u].claimedAt \in {conn[c].row.claimedAt, tasks[u].claimedAt}
    <3>1. ASSUME NEW u \in Url, u = conn[c].url PROVE tasks'[u].claimedAt = conn[c].row.claimedAt
      <4>1. tasks'[u] = [conn[c].row EXCEPT !.team = tasks[u].team]
        BY <1>5, <3>1, UpdateTaskEffect
      <4> QED BY <2>2, <4>1
    <3>2. \A u \in Url : u # conn[c].url => tasks'[u] = tasks[u]
      BY <1>5, UpdateTaskEffect
    <3> QED BY <3>1, <3>2
  <2> QED BY <1>1, <1>5, <2>3, <2>4, UpdateTaskEffect
<1>6. ASSUME NEW u \in Url, SweepRelease(u) PROVE Dates'
  BY <1>1, <1>6, ReleaseEffect
<1> QED BY <1>2, <1>3, <1>4, <1>5, <1>6, StepKinds, PreparingEffect DEF ConnInv

LEMMA SweepSoundStep ==
  ASSUME TypeOK, ConnInv, RowInv, HoldInv, Dates, SweepSound, [Next]_vars
  PROVE  SweepSound'
\* The rows of what the sweep holds stay in their team, and no time becomes a future one.
<1>1. /\ \A u \in sweep.due : u \in Url /\ tasks'[u].team = sweep.team
      /\ \A i \in sweep.items : /\ i.url \in Url /\ tasks'[i.url].team = sweep.team
                               /\ i.claimedAt \in 0..now'
  <2>1. \A x \in 0..now : x \in 0..now' BY TimeGoesOn
  <2>2. /\ \A u \in sweep.due : u \in Url /\ Exists(u)
        /\ \A i \in sweep.items : i.url \in Url /\ Exists(i.url)
    BY DEF TypeOK, SweepItem, HoldInv, SweepHoldsRows
  <2> QED BY <2>1, <2>2, KeptStep DEF Kept, SweepSound
<1>2. CASE sweep' = sweep BY <1>1, <1>2 DEF SweepSound
<1>3. ASSUME NEW t \in TeamId, SweepRead(t) PROVE SweepSound'
  <2>1. sweep'.items = get_claimed_tasks(t) /\ sweep'.due = {} /\ sweep'.team = t
        /\ sweep'.pc = "clock" /\ tasks' = tasks /\ now' = now
    BY <1>3 DEF SweepRead, db
  <2>2. ASSUME NEW u \in Url, tasks[u].status = "Claimed" PROVE tasks[u].claimedAt \in 0..now
    BY <2>2 DEF RowInv, RowsConsistent, Consistent, Dates, Dated
  <2>3. \A i \in get_claimed_tasks(t) : i.claimedAt \in 0..now /\ tasks[i.url].team = t
    BY <2>2 DEF get_claimed_tasks
  <2> QED BY <2>1, <2>3 DEF SweepSound
<1>4. CASE SweepClock
  <2>1. sweep'.due \subseteq {i.url : i \in sweep.items} /\ sweep'.items = {}
        /\ sweep'.team = sweep.team
    BY <1>4 DEF SweepClock, TypeOK
  <2> QED BY <1>1, <2>1 DEF SweepSound
<1>5. CASE SweepStart \/ SweepAnnounce \/ \E t \in TeamId : SweepReadFails(t)
  BY <1>1, <1>5 DEF SweepStart, SweepAnnounce, SweepReadFails, TypeOK, SweepSound
<1>6. ASSUME NEW u \in Url, SweepRelease(u) \/ SweepReleaseFails(u) PROVE SweepSound'
  <2>1. sweep.pc = "release" /\ sweep'.due = sweep.due \ {u} /\ sweep'.items = sweep.items
        /\ sweep'.team = sweep.team
    BY <1>6 DEF SweepRelease, SweepReleaseFails, TypeOK
  <2>2. sweep.items = {} BY <2>1 DEF SweepSound
  <2> QED BY <1>1, <2>1, <2>2 DEF SweepSound
<1>7. CASE SweepNextTeam
  <2>1. sweep'.due = {} /\ sweep'.items = sweep.items BY <1>7 DEF SweepNextTeam, TypeOK
  <2>2. sweep.items = {} BY <1>7 DEF SweepNextTeam, SweepSound
  <2> QED BY <2>1, <2>2 DEF SweepSound
<1>8. CASE SweepEnd \/ Restart BY <1>8 DEF SweepEnd, Restart, NoSweep, SweepSound
<1> QED BY <1>2, <1>3, <1>4, <1>5, <1>6, <1>7, <1>8, SweepAlone DEF SweepStep

\* The sweep decides about claims of the team it tells, by times that have been.
THEOREM SweepSoundCorrect == Spec => []SweepSound
<1>1. Init => TypeOK /\ ConnInv /\ RowInv /\ HoldInv /\ Dates /\ SweepSound
  BY TypeInit, ConnInvInit, RowInvInit, HoldInvInit, DatesInit DEF Init, SweepSound, NoSweep
<1>2. TypeOK /\ ConnInv /\ RowInv /\ HoldInv /\ Dates /\ SweepSound /\ [Next]_vars
        => TypeOK' /\ ConnInv' /\ RowInv' /\ HoldInv' /\ Dates' /\ SweepSound'
  BY TypeStep, ConnInvStep, RowInvStep, WritesOwnTeamStep, SweepHoldsRowsStep, DatesStep,
     SweepSoundStep DEF HoldInv
<1> QED BY <1>1, <1>2, PTL DEF Spec

LEMMA RoundStep ==
  ASSUME TypeOK, [Next]_vars, sweep.pc # "idle"
  PROVE  sweep' = sweep \/ RoundShortens
<1> USE DEF TypeOK, RoundShortens, Phase, Smaller
<1>1. ASSUME NEW t \in TeamId, SweepRead(t) \/ SweepReadFails(t) PROVE RoundShortens
  BY <1>1 DEF SweepRead, SweepReadFails
<1>2. CASE SweepClock
  <2>1. sweep.pc = "clock" /\ sweep'.pc = "release" /\ sweep'.teams = sweep.teams
    BY <1>2 DEF SweepClock
  <2> QED BY <2>1
<1>7. CASE SweepAnnounce
  <2>1. /\ sweep.pc = "announce" /\ sweep'.pc = "release" /\ sweep'.due = sweep.due
        /\ sweep'.teams = sweep.teams
    BY <1>7 DEF SweepAnnounce
  <2> QED BY <2>1
<1>3. CASE SweepNextTeam
  BY <1>3 DEF SweepNextTeam
<1>4. ASSUME NEW u \in Url, SweepRelease(u) \/ SweepReleaseFails(u) PROVE RoundShortens
  <2>1. /\ sweep.pc = "release" /\ u \in sweep.due /\ sweep'.due = sweep.due \ {u}
        /\ sweep'.teams = sweep.teams /\ sweep'.pc \in {"release", "announce"}
    BY <1>4 DEF SweepRelease, SweepReleaseFails
  <2> QED BY <2>1
<1>5. CASE SweepEnd \/ Restart
  BY <1>5 DEF SweepEnd, Restart, NoSweep
<1>6. ~SweepStart
  BY DEF SweepStart
<1> QED BY <1>1, <1>2, <1>3, <1>4, <1>5, <1>6, <1>7, SweepAlone DEF SweepStep

\* The safety half of OverdueReleased: no claim waits for a round that goes on and on.
THEOREM SweepShortensCorrect == Spec => SweepShortens
<1>1. TypeOK /\ [Next]_vars => [sweep.pc # "idle" => sweep' = sweep \/ RoundShortens]_vars
  BY RoundStep
<1> QED BY <1>1, TypeCorrect, PTL DEF Spec, SweepShortens
=============================================================================
