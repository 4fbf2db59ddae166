---------------------------- MODULE CollabClient ----------------------------
(***************************************************************************)
(* CollaborationClient (client/ws.rs), as main.rs uses it to create or join*)
(* a team.  Each call of init_ws_connection_with_receiver has its own      *)
(* channel and, once it succeeded, its own task that joins three loops; a  *)
(* generation is such a call.  `caller` is where connect or reconnect is.  *)
(*                                                                         *)
(* reconnect is private and nothing calls it: with Watched = FALSE the     *)
(* module is the program as it is, with Watched = TRUE one that calls      *)
(* reconnect when the link is down.                                        *)
(***************************************************************************)
EXTENDS Naturals, Sequences

CONSTANTS
  Msg,          \* what the program sends: each message once
  Beat,         \* a Heartbeat message
  ChanCap,      \* 100, the capacity of the channel to the write loop
  MaxAttempts,  \* MAX_RECONNECT_ATTEMPTS
  MaxGen,       \* bound on the calls of init_ws_connection_with_receiver
  MaxRead,      \* bound on the server's messages
  Watched

ASSUME MsgAssumption   == Beat \notin Msg
ASSUME BoundAssumption == /\ ChanCap \in Nat \ {0} /\ MaxAttempts \in Nat
                          /\ MaxGen \in Nat \ {0} /\ MaxRead \in Nat
                          /\ Watched \in BOOLEAN

VARIABLES
  caller,   \* where connect or reconnect is
  state,    \* the AtomicU64
  attempt,  \* of reconnect; 0 in connect
  gen,      \* the generation whose channel write_tx is
  link,     \* the WebSocket of each generation
  loops,    \* the loops of each generation that run
  chan,     \* the channel to its write loop
  wire,     \* history: what its server got, heartbeats excepted
  unsent,   \* messages the program has not sent yet
  receivers, \* of the client's msg_tx and of the one read_loop sends to
  arrived,  \* history: messages read, counted once for every subscriber
  heard,    \* messages that subscribers received
  failures  \* calls of on_failure

call == <<caller, state, attempt, gen, failures>>
net  == <<link, loops, chan, wire>>
subs == <<receivers, arrived, heard>>
vars == <<call, net, unsent, subs>>

Gen   == 1..MaxGen
Loops == {"write", "read", "heartbeat"}
Connecting   == 1
Connected    == 2
FailedState  == 3
Reconnecting == 4

---------------------------------------------------------------------------
(* connect, init_ws_connection_with_receiver and reconnect.                *)

\* An attempt waits for the peer, without a timeout: for the answer to the
\* handshake, and for the two messages to be taken.
Awaiting == {"open", "auth", "register"}

Connect ==
  /\ caller = "none"
  /\ caller' = "open" /\ state' = Connecting /\ gen' = 1
  /\ UNCHANGED <<attempt, failures, net, unsent, subs>>

Open ==
  /\ caller = "open"
  /\ caller' = "auth"
  /\ link' = [link EXCEPT ![gen] = "up"]
  /\ UNCHANGED <<state, attempt, gen, failures, loops, chan, wire, unsent, subs>>

Greet(at, then, m) ==
  /\ caller = at /\ link[gen] = "up"
  /\ caller' = then
  /\ wire' = [wire EXCEPT ![gen] = Append(@, m)]
  /\ UNCHANGED <<state, attempt, gen, failures, link, loops, chan, unsent, subs>>

\* Mutant: the loops are started before Register is sent.
SpawnEarly ==
  /\ caller = "register" /\ link[gen] = "up"
  /\ caller' = "ready" /\ state' = Connected
  /\ loops' = [loops EXCEPT ![gen] = Loops]
  /\ UNCHANGED <<attempt, gen, failures, link, chan, wire, unsent, subs>>

Authenticate == Greet("auth", "register", "AUTH")
Register     == Greet("register", "spawn", "Register")

Spawn ==
  /\ caller = "spawn"
  /\ caller' = "ready" /\ state' = Connected
  /\ loops' = [loops EXCEPT ![gen] = Loops]
  /\ UNCHANGED <<attempt, gen, failures, link, chan, wire, unsent, subs>>

\* Mutant: the attempts are not counted.
InitFailsUncounted ==
  /\ caller \in Awaiting
  /\ link' = [link EXCEPT ![gen] = "down"]
  /\ caller' = IF attempt = 0 THEN "gone" ELSE "retry"
  /\ UNCHANGED <<attempt, state, gen, failures, loops, chan, wire, unsent, subs>>

\* An error of connect_async or of one of the sends.  connect returns it, and
\* main.rs ends.
InitFails ==
  /\ caller \in Awaiting
  /\ link' = [link EXCEPT ![gen] = "down"]
  /\ IF attempt = 0 THEN caller' = "gone" /\ UNCHANGED attempt
                    ELSE caller' = "retry" /\ attempt' = attempt + 1
  /\ UNCHANGED <<state, gen, failures, loops, chan, wire, unsent, subs>>

Reconnect ==
  /\ Watched /\ caller = "ready" /\ link[gen] = "down"
  /\ gen + MaxAttempts <= MaxGen
  /\ caller' = "retry" /\ attempt' = 1
  /\ UNCHANGED <<state, gen, failures, net, unsent, subs>>

Retry ==
  /\ caller = "retry" /\ attempt <= MaxAttempts
  /\ caller' = "backoff" /\ state' = Reconnecting + attempt
  /\ UNCHANGED <<attempt, gen, failures, net, unsent, subs>>

\* After the sleep: a new channel, whose receiver goes into the new write loop.
Wake ==
  /\ caller = "backoff" /\ gen < MaxGen
  /\ caller' = "open" /\ gen' = gen + 1
  /\ UNCHANGED <<state, attempt, failures, net, unsent, subs>>

\* Mutant: the last attempt is never made.
GiveUpEarly ==
  /\ caller = "retry" /\ attempt >= MaxAttempts
  /\ caller' = "failed" /\ state' = FailedState /\ failures' = failures + 1
  /\ UNCHANGED <<attempt, gen, net, unsent, subs>>

GiveUp ==
  /\ caller = "retry" /\ attempt > MaxAttempts
  /\ caller' = "failed" /\ state' = FailedState /\ failures' = failures + 1
  /\ UNCHANGED <<attempt, gen, net, unsent, subs>>

---------------------------------------------------------------------------
(* send, subscribe and the three loops.                                    *)

Usable == caller \in {"ready", "failed"}

\* send() waits while the channel is full.
Enqueue(g, m) ==
  /\ "write" \in loops[g] /\ Len(chan[g]) < ChanCap
  /\ chan' = [chan EXCEPT ![g] = Append(@, m)]
  /\ UNCHANGED <<link, loops, wire>>

Send(m) ==
  /\ Usable /\ m \in unsent
  /\ Enqueue(gen, m)
  /\ unsent' = unsent \ {m}
  /\ UNCHANGED <<call, subs>>

\* The receiver is gone: send() returns an error.
SendFails(m) ==
  /\ Usable /\ m \in unsent
  /\ "write" \notin loops[gen]
  /\ unsent' = unsent \ {m}
  /\ UNCHANGED <<call, net, subs>>

Subscribe ==
  /\ Usable /\ receivers["client"] = 0
  /\ receivers' = [receivers EXCEPT !["client"] = 1]
  /\ UNCHANGED <<call, net, unsent, arrived, heard>>

\* Mutant: no heartbeat once the link is down.
HeartbeatWhenUp(g) ==
  /\ "heartbeat" \in loops[g] /\ link[g] = "up"
  /\ Enqueue(g, Beat)
  /\ UNCHANGED <<call, unsent, subs>>

\* Mutant: a heartbeat goes before everything in the channel.
HeartbeatFirst(g) ==
  /\ "heartbeat" \in loops[g] /\ "write" \in loops[g] /\ Len(chan[g]) < ChanCap
  /\ chan' = [chan EXCEPT ![g] = <<Beat>> \o @]
  /\ UNCHANGED <<call, link, loops, wire, unsent, subs>>

Heartbeat(g) ==
  /\ "heartbeat" \in loops[g]
  /\ Enqueue(g, Beat)
  /\ UNCHANGED <<call, unsent, subs>>

End(loop, g) == loops' = [loops EXCEPT ![g] = @ \ {loop}]

HeartbeatEnds(g) ==
  /\ "heartbeat" \in loops[g] /\ "write" \notin loops[g]
  /\ End("heartbeat", g)
  /\ UNCHANGED <<call, link, chan, wire, unsent, subs>>

Write(g) ==
  /\ "write" \in loops[g] /\ chan[g] # <<>> /\ link[g] = "up"
  /\ chan' = [chan EXCEPT ![g] = Tail(@)]
  /\ wire' = [wire EXCEPT ![g] = IF Head(chan[g]) = Beat THEN @
                                 ELSE Append(@, Head(chan[g]))]
  /\ UNCHANGED <<call, link, loops, unsent, subs>>

\* A write into a broken link may go unnoticed until the read half, which
\* shares the stream, has seen the end.
WriteLost(g) ==
  /\ "write" \in loops[g] /\ chan[g] # <<>> /\ link[g] = "down"
  /\ "read" \in loops[g]
  /\ chan' = [chan EXCEPT ![g] = Tail(@)]
  /\ UNCHANGED <<call, link, loops, wire, unsent, subs>>

\* The write loop drops its receiver and what is still in the channel.
WriteFails(g) ==
  /\ "write" \in loops[g] /\ chan[g] # <<>> /\ link[g] = "down"
  /\ End("write", g)
  /\ chan' = [chan EXCEPT ![g] = <<>>]
  /\ UNCHANGED <<call, link, wire, unsent, subs>>

\* The channel msg_tx of read_loop is a local one, without receivers.
Read(g) ==
  /\ "read" \in loops[g] /\ link[g] = "up"
  /\ arrived < MaxRead
  /\ arrived' = arrived + receivers["client"]
  /\ heard' = heard + receivers["loop"]
  /\ UNCHANGED <<call, net, unsent, receivers>>

ReadEnds(g) ==
  /\ "read" \in loops[g] /\ link[g] = "down"
  /\ End("read", g)
  /\ UNCHANGED <<call, link, chan, wire, unsent, subs>>

LinkBreaks(g) ==
  /\ link[g] = "up"
  /\ link' = [link EXCEPT ![g] = "down"]
  /\ UNCHANGED <<call, loops, chan, wire, unsent, subs>>

Init ==
  /\ caller = "none" /\ state = 0 /\ attempt = 0 /\ gen = 0 /\ failures = 0
  /\ link = [g \in Gen |-> "none"]
  /\ loops = [g \in Gen |-> {}]
  /\ chan = [g \in Gen |-> <<>>]
  /\ wire = [g \in Gen |-> <<>>]
  /\ unsent = Msg
  /\ receivers = [tx \in {"client", "loop"} |-> 0]
  /\ arrived = 0 /\ heard = 0

Attempt == Open \/ Authenticate \/ Register \/ InitFails
\* A send into a link that broke is told so.
AttemptBroken == InitFails /\ link[gen] = "down"
Calling == Connect \/ Spawn \/ Retry \/ Wake \/ GiveUp

Writing(g) == Write(g) \/ WriteLost(g) \/ WriteFails(g)
Reading(g) == Read(g) \/ ReadEnds(g)
Beating(g) == Heartbeat(g) \/ HeartbeatEnds(g)

Next ==
  \/ Calling \/ Attempt \/ Reconnect \/ Subscribe
  \/ \E m \in Msg : Send(m) \/ SendFails(m)
  \/ \E g \in Gen : Writing(g) \/ Reading(g) \/ Beating(g) \/ LinkBreaks(g)

Spec == Init /\ [][Next]_vars

\* tokio polls every loop that can go on, and timers fire.  A message of the
\* server may never come: only the end of the link is sure to be noticed.  Nor
\* need a peer ever answer an attempt.
FairSpec ==
  /\ Spec
  /\ WF_vars(Calling) /\ WF_vars(AttemptBroken)
  /\ \A g \in Gen : WF_vars(Writing(g)) /\ WF_vars(ReadEnds(g)) /\ WF_vars(Beating(g))

---------------------------------------------------------------------------
TypeOK ==
  /\ caller \in {"none", "open", "auth", "register", "spawn", "ready",
                 "retry", "backoff", "failed", "gone"}
  /\ state \in 0..(Reconnecting + MaxAttempts)
  /\ attempt \in 0..(MaxAttempts + 1)
  /\ gen \in 0..MaxGen
  /\ link \in [Gen -> {"none", "up", "down"}]
  /\ loops \in [Gen -> SUBSET Loops]
  /\ \A g \in Gen : Len(chan[g]) <= ChanCap /\ chan[g] \in Seq(Msg \cup {Beat})
  /\ unsent \subseteq Msg
  /\ heard \in Nat /\ arrived \in Nat /\ failures \in Nat

\* The server's first message of a connection is AUTH and its second Register,
\* before any loop may write: a heartbeat at once would be taken for the token
\* (init_ws_connection_with_receiver; the first tick of interval is immediate).
GreetingFirst ==
  \A g \in Gen : loops[g] # {} =>
    Len(wire[g]) >= 2 /\ wire[g][1] = "AUTH" /\ wire[g][2] = "Register"

\* on_failure is called once and only when every attempt has failed, and no
\* attempt is left untried (reconnect).
FailedAfterAllAttempts ==
  state = FailedState <=> attempt > MaxAttempts /\ failures = 1

\* An accepted message is sent unless its link breaks: a queue behind many
\* heartbeats is drained all the same (send, write_loop).
AcceptedSent ==
  \A g \in Gen, m \in Msg :
    (\E k \in 1..Len(chan[g]) : chan[g][k] = m)
      ~> (link[g] = "down" \/ \E k \in 1..Len(wire[g]) : wire[g][k] = m)

\* When the link is down all three loops end, and with them the task: the read
\* loop sees it, the next heartbeat ends the write loop, the one after it the
\* heartbeat loop (join! in init_ws_connection_with_receiver).
LoopsEnd == \A g \in Gen : link[g] = "down" ~> loops[g] = {}

\* A call of reconnect ends, with a connection or with the failure callback,
\* unless one of its attempts waits for its peer for ever: connect_async and the
\* two sends of init_ws_connection_with_receiver have no timeout.
ReconnectEnds ==
  caller = "backoff" ~> (\/ caller \in {"ready", "failed"}
                         \/ [](caller \in Awaiting /\ link[gen] # "down"))
=============================================================================
