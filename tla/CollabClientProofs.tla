------------------------- MODULE CollabClientProofs -------------------------
(***************************************************************************)
(* The client's connections for any number of messages, attempts and       *)
(* generations, whether anything watches the link or not: the greeting goes*)
(* first, a failure is told after the last attempt, no message is sent     *)
(* twice, and reconnect and the loops of a broken link can only end.       *)
(***************************************************************************)
EXTENDS CollabClient, SequenceTheorems, TLAPS

Wire == Msg \cup {"AUTH", "Register"}

\* What a server has got when a connection is open, authenticated, registered.
W0 == <<>>
W1 == Append(W0, "AUTH")
W2 == Append(W1, "Register")
Greeted(w) == Len(w) >= 2 /\ w[1] = "AUTH" /\ w[2] = "Register"

CallTypes ==
  /\ caller \in {"none", "open", "auth", "register", "spawn", "ready",
                 "retry", "backoff", "failed", "gone"}
  /\ state \in 0..(Reconnecting + MaxAttempts)
  /\ attempt \in 0..(MaxAttempts + 1)
  /\ gen \in 0..MaxGen
  /\ caller = "none" \/ gen \in Gen
  /\ failures \in Nat
ChanTypes == chan \in [Gen -> {c \in Seq(Msg \cup {Beat}) : Len(c) <= ChanCap}]
WireTypes == wire \in [Gen -> Seq(Wire)]
RestTypes ==
  /\ link \in [Gen -> {"none", "up", "down"}]
  /\ loops \in [Gen -> SUBSET Loops]
  /\ unsent \subseteq Msg
  /\ receivers \in [{"client", "loop"} -> Nat] /\ heard \in Nat /\ arrived \in Nat
Types == CallTypes /\ ChanTypes /\ WireTypes /\ RestTypes

\* A generation has no loops until it is spawned, and by then its server has got
\* exactly what the caller's steps so far have sent.
Unspawned ==
  /\ \A g \in Gen : g > gen => loops[g] = {} /\ wire[g] = W0
  /\ caller = "none" => gen = 0
  /\ caller \in {"open", "auth", "register", "spawn"} => loops[gen] = {}
  /\ caller \in {"open", "auth"} => wire[gen] = W0
  /\ caller = "register" => wire[gen] = W1
  /\ caller = "spawn" => wire[gen] = W2
LoopsGreeted == \A g \in Gen : loops[g] # {} => Greeted(wire[g])

\* reconnect counts its attempts, and only where it gives up are they exhausted.
Counted ==
  /\ caller \in {"none", "open", "auth", "register", "backoff"} => attempt <= MaxAttempts
  /\ caller = "failed" => attempt > MaxAttempts
  /\ caller = "failed" <=> state = FailedState
  /\ failures = IF caller = "failed" THEN 1 ELSE 0

IInv == Types /\ Unspawned /\ LoopsGreeted /\ Counted

---------------------------------------------------------------------------
LEMMA Greetings ==
  /\ W0 \in Seq(Wire) /\ W1 \in Seq(Wire) /\ W2 \in Seq(Wire)
  /\ Append(W0, "AUTH") = W1 /\ Append(W1, "Register") = W2
  /\ Greeted(W2)
<1>1. W0 \in Seq(Wire) /\ Len(W0) = 0
  BY DEF W0
<1>2. W1 \in Seq(Wire) /\ Len(W1) = 1 /\ W1[1] = "AUTH"
  BY <1>1 DEF W1, Wire
<1>3. "Register" \in Wire
  BY DEF Wire
<1>4. W2 \in Seq(Wire) /\ Len(W2) = Len(W1) + 1 /\ W2[Len(W1) + 1] = "Register"
  BY <1>2, <1>3, AppendProperties DEF W2
<1>5. \A k \in 1..Len(W1) : W2[k] = W1[k]
  BY <1>2, <1>3, AppendProperties DEF W2
<1> QED BY <1>1, <1>2, <1>4, <1>5 DEF W1, W2, Greeted

LEMMA GreetedKept ==
  ASSUME NEW w \in Seq(Wire), NEW m \in Msg
  PROVE  Append(w, m) \in Seq(Wire) /\ (Greeted(w) => Greeted(Append(w, m)))
<1>1. Append(w, m) \in Seq(Wire) /\ Len(Append(w, m)) = Len(w) + 1 /\ Len(w) \in Nat
  BY DEF Wire
<1>2. \A k \in 1..Len(w) : Append(w, m)[k] = w[k]
  OBVIOUS
<1> QED BY <1>1, <1>2 DEF Greeted

LEMMA Channels ==
  /\ <<>> \in {c \in Seq(Msg \cup {Beat}) : Len(c) <= ChanCap}
  /\ \A c \in {d \in Seq(Msg \cup {Beat}) : Len(d) <= ChanCap} :
       /\ c # <<>> => /\ Tail(c) \in {d \in Seq(Msg \cup {Beat}) : Len(d) <= ChanCap}
                      /\ Head(c) \in Msg \cup {Beat}
       /\ Len(c) < ChanCap => \A m \in Msg \cup {Beat} :
            Append(c, m) \in {d \in Seq(Msg \cup {Beat}) : Len(d) <= ChanCap}
<1> DEFINE S == Msg \cup {Beat}
<1>1. <<>> \in Seq(S) /\ Len(<<>>) <= ChanCap
  BY BoundAssumption
<1>2. \A c \in Seq(S) : c # <<>> =>
        Tail(c) \in Seq(S) /\ Len(Tail(c)) = Len(c) - 1 /\ Head(c) \in S /\ Len(c) \in Nat
  OBVIOUS
<1>3. \A c \in Seq(S), m \in S : Append(c, m) \in Seq(S) /\ Len(Append(c, m)) = Len(c) + 1
                                 /\ Len(c) \in Nat
  OBVIOUS
<1> HIDE DEF S
<1>4. \A c \in Seq(S) : c # <<>> /\ Len(c) <= ChanCap => Len(Tail(c)) <= ChanCap
  BY <1>2, BoundAssumption
<1>5. \A c \in Seq(S), m \in S : Len(c) < ChanCap => Len(Append(c, m)) <= ChanCap
  BY <1>3, BoundAssumption
<1> QED BY <1>1, <1>2, <1>3, <1>4, <1>5 DEF S

LEMMA Init1 == Init => IInv
<1> SUFFICES ASSUME Init PROVE IInv
  OBVIOUS
<1> USE BoundAssumption DEF Init
<1>1. CallTypes /\ RestTypes
  BY DEF CallTypes, RestTypes, Reconnecting, Gen
<1>2. ChanTypes
  BY Channels DEF ChanTypes
<1>3. WireTypes
  BY DEF WireTypes
<1>4. Unspawned /\ LoopsGreeted
  BY DEF Unspawned, LoopsGreeted, W0, Gen
<1>5. Counted
  BY DEF Counted, FailedState
<1> QED BY <1>1, <1>2, <1>3, <1>4, <1>5 DEF IInv, Types

---------------------------------------------------------------------------
(* The steps of the caller; none but Authenticate and Register writes to a *)
(* wire, and none but Spawn starts loops.                                  *)

LEMMA CallerTypes ==
  ASSUME IInv, Calling \/ Attempt \/ Reconnect
  PROVE  Types'
<1> USE BoundAssumption DEF IInv, Types
<1>1. CallTypes'
  <2> USE DEF CallTypes, Gen, Reconnecting
  <2>1. CASE Connect \/ Open \/ Authenticate \/ Register \/ Spawn
    BY <2>1 DEF Connect, Open, Authenticate, Register, Greet, Spawn, Connecting, Connected
  <2>2. CASE InitFails
    BY <2>2 DEF InitFails, Awaiting, Counted
  <2>3. CASE Retry
    BY <2>3 DEF Retry
  <2>4. CASE Reconnect \/ Wake \/ GiveUp
    BY <2>4 DEF Reconnect, Wake, GiveUp, FailedState
  <2> QED BY <2>1, <2>2, <2>3, <2>4 DEF Calling, Attempt
<1>2. ChanTypes'
  BY DEF ChanTypes, Calling, Attempt, Connect, Open, Authenticate, Register, Greet, Spawn, InitFails, Awaiting,
         Reconnect, Retry, Wake, GiveUp, net
<1>3. WireTypes'
  <2>1. CASE Authenticate
    <3>1. wire' = [wire EXCEPT ![gen] = W1]
      BY <2>1, Greetings DEF Authenticate, Greet, Unspawned
    <3> QED BY <3>1, Greetings DEF WireTypes
  <2>2. CASE Register
    <3>1. wire' = [wire EXCEPT ![gen] = W2]
      BY <2>2, Greetings DEF Register, Greet, Unspawned
    <3> QED BY <3>1, Greetings DEF WireTypes
  <2>3. CASE UNCHANGED wire
    BY <2>3 DEF WireTypes
  <2> QED BY <2>1, <2>2, <2>3 DEF Calling, Attempt, Connect, Open, Spawn, InitFails, Awaiting, Reconnect, Retry,
                                  Wake, GiveUp, net
<1>4. RestTypes'
  BY DEF RestTypes, Calling, Attempt, Connect, Open, Authenticate, Register, Greet, Spawn, InitFails, Awaiting,
         Reconnect, Retry, Wake, GiveUp, net, subs
<1> QED BY <1>1, <1>2, <1>3, <1>4

LEMMA CallerUnspawned ==
  ASSUME IInv, Calling \/ Attempt \/ Reconnect
  PROVE  Unspawned' /\ LoopsGreeted'
<1> USE BoundAssumption DEF IInv, Types, CallTypes, WireTypes, RestTypes, Gen
<1>1. CASE Connect
  BY <1>1 DEF Connect, net, Unspawned, LoopsGreeted
<1>2. CASE Open
  BY <1>2 DEF Open, Unspawned, LoopsGreeted
<1>3. CASE Authenticate
  <2>1. wire' = [wire EXCEPT ![gen] = W1]
    BY <1>3, Greetings DEF Authenticate, Greet, Unspawned
  <2> QED BY <1>3, <2>1 DEF Authenticate, Greet, Unspawned, LoopsGreeted
<1>4. CASE Register
  <2>1. wire' = [wire EXCEPT ![gen] = W2]
    BY <1>4, Greetings DEF Register, Greet, Unspawned
  <2> QED BY <1>4, <2>1 DEF Register, Greet, Unspawned, LoopsGreeted
<1>5. CASE Spawn
  BY <1>5, Greetings DEF Spawn, Unspawned, LoopsGreeted
<1>6. CASE InitFails
  BY <1>6 DEF InitFails, Awaiting, Unspawned, LoopsGreeted
<1>7. CASE Wake
  BY <1>7 DEF Wake, net, Unspawned, LoopsGreeted
<1>8. CASE Reconnect \/ Retry \/ GiveUp
  BY <1>8 DEF Reconnect, Retry, GiveUp, net, Unspawned, LoopsGreeted
<1> QED BY <1>1, <1>2, <1>3, <1>4, <1>5, <1>6, <1>7, <1>8 DEF Calling, Attempt

LEMMA CallerCounted ==
  ASSUME IInv, Calling \/ Attempt \/ Reconnect
  PROVE  Counted'
<1> USE BoundAssumption DEF IInv, Types, CallTypes, Counted, Connecting, Connected, FailedState,
                            Reconnecting
<1>1. CASE Connect \/ Open \/ Authenticate \/ Register \/ Spawn
  BY <1>1 DEF Connect, Open, Authenticate, Register, Greet, Spawn
<1>2. CASE InitFails
  BY <1>2 DEF InitFails, Awaiting
<1>3. CASE Reconnect \/ Retry \/ Wake \/ GiveUp
  BY <1>3 DEF Reconnect, Retry, Wake, GiveUp
<1> QED BY <1>1, <1>2, <1>3 DEF Calling, Attempt

---------------------------------------------------------------------------
(* The steps of program, loops and link: none moves the caller or starts a *)
(* loop, and only a write loop that runs writes to a wire.                 *)

Others(g) ==
  \/ Subscribe \/ \E m \in Msg : Send(m) \/ SendFails(m)
  \/ Writing(g) \/ Reading(g) \/ Beating(g) \/ LinkBreaks(g)

LEMMA OthersTypes ==
  ASSUME IInv, NEW g \in Gen, Others(g)
  PROVE  ChanTypes' /\ RestTypes'
<1> USE DEF IInv, Types, call, net, subs
<1>1. CASE \E m \in Msg : Send(m)
  <2>1. PICK m \in Msg : Send(m)
    BY <1>1
  <2>2. gen \in Gen
    BY <2>1 DEF Send, Usable, CallTypes
  <2> QED BY <2>1, <2>2, Channels DEF Send, Enqueue, ChanTypes, RestTypes
<1>2. CASE Write(g)
  BY <1>2, Channels DEF Write, ChanTypes, RestTypes
<1>3. CASE WriteLost(g)
  BY <1>3, Channels DEF WriteLost, ChanTypes, RestTypes
<1>4. CASE WriteFails(g)
  BY <1>4, Channels DEF WriteFails, End, ChanTypes, RestTypes
<1>5. CASE Heartbeat(g)
  BY <1>5, Channels DEF Heartbeat, Enqueue, ChanTypes, RestTypes
<1>6. CASE Subscribe \/ (\E m \in Msg : SendFails(m)) \/ Read(g)
  BY <1>6 DEF Subscribe, SendFails, Read, ChanTypes, RestTypes
<1>7. CASE ReadEnds(g) \/ HeartbeatEnds(g) \/ LinkBreaks(g)
  BY <1>7 DEF ReadEnds, HeartbeatEnds, LinkBreaks, End, ChanTypes, RestTypes
<1> QED BY <1>1, <1>2, <1>3, <1>4, <1>5, <1>6, <1>7 DEF Others, Writing, Reading, Beating

LEMMA OthersFrame ==
  ASSUME IInv, NEW g \in Gen, Others(g)
  PROVE  /\ UNCHANGED call /\ \A h \in Gen : loops'[h] \subseteq loops[h]
         /\ \/ UNCHANGED wire
            \/ loops[g] # {} /\ \E m \in Msg : wire' = [wire EXCEPT ![g] = Append(@, m)]
<1> USE DEF IInv, Types, RestTypes, WireTypes, call, net, subs
<1>1. CASE Write(g)
  <2>1. Head(chan[g]) \in Msg \cup {Beat}
    BY <1>1, Channels DEF Write, ChanTypes
  <2> QED BY <1>1, <2>1 DEF Write
<1>2. CASE Subscribe \/ \E m \in Msg : Send(m) \/ SendFails(m)
  BY <1>2 DEF Subscribe, Send, SendFails, Enqueue
<1>3. CASE WriteLost(g) \/ WriteFails(g) \/ Heartbeat(g) \/ HeartbeatEnds(g)
  BY <1>3 DEF WriteLost, WriteFails, Heartbeat, Enqueue, HeartbeatEnds, End
<1>4. CASE Read(g) \/ ReadEnds(g) \/ LinkBreaks(g)
  BY <1>4 DEF Read, ReadEnds, LinkBreaks, End
<1> QED BY <1>1, <1>2, <1>3, <1>4 DEF Others, Writing, Reading, Beating

LEMMA OthersStep ==
  ASSUME IInv, NEW g \in Gen, Others(g)
  PROVE  IInv'
<1>1. UNCHANGED call /\ \A h \in Gen : loops'[h] \subseteq loops[h]
  BY OthersFrame
<1>2. WireTypes' /\ LoopsGreeted'
  <2>1. CASE UNCHANGED wire
    BY <1>1, <2>1 DEF IInv, Types, WireTypes, LoopsGreeted
  <2>2. ASSUME NEW m \in Msg, wire' = [wire EXCEPT ![g] = Append(@, m)]
        PROVE  WireTypes' /\ LoopsGreeted'
    BY <1>1, <2>2, GreetedKept DEF IInv, Types, WireTypes, LoopsGreeted
  <2> QED BY <2>1, <2>2, OthersFrame
<1>3. \A h \in Gen : loops[h] = {} => loops'[h] = {} /\ wire'[h] = wire[h]
  BY <1>1, OthersFrame DEF IInv, Types, WireTypes
<1>4. Unspawned'
  BY <1>1, <1>3 DEF IInv, Types, CallTypes, Unspawned, call
<1>5. CallTypes' /\ Counted'
  BY <1>1 DEF IInv, Types, CallTypes, Counted, call
<1> QED BY <1>2, <1>4, <1>5, OthersTypes DEF IInv, Types

---------------------------------------------------------------------------
LEMMA Inductive == Spec => []IInv
<1>1. Init => IInv
  BY Init1
<1>2. IInv /\ [Next]_vars => IInv'
  <2> SUFFICES ASSUME IInv, [Next]_vars PROVE IInv'
    OBVIOUS
  <2>1. CASE Calling \/ Attempt \/ Reconnect
    BY <2>1, CallerTypes, CallerUnspawned, CallerCounted DEF IInv
  <2>2. CASE Subscribe \/ \E m \in Msg : Send(m) \/ SendFails(m)
    <3>1. 1 \in Gen
      BY BoundAssumption DEF Gen
    <3> QED BY <2>2, <3>1, OthersStep DEF Others
  <2>3. ASSUME NEW g \in Gen, Writing(g) \/ Reading(g) \/ Beating(g) \/ LinkBreaks(g)
        PROVE  IInv'
    BY <2>3, OthersStep DEF Others
  <2>4. CASE UNCHANGED vars
    BY <2>4 DEF vars, call, net, subs, IInv, Types, CallTypes, ChanTypes, WireTypes, RestTypes,
                Unspawned, LoopsGreeted, Counted
  <2> QED BY <2>1, <2>2, <2>3, <2>4 DEF Next
<1> QED BY <1>1, <1>2, PTL DEF Spec

\* The types, no channel above its capacity among them.
THEOREM TypeCorrect == Spec => []TypeOK
<1>1. IInv => TypeOK
  BY DEF IInv, Types, CallTypes, ChanTypes, RestTypes, TypeOK
<1> QED BY <1>1, Inductive, PTL

\* GreetingFirst: no loop of any generation, old or new, writes before the
\* greeting is sent (init_ws_connection_with_receiver).
THEOREM GreetingFirstCorrect == Spec => []GreetingFirst
<1>1. IInv => GreetingFirst
  BY DEF IInv, LoopsGreeted, Greeted, GreetingFirst
<1> QED BY <1>1, Inductive, PTL

\* FailedAfterAllAttempts: the client is in the state Failed exactly when every
\* attempt was made, and the callback was called once (reconnect).
THEOREM FailedAfterAllAttemptsCorrect == Spec => []FailedAfterAllAttempts
<1>1. IInv => FailedAfterAllAttempts
  BY DEF IInv, Counted, FailedAfterAllAttempts
<1> QED BY <1>1, Inductive, PTL

---------------------------------------------------------------------------
(* At most once                                                            *)

\* A message waits in one place of one channel, or has reached one server, once:
\* neither the channels of several generations nor reconnect send it again.  The
\* first two messages on a wire are the greeting.
Pending(g)   == 1..Len(chan[g])
Delivered(g) == 3..Len(wire[g])
AtMostOnce ==
  \A g, h \in Gen :
    /\ \A j \in Pending(g) : chan[g][j] # Beat =>
         /\ chan[g][j] \notin unsent
         /\ \A k \in Pending(h) : chan[h][k] = chan[g][j] => g = h /\ j = k
         /\ \A k \in Delivered(h) : wire[h][k] # chan[g][j]
    /\ \A j \in Delivered(g) :
         /\ wire[g][j] \in Msg \ unsent
         /\ \A k \in Delivered(h) : wire[h][k] = wire[g][j] => g = h /\ j = k

\* What a step may do to the channels and to what follows the greetings.
Forgets ==
  /\ unsent' \subseteq unsent
  /\ \A g \in Gen : /\ \/ chan'[g] \in {chan[g], <<>>, Append(chan[g], Beat)}
                       \/ chan[g] # <<>> /\ chan'[g] = Tail(chan[g])
                    /\ \A k \in 3..Len(wire'[g]) : k <= Len(wire[g]) /\ wire'[g][k] = wire[g][k]

TakesIn(g, m) ==
  /\ m \in unsent /\ unsent' = unsent \ {m}
  /\ chan' = [chan EXCEPT ![g] = Append(@, m)] /\ UNCHANGED wire

PassesOn(g) ==
  /\ chan[g] # <<>> /\ Head(chan[g]) # Beat /\ Len(wire[g]) >= 2
  /\ chan' = [chan EXCEPT ![g] = Tail(@)]
  /\ wire' = [wire EXCEPT ![g] = Append(@, Head(chan[g]))] /\ UNCHANGED unsent

LEMMA GreetingLengths == Len(W1) = 1 /\ Len(W2) = 2
<1>1. Len(W1) = 1
  BY DEF W1, W0
<1>2. "Register" \in Wire
  BY DEF Wire
<1> QED BY <1>1, <1>2, Greetings, AppendProperties DEF W2

LEMMA CallerForgets ==
  ASSUME IInv, Calling \/ Attempt \/ Reconnect
  PROVE  Forgets
<1> USE DEF IInv, Types, CallTypes, ChanTypes, WireTypes, Forgets
<1>1. UNCHANGED <<chan, unsent>>
  BY DEF Calling, Attempt, Connect, Open, Authenticate, Register, Greet, Spawn, InitFails, Awaiting, Reconnect, Retry,
         Wake, GiveUp, net
<1>2. ASSUME NEW n \in 1..2, NEW w \in Seq(Wire), Len(w) = n, wire' = [wire EXCEPT ![gen] = w]
      PROVE  Forgets
  <2>1. ASSUME NEW g \in Gen, NEW k \in 3..Len(wire'[g])
        PROVE  k <= Len(wire[g]) /\ wire'[g][k] = wire[g][k]
    <3>1. ASSUME g = gen PROVE FALSE
      <4>1. wire'[g] = w
        BY <1>2, <3>1
      <4>2. k \in 3..n
        BY <1>2, <2>1, <4>1
      <4> QED BY <4>2
    <3>2. wire'[g] = wire[g]
      BY <1>2, <3>1
    <3> QED BY <2>1, <3>2
  <2> QED BY <1>1, <2>1
<1>3. CASE Authenticate
  <2>1. wire' = [wire EXCEPT ![gen] = W1]
    BY <1>3, Greetings DEF Authenticate, Greet, Unspawned
  <2>2. 1 \in 1..2 /\ 2 \in 1..2
    OBVIOUS
  <2> QED BY <1>2, <2>1, <2>2, Greetings, GreetingLengths
<1>4. CASE Register
  <2>1. wire' = [wire EXCEPT ![gen] = W2]
    BY <1>4, Greetings DEF Register, Greet, Unspawned
  <2>2. 1 \in 1..2 /\ 2 \in 1..2
    OBVIOUS
  <2> QED BY <1>2, <2>1, <2>2, Greetings, GreetingLengths
<1>5. CASE UNCHANGED wire
  <2>1. \A g \in Gen : \A k \in 3..Len(wire'[g]) : k <= Len(wire[g])
    BY <1>5
  <2> QED BY <1>1, <1>5, <2>1
<1> QED BY <1>3, <1>4, <1>5 DEF Calling, Attempt, Connect, Open, Spawn, InitFails, Awaiting, Reconnect, Retry, Wake,
                               GiveUp, net

LEMMA OthersMove ==
  ASSUME IInv, NEW g \in Gen, Others(g)
  PROVE  \/ Forgets
         \/ \E h \in Gen, m \in Msg : TakesIn(h, m)
         \/ PassesOn(g)
<1> USE DEF IInv, Types, ChanTypes, WireTypes, net, subs
<1>1. CASE \E m \in Msg : Send(m)
  BY <1>1 DEF Send, Enqueue, TakesIn, Usable, CallTypes
<1>2. CASE Write(g)
  <2>1. Head(chan[g]) \in Msg \cup {Beat}
    BY <1>2, Channels DEF Write
  <2>2. Len(wire[g]) >= 2
    BY <1>2 DEF Write, LoopsGreeted, Greeted
  <2>3. CASE Head(chan[g]) = Beat
    BY <1>2, <2>3 DEF Write, Forgets
  <2>4. CASE Head(chan[g]) # Beat
    BY <1>2, <2>2, <2>4 DEF Write, PassesOn
  <2> QED BY <2>3, <2>4
<1>3. CASE WriteLost(g) \/ WriteFails(g) \/ Heartbeat(g)
  BY <1>3 DEF WriteLost, WriteFails, End, Heartbeat, Enqueue, Forgets
<1>4. CASE Subscribe \/ (\E m \in Msg : SendFails(m)) \/ Read(g)
  BY <1>4 DEF Subscribe, SendFails, Read, Forgets
<1>5. CASE ReadEnds(g) \/ HeartbeatEnds(g) \/ LinkBreaks(g)
  BY <1>5 DEF ReadEnds, HeartbeatEnds, LinkBreaks, End, Forgets
<1> QED BY <1>1, <1>2, <1>3, <1>4, <1>5 DEF Others, Writing, Reading, Beating

\* Where a message of a shortened or lengthened channel was before.
LEMMA TailPlaces ==
  ASSUME NEW S, NEW s \in Seq(S), s # <<>>
  PROVE  /\ Len(s) \in Nat /\ 1 \in 1..Len(s) /\ Head(s) = s[1]
         /\ \A k \in 1..Len(Tail(s)) : k + 1 \in 2..Len(s) /\ Tail(s)[k] = s[k + 1]
OBVIOUS

LEMMA AppendPlaces ==
  ASSUME NEW S, NEW s \in Seq(S), NEW m \in S
  PROVE  /\ Len(s) \in Nat /\ Len(Append(s, m)) = Len(s) + 1 /\ Append(s, m)[Len(s) + 1] = m
         /\ \A k \in 1..Len(s) : Append(s, m)[k] = s[k]
OBVIOUS

LEMMA OnceForgets ==
  ASSUME IInv, AtMostOnce, Forgets
  PROVE  AtMostOnce'
<1> DEFINE M == Msg \cup {Beat}
<1>1. \A g \in Gen : chan[g] \in Seq(M) /\ wire[g] \in Seq(Wire) /\ Len(wire[g]) \in Nat
  BY DEF IInv, Types, ChanTypes, WireTypes
<1>2. ASSUME NEW g \in Gen
      PROVE  \E d \in {0, 1} : \A j \in 1..Len(chan'[g]) :
               chan'[g][j] # Beat => j + d \in Pending(g) /\ chan'[g][j] = chan[g][j + d]
  <2>1. CASE chan'[g] = chan[g] \/ chan'[g] = <<>>
    <3>1. \A j \in 1..Len(chan'[g]) : j + 0 \in Pending(g) /\ chan'[g][j] = chan[g][j + 0]
      BY <1>1, <2>1 DEF Pending
    <3> QED BY <3>1
  <2>2. CASE chan[g] # <<>> /\ chan'[g] = Tail(chan[g])
    <3>1. \A j \in 1..Len(chan'[g]) : j + 1 \in 2..Len(chan[g]) /\ chan'[g][j] = chan[g][j + 1]
      BY <1>1, <2>2, TailPlaces
    <3> QED BY <3>1 DEF Pending
  <2>3. CASE chan'[g] = Append(chan[g], Beat)
    <3>1. \A j \in 1..Len(chan'[g]) : chan'[g][j] # Beat
            => j + 0 \in Pending(g) /\ chan'[g][j] = chan[g][j + 0]
      BY <1>1, <2>3, AppendPlaces DEF Pending
    <3> QED BY <3>1
  <2> QED BY <2>1, <2>2, <2>3 DEF Forgets
<1>3. PICK d \in [Gen -> {0, 1}] : \A g \in Gen : \A j \in 1..Len(chan'[g]) :
        chan'[g][j] # Beat => j + d[g] \in Pending(g) /\ chan'[g][j] = chan[g][j + d[g]]
  <2> DEFINE P(g, e) == \A j \in 1..Len(chan'[g]) :
               chan'[g][j] # Beat => j + e \in Pending(g) /\ chan'[g][j] = chan[g][j + e]
             f == [g \in Gen |-> CHOOSE e \in {0, 1} : P(g, e)]
  <2>1. \A g \in Gen : f[g] \in {0, 1} /\ P(g, f[g])
    BY <1>2
  <2>2. f \in [Gen -> {0, 1}]
    BY <2>1
  <2> QED BY <2>1, <2>2
<1>4. \A g \in Gen : \A k \in 3..Len(wire'[g]) : k \in Delivered(g) /\ wire'[g][k] = wire[g][k]
  BY <1>1 DEF Forgets, Delivered
<1>5. ASSUME NEW g \in Gen, NEW h \in Gen, NEW j \in 1..Len(chan'[g]), chan'[g][j] # Beat
      PROVE  /\ chan'[g][j] \notin unsent'
             /\ \A k \in 1..Len(chan'[h]) : chan'[h][k] = chan'[g][j] => g = h /\ j = k
             /\ \A k \in 3..Len(wire'[h]) : wire'[h][k] # chan'[g][j]
  <2>1. j + d[g] \in Pending(g) /\ chan'[g][j] = chan[g][j + d[g]]
    BY <1>3, <1>5
  <2>2. chan'[g][j] \notin unsent'
    BY <1>5, <2>1 DEF AtMostOnce, Forgets
  <2>3. ASSUME NEW k \in 1..Len(chan'[h]), chan'[h][k] = chan'[g][j] PROVE g = h /\ j = k
    <3>1. k + d[h] \in Pending(h) /\ chan'[h][k] = chan[h][k + d[h]]
      BY <1>3, <1>5, <2>3
    <3>2. g = h /\ j + d[g] = k + d[h]
      <4> DEFINE a == j + d[g]
                 b == k + d[h]
      <4>1. a \in Pending(g) /\ b \in Pending(h) /\ chan[h][b] = chan[g][a] /\ chan[g][a] # Beat
        BY <1>5, <2>1, <2>3, <3>1
      <4> HIDE DEF a, b
      <4>2. g = h /\ a = b
        BY <4>1 DEF AtMostOnce
      <4> QED BY <4>2 DEF a, b
    <3>3. d[g] \in {0, 1} /\ d[h] \in {0, 1}
      BY <1>3
    <3> QED BY <3>2, <3>3
  <2>4. ASSUME NEW k \in 3..Len(wire'[h]) PROVE wire'[h][k] # chan'[g][j]
    BY <1>4, <1>5, <2>1 DEF AtMostOnce
  <2> QED BY <2>2, <2>3, <2>4
<1>6. ASSUME NEW g \in Gen, NEW h \in Gen, NEW j \in 3..Len(wire'[g])
      PROVE  /\ wire'[g][j] \in Msg \ unsent'
             /\ \A k \in 3..Len(wire'[h]) : wire'[h][k] = wire'[g][j] => g = h /\ j = k
  BY <1>4 DEF AtMostOnce, Forgets
<1> QED BY <1>5, <1>6 DEF AtMostOnce, Pending, Delivered

LEMMA OnceTakesIn ==
  ASSUME IInv, AtMostOnce, NEW i \in Gen, NEW m \in Msg, TakesIn(i, m)
  PROVE  AtMostOnce'
<1> DEFINE M == Msg \cup {Beat}
<1>0. m # Beat /\ m \in M /\ m \in unsent
  BY MsgAssumption DEF TakesIn
<1>1. \A g \in Gen : chan[g] \in Seq(M)
  BY DEF IInv, Types, ChanTypes
<1>2. /\ \A g \in Gen : g # i => chan'[g] = chan[g]
      /\ chan'[i] = Append(chan[i], m)
      /\ wire' = wire /\ unsent' = unsent \ {m}
  BY DEF TakesIn, IInv, Types, ChanTypes
<1>3. ASSUME NEW g \in Gen, NEW j \in 1..Len(chan'[g])
      PROVE  \/ j \in Pending(g) /\ chan'[g][j] = chan[g][j]
             \/ g = i /\ j = Len(chan[i]) + 1 /\ chan'[g][j] = m
  <2>1. CASE g # i
    BY <1>2, <2>1 DEF Pending
  <2>2. CASE g = i
    BY <1>0, <1>1, <1>2, <2>2, AppendPlaces DEF Pending
  <2> QED BY <2>1, <2>2
<1>4. \A g \in Gen : \A j \in Pending(g) : chan[g][j] # m
  BY <1>0 DEF AtMostOnce
<1>5. \A g \in Gen : \A j \in Delivered(g) : wire[g][j] # m
  BY <1>0 DEF AtMostOnce
<1>6. ASSUME NEW g \in Gen, NEW h \in Gen, NEW j \in 1..Len(chan'[g]), chan'[g][j] # Beat
      PROVE  /\ chan'[g][j] \notin unsent'
             /\ \A k \in 1..Len(chan'[h]) : chan'[h][k] = chan'[g][j] => g = h /\ j = k
             /\ \A k \in Delivered(h) : wire[h][k] # chan'[g][j]
  <2>1. CASE j \in Pending(g) /\ chan'[g][j] = chan[g][j]
    <3>1. ASSUME NEW k \in 1..Len(chan'[h]), chan'[h][k] = chan'[g][j] PROVE g = h /\ j = k
      BY <1>3, <1>4, <1>6, <2>1, <3>1 DEF AtMostOnce
    <3> QED BY <1>2, <1>6, <2>1, <3>1 DEF AtMostOnce
  <2>2. CASE g = i /\ j = Len(chan[i]) + 1 /\ chan'[g][j] = m
    <3>1. ASSUME NEW k \in 1..Len(chan'[h]), chan'[h][k] = m PROVE g = h /\ j = k
      BY <1>3, <1>4, <2>2, <3>1
    <3> QED BY <1>2, <1>5, <2>2, <3>1
  <2> QED BY <1>3, <2>1, <2>2
<1>7. ASSUME NEW g \in Gen, NEW h \in Gen, NEW j \in Delivered(g)
      PROVE  /\ wire[g][j] \in Msg \ unsent'
             /\ \A k \in Delivered(h) : wire[h][k] = wire[g][j] => g = h /\ j = k
  BY <1>2 DEF AtMostOnce
<1>8. \A g \in Gen : Delivered(g)' = Delivered(g) /\ Pending(g)' = 1..Len(chan'[g])
                     /\ wire'[g] = wire[g]
  BY <1>2 DEF Delivered, Pending
<1> QED BY <1>6, <1>7, <1>8 DEF AtMostOnce

LEMMA OncePassesOn ==
  ASSUME IInv, AtMostOnce, NEW i \in Gen, PassesOn(i)
  PROVE  AtMostOnce'
<1> DEFINE M == Msg \cup {Beat}
           m == Head(chan[i])
<1>1. \A g \in Gen : chan[g] \in Seq(M) /\ wire[g] \in Seq(Wire) /\ Len(wire[g]) \in Nat
  BY DEF IInv, Types, ChanTypes, WireTypes
<1>2. /\ \A g \in Gen : g # i => chan'[g] = chan[g] /\ wire'[g] = wire[g]
      /\ chan[i] # <<>> /\ chan'[i] = Tail(chan[i]) /\ wire'[i] = Append(wire[i], m)
      /\ Len(wire[i]) >= 2 /\ m # Beat /\ unsent' = unsent
  BY DEF PassesOn, IInv, Types, ChanTypes, WireTypes
<1>3. 1 \in Pending(i) /\ m = chan[i][1] /\ m \in Msg /\ m \in Wire
  <2>1. 1 \in 1..Len(chan[i]) /\ m = chan[i][1]
    BY <1>1, <1>2, TailPlaces
  <2>2. m \in M
    BY <1>1, <2>1, ElementOfSeq
  <2> QED BY <1>2, <2>1, <2>2 DEF Pending, Wire
<1> HIDE DEF m
<1>4. ASSUME NEW g \in Gen, NEW j \in 1..Len(chan'[g])
      PROVE  \/ g # i /\ j \in Pending(g) /\ chan'[g][j] = chan[g][j]
             \/ g = i /\ j + 1 \in Pending(g) /\ j + 1 # 1 /\ chan'[g][j] = chan[g][j + 1]
  <2>1. CASE g # i
    BY <1>2, <2>1 DEF Pending
  <2>2. CASE g = i
    <3>1. j \in 1..Len(Tail(chan[i]))
      BY <1>2, <2>2
    <3>2. j + 1 \in 2..Len(chan[i]) /\ Tail(chan[i])[j] = chan[i][j + 1]
      BY <1>1, <1>2, <3>1, TailPlaces
    <3>3. Len(chan[i]) \in Nat
      BY <1>1
    <3>4. j + 1 \in 1..Len(chan[i]) /\ j + 1 # 1
      BY <3>2, <3>3
    <3> QED BY <1>2, <2>2, <3>2, <3>4 DEF Pending
  <2> QED BY <2>1, <2>2
<1>5. ASSUME NEW g \in Gen, NEW j \in 3..Len(wire'[g])
      PROVE  \/ j \in Delivered(g) /\ wire'[g][j] = wire[g][j]
             \/ g = i /\ j = Len(wire[i]) + 1 /\ wire'[g][j] = m
  <2>1. CASE g # i
    BY <1>2, <2>1 DEF Delivered
  <2>2. CASE g = i
    <3>1. /\ Len(wire'[i]) = Len(wire[i]) + 1 /\ wire'[i][Len(wire[i]) + 1] = m
          /\ \A k \in 1..Len(wire[i]) : wire'[i][k] = wire[i][k]
      BY <1>1, <1>2, <1>3, AppendPlaces
    <3> QED BY <1>1, <2>2, <3>1 DEF Delivered
  <2> QED BY <2>1, <2>2
<1>6. /\ m \notin unsent
      /\ \A h \in Gen : \A k \in Pending(h) : chan[h][k] = m => h = i /\ k = 1
      /\ \A h \in Gen : \A k \in Delivered(h) : wire[h][k] # m
  BY <1>2, <1>3 DEF AtMostOnce
<1>7. ASSUME NEW g \in Gen, NEW j \in 1..Len(chan'[g]) PROVE chan'[g][j] # m
  BY <1>4, <1>6
<1>8. ASSUME NEW g \in Gen, NEW h \in Gen, NEW j \in 1..Len(chan'[g]), chan'[g][j] # Beat
      PROVE  /\ chan'[g][j] \notin unsent'
             /\ \A k \in 1..Len(chan'[h]) : chan'[h][k] = chan'[g][j] => g = h /\ j = k
             /\ \A k \in 3..Len(wire'[h]) : wire'[h][k] # chan'[g][j]
  <2>1. PICK p \in Pending(g) : /\ chan'[g][j] = chan[g][p]
                                /\ p = IF g = i THEN j + 1 ELSE j
    BY <1>4
  <2>2. chan'[g][j] \notin unsent'
    BY <1>2, <1>8, <2>1 DEF AtMostOnce
  <2>3. ASSUME NEW k \in 1..Len(chan'[h]), chan'[h][k] = chan'[g][j] PROVE g = h /\ j = k
    <3>1. PICK q \in Pending(h) : /\ chan'[h][k] = chan[h][q]
                                  /\ q = IF h = i THEN k + 1 ELSE k
      BY <1>4
    <3>2. g = h /\ p = q
      BY <1>8, <2>1, <2>3, <3>1 DEF AtMostOnce
    <3> QED BY <2>1, <3>1, <3>2
  <2>4. ASSUME NEW k \in 3..Len(wire'[h]) PROVE wire'[h][k] # chan'[g][j]
    <3>1. CASE k \in Delivered(h) /\ wire'[h][k] = wire[h][k]
      BY <1>8, <2>1, <3>1 DEF AtMostOnce
    <3>2. CASE wire'[h][k] = m
      BY <1>7, <3>2
    <3> QED BY <1>5, <3>1, <3>2
  <2> QED BY <2>2, <2>3, <2>4
<1>9. ASSUME NEW g \in Gen, NEW h \in Gen, NEW j \in 3..Len(wire'[g])
      PROVE  /\ wire'[g][j] \in Msg \ unsent'
             /\ \A k \in 3..Len(wire'[h]) : wire'[h][k] = wire'[g][j] => g = h /\ j = k
  <2>1. wire'[g][j] \in Msg \ unsent'
    BY <1>2, <1>3, <1>5, <1>6 DEF AtMostOnce
  <2>2. ASSUME NEW k \in 3..Len(wire'[h]), wire'[h][k] = wire'[g][j] PROVE g = h /\ j = k
    BY <1>5, <1>6, <2>2 DEF AtMostOnce
  <2> QED BY <2>1, <2>2
<1> QED BY <1>8, <1>9 DEF AtMostOnce, Pending, Delivered

\* A message that the program sends reaches no server twice, whatever breaks and
\* however often reconnect begins anew: what was in the channel of a broken link is
\* lost, never sent again.
THEOREM AtMostOnceCorrect == Spec => []AtMostOnce
<1>1. Init => AtMostOnce
  BY DEF Init, AtMostOnce, Pending, Delivered
<1>2. IInv /\ AtMostOnce /\ [Next]_vars => AtMostOnce'
  <2> SUFFICES ASSUME IInv, AtMostOnce, [Next]_vars PROVE AtMostOnce'
    OBVIOUS
  <2>1. CASE Calling \/ Attempt \/ Reconnect
    BY <2>1, CallerForgets, OnceForgets
  <2>2. ASSUME NEW g \in Gen, Others(g) PROVE AtMostOnce'
    BY <2>2, OthersMove, OnceForgets, OnceTakesIn, OncePassesOn
  <2>3. CASE Subscribe \/ \E m \in Msg : Send(m) \/ SendFails(m)
    <3>1. 1 \in Gen
      BY BoundAssumption DEF Gen
    <3> QED BY <2>2, <2>3, <3>1 DEF Others
  <2>4. CASE UNCHANGED vars
    BY <2>4 DEF vars, net, AtMostOnce, Pending, Delivered
  <2> QED BY <2>1, <2>2, <2>3, <2>4 DEF Next, Others
<1> QED BY <1>1, <1>2, Inductive, PTL DEF Spec

---------------------------------------------------------------------------
(* The end of a reconnection and of a link                                 *)

\* How many steps a call of reconnect still has: in each attempt that is left the
\* backoff, a connection and its greeting, and in the end the callback.
Stage(at) ==
  CASE at = "retry" -> 6 [] at = "backoff" -> 5 [] at = "open" -> 4
    [] at = "auth" -> 3 [] at = "register" -> 2 [] at = "spawn" -> 1
Retrying ==
  attempt > 0 /\ caller \in {"retry", "backoff", "open", "auth", "register", "spawn"}
StepsLeft == IF Retrying THEN 6 * (MaxAttempts + 1 - attempt) + Stage(caller) ELSE 0

\* A call of reconnect has so many steps and no more, whichever attempts fail at
\* whichever step, and MaxGen has a generation for each of its attempts.
ReconnectBounded ==
  /\ StepsLeft \in 0..(6 * (MaxAttempts + 1))
  /\ caller = "backoff" => gen < MaxGen

\* Each step of reconnect uses up one, and after the last there is a connection or
\* the callback was called; no other task holds it up or sets it back.
ReconnectShortens ==
  [][Retrying => \/ UNCHANGED call
                 \/ StepsLeft' < StepsLeft /\ (StepsLeft' = 0 => caller' \in {"ready", "failed"})]_vars

\* A link that is down stays down, and loops that run are never started again: what
\* reconnect builds is a new generation, and the old one can only end.
EndsOnce ==
  [][\A g \in Gen : /\ link[g] = "down" => link'[g] = "down"
                    /\ loops[g] # {} \/ g < gen => loops'[g] \subseteq loops[g]]_vars

LinkFresh ==
  /\ \A g \in Gen : g > gen => link[g] = "none"
  /\ caller = "open" => link[gen] = "none"

Room ==
  /\ caller = "none" => attempt = 0
  /\ caller \in {"retry", "backoff"} => attempt > 0 /\ gen + (MaxAttempts + 1 - attempt) <= MaxGen
  /\ caller \in {"open", "auth", "register", "spawn"} =>
       attempt <= MaxAttempts /\ (attempt > 0 => gen + (MaxAttempts - attempt) <= MaxGen)

RoomInv == IInv /\ LinkFresh /\ Room

LEMMA RoomInit == Init => RoomInv
BY Init1, BoundAssumption DEF Init, RoomInv, LinkFresh, Room, Gen

LEMMA CallerRoom ==
  ASSUME RoomInv, Calling \/ Attempt \/ Reconnect
  PROVE  LinkFresh' /\ Room'
<1> USE BoundAssumption DEF RoomInv, IInv, Types, CallTypes, RestTypes, Gen, LinkFresh, Room
<1>1. CASE Connect
  BY <1>1 DEF Connect, net, Unspawned
<1>2. CASE Open \/ Spawn
  BY <1>2 DEF Open, Spawn
<1>3. CASE Authenticate \/ Register
  BY <1>3 DEF Authenticate, Register, Greet
<1>4. CASE InitFails
  BY <1>4 DEF InitFails, Awaiting
<1>5. CASE Reconnect
  BY <1>5 DEF Reconnect, net
<1>6. CASE Retry \/ GiveUp
  BY <1>6 DEF Retry, GiveUp, net
<1>7. CASE Wake
  BY <1>7 DEF Wake, net, Counted
<1> QED BY <1>1, <1>2, <1>3, <1>4, <1>5, <1>6, <1>7 DEF Calling, Attempt

LEMMA LinkStep ==
  ASSUME IInv, NEW g \in Gen, Others(g)
  PROVE  \A h \in Gen : link'[h] = link[h] \/ (link[h] = "up" /\ link'[h] = "down")
<1>1. LinkBreaks(g) \/ UNCHANGED link
  <2>1. CASE Subscribe \/ \E m \in Msg : Send(m) \/ SendFails(m)
    BY <2>1 DEF Subscribe, Send, SendFails, Enqueue, net
  <2>2. CASE Writing(g) \/ Beating(g)
    BY <2>2 DEF Writing, Write, WriteLost, WriteFails, Beating, Heartbeat, Enqueue, HeartbeatEnds
  <2>3. CASE Reading(g)
    BY <2>3 DEF Reading, Read, ReadEnds, net
  <2> QED BY <2>1, <2>2, <2>3 DEF Others
<1>2. CASE LinkBreaks(g)
  BY <1>2 DEF LinkBreaks, IInv, Types, RestTypes
<1> QED BY <1>1, <1>2

\* A step of Next is one of connect or reconnect, or of the rest.
LEMMA StepOf ==
  ASSUME [Next]_vars
  PROVE  Calling \/ Attempt \/ Reconnect \/ (\E g \in Gen : Others(g)) \/ UNCHANGED vars
<1>1. 1 \in Gen
  BY BoundAssumption DEF Gen
<1> QED BY <1>1 DEF Next, Others

LEMMA RoomStep == RoomInv /\ [Next]_vars => RoomInv'
<1> SUFFICES ASSUME RoomInv, [Next]_vars PROVE RoomInv'
  OBVIOUS
<1>1. CASE Calling \/ Attempt \/ Reconnect
  BY <1>1, CallerTypes, CallerUnspawned, CallerCounted, CallerRoom DEF RoomInv, IInv
<1>2. ASSUME NEW g \in Gen, Others(g) PROVE RoomInv'
  <2>1. IInv' /\ UNCHANGED call
    BY <1>2, OthersStep, OthersFrame DEF RoomInv
  <2>2. LinkFresh'
    BY <1>2, <2>1, LinkStep DEF RoomInv, LinkFresh, call, IInv, Types, CallTypes
  <2> QED BY <2>1, <2>2 DEF RoomInv, Room, call
<1>3. CASE UNCHANGED vars
  BY <1>3 DEF vars, call, net, subs, RoomInv, LinkFresh, Room, IInv, Types, CallTypes, ChanTypes,
              WireTypes, RestTypes, Unspawned, LoopsGreeted, Counted
<1> QED BY <1>1, <1>2, <1>3, StepOf

LEMMA RoomInductive == Spec => []RoomInv
BY RoomInit, RoomStep, PTL DEF Spec

\* reconnect has an end in sight, and the model's bound is not what ends it.
THEOREM ReconnectBoundedCorrect == Spec => []ReconnectBounded
<1>1. ASSUME RoomInv PROVE ReconnectBounded
  <2>1. /\ attempt \in 0..(MaxAttempts + 1) /\ MaxAttempts \in Nat /\ gen \in 0..MaxGen
        /\ MaxGen \in Nat
    BY <1>1, BoundAssumption DEF RoomInv, IInv, Types, CallTypes
  <2>2. caller = "backoff" => gen < MaxGen
    BY <1>1, <2>1 DEF RoomInv, IInv, Room, Counted
  <2>3. Retrying => Stage(caller) \in 1..6
    BY DEF Retrying, Stage
  <2>4. Retrying => StepsLeft \in 0..(6 * (MaxAttempts + 1))
    <3> SUFFICES ASSUME Retrying PROVE StepsLeft \in 0..(6 * (MaxAttempts + 1))
      OBVIOUS
    <3>1. StepsLeft = 6 * (MaxAttempts + 1 - attempt) + Stage(caller) /\ attempt >= 1
      BY <2>1 DEF StepsLeft, Retrying
    <3> QED BY <2>1, <2>3, <3>1
  <2>5. ~Retrying => StepsLeft \in 0..(6 * (MaxAttempts + 1))
    BY <2>1 DEF StepsLeft
  <2> QED BY <2>2, <2>4, <2>5 DEF ReconnectBounded
<1> QED BY <1>1, RoomInductive, PTL

LEMMA CallerShortens ==
  ASSUME RoomInv, Retrying, Calling \/ Attempt \/ Reconnect
  PROVE  StepsLeft' < StepsLeft /\ (StepsLeft' = 0 => caller' \in {"ready", "failed"})
<1>1. /\ attempt \in 1..(MaxAttempts + 1) /\ MaxAttempts \in Nat
      /\ StepsLeft = 6 * (MaxAttempts + 1 - attempt) + Stage(caller)
  BY BoundAssumption DEF RoomInv, IInv, Types, CallTypes, Retrying, StepsLeft
<1>2. CASE Open \/ Authenticate \/ Register \/ Retry \/ Wake
  <2>1. attempt' = attempt /\ Retrying' /\ Stage(caller') < Stage(caller)
        /\ Stage(caller) \in 1..6 /\ Stage(caller') \in 1..6
    BY <1>1, <1>2 DEF Open, Authenticate, Register, Greet, Retry, Wake, Retrying, Stage
  <2>2. StepsLeft' = 6 * (MaxAttempts + 1 - attempt) + Stage(caller')
    BY <2>1 DEF StepsLeft
  <2> QED BY <1>1, <2>1, <2>2
<1>3. CASE InitFails
  <2>1. attempt' = attempt + 1 /\ Retrying' /\ Stage(caller') = 6
        /\ Stage(caller) \in 1..6 /\ attempt <= MaxAttempts
    BY <1>1, <1>3 DEF InitFails, Awaiting, Retrying, Stage, RoomInv, Room
  <2>2. StepsLeft' = 6 * (MaxAttempts + 1 - (attempt + 1)) + 6
    BY <2>1 DEF StepsLeft
  <2>3. Stage(caller) > 1
    BY <1>3 DEF InitFails, Awaiting, Stage
  <2> QED BY <1>1, <2>1, <2>2, <2>3
<1>4. CASE Spawn \/ GiveUp
  <2>1. StepsLeft' = 0 /\ Stage(caller) \in 1..6 /\ caller' \in {"ready", "failed"}
    BY <1>4 DEF Spawn, GiveUp, StepsLeft, Retrying, Stage
  <2> QED BY <1>1, <2>1
<1>5. ~Connect /\ ~Reconnect
  BY DEF Connect, Reconnect, Retrying
<1> QED BY <1>2, <1>3, <1>4, <1>5 DEF Calling, Attempt

\* The safety half of ReconnectEnds: no failure of an attempt sets reconnect back.
THEOREM ReconnectShortensCorrect == Spec => ReconnectShortens
<1>1. RoomInv /\ [Next]_vars
        => [Retrying => \/ UNCHANGED call
                        \/ StepsLeft' < StepsLeft
                           /\ (StepsLeft' = 0 => caller' \in {"ready", "failed"})]_vars
  BY StepOf, CallerShortens, OthersFrame DEF RoomInv, vars
<1> QED BY <1>1, RoomInductive, PTL DEF Spec, ReconnectShortens

LEMMA CallerEnds ==
  ASSUME RoomInv, Calling \/ Attempt \/ Reconnect, NEW g \in Gen
  PROVE  /\ link[g] = "down" => link'[g] = "down"
         /\ loops[g] # {} \/ g < gen => loops'[g] \subseteq loops[g]
<1> USE DEF RoomInv, IInv, Types, CallTypes, RestTypes, Gen
<1>1. CASE Open
  BY <1>1 DEF Open, LinkFresh
<1>2. CASE Spawn
  BY <1>2 DEF Spawn, Unspawned
<1>3. CASE Connect \/ Authenticate \/ Register \/ InitFails \/ Retry \/ Wake \/ GiveUp \/ Reconnect
  BY <1>3 DEF Connect, Authenticate, Register, Greet, InitFails, Retry, Wake, GiveUp, Reconnect, net
<1> QED BY <1>1, <1>2, <1>3 DEF Calling, Attempt

\* The safety half of LoopsEnd: nothing revives a link or its loops.
THEOREM EndsOnceCorrect == Spec => EndsOnce
<1>1. RoomInv /\ [Next]_vars
        => [\A g \in Gen : /\ link[g] = "down" => link'[g] = "down"
                           /\ loops[g] # {} \/ g < gen => loops'[g] \subseteq loops[g]]_vars
  <2> SUFFICES ASSUME RoomInv, [Next]_vars, NEW g \in Gen
               PROVE  \/ UNCHANGED vars
                      \/ /\ link[g] = "down" => link'[g] = "down"
                         /\ loops[g] # {} \/ g < gen => loops'[g] \subseteq loops[g]
    OBVIOUS
  <2>1. ASSUME NEW h \in Gen, Others(h)
        PROVE  (link[g] = "down" => link'[g] = "down") /\ loops'[g] \subseteq loops[g]
    BY <2>1, LinkStep, OthersFrame DEF RoomInv
  <2> QED BY <2>1, CallerEnds, StepOf
<1> QED BY <1>1, RoomInductive, PTL DEF Spec, EndsOnce
=============================================================================
