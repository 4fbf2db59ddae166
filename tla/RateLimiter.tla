---------------------------- MODULE RateLimiter ----------------------------
(***************************************************************************)
(* RateLimiter (http_server.rs): at most MaxRequests requests of an IP in  *)
(* any Window seconds.  A recorded instant is kept as its age, up to       *)
(* Window, at which it counts no more: time goes on for ever in finitely   *)
(* many states.                                                            *)
(***************************************************************************)
EXTENDS Naturals, Sequences

CONSTANTS Ip, Window, MaxRequests

VARIABLES
  requests,  \* HashMap<IpAddr, Vec<Instant>>, with ages for instants
  admitted   \* history: the ages of the last MaxRequests + 1 requests of each
             \* IP that were let through, oldest first; Window: none so late

\* retain: what is kept of the first k of the ages s.
\* Mutant: a record expires one unit of time early.
FreshShort(s) ==
  LET kept[k \in 0..Len(s)] ==
        IF k = 0 THEN <<>>
        ELSE IF s[k] + 1 < Window THEN Append(kept[k - 1], s[k]) ELSE kept[k - 1]
  IN kept[Len(s)]

Fresh(s) ==
  LET kept[k \in 0..Len(s)] ==
        IF k = 0 THEN <<>>
        ELSE IF s[k] < Window THEN Append(kept[k - 1], s[k]) ELSE kept[k - 1]
  IN kept[Len(s)]

Older(s) == [k \in DOMAIN s |-> IF s[k] < Window THEN s[k] + 1 ELSE Window]

Recorded(ip) == IF ip \in DOMAIN requests THEN Fresh(requests[ip]) ELSE <<>>

Record(ip, s) ==
  requests' = [i \in DOMAIN requests \cup {ip} |-> IF i = ip THEN s ELSE requests[i]]

Admit(ip) ==
  /\ Len(Recorded(ip)) < MaxRequests
  /\ Record(ip, Append(Recorded(ip), 0))
  /\ admitted' = [admitted EXCEPT ![ip] = Append(Tail(@), 0)]

Refuse(ip) ==
  /\ Len(Recorded(ip)) >= MaxRequests
  /\ Record(ip, Recorded(ip))
  /\ UNCHANGED admitted

\* Mutant: the entry of an IP stays when its last record is gone.
CleanupKeepsIp ==
  /\ requests' = [ip \in DOMAIN requests |-> Fresh(requests[ip])]
  /\ UNCHANGED admitted

Cleanup ==
  /\ requests' = [ip \in {i \in DOMAIN requests : Fresh(requests[i]) # <<>>} |->
                    Fresh(requests[ip])]
  /\ UNCHANGED admitted

Tick ==
  /\ requests' = [ip \in DOMAIN requests |-> Older(requests[ip])]
  /\ admitted' = [ip \in Ip |-> Older(admitted[ip])]

Init ==
  /\ requests = [ip \in {} |-> <<>>]
  /\ admitted = [ip \in Ip |-> [k \in 1..(MaxRequests + 1) |-> Window]]

---------------------------------------------------------------------------
\* No window contains more than MaxRequests admitted requests of one IP: of the
\* last MaxRequests + 1, the oldest is a window ago.  And only they count: an
\* expired record refuses nobody and a fresh one is never forgotten, however
\* requests and cleanups alternate (is_allowed, cleanup).
RateBound ==
  \A ip \in Ip : /\ admitted[ip][1] = Window
                 /\ Recorded(ip) = Fresh(admitted[ip])

\* Nothing was let through for this IP for a window.
Quiet(ip) == admitted[ip][MaxRequests + 1] = Window
=============================================================================
