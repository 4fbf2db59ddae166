-------------------------- MODULE FileServerProofs --------------------------
(***************************************************************************)
(* While FileServer sends a file, the file stays registered for the task   *)
(* it was asked for: for any number of connections, tasks and files, and   *)
(* whatever the limiter does.  The invariant adds to ServedIsRegistered    *)
(* that a connection that serves holds the lock, which is what keeps Write *)
(* from running.  And a header announces a range of the file that was asked*)
(* for, also where u64 wraps around.  And the limiter keeps its bound: its *)
(* invariant says that the last requests let through are kept oldest first,*)
(* and that retain finds the same of them fresh as of the table; what      *)
(* retain does is proved by induction over the table.  And the lock of the *)
(* shared files: no guard is left behind, so that someone can always go on.*)
(***************************************************************************)
EXTENDS FileServer, SequenceTheorems, FiniteSetTheorems, WellFoundedInduction, TLAPS

Steps == {"closed", "accepted", "refusing", "reading", "answering", "waiting", "header", "body"}
Serving(c) == pc[c] \in {"header", "body"}

Types == /\ pc \in [Conn -> Steps]
         /\ req \in [Conn -> Request]
         /\ path = [c \in Conn |-> path[c]]

ServingHoldsLock == \A c \in Conn : Serving(c) => c \in readers

IInv == Types /\ ServingHoldsLock /\ ServedIsRegistered

---------------------------------------------------------------------------
LEMMA InitIInv == Init => IInv
BY DEF Init, IInv, Types, Steps, ServingHoldsLock, Serving, ServedIsRegistered,
       Request, Plain, Ranges

\* A step that starts no answer, leaves the table alone and takes the lock from
\* nobody who serves on, keeps the invariant.
LEMMA NoNewAnswer ==
  ASSUME IInv, Types', UNCHANGED files,
         \A c \in Conn : Serving(c)' =>
           /\ Serving(c) /\ (c \in readers => c \in readers')
           /\ req'[c] = req[c] /\ path'[c] = path[c]
  PROVE  IInv'
<1>1. ServingHoldsLock'
  BY DEF IInv, ServingHoldsLock
<1>2. ServedIsRegistered'
  BY DEF IInv, ServedIsRegistered, Serving
<1> QED BY <1>1, <1>2 DEF IInv

LEMMA StepIInv == IInv /\ [Next]_vars => IInv'
<1> SUFFICES ASSUME IInv, [Next]_vars PROVE IInv'
  OBVIOUS
<1> USE DEF IInv, Types, Steps
<1>1. CASE UNCHANGED vars
  BY <1>1, NoNewAnswer DEF vars, lock, client, Serving
<1>2. ASSUME NEW c \in Conn, NEW ip \in Ip, NEW r \in Request, Accept(c, ip, r)
      PROVE  IInv'
  BY <1>2, NoNewAnswer DEF Accept, lock, Serving
<1>3. ASSUME NEW c \in Conn, Admit(c) PROVE IInv'
  BY <1>3, NoNewAnswer DEF Admit, lock, client, Serving
<1>4. ASSUME NEW c \in Conn,
             Refuse(c) \/ Forbidden(c) \/ NotAFile(c) \/ NotRegistered(c) \/ Answered(c)
      PROVE  IInv'
  BY <1>4, NoNewAnswer DEF Refuse, Forbidden, NotAFile, NotRegistered, Answered, Close,
        AnswerThen, lock, client, Serving
<1>5. ASSUME NEW c \in Conn, AskForLock(c) PROVE IInv'
  BY <1>5, NoNewAnswer DEF AskForLock, client, Serving
<1>6. ASSUME NEW c \in Conn, Found(c) PROVE IInv'
  <2>1. Types'
    BY <1>6 DEF Found, client
  <2>2. ServingHoldsLock'
    BY <1>6 DEF Found, ServingHoldsLock, Serving
  <2>3. ServedIsRegistered'
    BY <1>6 DEF Found, ServedIsRegistered, client
  <2> QED BY <2>1, <2>2, <2>3
<1>7. ASSUME NEW c \in Conn, SendHeader(c) PROVE IInv'
  BY <1>7, NoNewAnswer DEF SendHeader, Close, AnswerThen, client, Serving
<1>8. ASSUME NEW c \in Conn, SendBody(c) \/ GiveUp(c) PROVE IInv'
  BY <1>8, NoNewAnswer DEF SendBody, GiveUp, Close, AnswerThen, client, Serving
<1>9. ASSUME NEW t \in Task, NEW p \in Path \cup {NoPath}, AskToWrite(t, p) PROVE IInv'
  BY <1>9, NoNewAnswer DEF AskToWrite, client, Serving
<1>10. CASE Write
  <2>1. \A c \in Conn : ~Serving(c)
    BY <1>10 DEF Write, ServingHoldsLock
  <2> QED BY <1>10, <2>1 DEF Write, client, Serving, ServingHoldsLock, ServedIsRegistered
<1>11. CASE TimePasses \/ CleansUp
  BY <1>11, NoNewAnswer DEF TimePasses, CleansUp, lock, client, Serving
<1> QED
  BY <1>1, <1>2, <1>3, <1>4, <1>5, <1>6, <1>7, <1>8, <1>9, <1>10, <1>11
     DEF Next, ClientEnds, Serve, Register, Unregister

\* ServedIsRegistered: no request is served a file that has been unregistered or
\* replaced, with any number of connections (handle_request keeps the read guard
\* until serve_file returns).
THEOREM ServedIsRegisteredCorrect == Spec => []ServedIsRegistered
<1>1. IInv => ServedIsRegistered
  BY DEF IInv
<1> QED BY <1>1, InitIInv, StepIInv, PTL DEF Spec

---------------------------------------------------------------------------
(* The header                                                              *)

Reply == [status: Nat, first: Nat, last: Int, body: SUBSET Int]

\* HeaderFits, for one request and its answer.
Fits(r, a) ==
  /\ a.status = 206 =>
       /\ a.first = r.start
       /\ a.last \in r.start..(FileLen - 1)
       /\ r.end # Open => a.last <= r.end
  /\ a.status = 200 => r = NoRange \/ (r.end # Open /\ r.start > r.end)

HeaderInv == /\ req \in [Conn -> Request]
             /\ reply \in [Conn -> Reply]
             /\ \A c \in Conn : Fits(req[c].range, reply[c])

\* What serve_file answers fits the request (parse_range, serve_file): neither
\* the wrapped size nor an open end lets a start or an end out of the file.
LEMMA AnswerFits ==
  ASSUME NEW r \in Ranges
  PROVE  LET p == parse_range(r)
             a == IF p = NoRange THEN Answer(200, 0, FileLen - 1)
                                 ELSE Answer(206, p.start, LastByte(p))
         IN  p = NoRange \/ ~Unsatisfiable(p) => a \in Reply /\ Fits(r, a)
<1> DEFINE p == parse_range(r)
<1>1. CASE p = NoRange
  BY <1>1, LenAssumption DEF parse_range, Answer, Reply, Fits
<1>2. CASE p # NoRange /\ ~Unsatisfiable(p)
  <2>1. p = r /\ r \in [start: U64, end: U64 \cup {Open}]
    BY <1>2 DEF parse_range, Ranges
  <2>2. r.start \in Nat /\ r.start < FileLen /\ r.start <= EndOf(r) /\ EndOf(r) \in Int
    BY <1>2, <2>1, LenAssumption DEF Unsatisfiable, EndOf, U64
  <2>3. LastByte(r) \in r.start..(FileLen - 1) /\ LastByte(r) <= EndOf(r)
    BY <2>2, LenAssumption DEF LastByte
  <2> QED BY <1>2, <2>1, <2>2, <2>3, LenAssumption DEF Answer, Reply, Fits, EndOf
<1> QED BY <1>1, <1>2

LEMMA OtherAnswers ==
  /\ \A n \in {0, 403, 404, 416, 429}, r \in Ranges : Empty(n) \in Reply /\ Fits(r, Empty(n))
  /\ \A a \in Reply, r \in Ranges :
       /\ [a EXCEPT !.body = Whole] \in Reply
       /\ Fits(r, a) => Fits(r, [a EXCEPT !.body = Whole])
BY LenAssumption DEF Empty, Answer, Reply, Fits, Whole

\* A step that changes the reply of one connection at most.
LEMMA OneReply ==
  ASSUME HeaderInv, NEW c \in Conn, UNCHANGED req,
         NEW a \in Reply, Fits(req[c].range, a), reply' = [reply EXCEPT ![c] = a]
  PROVE  HeaderInv'
BY DEF HeaderInv

LEMMA StepHeader == HeaderInv /\ [Next]_vars => HeaderInv'
<1> SUFFICES ASSUME HeaderInv, [Next]_vars PROVE HeaderInv'
  OBVIOUS
<1>0. \A c \in Conn : req[c].range \in Ranges /\ reply[c] \in Reply /\ Fits(req[c].range, reply[c])
  BY DEF HeaderInv, Request
<1>1. CASE UNCHANGED <<req, reply>>
  BY <1>1 DEF HeaderInv
<1>2. ASSUME NEW c \in Conn, NEW ip \in Ip, NEW r \in Request, Accept(c, ip, r)
      PROVE  HeaderInv'
  <2>1. r.range \in Ranges
    BY DEF Request
  <2> QED BY <1>2, <2>1, OtherAnswers DEF Accept, HeaderInv, NoReply
<1>3. ASSUME NEW c \in Conn, Refuse(c) \/ Forbidden(c) \/ NotAFile(c) \/ NotRegistered(c)
      PROVE  HeaderInv'
  <2>1. PICK n \in {0, 403, 404, 416, 429} :
          UNCHANGED req /\ reply' = [reply EXCEPT ![c] = Empty(n)]
    BY <1>3 DEF Refuse, Forbidden, NotAFile, NotRegistered, AnswerThen, client
  <2> DEFINE a == Empty(n)
  <2>2. UNCHANGED req /\ reply' = [reply EXCEPT ![c] = a]
    BY <2>1
  <2>3. a \in Reply /\ Fits(req[c].range, a)
    BY <1>0, OtherAnswers
  <2> HIDE DEF a
  <2> QED BY <2>2, <2>3, OneReply
<1>4. ASSUME NEW c \in Conn, SendHeader(c) PROVE HeaderInv'
  <2> DEFINE p == parse_range(req[c].range)
             a == IF p = NoRange THEN Answer(200, 0, FileLen - 1)
                                 ELSE Answer(206, p.start, LastByte(p))
  <2>1. CASE p # NoRange /\ Unsatisfiable(p)
    <3> DEFINE e == Empty(416)
    <3>1. UNCHANGED req /\ reply' = [reply EXCEPT ![c] = e]
      BY <1>4, <2>1 DEF SendHeader, Close, AnswerThen, client
    <3>2. e \in Reply /\ Fits(req[c].range, e)
      BY <1>0, OtherAnswers
    <3> HIDE DEF e
    <3> QED BY <3>1, <3>2, OneReply
  <2>2. CASE ~(p # NoRange /\ Unsatisfiable(p))
    <3>1. UNCHANGED req /\ reply' = [reply EXCEPT ![c] = a]
      BY <1>4, <2>2 DEF SendHeader, client
    <3>2. req[c].range \in Ranges
      BY <1>0
    <3>3. a \in Reply /\ Fits(req[c].range, a)
      BY <2>2, <3>2, AnswerFits
    <3> HIDE DEF a
    <3> QED BY <3>1, <3>3, OneReply
  <2> QED BY <2>1, <2>2
<1>5. ASSUME NEW c \in Conn, SendBody(c) PROVE HeaderInv'
  <2> DEFINE a == [reply[c] EXCEPT !.body = Whole]
  <2>1. UNCHANGED req /\ reply' = [reply EXCEPT ![c] = a]
    BY <1>5 DEF SendBody, Close, AnswerThen, client
  <2>2. a \in Reply /\ Fits(req[c].range, a)
    BY <1>0, OtherAnswers
  <2> HIDE DEF a
  <2> QED BY <2>1, <2>2, OneReply
<1>6. ASSUME NEW c \in Conn, GiveUp(c) \/ Answered(c) PROVE HeaderInv'
  <2>1. UNCHANGED req /\ reply' = [reply EXCEPT ![c] = reply[c]]
    BY <1>6 DEF GiveUp, Answered, Close, AnswerThen, client
  <2> QED BY <1>0, <2>1, OneReply
<1>7. ASSUME NEW c \in Conn, Admit(c) \/ AskForLock(c) \/ Found(c) PROVE UNCHANGED <<req, reply>>
  BY <1>7 DEF Admit, AskForLock, Found, client
<1>8. ASSUME \/ \E t \in Task : Unregister(t) \/ \E p \in Path : Register(t, p)
             \/ Write \/ TimePasses \/ CleansUp \/ UNCHANGED vars
      PROVE  UNCHANGED <<req, reply>>
  BY <1>8 DEF Unregister, Register, AskToWrite, Write, TimePasses, CleansUp, vars, client
<1> QED BY <1>1, <1>2, <1>3, <1>4, <1>5, <1>6, <1>7, <1>8 DEF Next, ClientEnds, Serve

\* HeaderFits: for any length of the file, any limit and any width of integers, a
\* 206 answer announces a range of the file that was asked for, and the whole
\* file is announced to nobody who asked for a part of it (serve_file).
THEOREM HeaderFitsCorrect == Spec => []HeaderFits
<1>1. Init => HeaderInv
  BY OtherAnswers DEF Init, HeaderInv, Request, Plain, Ranges, NoReply
<1>2. HeaderInv => HeaderFits
  BY DEF HeaderInv, Fits, HeaderFits
<1> QED BY <1>1, <1>2, StepHeader, PTL DEF Spec

---------------------------------------------------------------------------
(* The limiter: induction                                                  *)

\* Induction over numbers and over sequences, for sets instead of operators.
LEMMA Induction ==
  ASSUME NEW G, 0 \in G, \A n \in Nat : n \in G => n + 1 \in G
  PROVE  Nat \subseteq G
<1> SUFFICES ASSUME Nat \ G # {} PROVE FALSE
  OBVIOUS
<1>1. PICK n \in Nat \ G : \A k \in Nat \ G : ~ (<<k, n>> \in OpToRel(<, Nat))
  BY NatLessThanWellFounded, WFMin
<1>2. \A j, k \in Nat : j < k => <<j, k>> \in OpToRel(<, Nat)
  BY DEF OpToRel
<1>3. n \in Nat /\ n \notin G /\ \A k \in Nat \ G : ~ (k < n)
  BY <1>1, <1>2
<1>4. n # 0 /\ n - 1 \in Nat /\ n - 1 < n /\ (n - 1) + 1 = n
  BY <1>3
<1>5. n - 1 \in G
  BY <1>3, <1>4
<1> QED BY <1>3, <1>4, <1>5

LEMMA SequenceInduction ==
  ASSUME NEW S, NEW G, <<>> \in G,
         \A s \in Seq(S), a \in S : s \in G => Append(s, a) \in G
  PROVE  Seq(S) \subseteq G
<1> DEFINE N == {n \in Nat : \A s \in Seq(S) : Len(s) = n => s \in G}
<1>1. 0 \in N
  <2>1. \A s \in Seq(S) : Len(s) = 0 => s = <<>>
    BY EmptySeq
  <2> QED BY <2>1
<1>2. ASSUME NEW n \in Nat, n \in N PROVE n + 1 \in N
  <2> SUFFICES ASSUME NEW s \in Seq(S), Len(s) = n + 1 PROVE s \in G
    OBVIOUS
  <2>1. s # <<>>
    BY EmptySeq
  <2>2. PICK t \in Seq(S), a \in S : s = Append(t, a)
    BY <2>1, SequenceEmptyOrAppend
  <2>3. Len(t) \in Nat /\ Len(s) = Len(t) + 1
    BY <2>2, AppendProperties, LenProperties
  <2>4. t \in G
    BY <1>2, <2>3
  <2> QED BY <2>2, <2>4
<1> HIDE DEF N
<1>3. Nat \subseteq N
  BY <1>1, <1>2, Induction
<1> QED BY <1>3, LenProperties DEF N

---------------------------------------------------------------------------
(* Fresh is what its recursion says.                                       *)

Ages  == Seq(0..Window)
Young == Seq(0..(Window - 1))

\* What retain has kept after each of the first n records.
Keeps(f, s, n) ==
  f = [k \in 0..n |->
         IF k = 0 THEN <<>>
         ELSE IF s[k] < Window THEN Append(f[k - 1], s[k]) ELSE f[k - 1]]

LEMMA KeepsAt ==
  ASSUME NEW f, NEW s, NEW n \in Nat, Keeps(f, s, n)
  PROVE  \A k \in 0..n :
           f[k] = IF k = 0 THEN <<>>
                  ELSE IF s[k] < Window THEN Append(f[k - 1], s[k]) ELSE f[k - 1]
<1> DEFINE h == [k \in 0..n |->
                   IF k = 0 THEN <<>>
                   ELSE IF s[k] < Window THEN Append(f[k - 1], s[k]) ELSE f[k - 1]]
<1>1. f = h
  BY DEF Keeps
<1>2. \A k \in 0..n :
        h[k] = IF k = 0 THEN <<>>
               ELSE IF s[k] < Window THEN Append(f[k - 1], s[k]) ELSE f[k - 1]
  OBVIOUS
<1> HIDE DEF h
<1> QED BY <1>1, <1>2

LEMMA KeepsExists ==
  ASSUME NEW s, NEW n \in Nat
  PROVE  \E f : Keeps(f, s, n)
<1> DEFINE G == {m \in Nat : \E f : Keeps(f, s, m)}
<1>1. 0 \in G
  <2> DEFINE f == [k \in 0..0 |-> <<>>]
  <2>1. Keeps(f, s, 0)
    BY DEF Keeps
  <2> QED BY <2>1
<1>2. ASSUME NEW m \in Nat, m \in G PROVE m + 1 \in G
  <2>1. PICK f : Keeps(f, s, m)
    BY <1>2
  <2> DEFINE g == [k \in 0..(m + 1) |->
                     IF k <= m THEN f[k]
                     ELSE IF s[k] < Window THEN Append(f[k - 1], s[k]) ELSE f[k - 1]]
  <2>2. \A k \in 0..(m + 1) : g[k] =
          IF k = 0 THEN <<>>
          ELSE IF s[k] < Window THEN Append(g[k - 1], s[k]) ELSE g[k - 1]
    <3> SUFFICES ASSUME NEW k \in 0..(m + 1)
                 PROVE  g[k] = IF k = 0 THEN <<>>
                               ELSE IF s[k] < Window THEN Append(g[k - 1], s[k]) ELSE g[k - 1]
      OBVIOUS
    <3>0. \A j \in 0..m : g[j] = f[j]
      OBVIOUS
    <3>1. \A j \in 0..m :
            f[j] = IF j = 0 THEN <<>>
                   ELSE IF s[j] < Window THEN Append(f[j - 1], s[j]) ELSE f[j - 1]
      BY <2>1, KeepsAt
    <3>4. g[m + 1] = IF s[m + 1] < Window THEN Append(f[(m + 1) - 1], s[m + 1]) ELSE f[(m + 1) - 1]
      OBVIOUS
    <3> HIDE DEF g
    <3>2. CASE k <= m
      <4>1. CASE k = 0
        BY <3>0, <3>1, <4>1
      <4>2. CASE k # 0
        <5>1. k \in 0..m /\ k - 1 \in 0..m
          BY <3>2, <4>2
        <5> QED BY <3>0, <3>1, <4>2, <5>1
      <4> QED BY <4>1, <4>2
    <3>3. CASE k = m + 1
      <4>1. k # 0 /\ k - 1 \in 0..m
        BY <3>3
      <4> QED BY <3>0, <3>3, <3>4, <4>1
    <3> QED BY <3>2, <3>3
  <2>3. g = [k \in 0..(m + 1) |-> g[k]]
    OBVIOUS
  <2> HIDE DEF g
  <2>4. Keeps(g, s, m + 1)
    BY <2>2, <2>3 DEF Keeps
  <2> QED BY <2>4
<1> HIDE DEF G
<1>3. Nat \subseteq G
  BY <1>1, <1>2, Induction
<1> QED BY <1>3 DEF G

LEMMA KeepsUnique ==
  ASSUME NEW s, NEW t, NEW f, NEW g, NEW n \in Nat, NEW m \in Nat, n <= m,
         Keeps(f, s, n), Keeps(g, t, m), \A k \in 1..n : s[k] = t[k]
  PROVE  \A k \in 0..n : f[k] = g[k]
<1> DEFINE G == {k \in Nat : k <= n => f[k] = g[k]}
<1>0. /\ \A k \in 0..n : f[k] =
           IF k = 0 THEN <<>>
           ELSE IF s[k] < Window THEN Append(f[k - 1], s[k]) ELSE f[k - 1]
      /\ \A k \in 0..n : g[k] =
           IF k = 0 THEN <<>>
           ELSE IF t[k] < Window THEN Append(g[k - 1], t[k]) ELSE g[k - 1]
  <2>1. \A k \in 0..n : k \in 0..m
    OBVIOUS
  <2> QED BY <2>1, KeepsAt
<1>1. 0 \in G
  BY <1>0
<1>2. ASSUME NEW k \in Nat, k \in G PROVE k + 1 \in G
  <2> SUFFICES ASSUME k + 1 <= n PROVE f[k + 1] = g[k + 1]
    OBVIOUS
  <2>1. k + 1 \in 0..n /\ k + 1 \in 1..n /\ k + 1 # 0 /\ (k + 1) - 1 = k /\ f[k] = g[k]
    BY <1>2
  <2> QED BY <1>0, <2>1
<1> HIDE DEF G
<1>3. Nat \subseteq G
  BY <1>1, <1>2, Induction
<1> QED BY <1>3 DEF G

LEMMA FreshIs ==
  ASSUME NEW s \in Ages
  PROVE  \E f : Keeps(f, s, Len(s)) /\ Limiter!Fresh(s) = f[Len(s)]
<1>1. \E f : Keeps(f, s, Len(s))
  BY KeepsExists, LenProperties DEF Ages
<1> QED BY <1>1 DEF Limiter!Fresh, Keeps

LEMMA FreshEmpty == Limiter!Fresh(<<>>) = <<>>
<1>1. <<>> \in Ages /\ Len(<<>>) = 0
  BY DEF Ages
<1>2. PICK f : Keeps(f, <<>>, 0) /\ Limiter!Fresh(<<>>) = f[0]
  BY <1>1, FreshIs
<1> QED BY <1>2 DEF Keeps

LEMMA FreshAppend ==
  ASSUME NEW s \in Ages, NEW a \in 0..Window
  PROVE  Limiter!Fresh(Append(s, a)) =
           IF a < Window THEN Append(Limiter!Fresh(s), a) ELSE Limiter!Fresh(s)
<1> DEFINE t == Append(s, a)
           n == Len(s)
<1>1. /\ t \in Ages /\ Len(t) = n + 1 /\ n \in Nat
      /\ \A k \in 1..n : s[k] = t[k]
      /\ t[n + 1] = a
  BY AppendProperties, LenProperties DEF Ages
<1>2. PICK f : Keeps(f, s, n) /\ Limiter!Fresh(s) = f[n]
  BY FreshIs
<1> HIDE DEF n, t
<1>3. PICK g : Keeps(g, t, n + 1) /\ Limiter!Fresh(t) = g[n + 1]
  BY <1>1, FreshIs
<1>4. f[n] = g[n]
  <2>1. n + 1 \in Nat /\ n <= n + 1 /\ n \in 0..n
    BY <1>1
  <2>2. \A k \in 0..n : f[k] = g[k]
    BY <1>1, <1>2, <1>3, <2>1, KeepsUnique
  <2> QED BY <2>1, <2>2
<1>5. g[n + 1] = IF t[n + 1] < Window THEN Append(g[n], t[n + 1]) ELSE g[n]
  <2>1. n + 1 \in 0..(n + 1) /\ n + 1 # 0 /\ (n + 1) - 1 = n
    BY <1>1
  <2>2. \A k \in 0..(n + 1) : g[k] =
           IF k = 0 THEN <<>>
           ELSE IF t[k] < Window THEN Append(g[k - 1], t[k]) ELSE g[k - 1]
    BY <1>3 DEF Keeps
  <2> QED BY <2>1, <2>2
<1> QED BY <1>1, <1>2, <1>3, <1>4, <1>5 DEF t

---------------------------------------------------------------------------
(* What retain keeps                                                       *)

\* Only fresh records stay, and a table of fresh records stays as it is.
LEMMA FreshType ==
  ASSUME NEW s \in Ages
  PROVE  Limiter!Fresh(s) \in Young
<1> DEFINE G == {t \in Ages : Limiter!Fresh(t) \in Young}
<1>0. Window \in Nat
  BY LimiterAssumption
<1>1. <<>> \in G
  <2>1. <<>> \in Ages /\ <<>> \in Young
    BY DEF Ages, Young
  <2>2. Limiter!Fresh(<<>>) = <<>>
    BY FreshEmpty
  <2> QED BY <2>1, <2>2
<1>2. ASSUME NEW t \in Seq(0..Window), NEW a \in 0..Window, t \in G PROVE Append(t, a) \in G
  <2>1. t \in Ages /\ Append(t, a) \in Ages /\ Limiter!Fresh(t) \in Young
    BY <1>2, AppendProperties DEF Ages
  <2>2. a < Window => Append(Limiter!Fresh(t), a) \in Young
    BY <1>0, <2>1, AppendProperties DEF Young
  <2>3. Limiter!Fresh(Append(t, a)) \in Young
    BY <2>1, <2>2, FreshAppend
  <2> QED BY <2>1, <2>3
<1> HIDE DEF G
<1>3. Ages \subseteq G
  BY <1>1, <1>2, SequenceInduction DEF Ages
<1> QED BY <1>3 DEF G

LEMMA YoungAges == Young \subseteq Ages
<1>1. 0..(Window - 1) \subseteq 0..Window
  BY LimiterAssumption
<1> QED BY <1>1, SeqMonotonic DEF Young, Ages

LEMMA FreshYoung ==
  ASSUME NEW s \in Young
  PROVE  Limiter!Fresh(s) = s
<1> DEFINE G == {t \in Young : Limiter!Fresh(t) = t}
<1>1. <<>> \in G
  <2>1. <<>> \in Young
    BY DEF Young
  <2>2. Limiter!Fresh(<<>>) = <<>>
    BY FreshEmpty
  <2> QED BY <2>1, <2>2
<1>2. ASSUME NEW t \in Seq(0..(Window - 1)), NEW a \in 0..(Window - 1), t \in G
      PROVE  Append(t, a) \in G
  <2>1. t \in Ages /\ a \in 0..Window /\ a < Window /\ Limiter!Fresh(t) = t
    BY <1>2, YoungAges, LimiterAssumption DEF Young
  <2>2. Limiter!Fresh(Append(t, a)) = Append(t, a)
    BY <2>1, FreshAppend
  <2>3. Append(t, a) \in Young
    BY AppendProperties DEF Young
  <2> QED BY <2>2, <2>3
<1> HIDE DEF G
<1>3. Young \subseteq G
  BY <1>1, <1>2, SequenceInduction DEF Young
<1> QED BY <1>3 DEF G

\* An expired record at the front is dropped.
LEMMA FreshTail ==
  ASSUME NEW s \in Ages, s # <<>>, Head(s) = Window
  PROVE  Limiter!Fresh(Tail(s)) = Limiter!Fresh(s)
<1> DEFINE G == {t \in Ages : t # <<>> /\ Head(t) = Window =>
                                 Limiter!Fresh(Tail(t)) = Limiter!Fresh(t)}
<1>1. <<>> \in G
  BY DEF Ages
<1>2. ASSUME NEW t \in Seq(0..Window), NEW a \in 0..Window, t \in G PROVE Append(t, a) \in G
  <2> DEFINE u == Append(t, a)
  <2>1. t \in Ages /\ u \in Ages
    BY AppendProperties DEF Ages
  <2>2. ASSUME Head(u) = Window PROVE Limiter!Fresh(Tail(u)) = Limiter!Fresh(u)
    <3>1. CASE t = <<>>
      <4>1. Tail(u) = <<>> /\ a = Window
        BY <2>2, <3>1, HeadTailAppend
      <4>2. Limiter!Fresh(u) = <<>>
        <5>1. ~(a < Window)
          BY <4>1, LimiterAssumption
        <5>2. Limiter!Fresh(u) = IF a < Window THEN Append(Limiter!Fresh(t), a) ELSE Limiter!Fresh(t)
          BY <2>1, FreshAppend
        <5>3. Limiter!Fresh(t) = <<>>
          BY <3>1, FreshEmpty
        <5> HIDE DEF u
        <5> QED BY <5>1, <5>2, <5>3
      <4> QED BY <4>1, <4>2, FreshEmpty
    <3>2. CASE t # <<>>
      <4>1. Tail(u) = Append(Tail(t), a) /\ Head(t) = Window
        BY <2>2, <3>2, HeadTailAppend
      <4>2. Tail(t) \in Ages
        BY <3>2, HeadTailProperties DEF Ages
      <4>3. Limiter!Fresh(Tail(t)) = Limiter!Fresh(t)
        BY <1>2, <3>2, <4>1
      <4>4. Limiter!Fresh(Tail(u)) =
              IF a < Window THEN Append(Limiter!Fresh(Tail(t)), a) ELSE Limiter!Fresh(Tail(t))
        BY <4>1, <4>2, FreshAppend
      <4>5. Limiter!Fresh(u) =
              IF a < Window THEN Append(Limiter!Fresh(t), a) ELSE Limiter!Fresh(t)
        BY <2>1, FreshAppend
      <4> QED BY <4>3, <4>4, <4>5
    <3> QED BY <3>1, <3>2
  <2> QED BY <2>1, <2>2
<1> HIDE DEF G
<1>3. Ages \subseteq G
  BY <1>1, <1>2, SequenceInduction DEF Ages
<1> QED BY <1>3 DEF G

\* Time passes for a table as it does for what retain would keep of it.
AgeNext(a) == IF a < Window THEN a + 1 ELSE Window

LEMMA OlderType ==
  ASSUME NEW s \in Ages
  PROVE  Limiter!Older(s) \in Ages /\ Len(Limiter!Older(s)) = Len(s)
<1> DEFINE n == Len(s)
           o == Limiter!Older(s)
<1>1. n \in Nat /\ s \in [1..n -> 0..Window] /\ DOMAIN s = 1..n /\ Window \in Nat
  BY LenProperties, LimiterAssumption DEF Ages
<1>2. o = [k \in 1..n |-> IF s[k] < Window THEN s[k] + 1 ELSE Window]
  BY <1>1 DEF Limiter!Older
<1> HIDE DEF n, o
<1>3. o \in [1..n -> 0..Window]
  <2>1. \A k \in 1..n : s[k] \in 0..Window
    BY <1>1
  <2>2. \A k \in 1..n : (IF s[k] < Window THEN s[k] + 1 ELSE Window) \in 0..Window
    BY <1>1, <2>1
  <2> QED BY <1>2, <2>2
<1>4. o \in Ages
  BY <1>1, <1>3, SeqDef DEF Ages
<1>5. Len(o) = n
  BY <1>1, <1>3, <1>4, LenProperties DEF Ages
<1> QED BY <1>4, <1>5 DEF n, o

LEMMA OlderAppend ==
  ASSUME NEW s \in Ages, NEW a \in 0..Window
  PROVE  Limiter!Older(Append(s, a)) = Append(Limiter!Older(s), AgeNext(a))
<1> DEFINE n == Len(s)
           t == Append(s, a)
           o == Limiter!Older(s)
           p == Limiter!Older(t)
           q == Append(o, AgeNext(a))
<1>1. /\ t \in Ages /\ Len(t) = n + 1 /\ n \in Nat
      /\ \A k \in 1..n : t[k] = s[k]
      /\ t[n + 1] = a
  BY AppendProperties, LenProperties DEF Ages
<1>2. o \in Ages /\ Len(o) = n /\ p \in Ages /\ Len(p) = n + 1
  <2> HIDE DEF t
  <2> QED BY <1>1, OlderType
<1>3. \A k \in 1..n : o[k] = AgeNext(s[k])
  BY <1>1, LenProperties DEF Limiter!Older, AgeNext, Ages
<1>4. \A k \in 1..(n + 1) : p[k] = AgeNext(t[k])
  <2> HIDE DEF t
  <2> QED BY <1>1, LenProperties DEF Limiter!Older, AgeNext, Ages
<1>5. AgeNext(a) \in 0..Window
  BY LimiterAssumption DEF AgeNext
<1> HIDE DEF n, t, o, p
<1>6. /\ q \in Ages /\ Len(q) = n + 1 /\ \A k \in 1..n : q[k] = o[k]
      /\ q[n + 1] = AgeNext(a)
  BY <1>2, <1>5, AppendProperties DEF Ages
<1> HIDE DEF q
<1>7. \A k \in 1..(n + 1) : p[k] = q[k]
  <2> SUFFICES ASSUME NEW k \in 1..(n + 1) PROVE p[k] = q[k]
    OBVIOUS
  <2>1. CASE k = n + 1
    BY <1>1, <1>4, <1>6, <2>1
  <2>2. CASE k # n + 1
    <3>1. k \in 1..n
      BY <1>1, <2>2
    <3> QED BY <1>1, <1>3, <1>4, <1>6, <3>1
  <2> QED BY <2>1, <2>2
<1>8. p = q
  BY <1>2, <1>6, <1>7, SeqEqual DEF Ages
<1> QED BY <1>8 DEF p, q, o, t

LEMMA OlderEmpty == Limiter!Older(<<>>) = <<>>
<1>1. <<>> \in Ages /\ Len(<<>>) = 0
  BY DEF Ages
<1>2. Limiter!Older(<<>>) \in Seq(0..Window) /\ Len(Limiter!Older(<<>>)) = 0
  BY <1>1, OlderType DEF Ages
<1> QED BY <1>2, EmptySeq

LEMMA FreshOlder ==
  ASSUME NEW s \in Ages
  PROVE  Limiter!Fresh(Limiter!Older(s)) = Limiter!Fresh(Limiter!Older(Limiter!Fresh(s)))
<1> DEFINE G == {t \in Ages : Limiter!Fresh(Limiter!Older(t))
                                = Limiter!Fresh(Limiter!Older(Limiter!Fresh(t)))}
<1>1. <<>> \in G
  BY FreshEmpty, OlderEmpty DEF Ages
<1>2. ASSUME NEW t \in Seq(0..Window), NEW a \in 0..Window, t \in G PROVE Append(t, a) \in G
  <2> DEFINE b == AgeNext(a)
             o == Limiter!Older(t)
             f == Limiter!Fresh(t)
             of == Limiter!Older(f)
             u == Append(t, a)
  <2>1. /\ t \in Ages /\ u \in Ages /\ o \in Ages /\ f \in Ages /\ of \in Ages
        /\ b \in 0..Window /\ Window \in Nat /\ (a >= Window => b >= Window)
        /\ Limiter!Fresh(o) = Limiter!Fresh(of)
    <3>1. t \in Ages /\ u \in Ages /\ b \in 0..Window /\ Window \in Nat /\ (a >= Window => b >= Window)
      BY AppendProperties, LimiterAssumption DEF Ages, AgeNext
    <3>2. f \in Ages
      BY <3>1, FreshType, YoungAges
    <3> HIDE DEF f
    <3>3. o \in Ages /\ of \in Ages
      BY <3>1, <3>2, OlderType
    <3> QED BY <1>2, <3>1, <3>2, <3>3 DEF f
  <2>2. Limiter!Older(u) = Append(o, b)
    BY <2>1, OlderAppend
  <2>3. Limiter!Fresh(Append(o, b)) =
          IF b < Window THEN Append(Limiter!Fresh(o), b) ELSE Limiter!Fresh(o)
    <3> HIDE DEF o, b
    <3> QED BY <2>1, FreshAppend
  <2>4. Limiter!Fresh(u) = IF a < Window THEN Append(f, a) ELSE f
    BY <2>1, FreshAppend
  <2>5. CASE a < Window
    <3>1. Limiter!Older(Append(f, a)) = Append(of, b)
      <4> HIDE DEF f
      <4> QED BY <2>1, OlderAppend DEF f
    <3>2. Limiter!Fresh(Append(of, b)) =
            IF b < Window THEN Append(Limiter!Fresh(of), b) ELSE Limiter!Fresh(of)
      <4> HIDE DEF of, b
      <4> QED BY <2>1, FreshAppend
    <3>3. Limiter!Fresh(Limiter!Older(u)) = Limiter!Fresh(Limiter!Older(Limiter!Fresh(u)))
      <4> HIDE DEF f, o, of, u, b
      <4> QED BY <2>1, <2>2, <2>3, <2>4, <2>5, <3>1, <3>2
    <3> QED BY <2>1, <3>3
  <2>6. CASE ~(a < Window)
    <3>1. a >= Window /\ ~(b < Window)
      <4>1. a >= Window
        BY <2>1, <2>6
      <4> HIDE DEF b
      <4> QED BY <2>1, <4>1
    <3>2. Limiter!Fresh(Limiter!Older(u)) = Limiter!Fresh(Limiter!Older(Limiter!Fresh(u)))
      <4> HIDE DEF f, o, u, b
      <4> QED BY <2>1, <2>2, <2>3, <2>4, <2>6, <3>1
    <3> QED BY <2>1, <3>2
  <2> QED BY <2>5, <2>6
<1> HIDE DEF G
<1>3. Ages \subseteq G
  BY <1>1, <1>2, SequenceInduction DEF Ages
<1> QED BY <1>3 DEF G

---------------------------------------------------------------------------
(* The limiter                                                             *)

\* The history holds the last MaxRequests + 1 ages, the oldest first.
Aged(s) == /\ s \in Ages /\ Len(s) = MaxRequests + 1
           /\ \A j, k \in 1..(MaxRequests + 1) : j <= k => s[k] <= s[j]

LimiterInv ==
  /\ admitted = [ip \in Ip |-> admitted[ip]]
  /\ \A ip \in Ip : Aged(admitted[ip])
  /\ \A ip \in DOMAIN requests : requests[ip] \in Ages
  /\ RateBound

\* When the table is not full, also the second of the MaxRequests + 1 is a window
\* old: with one more let through now, the first of them still is.
LEMMA PushAge ==
  ASSUME NEW s, Aged(s), s[1] = Window, Len(Limiter!Fresh(s)) < MaxRequests
  PROVE  LET t == Append(Tail(s), 0) IN
         /\ Aged(t) /\ t[1] = Window
         /\ Limiter!Fresh(t) = Append(Limiter!Fresh(s), 0)
<1> DEFINE m == MaxRequests
           r == Tail(s)
           t == Append(r, 0)
<1>0. m \in Nat /\ m > 0 /\ Window \in Nat /\ Window > 0
  BY LimiterAssumption
<1>1. /\ s \in Ages /\ Len(s) = m + 1 /\ s # <<>> /\ Head(s) = s[1]
      /\ \A k \in 1..(m + 1) : s[k] \in 0..Window
      /\ \A j, k \in 1..(m + 1) : j <= k => s[k] <= s[j]
  <2>1. s \in Ages /\ Len(s) = m + 1 /\ \A j, k \in 1..(m + 1) : j <= k => s[k] <= s[j]
    BY DEF Aged
  <2>2. s # <<>>
    BY <1>0, <2>1, EmptySeq DEF Ages
  <2>3. \A k \in 1..(m + 1) : s[k] \in 0..Window
    BY <2>1, ElementOfSeq DEF Ages
  <2>4. Head(s) = s[1]
    BY <2>1, <2>2, HeadTailProperties DEF Ages
  <2> QED BY <2>1, <2>2, <2>3, <2>4
<1>2. r \in Ages /\ Len(r) = m /\ \A k \in 1..m : r[k] = s[k + 1]
  <2>1. r \in Ages /\ Len(r) = Len(s) - 1 /\ \A k \in 1..Len(r) : r[k] = s[k + 1]
    BY <1>1, HeadTailProperties DEF Ages
  <2> HIDE DEF r
  <2> QED BY <1>0, <1>1, <2>1
<1>3. Limiter!Fresh(r) = Limiter!Fresh(s)
  BY <1>1, FreshTail
<1> HIDE DEF m, r
<1>4. s[2] = Window
  <2> SUFFICES ASSUME s[2] # Window PROVE FALSE
    OBVIOUS
  <2>1. 2 \in 1..(m + 1) /\ s[2] < Window
    BY <1>0, <1>1
  <2>2. \A k \in 1..m : r[k] \in 0..(Window - 1)
    <3> SUFFICES ASSUME NEW k \in 1..m PROVE r[k] \in 0..(Window - 1)
      OBVIOUS
    <3>1. k + 1 \in 1..(m + 1) /\ 2 <= k + 1 /\ r[k] = s[k + 1]
      BY <1>0, <1>2
    <3>2. s[k + 1] \in 0..Window /\ s[k + 1] <= s[2] /\ s[2] \in 0..Window
      BY <1>1, <2>1, <3>1
    <3> QED BY <1>0, <2>1, <3>1, <3>2
  <2>3. r \in Young
    <3>1. r \in [1..m -> 0..(Window - 1)]
      BY <1>2, <2>2, LenProperties DEF Ages
    <3> QED BY <1>0, <3>1, SeqDef DEF Young
  <2>4. Limiter!Fresh(r) = r
    BY <2>3, FreshYoung
  <2> QED BY <1>0, <1>2, <1>3, <2>4 DEF m
<1>5. /\ t \in Ages /\ Len(t) = m + 1 /\ \A k \in 1..m : t[k] = r[k]
      /\ t[m + 1] = 0
  <2>1. 0 \in 0..Window
    BY <1>0
  <2> QED BY <1>2, <2>1, AppendProperties DEF Ages
<1>6. Limiter!Fresh(t) = Append(Limiter!Fresh(s), 0)
  <2>1. 0 \in 0..Window /\ 0 < Window
    BY <1>0
  <2> QED BY <1>2, <1>3, <2>1, FreshAppend
<1> HIDE DEF t
<1>7. t[1] = Window
  BY <1>0, <1>2, <1>4, <1>5
<1>8. \A j, k \in 1..(m + 1) : j <= k => t[k] <= t[j]
  <2> SUFFICES ASSUME NEW j \in 1..(m + 1), NEW k \in 1..(m + 1), j <= k PROVE t[k] <= t[j]
    OBVIOUS
  <2>1. \A i \in 1..m : t[i] = s[i + 1] /\ i + 1 \in 1..(m + 1) /\ s[i + 1] \in 0..Window
    BY <1>0, <1>1, <1>2, <1>5
  <2>2. CASE k = m + 1
    <3>1. t[k] = 0 /\ t[j] \in Nat
      <4>1. j \in 1..m \/ j = m + 1
        BY <1>0
      <4> QED BY <1>0, <1>5, <2>1, <2>2, <4>1
    <3> QED BY <3>1
  <2>3. CASE k # m + 1
    <3>1. j \in 1..m /\ k \in 1..m /\ j + 1 <= k + 1
      BY <1>0, <2>3
    <3> QED BY <1>1, <2>1, <3>1
  <2> QED BY <2>2, <2>3
<1>9. Aged(t)
  BY <1>5, <1>8 DEF Aged, m
<1> QED BY <1>6, <1>7, <1>9 DEF t, r

LEMMA OlderAged ==
  ASSUME NEW s, Aged(s), s[1] = Window
  PROVE  Aged(Limiter!Older(s)) /\ Limiter!Older(s)[1] = Window
<1> DEFINE m == MaxRequests + 1
           o == Limiter!Older(s)
<1>1. /\ s \in Ages /\ Len(s) = m /\ m \in Nat /\ m > 0 /\ Window \in Nat
      /\ \A j, k \in 1..m : j <= k => s[k] <= s[j]
  BY LimiterAssumption DEF Aged
<1>2. o \in Ages /\ Len(o) = m
  BY <1>1, OlderType
<1>3. DOMAIN s = 1..m /\ \A k \in 1..m : s[k] \in 0..Window
  BY <1>1, LenProperties, ElementOfSeq DEF Ages
<1>4. \A k \in 1..m : o[k] = IF s[k] < Window THEN s[k] + 1 ELSE Window
  BY <1>3 DEF Limiter!Older
<1> HIDE DEF o, m
<1>5. o[1] = Window
  BY <1>1, <1>4
<1>6. \A j, k \in 1..m : j <= k => o[k] <= o[j]
  <2> SUFFICES ASSUME NEW j \in 1..m, NEW k \in 1..m, j <= k PROVE o[k] <= o[j]
    OBVIOUS
  <2>1. s[k] \in 0..Window /\ s[j] \in 0..Window /\ s[k] <= s[j]
    BY <1>1, <1>3
  <2> QED BY <1>1, <1>4, <2>1
<1> QED BY <1>2, <1>5, <1>6 DEF Aged, o, m

---------------------------------------------------------------------------
LEMMA InitLimiter == Limiter!Init => LimiterInv
<1> SUFFICES ASSUME Limiter!Init PROVE LimiterInv
  OBVIOUS
<1> DEFINE m == MaxRequests + 1
           s == [k \in 1..m |-> Window]
<1>1. m \in Nat /\ m > 0 /\ Window \in Nat
  BY LimiterAssumption
<1>2. admitted = [ip \in Ip |-> s] /\ DOMAIN requests = {}
  BY DEF Limiter!Init
<1>3. s \in [1..m -> 0..Window] /\ s[1] = Window /\ \A k \in 1..m : s[k] = Window
  BY <1>1
<1> HIDE DEF m, s
<1>4. s \in Ages /\ Len(s) = m
  <2>1. s \in Ages
    BY <1>1, <1>3, SeqDef DEF Ages
  <2> QED BY <1>1, <1>3, <2>1, LenProperties DEF Ages
<1>5. Aged(s)
  BY <1>1, <1>3, <1>4 DEF Aged, m
<1>6. Limiter!Fresh(s) = <<>>
  <2> DEFINE G == {t \in Ages : (\A k \in 1..Len(t) : t[k] = Window) => Limiter!Fresh(t) = <<>>}
  <2>1. <<>> \in G
    <3>1. <<>> \in Ages
      BY DEF Ages
    <3>2. Limiter!Fresh(<<>>) = <<>>
      BY FreshEmpty
    <3> QED BY <3>1, <3>2
  <2>2. ASSUME NEW t \in Seq(0..Window), NEW a \in 0..Window, t \in G PROVE Append(t, a) \in G
    <3> DEFINE u == Append(t, a)
               n == Len(t)
    <3>1. /\ t \in Ages /\ u \in Ages /\ Len(u) = n + 1 /\ n \in Nat
          /\ (\A k \in 1..n : u[k] = t[k]) /\ u[n + 1] = a
      BY AppendProperties, LenProperties DEF Ages
    <3>2. Limiter!Fresh(u) = IF a < Window THEN Append(Limiter!Fresh(t), a) ELSE Limiter!Fresh(t)
      BY <3>1, FreshAppend
    <3> HIDE DEF u, n
    <3>3. ASSUME \A k \in 1..Len(u) : u[k] = Window PROVE Limiter!Fresh(u) = <<>>
      <4>1. a = Window /\ \A k \in 1..n : t[k] = Window
        <5>1. n + 1 \in 1..Len(u) /\ \A k \in 1..n : k \in 1..Len(u)
          BY <3>1
        <5> QED BY <3>1, <3>3, <5>1
      <4>2. Limiter!Fresh(t) = <<>>
        BY <2>2, <4>1 DEF n
      <4> QED BY <1>1, <3>2, <4>1, <4>2
    <3> QED BY <3>1, <3>3 DEF u
  <2> HIDE DEF G
  <2>3. Ages \subseteq G
    BY <2>1, <2>2, SequenceInduction DEF Ages
  <2> QED BY <1>3, <1>4, <2>3 DEF G
<1>7. RateBound
  BY <1>2, <1>3, <1>6 DEF RateBound, Limiter!RateBound, Limiter!Recorded
<1> QED BY <1>2, <1>5, <1>7 DEF LimiterInv

\* What the table has of an address is young, and retain leaves it alone.
LEMMA RecordedYoung ==
  ASSUME LimiterInv, NEW ip
  PROVE  /\ Limiter!Recorded(ip) \in Young
         /\ Limiter!Fresh(Limiter!Recorded(ip)) = Limiter!Recorded(ip)
<1>1. <<>> \in Young
  BY DEF Young
<1>2. Limiter!Recorded(ip) \in Young
  BY <1>1, FreshType DEF Limiter!Recorded, LimiterInv
<1> HIDE DEF Limiter!Recorded
<1> QED BY <1>2, FreshYoung

LEMMA StepAdmit ==
  ASSUME LimiterInv, NEW ip \in Ip, Limiter!Admit(ip)
  PROVE  LimiterInv'
<1> DEFINE v == Append(Limiter!Recorded(ip), 0)
           a == admitted[ip]
           b == Append(Tail(a), 0)
<1>1. /\ requests' = [i \in DOMAIN requests \cup {ip} |-> IF i = ip THEN v ELSE requests[i]]
      /\ admitted' = [admitted EXCEPT ![ip] = b]
      /\ Len(Limiter!Recorded(ip)) < MaxRequests
  BY DEF Limiter!Admit, Limiter!Record
<1>2. /\ Aged(a) /\ a[1] = Window /\ Limiter!Recorded(ip) = Limiter!Fresh(a)
      /\ admitted = [i \in Ip |-> admitted[i]]
  BY DEF LimiterInv, RateBound, Limiter!RateBound
<1>3. v \in Ages /\ Limiter!Fresh(v) = v
  <2> DEFINE q == Limiter!Recorded(ip)
  <2>1. q \in Young /\ 0 \in 0..(Window - 1) /\ 0 \in 0..Window
    BY RecordedYoung, LimiterAssumption
  <2> HIDE DEF q
  <2>2. Append(q, 0) \in Young
    BY <2>1, AppendProperties DEF Young
  <2>3. Limiter!Fresh(Append(q, 0)) = Append(q, 0) /\ Append(q, 0) \in Ages
    BY <2>2, FreshYoung, YoungAges
  <2> QED BY <2>3 DEF q
<1>4. Aged(b) /\ b[1] = Window /\ Limiter!Fresh(b) = v
  BY <1>1, <1>2, PushAge
<1> HIDE DEF v, b
<1>5. \A i \in Ip : admitted'[i] = IF i = ip THEN b ELSE admitted[i]
  BY <1>1, <1>2
<1>6. \A i \in Ip : Aged(admitted'[i]) /\ admitted'[i][1] = Window
  BY <1>4, <1>5 DEF LimiterInv, RateBound, Limiter!RateBound
<1>7. \A i \in DOMAIN requests' : requests'[i] \in Ages
  BY <1>1, <1>3 DEF LimiterInv
<1>8. \A i \in Ip : Limiter!Recorded(i)' = Limiter!Fresh(admitted'[i])
  <2> SUFFICES ASSUME NEW i \in Ip PROVE Limiter!Recorded(i)' = Limiter!Fresh(admitted'[i])
    OBVIOUS
  <2>1. CASE i = ip
    <3>1. ip \in DOMAIN requests' /\ requests'[ip] = v
      BY <1>1
    <3> QED BY <1>3, <1>4, <1>5, <2>1, <3>1 DEF Limiter!Recorded
  <2>2. CASE i # ip
    <3>1. (i \in DOMAIN requests' <=> i \in DOMAIN requests)
          /\ (i \in DOMAIN requests => requests'[i] = requests[i])
      BY <1>1, <2>2
    <3>2. Limiter!Recorded(i)' = Limiter!Recorded(i)
      BY <3>1 DEF Limiter!Recorded
    <3> QED BY <1>5, <2>2, <3>2 DEF LimiterInv, RateBound, Limiter!RateBound
  <2> QED BY <2>1, <2>2
<1>9. admitted' = [i \in Ip |-> admitted'[i]]
  BY <1>1, <1>2
<1> QED BY <1>6, <1>7, <1>8, <1>9 DEF LimiterInv, RateBound, Limiter!RateBound, Aged

\* A table that changes in what retain drops only.
LEMMA SameRecords ==
  ASSUME LimiterInv, UNCHANGED admitted,
         \A i \in DOMAIN requests' : requests'[i] \in Ages,
         \A i \in Ip : Limiter!Recorded(i)' = Limiter!Recorded(i)
  PROVE  LimiterInv'
BY DEF LimiterInv, RateBound, Limiter!RateBound, Aged

LEMMA StepRefuse ==
  ASSUME LimiterInv, NEW ip \in Ip, Limiter!Refuse(ip)
  PROVE  LimiterInv'
<1> DEFINE v == Limiter!Recorded(ip)
<1>1. /\ requests' = [i \in DOMAIN requests \cup {ip} |-> IF i = ip THEN v ELSE requests[i]]
      /\ UNCHANGED admitted
  BY DEF Limiter!Refuse, Limiter!Record
<1>2. v \in Ages /\ Limiter!Fresh(v) = v
  BY RecordedYoung, YoungAges
<1>3. Limiter!Recorded(ip)' = Limiter!Recorded(ip)
  <2> HIDE DEF v
  <2>1. ip \in DOMAIN requests' /\ requests'[ip] = v
    BY <1>1
  <2>2. Limiter!Recorded(ip)' = v
    BY <1>2, <2>1 DEF Limiter!Recorded
  <2> QED BY <2>2 DEF v
<1> HIDE DEF v
<1>4. ASSUME NEW i \in Ip, i # ip PROVE Limiter!Recorded(i)' = Limiter!Recorded(i)
  <2>1. (i \in DOMAIN requests' <=> i \in DOMAIN requests)
        /\ (i \in DOMAIN requests => requests'[i] = requests[i])
    BY <1>1, <1>4
  <2> QED BY <2>1 DEF Limiter!Recorded
<1>5. \A i \in DOMAIN requests' : requests'[i] \in Ages
  BY <1>1, <1>2 DEF LimiterInv
<1> QED BY <1>1, <1>3, <1>4, <1>5, SameRecords

LEMMA StepCleanup ==
  ASSUME LimiterInv, Limiter!Cleanup
  PROVE  LimiterInv'
<1>1. /\ DOMAIN requests' = {i \in DOMAIN requests : Limiter!Fresh(requests[i]) # <<>>}
      /\ \A i \in DOMAIN requests' : requests'[i] = Limiter!Fresh(requests[i])
      /\ UNCHANGED admitted
  BY DEF Limiter!Cleanup
<1>2. \A i \in DOMAIN requests : Limiter!Fresh(requests[i]) \in Young
  BY FreshType DEF LimiterInv
<1>3. \A i \in DOMAIN requests' : requests'[i] \in Ages
  BY <1>1, <1>2, YoungAges
<1>4. ASSUME NEW i \in Ip PROVE Limiter!Recorded(i)' = Limiter!Recorded(i)
  <2>1. CASE i \in DOMAIN requests'
    <3>1. i \in DOMAIN requests /\ requests'[i] = Limiter!Fresh(requests[i])
          /\ Limiter!Fresh(requests[i]) \in Young
      BY <1>1, <1>2, <2>1
    <3>2. Limiter!Fresh(requests'[i]) = Limiter!Fresh(requests[i])
      BY <3>1, FreshYoung
    <3> QED BY <2>1, <3>1, <3>2 DEF Limiter!Recorded
  <2>2. CASE i \notin DOMAIN requests'
    <3>1. i \in DOMAIN requests => Limiter!Fresh(requests[i]) = <<>>
      BY <1>1, <2>2
    <3> QED BY <2>2, <3>1 DEF Limiter!Recorded
  <2> QED BY <2>1, <2>2
<1> QED BY <1>1, <1>3, <1>4, SameRecords

LEMMA StepTick ==
  ASSUME LimiterInv, Limiter!Tick
  PROVE  LimiterInv'
<1>1. /\ DOMAIN requests' = DOMAIN requests
      /\ \A i \in DOMAIN requests : requests'[i] = Limiter!Older(requests[i])
      /\ admitted' = [i \in Ip |-> Limiter!Older(admitted[i])]
  BY DEF Limiter!Tick
<1>2. \A i \in Ip : Aged(admitted[i]) /\ admitted[i][1] = Window
                    /\ Limiter!Recorded(i) = Limiter!Fresh(admitted[i])
  BY DEF LimiterInv, RateBound, Limiter!RateBound
<1>3. \A i \in Ip : Aged(admitted'[i]) /\ admitted'[i][1] = Window
  BY <1>1, <1>2, OlderAged
<1>4. \A i \in DOMAIN requests : requests[i] \in Ages
  BY DEF LimiterInv
<1>5. \A i \in DOMAIN requests' : requests'[i] \in Ages
  BY <1>1, <1>4, OlderType
<1>6. ASSUME NEW i \in Ip PROVE Limiter!Recorded(i)' = Limiter!Fresh(admitted'[i])
  <2> DEFINE a == admitted[i]
  <2>1. a \in Ages /\ Limiter!Recorded(i) = Limiter!Fresh(a)
        /\ admitted'[i] = Limiter!Older(a)
    BY <1>1, <1>2 DEF Aged
  <2>2. Limiter!Fresh(Limiter!Older(a)) = Limiter!Fresh(Limiter!Older(Limiter!Recorded(i)))
    BY <2>1, FreshOlder
  <2> HIDE DEF a
  <2>3. CASE i \in DOMAIN requests
    <3> DEFINE q == requests[i]
    <3>1. /\ Limiter!Recorded(i) = Limiter!Fresh(q) /\ q \in Ages
          /\ Limiter!Recorded(i)' = Limiter!Fresh(Limiter!Older(q))
      BY <1>1, <1>4, <2>3 DEF Limiter!Recorded
    <3> HIDE DEF q
    <3>2. Limiter!Fresh(Limiter!Older(q)) = Limiter!Fresh(Limiter!Older(Limiter!Fresh(q)))
      BY <3>1, FreshOlder
    <3> HIDE DEF Limiter!Recorded
    <3> QED BY <2>1, <2>2, <3>1, <3>2
  <2>4. CASE i \notin DOMAIN requests
    <3>1. Limiter!Recorded(i) = <<>> /\ Limiter!Recorded(i)' = <<>>
      BY <1>1, <2>4 DEF Limiter!Recorded
    <3> HIDE DEF Limiter!Recorded
    <3>2. Limiter!Fresh(Limiter!Older(a)) = <<>>
      BY <2>2, <3>1, OlderEmpty, FreshEmpty
    <3> QED BY <2>1, <3>1, <3>2
  <2> QED BY <2>3, <2>4
<1>7. admitted' = [i \in Ip |-> admitted'[i]]
  BY <1>1
<1> QED BY <1>3, <1>5, <1>6, <1>7 DEF LimiterInv, RateBound, Limiter!RateBound, Aged

\* The server asks the limiter about the addresses of its clients only.
LimitedInv == LimiterInv /\ from \in [Conn -> Ip]

LEMMA LimiterMoves ==
  ASSUME [Next]_vars
  PROVE  \/ UNCHANGED limiter
         \/ \E c \in Conn : Limiter!Admit(from[c]) \/ Limiter!Refuse(from[c])
         \/ Limiter!Tick \/ Limiter!Cleanup
<1>1. CASE UNCHANGED vars
  BY <1>1 DEF vars
<1>2. ASSUME NEW c \in Conn, Admit(c) \/ Refuse(c)
      PROVE  Limiter!Admit(from[c]) \/ Limiter!Refuse(from[c])
  BY <1>2 DEF Admit, Refuse
<1>3. ASSUME NEW c \in Conn, (\E ip \in Ip, r \in Request : Accept(c, ip, r))
                             \/ ClientEnds(c) \/ Serve(c) \/ Answered(c)
      PROVE  UNCHANGED limiter
  BY <1>3 DEF Accept, ClientEnds, Forbidden, NotAFile, AskForLock, Serve, NotRegistered, Found,
        SendHeader, SendBody, GiveUp, Answered
<1>4. CASE (\E t \in Task : Unregister(t) \/ \E p \in Path : Register(t, p)) \/ Write
  BY <1>4 DEF Unregister, Register, AskToWrite, Write
<1>5. CASE TimePasses \/ CleansUp
  BY <1>5 DEF TimePasses, CleansUp
<1> QED BY <1>1, <1>2, <1>3, <1>4, <1>5 DEF Next

LEMMA StepLimited == LimitedInv /\ [Next]_vars => LimitedInv'
<1> SUFFICES ASSUME LimitedInv, [Next]_vars PROVE LimitedInv'
  OBVIOUS
<1>1. from' \in [Conn -> Ip]
  <2>1. UNCHANGED from \/ \E c \in Conn, ip \in Ip : from' = [from EXCEPT ![c] = ip]
    BY DEF Next, ClientEnds, Serve, Accept, Admit, Refuse, Forbidden, NotAFile, AskForLock,
           NotRegistered, Found, SendHeader, SendBody, GiveUp, Answered, Close, AnswerThen,
           Unregister, Register,
           AskToWrite, Write, TimePasses, CleansUp, vars, client
  <2> QED BY <2>1 DEF LimitedInv
<1>2. LimiterInv'
  <2>1. LimiterInv /\ \A c \in Conn : from[c] \in Ip
    BY DEF LimitedInv
  <2>2. UNCHANGED limiter => LimiterInv'
    BY <2>1 DEF limiter, LimiterInv, RateBound, Limiter!RateBound, Limiter!Recorded, Aged
  <2> QED BY <2>1, <2>2, LimiterMoves, StepAdmit, StepRefuse, StepTick, StepCleanup
<1> QED BY <1>1, <1>2 DEF LimitedInv

\* RateBound: whatever the window and the limit, no MaxRequests + 1 requests of an
\* address are let through within a window, and the table tells exactly which are
\* fresh, however requests, refusals and cleanups alternate (is_allowed, cleanup).
THEOREM RateBoundCorrect == Spec => []RateBound
<1>1. Init => LimitedInv
  BY InitLimiter DEF Init, LimitedInv
<1>2. LimitedInv => RateBound
  BY DEF LimitedInv, LimiterInv
<1> QED BY <1>1, <1>2, StepLimited, PTL DEF Spec

---------------------------------------------------------------------------
(* Addresses that send no more                                             *)

\* The safety half of Forgotten: no cleanup leaves the entry of an address of which
\* nothing was let through for a window, and only a request that is let through makes
\* it an entry again; it is never refused (cleanup, is_allowed).
QuietIsForgotten ==
  [][\A ip \in Ip : Limiter!Quiet(ip) =>
       /\ Limiter!Cleanup => ip \notin DOMAIN requests'
       /\ ip \notin DOMAIN requests => ip \notin DOMAIN requests' \/ Limiter!Admit(ip)]_vars

LEMMA FreshExpired ==
  ASSUME NEW s \in Ages, \A k \in 1..Len(s) : s[k] = Window
  PROVE  Limiter!Fresh(s) = <<>>
<1> DEFINE G == {t \in Ages : (\A k \in 1..Len(t) : t[k] = Window) => Limiter!Fresh(t) = <<>>}
<1>1. <<>> \in G
  BY FreshEmpty DEF Ages
<1>2. ASSUME NEW t \in Seq(0..Window), NEW a \in 0..Window, t \in G PROVE Append(t, a) \in G
  <2> DEFINE u == Append(t, a)
  <2>1. /\ t \in Ages /\ u \in Ages /\ Len(u) = Len(t) + 1 /\ Len(t) \in Nat
        /\ \A k \in 1..Len(t) : u[k] = t[k]
        /\ u[Len(t) + 1] = a
    BY AppendProperties, LenProperties DEF Ages
  <2>2. Limiter!Fresh(u) = IF a < Window THEN Append(Limiter!Fresh(t), a) ELSE Limiter!Fresh(t)
    BY <2>1, FreshAppend
  <2> HIDE DEF u
  <2>3. ASSUME \A k \in 1..Len(u) : u[k] = Window PROVE Limiter!Fresh(u) = <<>>
    <3>1. a = Window /\ \A k \in 1..Len(t) : t[k] = Window
      BY <2>1, <2>3
    <3>2. ~(a < Window)
      BY <3>1, LimiterAssumption
    <3>3. Limiter!Fresh(t) = <<>>
      BY <1>2, <3>1
    <3> QED BY <2>2, <3>2, <3>3
  <2> QED BY <2>1, <2>3 DEF u
<1> HIDE DEF G
<1>3. Ages \subseteq G
  BY <1>1, <1>2, SequenceInduction DEF Ages
<1> QED BY <1>3 DEF G

LEMMA QuietHasNone ==
  ASSUME LimiterInv, NEW ip \in Ip, Limiter!Quiet(ip)
  PROVE  Limiter!Recorded(ip) = <<>>
<1> DEFINE a == admitted[ip]
           m == MaxRequests + 1
<1>1. Aged(a) /\ a[m] = Window /\ Limiter!Recorded(ip) = Limiter!Fresh(a)
  BY DEF LimiterInv, RateBound, Limiter!RateBound, Limiter!Quiet
<1>2. m \in Nat /\ m \in 1..m /\ Window \in Nat
  BY LimiterAssumption
<1> HIDE DEF a, m
<1>3. a \in Ages /\ Len(a) = m /\ \A k \in 1..m : a[k] \in 0..Window
  <2>1. a \in Ages /\ Len(a) = m
    BY <1>1 DEF Aged, m
  <2> QED BY <2>1, LenProperties DEF Ages
<1>4. \A k \in 1..m : k <= m => a[m] <= a[k]
  BY <1>1, <1>2 DEF Aged, m
<1>5. \A k \in 1..Len(a) : a[k] = Window
  BY <1>1, <1>2, <1>3, <1>4
<1> QED BY <1>1, <1>3, <1>5, FreshExpired

LEMMA QuietStep ==
  ASSUME LimitedInv, [Next]_vars, NEW ip \in Ip, Limiter!Quiet(ip)
  PROVE  /\ Limiter!Cleanup => ip \notin DOMAIN requests'
         /\ ip \notin DOMAIN requests => ip \notin DOMAIN requests' \/ Limiter!Admit(ip)
<1>1. Limiter!Recorded(ip) = <<>>
  BY QuietHasNone DEF LimitedInv
<1>2. ASSUME Limiter!Cleanup PROVE ip \notin DOMAIN requests'
  BY <1>1, <1>2 DEF Limiter!Cleanup, Limiter!Recorded
<1>3. ~Limiter!Refuse(ip)
  BY <1>1, LimiterAssumption DEF Limiter!Refuse
<1>4. ASSUME ip \notin DOMAIN requests PROVE ip \notin DOMAIN requests' \/ Limiter!Admit(ip)
  <2>1. CASE UNCHANGED limiter
    BY <1>4, <2>1 DEF limiter
  <2>2. CASE \E i \in Ip : Limiter!Admit(i) \/ Limiter!Refuse(i)
    <3>1. PICK i \in Ip : Limiter!Admit(i) \/ Limiter!Refuse(i)
      BY <2>2
    <3>2. CASE i = ip
      BY <1>3, <3>1, <3>2
    <3>3. CASE i # ip
      <4>1. DOMAIN requests' = DOMAIN requests \cup {i}
        BY <3>1 DEF Limiter!Admit, Limiter!Refuse, Limiter!Record
      <4> QED BY <1>4, <3>3, <4>1
    <3> QED BY <3>2, <3>3
  <2>3. CASE Limiter!Tick \/ Limiter!Cleanup
    BY <1>2, <1>4, <2>3 DEF Limiter!Tick
  <2> QED BY <2>1, <2>2, <2>3, LimiterMoves DEF LimitedInv
<1> QED BY <1>2, <1>4

\* The limiter's table has no entry longer than it needs it.
THEOREM QuietIsForgottenCorrect == Spec => QuietIsForgotten
<1>1. Init => LimitedInv
  BY InitLimiter DEF Init, LimitedInv
<1>2. LimitedInv /\ [Next]_vars
        => [\A ip \in Ip : Limiter!Quiet(ip) =>
              /\ Limiter!Cleanup => ip \notin DOMAIN requests'
              /\ ip \notin DOMAIN requests => ip \notin DOMAIN requests' \/ Limiter!Admit(ip)]_vars
  BY QuietStep
<1> QED BY <1>1, <1>2, StepLimited, PTL DEF Spec, QuietIsForgotten

---------------------------------------------------------------------------
(* The lock                                                                *)

Waiter  == {Reading(c) : c \in Conn} \cup {Writing(t, p) : t \in Task, p \in Path \cup {NoPath}}
Waiting == {c \in Conn : pc[c] = "waiting"}

\* A guard is held just while a connection is served: none is left behind.
GuardsServed == readers = {c \in Conn : Serving(c)}

\* A connection is in the queue just while it waits, and once.
QueuedOnce ==
  /\ \A c \in Conn : pc[c] = "waiting" <=> Waits(Reading(c))
  /\ \A c \in Conn, j, k \in 1..Len(queue) : queue[j] = Reading(c) /\ queue[k] = Reading(c) => j = k

LockInv ==
  /\ pc \in [Conn -> Steps]
  /\ queue \in Seq(Waiter)
  /\ Len(queue) <= MaxQueue + Cardinality(Waiting)
  /\ GuardsServed /\ QueuedOnce

\* What a step does to the lock.
AskStep(c) == /\ pc[c] = "reading" /\ pc' = [pc EXCEPT ![c] = "waiting"]
              /\ queue' = Append(queue, Reading(c)) /\ UNCHANGED readers
GrantStep(c) == /\ queue # <<>> /\ queue[1] = Reading(c) /\ queue' = Tail(queue)
                /\ \/ pc' = [pc EXCEPT ![c] = "header"] /\ readers' = readers \cup {c}
                   \/ pc' = [pc EXCEPT ![c] = "answering"] /\ UNCHANGED readers
LeaveStep(c) == /\ pc[c] \in {"reading", "header", "body"} /\ pc' = [pc EXCEPT ![c] = "closed"]
                /\ readers' = readers \ {c} /\ UNCHANGED queue
MoveStep(c) == /\ UNCHANGED <<queue, readers>>
               /\ \/ pc[c] = "closed" /\ pc' = [pc EXCEPT ![c] = "accepted"]
                  \/ pc[c] = "accepted" /\ pc' = [pc EXCEPT ![c] = "reading"]
                  \/ pc[c] = "accepted" /\ pc' = [pc EXCEPT ![c] = "refusing"]
                  \/ pc[c] = "reading" /\ pc' = [pc EXCEPT ![c] = "answering"]
                  \/ pc[c] \in {"refusing", "answering"} /\ pc' = [pc EXCEPT ![c] = "closed"]
                  \/ pc[c] = "header" /\ pc' = [pc EXCEPT ![c] = "body"]
WriterStep == /\ UNCHANGED <<pc, readers>>
              /\ \/ \E w \in Waiter : /\ \A c \in Conn : w # Reading(c)
                                      /\ Len(queue) < MaxQueue /\ queue' = Append(queue, w)
                 \/ /\ queue # <<>> /\ queue[1].op = "write" /\ readers = {}
                    /\ queue' = Tail(queue)

LEMMA LockSteps ==
  ASSUME [Next]_vars
  PROVE  \/ UNCHANGED <<pc, queue, readers>>
         \/ \E c \in Conn : AskStep(c) \/ GrantStep(c) \/ LeaveStep(c) \/ MoveStep(c)
         \/ WriterStep
<1>1. ASSUME NEW c \in Conn, NEW ip \in Ip, NEW r \in Request, Accept(c, ip, r) PROVE MoveStep(c)
  BY <1>1 DEF Accept, MoveStep, lock
<1>2. ASSUME NEW c \in Conn,
             Admit(c) \/ Refuse(c) \/ Forbidden(c) \/ NotAFile(c) \/ Answered(c)
      PROVE  MoveStep(c)
  BY <1>2 DEF Admit, Refuse, Forbidden, NotAFile, Answered, Close, AnswerThen, MoveStep, lock
<1>3. ASSUME NEW c \in Conn, AskForLock(c) PROVE AskStep(c)
  BY <1>3 DEF AskForLock, AskStep
<1>4. ASSUME NEW c \in Conn, NotRegistered(c) \/ Found(c) PROVE GrantStep(c)
  BY <1>4 DEF NotRegistered, Found, AnswerThen, GrantStep
<1>5. ASSUME NEW c \in Conn, SendHeader(c) \/ SendBody(c) \/ GiveUp(c)
      PROVE  LeaveStep(c) \/ MoveStep(c)
  BY <1>5 DEF SendHeader, SendBody, GiveUp, Close, AnswerThen, LeaveStep, MoveStep
<1>6. ASSUME NEW t \in Task, NEW p \in Path \cup {NoPath}, AskToWrite(t, p) PROVE WriterStep
  <2> DEFINE w == Writing(t, p)
  <2>1. w \in Waiter /\ \A c \in Conn : w # Reading(c)
    BY DEF Waiter, Writing, Reading
  <2>2. Len(queue) < MaxQueue /\ queue' = Append(queue, w) /\ UNCHANGED <<pc, readers>>
    BY <1>6 DEF AskToWrite
  <2> HIDE DEF w
  <2> QED BY <2>1, <2>2 DEF WriterStep
<1>7. CASE Write
  BY <1>7 DEF Write, WriterStep
<1>8. CASE TimePasses \/ CleansUp \/ UNCHANGED vars
  BY <1>8 DEF TimePasses, CleansUp, vars, lock
<1> QED
  BY <1>1, <1>2, <1>3, <1>4, <1>5, <1>6, <1>7, <1>8
     DEF Next, ClientEnds, Serve, Register, Unregister

LEMMA WaitingFinite ==
  ASSUME NEW S \in SUBSET Conn
  PROVE  /\ IsFiniteSet(S) /\ Cardinality(S) \in Nat
         /\ \A c \in Conn : /\ c \notin S => Cardinality(S \cup {c}) = Cardinality(S) + 1
                            /\ c \in S => Cardinality(S \ {c}) = Cardinality(S) - 1
<1>1. IsFiniteSet(S)
  BY ConnAssumption, FS_Subset
<1> QED BY <1>1, FS_CardinalityType, FS_AddElement, FS_RemoveElement

LEMMA WaiterIs ==
  /\ \A c \in Conn : Reading(c) \in Waiter /\ Reading(c).op = "read"
  /\ \A c, d \in Conn : Reading(c) = Reading(d) => c = d
BY DEF Waiter, Reading

\* The queue with one more at its end.
LEMMA Joins ==
  ASSUME queue \in Seq(Waiter), NEW w \in Waiter, queue' = Append(queue, w)
  PROVE  /\ queue' \in Seq(Waiter) /\ Len(queue) \in Nat /\ Len(queue') = Len(queue) + 1
         /\ \A k \in 1..Len(queue) : queue'[k] = queue[k]
         /\ queue'[Len(queue) + 1] = w
         /\ \A v : Waits(v)' <=> Waits(v) \/ v = w
<1>1. /\ queue' \in Seq(Waiter) /\ Len(queue) \in Nat /\ Len(queue') = Len(queue) + 1
      /\ \A k \in 1..Len(queue) : queue'[k] = queue[k]
      /\ queue'[Len(queue) + 1] = w
  BY AppendProperties, LenProperties
<1>2. ASSUME NEW v PROVE Waits(v)' <=> Waits(v) \/ v = w
  <2>1. \A k \in 1..Len(queue') : k \in 1..Len(queue) \/ k = Len(queue) + 1
    BY <1>1
  <2>2. \A k \in 1..Len(queue) : k \in 1..Len(queue')
    BY <1>1
  <2>3. Len(queue) + 1 \in 1..Len(queue')
    BY <1>1
  <2> QED BY <1>1, <2>1, <2>2, <2>3 DEF Waits
<1> QED BY <1>1, <1>2

\* The queue without the one at its front.
LEMMA Leaves ==
  ASSUME queue \in Seq(Waiter), queue # <<>>, queue' = Tail(queue)
  PROVE  /\ queue' \in Seq(Waiter) /\ Len(queue) \in Nat /\ Len(queue') = Len(queue) - 1
         /\ \A k \in 1..Len(queue') : queue'[k] = queue[k + 1]
         /\ \A k \in 1..Len(queue') : k + 1 \in 1..Len(queue)
         /\ \A v : Waits(v)' => Waits(v)
         /\ \A v : Waits(v) => Waits(v)' \/ v = queue[1]
<1>1. /\ queue' \in Seq(Waiter) /\ Len(queue) \in Nat /\ Len(queue') = Len(queue) - 1
      /\ \A k \in 1..Len(queue') : queue'[k] = queue[k + 1]
  BY HeadTailProperties, LenProperties
<1>2. \A k \in 1..Len(queue') : k + 1 \in 1..Len(queue)
  BY <1>1
<1>3. \A k \in 1..Len(queue) : k = 1 \/ (k - 1 \in 1..Len(queue') /\ (k - 1) + 1 = k)
  BY <1>1
<1>4. ASSUME NEW v, Waits(v)' PROVE Waits(v)
  BY <1>1, <1>2, <1>4 DEF Waits
<1>5. ASSUME NEW v, Waits(v) PROVE Waits(v)' \/ v = queue[1]
  BY <1>1, <1>3, <1>5 DEF Waits
<1> QED BY <1>1, <1>2, <1>4, <1>5

LEMMA StepAsk ==
  ASSUME LockInv, NEW c \in Conn, AskStep(c)
  PROVE  LockInv'
<1> DEFINE w == Reading(c)
           W == Waiting
<1>1. /\ pc \in [Conn -> Steps] /\ pc' = [pc EXCEPT ![c] = "waiting"] /\ pc[c] = "reading"
      /\ queue \in Seq(Waiter) /\ w \in Waiter /\ queue' = Append(queue, w) /\ readers' = readers
      /\ Len(queue) <= MaxQueue + Cardinality(W) /\ MaxQueue \in Nat
  BY WaiterIs, LenAssumption DEF LockInv, AskStep
<1> HIDE DEF w, W
<1>2. /\ queue' \in Seq(Waiter) /\ Len(queue) \in Nat /\ Len(queue') = Len(queue) + 1
      /\ \A k \in 1..Len(queue) : queue'[k] = queue[k]
      /\ queue'[Len(queue) + 1] = w
      /\ \A v : Waits(v)' <=> Waits(v) \/ v = w
  BY <1>1, Joins
<1>3. Waiting' = W \cup {c} /\ c \notin W /\ W \in SUBSET Conn
  BY <1>1 DEF Waiting, W
<1>4. Len(queue') <= MaxQueue + Cardinality(Waiting')
  <2>1. Cardinality(W \cup {c}) = Cardinality(W) + 1 /\ Cardinality(W) \in Nat
    BY <1>3, WaitingFinite
  <2> QED BY <1>1, <1>2, <1>3, <2>1
<1>5. GuardsServed'
  <2>1. readers = {d \in Conn : Serving(d)}
    BY DEF LockInv, GuardsServed
  <2>2. \A d \in Conn : Serving(d)' <=> Serving(d)
    BY <1>1 DEF Serving
  <2> QED BY <1>1, <2>1, <2>2 DEF GuardsServed
<1>6. ASSUME NEW d \in Conn PROVE (pc'[d] = "waiting" <=> Waits(Reading(d))')
  <2>1. Reading(d)' = Reading(d) /\ (Reading(d) = w <=> d = c)
    BY WaiterIs DEF Reading, w
  <2>2. pc[d] = "waiting" <=> Waits(Reading(d))
    BY DEF LockInv, QueuedOnce
  <2>3. Waits(Reading(d))' <=> Waits(Reading(d)) \/ d = c
    BY <1>2, <2>1
  <2> HIDE DEF Waits
  <2> QED BY <1>1, <2>2, <2>3
<1>7. ASSUME NEW d \in Conn, NEW j \in 1..Len(queue'), NEW k \in 1..Len(queue'),
             queue'[j] = Reading(d), queue'[k] = Reading(d)
      PROVE  j = k
  <2>0. \A i \in 1..Len(queue) : queue[i] # w
    <3>1. ~Waits(w)
      BY <1>1 DEF LockInv, QueuedOnce, w
    <3> QED BY <3>1 DEF Waits
  <2>1. (j \in 1..Len(queue) \/ j = Len(queue) + 1) /\ (k \in 1..Len(queue) \/ k = Len(queue) + 1)
    BY <1>2
  <2>2. CASE d = c
    BY <1>2, <1>7, <2>0, <2>1, <2>2 DEF w
  <2>3. CASE d # c
    <3>1. Reading(d) # w
      BY <2>3, WaiterIs DEF w
    <3>2. j \in 1..Len(queue) /\ k \in 1..Len(queue) /\ queue[j] = Reading(d) /\ queue[k] = Reading(d)
      BY <1>2, <1>7, <2>1, <3>1
    <3> QED BY <3>2 DEF LockInv, QueuedOnce
  <2> QED BY <2>2, <2>3
<1>8. QueuedOnce'
  BY <1>6, <1>7 DEF QueuedOnce, Reading
<1>9. pc' \in [Conn -> Steps]
  BY <1>1 DEF Steps
<1> QED BY <1>2, <1>4, <1>5, <1>8, <1>9 DEF LockInv

\* What the queue keeps when its front is taken away.
LEMMA QueueShrinks ==
  ASSUME queue \in Seq(Waiter), queue # <<>>, queue' = Tail(queue), QueuedOnce
  PROVE  /\ \A c \in Conn, j, k \in 1..Len(queue') :
              queue'[j] = Reading(c) /\ queue'[k] = Reading(c) => j = k
         /\ \A c \in Conn : Waits(Reading(c))' <=> Waits(Reading(c)) /\ queue[1] # Reading(c)
<1>1. /\ Len(queue) \in Nat /\ Len(queue') = Len(queue) - 1
      /\ \A k \in 1..Len(queue') : queue'[k] = queue[k + 1]
      /\ \A k \in 1..Len(queue') : k + 1 \in 1..Len(queue)
      /\ \A v : Waits(v)' => Waits(v)
      /\ \A v : Waits(v) => Waits(v)' \/ v = queue[1]
  BY Leaves
<1>2. Len(queue) > 0
  BY EmptySeq
<1>3. \A c \in Conn, j, k \in 1..Len(queue) :
        queue[j] = Reading(c) /\ queue[k] = Reading(c) => j = k
  BY DEF QueuedOnce
<1>4. ASSUME NEW c \in Conn, NEW j \in 1..Len(queue'), NEW k \in 1..Len(queue'),
             queue'[j] = Reading(c), queue'[k] = Reading(c)
      PROVE  j = k
  <2>1. j + 1 = k + 1
    BY <1>1, <1>3, <1>4
  <2> QED BY <2>1
<1>5. ASSUME NEW c \in Conn, Waits(Reading(c))' PROVE queue[1] # Reading(c)
  <2>1. PICK k \in 1..Len(queue') : queue'[k] = Reading(c)
    BY <1>5 DEF Waits, Reading
  <2>2. queue[k + 1] = Reading(c) /\ k + 1 \in 1..Len(queue) /\ 1 \in 1..Len(queue) /\ k + 1 # 1
    BY <1>1, <1>2, <2>1
  <2> QED BY <1>3, <2>2
<1> QED BY <1>1, <1>4, <1>5 DEF Reading

LEMMA StepGrant ==
  ASSUME LockInv, NEW c \in Conn, GrantStep(c)
  PROVE  LockInv'
<1> DEFINE W == Waiting
<1>1. /\ pc \in [Conn -> Steps] /\ queue \in Seq(Waiter) /\ QueuedOnce
      /\ queue # <<>> /\ queue[1] = Reading(c) /\ queue' = Tail(queue)
      /\ Len(queue) <= MaxQueue + Cardinality(W) /\ MaxQueue \in Nat
      /\ \/ pc' = [pc EXCEPT ![c] = "header"] /\ readers' = readers \cup {c}
         \/ pc' = [pc EXCEPT ![c] = "answering"] /\ UNCHANGED readers
  BY LenAssumption DEF LockInv, GrantStep
<1>2. pc[c] = "waiting"
  <2>1. 1 \in 1..Len(queue)
    BY <1>1, EmptySeq
  <2>2. Waits(Reading(c))
    BY <1>1, <2>1 DEF Waits
  <2> QED BY <2>2 DEF LockInv, QueuedOnce
<1>3. queue' \in Seq(Waiter) /\ Len(queue) \in Nat /\ Len(queue') = Len(queue) - 1
  BY <1>1, Leaves
<1>4. /\ \A d \in Conn, j, k \in 1..Len(queue') :
            queue'[j] = Reading(d) /\ queue'[k] = Reading(d) => j = k
      /\ \A d \in Conn : Waits(Reading(d))' <=> Waits(Reading(d)) /\ queue[1] # Reading(d)
  BY <1>1, QueueShrinks
<1> HIDE DEF W
<1>5. Waiting' = W \ {c} /\ c \in W /\ W \in SUBSET Conn
  BY <1>1, <1>2 DEF Waiting, W
<1>6. Len(queue') <= MaxQueue + Cardinality(Waiting')
  <2>1. Cardinality(W \ {c}) = Cardinality(W) - 1 /\ Cardinality(W) \in Nat
    BY <1>5, WaitingFinite
  <2> QED BY <1>1, <1>3, <1>5, <2>1
<1>7. GuardsServed'
  <2>1. readers = {d \in Conn : Serving(d)}
    BY DEF LockInv, GuardsServed
  <2>2. CASE pc' = [pc EXCEPT ![c] = "header"] /\ readers' = readers \cup {c}
    BY <1>1, <2>1, <2>2 DEF GuardsServed, Serving
  <2>3. CASE pc' = [pc EXCEPT ![c] = "answering"] /\ UNCHANGED readers
    BY <1>1, <1>2, <2>1, <2>3 DEF GuardsServed, Serving
  <2> QED BY <1>1, <2>2, <2>3
<1>8. ASSUME NEW d \in Conn PROVE (pc'[d] = "waiting" <=> Waits(Reading(d))')
  <2>1. queue[1] = Reading(d) <=> d = c
    BY <1>1, WaiterIs
  <2>2. pc[d] = "waiting" <=> Waits(Reading(d))
    BY <1>1 DEF QueuedOnce
  <2>3. pc'[d] = "waiting" <=> pc[d] = "waiting" /\ d # c
    BY <1>1
  <2> QED BY <1>4, <2>1, <2>2, <2>3
<1>9. QueuedOnce'
  BY <1>4, <1>8 DEF QueuedOnce, Reading
<1>10. pc' \in [Conn -> Steps]
  BY <1>1 DEF Steps
<1> QED BY <1>3, <1>6, <1>7, <1>9, <1>10 DEF LockInv

LEMMA StepOther ==
  ASSUME LockInv, NEW c \in Conn, LeaveStep(c) \/ MoveStep(c)
  PROVE  LockInv'
<1>1. /\ pc \in [Conn -> Steps] /\ queue' = queue /\ pc' \in [Conn -> Steps]
      /\ \A d \in Conn : pc'[d] = "waiting" <=> pc[d] = "waiting"
  BY DEF LockInv, LeaveStep, MoveStep, Steps
<1>2. Waiting' = Waiting
  BY <1>1 DEF Waiting
<1>3. QueuedOnce'
  <2>1. \A d \in Conn : Waits(Reading(d))' <=> Waits(Reading(d))
    BY <1>1 DEF Waits, Reading
  <2> HIDE DEF Waits
  <2> QED BY <1>1, <2>1 DEF LockInv, QueuedOnce, Reading
<1>4. GuardsServed'
  <2>1. readers = {d \in Conn : Serving(d)}
    BY DEF LockInv, GuardsServed
  <2>2. CASE LeaveStep(c)
    BY <1>1, <2>1, <2>2 DEF LeaveStep, GuardsServed, Serving
  <2>3. CASE MoveStep(c)
    BY <1>1, <2>1, <2>3 DEF MoveStep, GuardsServed, Serving
  <2> QED BY <2>2, <2>3
<1> QED BY <1>1, <1>2, <1>3, <1>4 DEF LockInv

LEMMA StepWriter ==
  ASSUME LockInv, WriterStep
  PROVE  LockInv'
<1>1. /\ pc' = pc /\ readers' = readers /\ queue \in Seq(Waiter) /\ QueuedOnce
      /\ Waiting' = Waiting /\ MaxQueue \in Nat
      /\ Len(queue) <= MaxQueue + Cardinality(Waiting) /\ Cardinality(Waiting) \in Nat
  <2>1. Waiting \in SUBSET Conn
    BY DEF Waiting
  <2>2. Cardinality(Waiting) \in Nat
    BY <2>1, WaitingFinite
  <2> QED BY <2>2, LenAssumption DEF LockInv, WriterStep, Waiting
<1>2. GuardsServed'
  BY <1>1 DEF LockInv, GuardsServed, Serving
<1>3. ASSUME NEW w \in Waiter, \A c \in Conn : w # Reading(c), Len(queue) < MaxQueue,
             queue' = Append(queue, w)
      PROVE  LockInv'
  <2>1. /\ queue' \in Seq(Waiter) /\ Len(queue) \in Nat /\ Len(queue') = Len(queue) + 1
        /\ \A k \in 1..Len(queue) : queue'[k] = queue[k]
        /\ queue'[Len(queue) + 1] = w
        /\ \A v : Waits(v)' <=> Waits(v) \/ v = w
    BY <1>1, <1>3, Joins
  <2>2. \A d \in Conn : Waits(Reading(d))' <=> Waits(Reading(d))
    BY <1>3, <2>1 DEF Reading
  <2>3. ASSUME NEW d \in Conn, NEW j \in 1..Len(queue'), NEW k \in 1..Len(queue'),
               queue'[j] = Reading(d), queue'[k] = Reading(d)
        PROVE  j = k
    <3>1. j \in 1..Len(queue) /\ k \in 1..Len(queue)
      <4>1. (j \in 1..Len(queue) \/ j = Len(queue) + 1) /\ (k \in 1..Len(queue) \/ k = Len(queue) + 1)
        BY <2>1
      <4> QED BY <1>3, <2>1, <2>3, <4>1
    <3>2. queue[j] = Reading(d) /\ queue[k] = Reading(d)
      BY <2>1, <2>3, <3>1
    <3> QED BY <1>1, <3>1, <3>2 DEF QueuedOnce
  <2>4. QueuedOnce'
    BY <1>1, <2>2, <2>3 DEF QueuedOnce, Reading
  <2> QED BY <1>1, <1>2, <1>3, <2>1, <2>4 DEF LockInv
<1>4. CASE queue # <<>> /\ queue[1].op = "write" /\ queue' = Tail(queue)
  <2>1. queue' \in Seq(Waiter) /\ Len(queue) \in Nat /\ Len(queue') = Len(queue) - 1
    BY <1>1, <1>4, Leaves
  <2>2. /\ \A d \in Conn, j, k \in 1..Len(queue') :
              queue'[j] = Reading(d) /\ queue'[k] = Reading(d) => j = k
        /\ \A d \in Conn : Waits(Reading(d))' <=> Waits(Reading(d)) /\ queue[1] # Reading(d)
    BY <1>1, <1>4, QueueShrinks
  <2>3. \A d \in Conn : queue[1] # Reading(d)
    BY <1>4, WaiterIs
  <2>4. QueuedOnce'
    BY <1>1, <2>2, <2>3 DEF QueuedOnce, Reading
  <2> QED BY <1>1, <1>2, <2>1, <2>4 DEF LockInv
<1> QED BY <1>3, <1>4 DEF WriterStep

LEMMA StepLock == LockInv /\ [Next]_vars => LockInv'
<1> SUFFICES ASSUME LockInv, [Next]_vars PROVE LockInv'
  OBVIOUS
<1>1. CASE UNCHANGED <<pc, queue, readers>>
  BY <1>1 DEF LockInv, GuardsServed, QueuedOnce, Waiting, Waits, Serving, Reading
<1> QED BY <1>1, LockSteps, StepAsk, StepGrant, StepOther, StepWriter

LEMMA InitLock == Init => LockInv
<1> SUFFICES ASSUME Init PROVE LockInv
  OBVIOUS
<1>1. queue = <<>> /\ readers = {} /\ pc = [c \in Conn |-> "closed"]
  BY DEF Init
<1>2. queue \in Seq(Waiter) /\ Len(queue) = 0
  BY <1>1
<1>3. Waiting = {} /\ Cardinality({}) = 0 /\ MaxQueue \in Nat
  BY <1>1, FS_EmptySet, LenAssumption DEF Waiting
<1>4. Len(queue) <= MaxQueue + Cardinality(Waiting)
  BY <1>2, <1>3
<1> QED BY <1>1, <1>2, <1>4 DEF LockInv, GuardsServed, QueuedOnce, Waits, Serving, Steps

\* Who waits, or is served, asked for a task's file.
Tables ==
  /\ files \in [Task -> Path \cup {NoPath}]
  /\ from \in [Conn -> Ip] /\ req \in [Conn -> Request]
  /\ path \in [Conn -> Path \cup {NoPath}]
  /\ \A c \in Conn : pc[c] \in {"waiting", "header", "body"} => req[c].task \in Task

LEMMA StepTables ==
  ASSUME LockInv, Tables, [Next]_vars
  PROVE  Tables'
<1>0. pc \in [Conn -> Steps] /\ queue \in Seq(Waiter)
  BY DEF LockInv
<1>1. ASSUME NEW c \in Conn, NEW ip \in Ip, NEW r \in Request, Accept(c, ip, r) PROVE Tables'
  BY <1>0, <1>1 DEF Accept, lock, Tables
<1>2. ASSUME NEW c \in Conn,
             \/ Admit(c) \/ Refuse(c) \/ Forbidden(c) \/ NotAFile(c) \/ AskForLock(c)
             \/ NotRegistered(c) \/ SendHeader(c) \/ SendBody(c) \/ GiveUp(c) \/ Answered(c)
      PROVE  Tables'
  <2>1. UNCHANGED <<files, from, req, path>>
    BY <1>2 DEF Admit, Refuse, Forbidden, NotAFile, AskForLock, NotRegistered, SendHeader,
          SendBody, GiveUp, Answered, Close, AnswerThen, lock, client
  <2>2. ASSUME NEW d \in Conn, pc'[d] \in {"waiting", "header", "body"}
        PROVE  req[d].task \in Task
    <3>1. pc[d] \in {"waiting", "header", "body"} \/ (d = c /\ AskForLock(c))
      BY <1>0, <1>2, <2>2 DEF Admit, Refuse, Forbidden, NotAFile, AskForLock, NotRegistered,
            SendHeader, SendBody, GiveUp, Answered, Close, AnswerThen
    <3>2. AskForLock(c) => req[c].task \in Task
      <4>1. req[c].task \in Task \cup {NoTask}
        BY DEF Tables, Request
      <4> QED BY <4>1 DEF AskForLock
    <3> QED BY <3>1, <3>2 DEF Tables
  <2> QED BY <2>1, <2>2 DEF Tables
<1>3. ASSUME NEW c \in Conn, Found(c) PROVE Tables'
  <2>1. pc[c] = "waiting"
    <3>1. queue # <<>> /\ queue[1] = Reading(c)
      BY <1>3 DEF Found
    <3>2. 1 \in 1..Len(queue)
      BY <1>0, <3>1, EmptySeq
    <3>3. Waits(Reading(c))
      BY <3>1, <3>2 DEF Waits
    <3> QED BY <3>3 DEF LockInv, QueuedOnce
  <2>2. req[c].task \in Task
    BY <2>1 DEF Tables
  <2> QED BY <1>0, <1>3, <2>1, <2>2 DEF Found, client, Tables
<1>4. CASE Write
  <2>1. queue # <<>> /\ queue[1].op = "write"
    BY <1>4 DEF Write
  <2>2. queue[1] \in Waiter
    <3>1. 1 \in 1..Len(queue)
      BY <1>0, <2>1, EmptySeq
    <3> QED BY <1>0, <3>1, ElementOfSeq
  <2>3. queue[1].path \in Path \cup {NoPath}
    BY <2>1, <2>2 DEF Waiter, Writing, Reading
  <2> QED BY <1>4, <2>3 DEF Write, client, Tables
<1>5. ASSUME \/ \E t \in Task : Unregister(t) \/ \E p \in Path : Register(t, p)
             \/ TimePasses \/ CleansUp \/ UNCHANGED vars
      PROVE  Tables'
  <2>1. UNCHANGED <<files, from, req, path, pc>>
    BY <1>5 DEF Unregister, Register, AskToWrite, TimePasses, CleansUp, vars, lock, client
  <2> QED BY <2>1 DEF Tables
<1> QED BY <1>1, <1>2, <1>3, <1>4, <1>5 DEF Next, ClientEnds, Serve

LEMMA LockInductive == Spec => [](LockInv /\ Tables)
<1>1. Init => Tables
  BY DEF Init, Tables, Request, Plain, Ranges
<1> QED BY <1>1, InitLock, StepLock, StepTables, PTL DEF Spec

\* The variables keep their types, for any number of connections; a connection is
\* in the queue of the lock just while it waits, and the queue never holds more
\* than the waiting connections and MaxQueue writers.
THEOREM TypeCorrect == Spec => []TypeOK
<1>1. ASSUME LockInv, Tables PROVE TypeOK
  <2>1. Waiting \in SUBSET Conn /\ Conn \in SUBSET Conn
    BY DEF Waiting
  <2>2. Cardinality(Waiting) <= Cardinality(Conn) /\ Cardinality(Waiting) \in Nat
        /\ Cardinality(Conn) \in Nat
    BY <2>1, ConnAssumption, FS_Subset, FS_CardinalityType
  <2>3. Len(queue) <= MaxQueue + Cardinality(Conn)
    BY <1>1, <2>2, LenAssumption, LenProperties DEF LockInv
  <2>4. readers \subseteq Conn
    BY <1>1 DEF LockInv, GuardsServed
  <2> QED BY <1>1, <2>3, <2>4 DEF LockInv, Tables, TypeOK, QueuedOnce, Steps
<1> QED BY <1>1, LockInductive, PTL

\* As long as anyone waits for the lock, there is someone who can go on: the request
\* or the writer at the front of the queue, or a connection that is being served,
\* which never waits for another.  No path out of serve_file leaves a guard behind.
LockMoves ==
  queue # <<>> =>
    \/ \E c \in Conn : queue[1] = Reading(c) /\ pc[c] = "waiting"
    \/ queue[1].op = "write" /\ readers = {}
    \/ \E c \in readers : pc[c] \in {"header", "body"}

\* The lock of the shared files never deadlocks, for any number of connections.
THEOREM LockMovesCorrect == Spec => []LockMoves
<1>1. ASSUME LockInv PROVE LockMoves
  <2> SUFFICES ASSUME queue # <<>> PROVE LockMoves
    BY DEF LockMoves
  <2>0. readers = {c \in Conn : pc[c] \in {"header", "body"}}
    BY <1>1 DEF LockInv, GuardsServed, Serving
  <2>1. 1 \in 1..Len(queue) /\ queue[1] \in Waiter
    <3>1. 1 \in 1..Len(queue)
      BY <1>1, EmptySeq DEF LockInv
    <3> QED BY <1>1, <3>1, ElementOfSeq DEF LockInv
  <2>2. CASE \E c \in Conn : queue[1] = Reading(c)
    <3>1. PICK c \in Conn : queue[1] = Reading(c)
      BY <2>2
    <3>2. pc[c] = "waiting"
      BY <1>1, <2>1, <3>1 DEF LockInv, QueuedOnce, Waits
    <3> QED BY <3>1, <3>2 DEF LockMoves
  <2>3. CASE ~ \E c \in Conn : queue[1] = Reading(c)
    <3>1. queue[1].op = "write"
      BY <2>1, <2>3 DEF Waiter, Writing
    <3> QED BY <2>0, <3>1 DEF LockMoves
  <2> QED BY <2>2, <2>3
<1> QED BY <1>1, LockInductive, PTL
=============================================================================
