------------------------- MODULE PeerDownloadProofs -------------------------
(***************************************************************************)
(* What a download from a peer leaves in the file, for any length of file, *)
(* chunk and number of connections, and however many calls came before.    *)
(* The chunk files of a peer that honours Range hold bytes of their chunk  *)
(* only, in order, and texts of refusals, whichever call left them there: a*)
(* merge over what an earlier one left behind stays in order.              *)
(***************************************************************************)
EXTENDS PeerDownload, SequenceTheorems, FiniteSetTheorems, TLAPS

Within(s, a, b) == \A k \in 1..Len(s) : s[k] # 0 => a < s[k] /\ s[k] <= b

\* What a call that runs knows.
Shape ==
  /\ pc = "get" => output = before /\ total = len /\ Len(output) < len
  /\ pc \in {"chunks", "merge"} => total = len
  /\ pc # "idle" => result.status = "none" /\ result.by = "none"

PartsInside ==
  peer = "range" =>
    \A i \in Chunk : part[i] # NoFile =>
      InOrder(part[i]) /\ Within(part[i], Start(i), Start(i) + ChunkLen)

MergedBelow ==
  peer = "range" /\ pc = "merge" => InOrder(output) /\ Within(output, 0, Start(next))

IInv == TypeOK /\ Shape /\ PartsInside /\ MergedBelow /\ ResumeCompletes /\ MergedInOrder

Bytes == Seq(0..MaxLen)

---------------------------------------------------------------------------
(* Sequences and chunks                                                    *)

LEMMA ContentSeq ==
  ASSUME TypeOK
  PROVE  /\ len \in Nat /\ Content \in Bytes /\ Len(Content) = len
         /\ \A k \in 1..len : Content[k] = k
         /\ Content = SubSeq(Content, 1, len)
<1>1. len \in Nat /\ len <= MaxLen
  BY BoundAssumption DEF TypeOK
<1>2. Content \in [1..len -> 0..MaxLen]
  BY <1>1, BoundAssumption DEF Content, File
<1>3. Content \in Bytes /\ Len(Content) = len /\ \A k \in 1..len : Content[k] = k
  BY <1>1, <1>2, SeqDef DEF Content, File, Bytes
<1> QED BY <1>1, <1>3, SubSeqFull DEF Bytes

\* A slice of the file, which is empty where it would begin behind its end.
LEMMA Slice ==
  ASSUME TypeOK, NEW a \in Nat, NEW b \in Int, b <= len
  PROVE  LET s == SubSeq(Content, a + 1, b) IN
         /\ s \in Bytes
         /\ Len(s) = IF a < b THEN b - a ELSE 0
         /\ \A k \in 1..Len(s) : s[k] = a + k
<1> DEFINE s == SubSeq(Content, a + 1, b)
<1>1. /\ len \in Nat /\ len <= MaxLen /\ Content \in Bytes
      /\ \A k \in 1..len : Content[k] = k
  BY ContentSeq, BoundAssumption DEF TypeOK
<1>2. \A k \in a + 1 .. b : Content[k] \in 0..MaxLen
  BY <1>1, BoundAssumption
<1>3. /\ s \in Bytes
      /\ Len(s) = IF a + 1 <= b THEN b - (a + 1) + 1 ELSE 0
      /\ \A k \in 1 .. b - (a + 1) + 1 : s[k] = Content[a + 1 + k - 1]
  BY <1>2, SubSeqProperties DEF Bytes
<1> HIDE DEF s
<1>4. Len(s) = IF a < b THEN b - a ELSE 0
  BY <1>3
<1>5. ASSUME NEW k \in 1..Len(s) PROVE s[k] = a + k
  <2>1. k \in 1..(b - a) /\ k \in 1 .. b - (a + 1) + 1 /\ a + 1 + k - 1 = a + k
    BY <1>4
  <2>2. s[k] = Content[a + k] /\ a + k \in 1..len
    BY <1>1, <1>3, <2>1
  <2> QED BY <1>1, <2>2
<1> QED BY <1>3, <1>4, <1>5 DEF s

LEMMA Cut ==
  ASSUME NEW s \in Bytes, NEW k \in 0..Len(s)
  PROVE  LET p == SubSeq(s, 1, k) IN
         /\ p \in Bytes /\ Len(p) = k
         /\ \A j \in 1..k : p[j] = s[j]
<1> DEFINE p == SubSeq(s, 1, k)
<1>0. Len(s) \in Nat /\ s \in [1..Len(s) -> 0..MaxLen]
  BY LenProperties DEF Bytes
<1>1. \A j \in 1..k : s[j] \in 0..MaxLen
  BY <1>0
<1>2. /\ p \in Bytes
      /\ Len(p) = IF 1 <= k THEN k - 1 + 1 ELSE 0
      /\ \A j \in 1 .. k - 1 + 1 : p[j] = s[1 + j - 1]
  BY <1>1, SubSeqProperties DEF Bytes
<1> HIDE DEF p
<1>3. Len(p) = k /\ \A j \in 1..k : p[j] = s[j]
  BY <1>2
<1> QED BY <1>2, <1>3 DEF p

LEMMA CutInside ==
  ASSUME NEW s \in Bytes, NEW k \in 0..Len(s), NEW a \in Int, NEW b \in Int,
         InOrder(s), Within(s, a, b)
  PROVE  InOrder(SubSeq(s, 1, k)) /\ Within(SubSeq(s, 1, k), a, b)
<1> DEFINE p == SubSeq(s, 1, k)
<1>1. Len(p) = k /\ Len(s) \in Nat /\ \A j \in 1..k : p[j] = s[j]
  BY Cut, LenProperties DEF Bytes
<1> HIDE DEF p
<1>2. InOrder(p)
  BY <1>1 DEF InOrder
<1>3. Within(p, a, b)
  BY <1>1 DEF Within
<1> QED BY <1>2, <1>3 DEF p

\* Sequences that lie one behind the other are in order together.
LEMMA Joined ==
  ASSUME NEW s \in Bytes, NEW t \in Bytes,
         NEW a \in Int, NEW b \in Int, NEW c \in Int, a <= b, b <= c,
         InOrder(s), Within(s, a, b), InOrder(t), Within(t, b, c)
  PROVE  InOrder(s \o t) /\ Within(s \o t, a, c)
<1> DEFINE u == s \o t
<1>1. /\ Len(s) \in Nat /\ Len(t) \in Nat
      /\ \A k \in 1..Len(s) : s[k] \in Int
      /\ \A k \in 1..Len(t) : t[k] \in Int
  BY LenProperties, BoundAssumption DEF Bytes
<1>2. /\ Len(u) = Len(s) + Len(t)
      /\ \A i \in 1..Len(s) + Len(t) : u[i] = IF i <= Len(s) THEN s[i] ELSE t[i - Len(s)]
  BY ConcatProperties DEF Bytes
<1> HIDE DEF u
<1>3. \A k \in 1..Len(s) : u[k] = s[k]
  BY <1>1, <1>2
<1>4. \A k \in 1..Len(u) : k > Len(s) => k - Len(s) \in 1..Len(t) /\ u[k] = t[k - Len(s)]
  BY <1>1, <1>2
<1>5. Within(u, a, c)
  <2> SUFFICES ASSUME NEW k \in 1..Len(u), u[k] # 0 PROVE a < u[k] /\ u[k] <= c
    BY DEF Within
  <2>1. CASE k <= Len(s)
    <3>1. k \in 1..Len(s) /\ u[k] = s[k] /\ s[k] \in Int
      BY <1>1, <1>3, <2>1
    <3>2. a < s[k] /\ s[k] <= b
      BY <3>1 DEF Within
    <3> QED BY <3>1, <3>2
  <2>2. CASE k > Len(s)
    <3>1. k - Len(s) \in 1..Len(t) /\ u[k] = t[k - Len(s)]
      BY <1>4, <2>2
    <3>2. b < t[k - Len(s)] /\ t[k - Len(s)] <= c /\ t[k - Len(s)] \in Int
      BY <1>1, <3>1 DEF Within
    <3> QED BY <3>1, <3>2
  <2> QED BY <1>1, <2>1, <2>2
<1>6. InOrder(u)
  <2> SUFFICES ASSUME NEW j \in 1..Len(u), NEW k \in 1..Len(u), j < k, u[j] # 0, u[k] # 0
               PROVE  u[j] < u[k]
    BY DEF InOrder
  <2>1. CASE k <= Len(s)
    <3>1. j \in 1..Len(s) /\ k \in 1..Len(s) /\ u[j] = s[j] /\ u[k] = s[k]
      BY <1>1, <1>3, <2>1
    <3> QED BY <3>1 DEF InOrder
  <2>2. CASE j <= Len(s) /\ k > Len(s)
    <3>1. j \in 1..Len(s) /\ u[j] = s[j] /\ s[j] \in Int
      BY <1>1, <1>3, <2>2
    <3>2. k - Len(s) \in 1..Len(t) /\ u[k] = t[k - Len(s)] /\ t[k - Len(s)] \in Int
      BY <1>1, <1>4, <2>2
    <3>3. s[j] <= b /\ b < t[k - Len(s)]
      BY <3>1, <3>2 DEF Within
    <3> QED BY <3>1, <3>2, <3>3
  <2>3. CASE j > Len(s)
    <3>1. j - Len(s) \in 1..Len(t) /\ k - Len(s) \in 1..Len(t) /\ j - Len(s) < k - Len(s)
      BY <1>1, <1>4, <2>3
    <3>2. u[j] = t[j - Len(s)] /\ u[k] = t[k - Len(s)]
      BY <1>1, <1>4, <2>3
    <3> QED BY <3>1, <3>2 DEF InOrder
  <2> QED BY <1>1, <2>1, <2>2, <2>3
<1> QED BY <1>5, <1>6 DEF u

\* A merge never leaves the chunks that a file can have.
LEMMA ChunkNumbers ==
  ASSUME TypeOK
  PROVE  /\ NumChunks \in 0..MaxChunks /\ MaxChunks \in Nat
         /\ \A i \in Chunk : Start(i) \in Nat /\ Start(i + 1) = Start(i) + ChunkLen
         /\ \A i \in Chunk : End(i) \in Int /\ End(i) + 1 <= Start(i) + ChunkLen
                             /\ End(i) + 1 <= total
<1>1. total \in Nat /\ total <= MaxLen /\ MaxLen \in Nat /\ ChunkLen \in Nat /\ ChunkLen > 0
  BY ChunkAssumption, BoundAssumption DEF TypeOK
<1>2. /\ NumChunks \in Int /\ MaxChunks \in Int
      /\ ChunkLen * NumChunks <= total + ChunkLen - 1
      /\ total + ChunkLen - 1 < ChunkLen * NumChunks + ChunkLen
      /\ ChunkLen * MaxChunks <= MaxLen + ChunkLen - 1
      /\ MaxLen + ChunkLen - 1 < ChunkLen * MaxChunks + ChunkLen
  BY <1>1 DEF NumChunks, MaxChunks
<1>3. 0 <= NumChunks
  <2> SUFFICES ASSUME NumChunks + 1 <= 0 PROVE FALSE
    BY <1>2
  <2>1. ChunkLen * (NumChunks + 1) <= 0
    BY <1>1, <1>2
  <2>2. ChunkLen * (NumChunks + 1) = ChunkLen * NumChunks + ChunkLen
    BY <1>1, <1>2
  <2> QED BY <1>1, <1>2, <2>1, <2>2
<1>4. NumChunks <= MaxChunks
  <2> SUFFICES ASSUME MaxChunks + 1 <= NumChunks PROVE FALSE
    BY <1>2
  <2>1. ChunkLen * (MaxChunks + 1) <= ChunkLen * NumChunks
    BY <1>1, <1>2
  <2>2. ChunkLen * (MaxChunks + 1) = ChunkLen * MaxChunks + ChunkLen
    BY <1>1, <1>2
  <2> QED BY <1>1, <1>2, <2>1, <2>2
<1>5. \A i \in Chunk : i \in Nat
  BY DEF Chunk
<1>6. \A i \in Nat : Start(i) \in Nat /\ Start(i + 1) = Start(i) + ChunkLen
  BY <1>1 DEF Start
<1>7. \A i \in Nat : End(i) \in Int /\ End(i) + 1 <= Start(i) + ChunkLen /\ End(i) + 1 <= total
  BY <1>1, <1>6 DEF End
<1> QED BY <1>2, <1>3, <1>4, <1>5, <1>6, <1>7

---------------------------------------------------------------------------
(* What a peer sends                                                       *)

LEMMA BodySeq ==
  ASSUME TypeOK, NEW a \in Nat, NEW b \in Int, b + 1 <= len
  PROVE  /\ Body(a, b) \in Bytes
         /\ peer = "range" => Body(a, b) = SubSeq(Content, a + 1, b + 1)
<1>1. CASE peer = "range"
  <2>1. SubSeq(Content, a + 1, b + 1) \in Bytes
    BY Slice
  <2> QED BY <1>1, <2>1 DEF Body
<1>2. CASE peer = "whole"
  BY <1>2, ContentSeq DEF Body
<1>3. CASE peer = "prefix"
  <2> DEFINE n == b - a + 1
  <2>1. n \in Int /\ n <= len /\ len \in Nat
    BY ContentSeq
  <2>2. SubSeq(Content, 0 + 1, n) \in Bytes
    <3> HIDE DEF n
    <3> QED BY <2>1, Slice
  <2> QED BY <1>3, <2>2 DEF Body
<1> QED BY <1>1, <1>2, <1>3, PeerAssumption DEF TypeOK

LEMMA BodyInside ==
  ASSUME TypeOK, peer = "range", NEW a \in Nat, NEW b \in Int, b + 1 <= len
  PROVE  InOrder(Body(a, b)) /\ Within(Body(a, b), a, b + 1)
<1> DEFINE s == Body(a, b)
<1>1. /\ Len(s) = IF a < b + 1 THEN b + 1 - a ELSE 0
      /\ \A k \in 1..Len(s) : s[k] = a + k
  <2> DEFINE e == b + 1
  <2>1. e \in Int /\ e <= len /\ s = SubSeq(Content, a + 1, e)
    BY BodySeq
  <2> HIDE DEF e, s
  <2>2. /\ Len(s) = IF a < e THEN e - a ELSE 0
        /\ \A k \in 1..Len(s) : s[k] = a + k
    BY <2>1, Slice
  <2> QED BY <2>2 DEF e
<1> HIDE DEF s
<1>2. InOrder(s) /\ Within(s, a, b + 1)
  BY <1>1 DEF InOrder, Within
<1> QED BY <1>2 DEF s

LEMMA PrefixSeq ==
  ASSUME NEW s \in Bytes, NEW p \in Prefixes(s)
  PROVE  /\ p \in Bytes
         /\ \A a, b \in Int : InOrder(s) /\ Within(s, a, b) => InOrder(p) /\ Within(p, a, b)
<1>1. PICK k \in 0..Len(s) : p = SubSeq(s, 1, k)
  BY DEF Prefixes
<1> QED BY <1>1, Cut, CutInside

\* The text of a refusal has no byte of the file.
LEMMA PageSeq ==
  ASSUME NEW p \in Prefixes(Page)
  PROVE  p \in Bytes /\ InOrder(p) /\ \A a, b \in Int : Within(p, a, b)
<1>1. Page \in Bytes /\ Len(Page) = 1 /\ Page[1] = 0
  BY BoundAssumption DEF Page, Bytes
<1>2. PICK k \in 0..1 : p = SubSeq(Page, 1, k)
  BY <1>1 DEF Prefixes
<1>3. p \in Bytes /\ Len(p) = k /\ \A j \in 1..k : p[j] = 0
  <2>1. k \in 0..Len(Page)
    BY <1>1
  <2>2. p \in Bytes /\ Len(p) = k /\ \A j \in 1..k : p[j] = Page[j]
    BY <1>1, <1>2, <2>1, Cut
  <2> QED BY <1>1, <2>2
<1> QED BY <1>3 DEF InOrder, Within

---------------------------------------------------------------------------
(* The steps                                                               *)

Starts(n)  == AlreadyComplete(n) \/ StartPeer(n) \/ StartParallel(n)
Getting    == GetDone \/ GetRefused \/ GetBreaks
Fetching(i) == ChunkDone(i) \/ ChunkRefused(i)
Merging    == CreateFails \/ CreateOutput \/ MergeChunk \/ MergeBreaks \/ MergeDone

LEMMA NextIs ==
  ASSUME Next
  PROVE  \/ HeadFails
         \/ \E n \in {0, len} : Starts(n)
         \/ Getting
         \/ \E i \in Chunk : Fetching(i)
         \/ Merging
         \/ \E a \in {0, Len(output)} : DownloadFile(a)
BY DEF Next, Starts, Getting, Fetching, Merging

LEMMA InitIInv == Init => IInv
<1> SUFFICES ASSUME Init PROVE IInv
  OBVIOUS
<1>1. MaxChunks \in Nat
  BY ChunkAssumption, BoundAssumption DEF MaxChunks
<1>2. <<>> \in Bytes
  BY DEF Bytes
<1>3. TypeOK
  BY <1>1, <1>2, BoundAssumption DEF Init, TypeOK, Bytes, None
<1> QED BY <1>3 DEF Init, IInv, Shape, PartsInside, MergedBelow, ResumeCompletes, MergedInOrder, None

LEMMA RemoteStays ==
  ASSUME Next
  PROVE  UNCHANGED <<len, peer>>
BY DEF Next, remote, Begin, HeadFails, AlreadyComplete, StartPeer, StartParallel, Get, GetDone,
       GetRefused, GetBreaks, ChunkEnds, ChunkDone, ChunkRefused, CreateFails,
       CreateOutput, MergeChunk, MergeBreaks, MergeDone, DownloadFile

LEMMA ControlTypes ==
  ASSUME TypeOK, Next
  PROVE  /\ (len \in 0..MaxLen)' /\ (peer \in Peers)'
         /\ (pc \in {"idle", "get", "chunks", "merge"})'
         /\ (total \in 0..MaxLen)' /\ (next \in 0..MaxChunks)'
         /\ (todo \subseteq Chunk)'
         /\ (flaws \subseteq {"short", "page"})' /\ (calls \in 0..MaxCalls)'
<1>0. /\ len \in 0..MaxLen /\ peer \in Peers
      /\ pc \in {"idle", "get", "chunks", "merge"} /\ total \in 0..MaxLen /\ next \in 0..MaxChunks
      /\ todo \subseteq Chunk /\ flaws \subseteq {"short", "page"} /\ calls \in 0..MaxCalls
      /\ MaxLen \in Nat /\ MaxCalls \in Nat /\ MaxChunks \in Nat /\ NumChunks \in 0..MaxChunks
      /\ Chunk' = Chunk /\ MaxChunks' = MaxChunks
  BY BoundAssumption, ChunkNumbers DEF TypeOK, Chunk, MaxChunks
<1>1. ASSUME NEW n \in {0, len}, Begin(n)
      PROVE  /\ total' \in 0..MaxLen /\ calls' \in 0..MaxCalls /\ flaws' \subseteq {"short", "page"}
             /\ UNCHANGED <<len, peer>>
  BY <1>0, <1>1 DEF Begin, remote
<1>2. CASE HeadFails
  BY <1>0, <1>1, <1>2 DEF HeadFails, Return
<1>3. ASSUME NEW n \in {0, len}, Starts(n)
      PROVE  /\ Begin(n) /\ pc' \in {"idle", "get", "chunks"} /\ todo' \subseteq Chunk
             /\ UNCHANGED next
  BY <1>0, <1>3 DEF Starts, AlreadyComplete, StartPeer, StartParallel, Return
<1>4. CASE Getting
  BY <1>0, <1>4 DEF Getting, GetDone, GetRefused, GetBreaks, Get, Short, Refused, Return, remote
<1>5. ASSUME NEW i \in Chunk, Fetching(i)
      PROVE  /\ UNCHANGED <<len, peer, pc, total, next, calls>>
             /\ todo' \subseteq Chunk /\ flaws' \subseteq {"short", "page"}
  BY <1>0, <1>5 DEF Fetching, ChunkDone, ChunkRefused, ChunkEnds, Short, Refused, remote
<1>6. CASE Merging
  <2>1. /\ UNCHANGED <<len, peer, total, todo, flaws, calls>>
        /\ pc' \in {"idle", "chunks", "merge"}
    BY <1>0, <1>6 DEF Merging, CreateFails, CreateOutput, MergeChunk, MergeBreaks, MergeDone,
          Return, remote
  <2>2. next' \in 0..MaxChunks
    BY <1>0, <1>6 DEF Merging, CreateFails, CreateOutput, MergeChunk, MergeBreaks, MergeDone
  <2> QED BY <1>0, <2>1, <2>2
<1>7. ASSUME NEW a \in {0, Len(output)}, DownloadFile(a)
      PROVE  Begin(0) /\ pc' = "idle" /\ UNCHANGED <<todo, next>>
  BY <1>7 DEF DownloadFile, Return
<1>8. CASE \E n \in {0, len} : Starts(n)
  BY <1>0, <1>1, <1>3, <1>8
<1>9. CASE \E a \in {0, Len(output)} : DownloadFile(a)
  BY <1>0, <1>1, <1>7, <1>9
<1>10. CASE \E i \in Chunk : Fetching(i)
  BY <1>0, <1>5, <1>10
<1> QED BY <1>2, <1>4, <1>6, <1>8, <1>9, <1>10, NextIs

\* Each task writes the file of its own chunk.
LEMMA ChunkBodies ==
  ASSUME TypeOK, Shape, NEW i \in Chunk, Fetching(i)
  PROVE  \E s \in Bytes \cup {NoFile} :
           /\ part' = [part EXCEPT ![i] = s]
           /\ s = part[i] \/ (s \in Bytes /\ (peer = "range" =>
                InOrder(s) /\ Within(s, Start(i), Start(i) + ChunkLen)))
<1>0. /\ total = len /\ part[i] \in Bytes \cup {NoFile}
      /\ Start(i) \in Nat /\ End(i) \in Int /\ End(i) + 1 <= Start(i) + ChunkLen
      /\ End(i) + 1 <= len /\ ChunkLen \in Nat
  <2>1. pc = "chunks"
    BY DEF Fetching, ChunkDone, ChunkRefused, ChunkEnds, Short, Refused
  <2>2. total = len
    BY <2>1 DEF Shape
  <2> QED BY <2>2, ChunkNumbers, ChunkAssumption DEF TypeOK, Bytes
<1> DEFINE b == Body(Start(i), End(i))
<1>1. b \in Bytes
  BY <1>0, BodySeq
<1>2. peer = "range" => InOrder(b) /\ Within(b, Start(i), End(i) + 1)
  BY <1>0, BodyInside
<1>3. \A s \in Bytes : Within(s, Start(i), End(i) + 1) => Within(s, Start(i), Start(i) + ChunkLen)
  <2> SUFFICES ASSUME NEW s \in Bytes, Within(s, Start(i), End(i) + 1),
                      NEW k \in 1..Len(s), s[k] # 0
               PROVE  Start(i) < s[k] /\ s[k] <= Start(i) + ChunkLen
    BY DEF Within
  <2>1. s \in [1..Len(s) -> 0..MaxLen]
    BY LenProperties DEF Bytes
  <2>2. s[k] \in Int /\ Start(i) < s[k] /\ s[k] <= End(i) + 1
    BY <2>1, BoundAssumption DEF Within
  <2> QED BY <1>0, <2>2
<1>4. \/ \E s \in Prefixes(b) : part' = [part EXCEPT ![i] = s]
      \/ \E s \in {part[i]} \cup Prefixes(Page) : part' = [part EXCEPT ![i] = s]
  BY DEF Fetching, ChunkDone, ChunkRefused, ChunkEnds
<1> HIDE DEF b
<1>5. \A s \in Prefixes(b) : s \in Bytes /\ (peer = "range" =>
                               InOrder(s) /\ Within(s, Start(i), End(i) + 1))
  <2>1. End(i) + 1 \in Int /\ Start(i) \in Int
    BY <1>0
  <2> QED BY <1>1, <1>2, <2>1, PrefixSeq
<1>6. CASE \E s \in Prefixes(b) : part' = [part EXCEPT ![i] = s]
  <2>1. PICK s \in Prefixes(b) : part' = [part EXCEPT ![i] = s]
    BY <1>6
  <2>2. s \in Bytes /\ (peer = "range" => InOrder(s) /\ Within(s, Start(i), Start(i) + ChunkLen))
    BY <1>3, <1>5
  <2> QED BY <2>1, <2>2
<1>7. CASE \E s \in {part[i]} \cup Prefixes(Page) : part' = [part EXCEPT ![i] = s]
  <2>1. PICK s \in {part[i]} \cup Prefixes(Page) : part' = [part EXCEPT ![i] = s]
    BY <1>7
  <2>2. CASE s = part[i]
    BY <1>0, <2>1, <2>2
  <2>3. CASE s \in Prefixes(Page)
    <3>1. Start(i) \in Int /\ Start(i) + ChunkLen \in Int
      BY <1>0
    <3>2. s \in Bytes /\ InOrder(s) /\ Within(s, Start(i), Start(i) + ChunkLen)
      BY <2>3, <3>1, PageSeq
    <3> QED BY <2>1, <3>2
  <2> QED BY <2>1, <2>2, <2>3
<1> QED BY <1>4, <1>6, <1>7

\* A task leaves the other chunks alone, a merge only removes files.
LEMMA PartsStep ==
  ASSUME TypeOK, Shape, Next
  PROVE  \/ UNCHANGED part
         \/ \E i \in Chunk : Fetching(i)
         \/ /\ DOMAIN part' = Chunk
            /\ \A j \in Chunk : part'[j] \in {part[j], NoFile}
<1>0. part \in [Chunk -> Bytes \cup {NoFile}]
  BY DEF TypeOK, Bytes
<1>1. CASE HeadFails \/ (\E n \in {0, len} : Starts(n)) \/ Getting
  BY <1>1 DEF HeadFails, Starts, AlreadyComplete, StartPeer, StartParallel, Getting, Get,
        GetDone, GetRefused, GetBreaks
<1>2. CASE \E a \in {0, Len(output)} : DownloadFile(a)
  BY <1>2 DEF DownloadFile
<1>3. CASE CreateFails \/ CreateOutput \/ MergeBreaks
  BY <1>3 DEF CreateFails, CreateOutput, MergeBreaks
<1>4. CASE MergeChunk
  BY <1>0, <1>4 DEF MergeChunk
<1>5. CASE MergeDone
  BY <1>5 DEF MergeDone
<1> QED BY <1>1, <1>2, <1>3, <1>4, <1>5, NextIs DEF Merging

LEMMA OutputStep ==
  ASSUME TypeOK, Shape, Next
  PROVE  \/ UNCHANGED output
         \/ pc = "get" /\ \E s \in Bytes : output' = output \o s
         \/ /\ pc = "merge" /\ next \in Chunk /\ part[next] \in Bytes
            /\ \E k \in 0..Len(part[next]) : output' = output \o SubSeq(part[next], 1, k)
         \/ CreateOutput
         \/ pc = "idle" /\ output' \in Bytes
<1>1. CASE HeadFails \/ (\E n \in {0, len} : Starts(n))
  BY <1>1 DEF HeadFails, Starts, AlreadyComplete, StartPeer, StartParallel
<1>2. CASE Getting
  <2>1. pc = "get" /\ Len(output) \in Nat /\ len \in Nat
    BY <1>2, ContentSeq, LenProperties
       DEF Getting, GetDone, GetRefused, GetBreaks, Get, Short, Refused, TypeOK
  <2> DEFINE b == Body(Len(output), len - 1)
  <2>2. b \in Bytes
    <3> DEFINE n == Len(output)
               e == len - 1
    <3>1. n \in Nat /\ e \in Int /\ e + 1 <= len
      BY <2>1
    <3> HIDE DEF n, e
    <3>2. Body(n, e) \in Bytes
      BY <3>1, BodySeq
    <3> QED BY <3>2 DEF n, e
  <2>3. \E s \in Prefixes(b) \cup Prefixes(Page) : output' = output \o s
    BY <1>2 DEF Getting, GetDone, GetRefused, GetBreaks, Get, Rest
  <2> HIDE DEF b
  <2> QED BY <2>1, <2>2, <2>3, PrefixSeq, PageSeq
<1>3. ASSUME NEW i \in Chunk, Fetching(i) PROVE UNCHANGED output
  BY <1>3 DEF Fetching, ChunkDone, ChunkRefused, ChunkEnds, Short, Refused
<1>4. CASE MergeChunk \/ MergeBreaks
  <2>1. pc = "merge" /\ next < NumChunks
    BY <1>4 DEF MergeChunk, MergeBreaks
  <2>2. next \in Chunk
    BY <2>1, ChunkNumbers DEF Chunk, TypeOK
  <2>3. CASE part[next] = NoFile
    BY <1>4, <2>3 DEF MergeChunk, MergeBreaks
  <2>4. CASE part[next] # NoFile
    <3>1. part[next] \in Bytes
      BY <2>2, <2>4 DEF TypeOK, Bytes
    <3>2. part[next] = SubSeq(part[next], 1, Len(part[next]))
      BY <3>1, SubSeqFull DEF Bytes
    <3>3. Len(part[next]) \in 0..Len(part[next])
      BY <3>1, LenProperties DEF Bytes
    <3>4. \/ output' = output \o part[next]
          \/ \E k \in 0..Len(part[next]) : output' = output \o SubSeq(part[next], 1, k)
      BY <1>4, <2>4 DEF MergeChunk, MergeBreaks
    <3> QED BY <2>1, <2>2, <3>1, <3>2, <3>3, <3>4
  <2> QED BY <2>3, <2>4
<1>5. CASE CreateFails \/ MergeDone
  BY <1>5 DEF CreateFails, MergeDone
<1>6. ASSUME NEW a \in {0, Len(output)}, DownloadFile(a)
      PROVE  pc = "idle" /\ output' \in Bytes
  <2> DEFINE e == len - 1
             b == Body(a, e)
  <2>1. a \in Nat /\ e \in Int /\ e + 1 <= len
    BY ContentSeq, LenProperties DEF TypeOK
  <2>2. pc = "idle" /\ output' \in Prefixes(b) \cup Prefixes(Page)
    BY <1>6 DEF DownloadFile, Begin
  <2> HIDE DEF e
  <2>3. b \in Bytes
    BY <2>1, BodySeq
  <2> HIDE DEF b
  <2> QED BY <2>2, <2>3, PrefixSeq, PageSeq
<1> QED BY <1>1, <1>2, <1>3, <1>4, <1>5, <1>6, NextIs DEF Merging

\* What a call returns, and what it had done.
LEMMA ResultStep ==
  ASSUME TypeOK, Shape, Next
  PROVE  \/ result' = None
         \/ pc' = "idle" /\ result' \in {Err("none"), Ok("complete"), Ok("file"), Err("file")}
         \/ pc' = "idle" /\ Getting /\ result' \in {Ok("peer"), Err("peer")}
         \/ pc' = "idle" /\ (MergeBreaks \/ MergeDone) /\ result' \in {Ok("parallel"), Err("parallel")}
         \/ pc' # "idle" /\ pc # "idle" /\ UNCHANGED result
<1>1. CASE HeadFails
  BY <1>1 DEF HeadFails, Return
<1>2. ASSUME NEW n \in {0, len}, Starts(n)
      PROVE  result' = None \/ (pc' = "idle" /\ result' = Ok("complete"))
  BY <1>2 DEF Starts, AlreadyComplete, StartPeer, StartParallel, Return
<1>3. CASE Getting
  BY <1>3 DEF Getting, GetDone, GetRefused, GetBreaks, Get, Return
<1>4. ASSUME NEW i \in Chunk, Fetching(i)
      PROVE  pc' # "idle" /\ pc # "idle" /\ UNCHANGED result
  BY <1>4 DEF Fetching, ChunkDone, ChunkRefused, ChunkEnds
<1>5. CASE CreateFails \/ CreateOutput \/ MergeChunk
  BY <1>5 DEF CreateFails, CreateOutput, MergeChunk, Return
<1>6. CASE MergeBreaks \/ MergeDone
  BY <1>6 DEF MergeBreaks, MergeDone, Return
<1>7. ASSUME NEW a \in {0, Len(output)}, DownloadFile(a)
      PROVE  pc' = "idle" /\ result' \in {Ok("file"), Err("file")}
  BY <1>7 DEF DownloadFile, Return
<1> QED BY <1>1, <1>2, <1>3, <1>4, <1>5, <1>6, <1>7, NextIs DEF Merging

LEMMA StepTypes ==
  ASSUME TypeOK, Shape, Next
  PROVE  TypeOK'
<1>0. output \in Bytes /\ before \in Bytes /\ part \in [Chunk -> Bytes \cup {NoFile}]
      /\ Chunk' = Chunk
  BY DEF TypeOK, Bytes, Chunk, MaxChunks
<1>1. output' \in Bytes
  <2>1. CASE pc = "merge" /\ next \in Chunk /\ part[next] \in Bytes
             /\ \E k \in 0..Len(part[next]) : output' = output \o SubSeq(part[next], 1, k)
    <3> DEFINE q == part[next]
    <3>1. PICK k \in 0..Len(q) : output' = output \o SubSeq(q, 1, k)
      BY <2>1
    <3>2. q \in Bytes
      BY <2>1
    <3> HIDE DEF q
    <3>3. SubSeq(q, 1, k) \in Bytes
      BY <3>2, Cut
    <3> QED BY <1>0, <3>1, <3>3, ConcatProperties DEF Bytes
  <2>2. CASE \E s \in Bytes : output' = output \o s
    BY <1>0, <2>2, ConcatProperties DEF Bytes
  <2>3. CASE CreateOutput
    BY <2>3 DEF CreateOutput, Bytes
  <2> QED BY <1>0, <2>1, <2>2, <2>3, OutputStep
<1>2. before' \in Bytes
  <2>1. before' \in {before, output}
    BY DEF Next, Begin, HeadFails, AlreadyComplete, StartPeer, StartParallel, Get, GetDone,
           GetRefused, GetBreaks, ChunkEnds, ChunkDone, ChunkRefused, CreateFails,
           CreateOutput, MergeChunk, MergeBreaks, MergeDone, DownloadFile
  <2> QED BY <1>0, <2>1
<1>3. part' \in [Chunk -> Bytes \cup {NoFile}]
  <2>1. CASE \E i \in Chunk : Fetching(i)
    BY <1>0, <2>1, ChunkBodies
  <2>2. CASE DOMAIN part' = Chunk /\ \A j \in Chunk : part'[j] \in {part[j], NoFile}
    <3>1. part' = [j \in Chunk |-> part'[j]]
      <4>1. CASE MergeChunk
        BY <1>0, <4>1 DEF MergeChunk
      <4>2. CASE MergeDone
        BY <4>2 DEF MergeDone
      <4>3. CASE \E i \in Chunk : Fetching(i)
        BY <1>0, <4>3, ChunkBodies
      <4>4. CASE UNCHANGED part
        BY <1>0, <4>4
      <4>5. MergeChunk \/ MergeDone \/ (\E i \in Chunk : Fetching(i)) \/ UNCHANGED part
        BY NextIs DEF HeadFails, Starts, AlreadyComplete, StartPeer, StartParallel, Getting,
              Get, GetDone, GetRefused, GetBreaks, Merging, CreateFails, CreateOutput,
              MergeBreaks, DownloadFile
      <4> QED BY <4>1, <4>2, <4>3, <4>4, <4>5
    <3>2. \A j \in Chunk : part'[j] \in Bytes \cup {NoFile}
      BY <1>0, <2>2
    <3> QED BY <3>1, <3>2
  <2> QED BY <1>0, <2>1, <2>2, PartsStep
<1>4. (result \in [status: {"none", "ok", "err"},
                   by: {"none", "complete", "peer", "parallel", "file"}])'
  BY ResultStep DEF TypeOK, None, Err, Ok
<1> QED BY <1>0, <1>1, <1>2, <1>3, <1>4, ControlTypes DEF TypeOK, Bytes

LEMMA StepShape ==
  ASSUME TypeOK, Shape, Next
  PROVE  Shape'
<1>1. CASE HeadFails
  BY <1>1 DEF HeadFails, Return, Shape
<1>2. ASSUME NEW n \in {0, len}, Starts(n) PROVE Shape'
  <2>1. CASE AlreadyComplete(n)
    BY <2>1 DEF AlreadyComplete, Return, Shape
  <2>2. CASE StartPeer(n)
    <3>1. n = len
      BY <2>2, ContentSeq, LenProperties DEF StartPeer, TypeOK
    <3> QED BY <2>2, <3>1 DEF StartPeer, Begin, remote, Shape, None
  <2>3. CASE StartParallel(n)
    <3>1. n = len
      BY <2>3, ChunkAssumption DEF StartParallel
    <3> QED BY <2>3, <3>1 DEF StartParallel, Begin, remote, Shape, None
  <2> QED BY <1>2, <2>1, <2>2, <2>3 DEF Starts
<1>3. CASE Getting
  BY <1>3 DEF Getting, GetDone, GetRefused, GetBreaks, Get, Short, Refused, Return, Shape
<1>4. ASSUME NEW i \in Chunk, Fetching(i) PROVE Shape'
  <2>1. pc' = pc /\ pc = "chunks" /\ UNCHANGED <<total, len>>
    BY <1>4 DEF Fetching, ChunkDone, ChunkRefused, ChunkEnds, Short, Refused, remote
  <2>2. UNCHANGED result
    BY <1>4 DEF Fetching, ChunkDone, ChunkRefused, ChunkEnds
  <2> QED BY <2>1, <2>2 DEF Shape
<1>5. CASE Merging
  BY <1>5 DEF Merging, CreateFails, CreateOutput, MergeChunk, MergeBreaks, MergeDone, Return,
        remote, Shape
<1>6. ASSUME NEW a \in {0, Len(output)}, DownloadFile(a) PROVE Shape'
  BY <1>6 DEF DownloadFile, Return, Shape
<1> QED BY <1>1, <1>2, <1>3, <1>4, <1>5, <1>6, NextIs

LEMMA StepParts ==
  ASSUME TypeOK, Shape, PartsInside, Next
  PROVE  PartsInside'
<1> SUFFICES ASSUME peer = "range", NEW j \in Chunk, part'[j] # NoFile
             PROVE  InOrder(part'[j]) /\ Within(part'[j], Start(j), Start(j) + ChunkLen)
  BY RemoteStays DEF PartsInside, Chunk, MaxChunks, Start, NoFile
<1>0. part \in [Chunk -> Bytes \cup {NoFile}]
  BY DEF TypeOK, Bytes
<1>1. part[j] # NoFile => InOrder(part[j]) /\ Within(part[j], Start(j), Start(j) + ChunkLen)
  BY DEF PartsInside
<1>2. CASE part'[j] \in {part[j], NoFile}
  BY <1>1, <1>2
<1>3. ASSUME NEW i \in Chunk, Fetching(i), part'[j] # part[j]
      PROVE  InOrder(part'[j]) /\ Within(part'[j], Start(j), Start(j) + ChunkLen)
  <2>1. PICK s \in Bytes \cup {NoFile} :
          /\ part' = [part EXCEPT ![i] = s]
          /\ s = part[i] \/ (s \in Bytes /\ (peer = "range" =>
               InOrder(s) /\ Within(s, Start(i), Start(i) + ChunkLen)))
    BY <1>3, ChunkBodies
  <2>2. j = i /\ part'[j] = s /\ s # part[i]
    BY <1>0, <1>3, <2>1
  <2> QED BY <2>1, <2>2
<1> QED BY <1>2, <1>3, PartsStep

LEMMA StepMerged ==
  ASSUME TypeOK, Shape, PartsInside, MergedBelow, Next
  PROVE  MergedBelow'
<1> SUFFICES ASSUME peer = "range", pc' = "merge"
             PROVE  InOrder(output') /\ Within(output', 0, Start(next'))
  BY RemoteStays DEF MergedBelow, Start
<1>1. CreateOutput \/ MergeChunk
  <2>1. ASSUME NEW n \in {0, len}, Starts(n) PROVE pc' # "merge"
    BY <2>1 DEF Starts, AlreadyComplete, StartPeer, StartParallel, Return
  <2>2. ASSUME NEW i \in Chunk, Fetching(i) PROVE pc' # "merge"
    BY <2>2 DEF Fetching, ChunkDone, ChunkRefused, ChunkEnds, Short, Refused
  <2> QED BY <2>1, <2>2, NextIs DEF HeadFails, Getting, Get, GetDone, GetRefused, GetBreaks,
             Merging, CreateFails, MergeBreaks, MergeDone, DownloadFile, Return
<1>2. CASE CreateOutput
  BY <1>2 DEF CreateOutput, InOrder, Within
<1>3. CASE MergeChunk
  <2>1. /\ pc = "merge" /\ next \in Chunk /\ next' = next + 1
        /\ Start(next) \in Nat /\ Start(next + 1) = Start(next) + ChunkLen /\ ChunkLen \in Nat
        /\ output \in Bytes /\ part[next] \in Bytes \cup {NoFile}
    <3>1. next \in Chunk
      BY <1>3, ChunkNumbers DEF MergeChunk, Chunk, TypeOK
    <3> QED BY <1>3, <3>1, ChunkNumbers, ChunkAssumption DEF MergeChunk, TypeOK, Bytes
  <2>2. InOrder(output) /\ Within(output, 0, Start(next))
    BY <2>1 DEF MergedBelow
  <2>3. CASE part[next] = NoFile
    <3>1. output' = output
      BY <1>3, <2>3 DEF MergeChunk
    <3>2. output \in [1..Len(output) -> 0..MaxLen]
      BY <2>1, LenProperties DEF Bytes
    <3>3. \A k \in 1..Len(output) : output[k] \in Int
      BY <3>2, BoundAssumption
    <3>4. Within(output, 0, Start(next) + ChunkLen)
      BY <2>1, <2>2, <3>3 DEF Within
    <3> QED BY <2>1, <2>2, <3>1, <3>4
  <2>4. CASE part[next] # NoFile
    <3> DEFINE b == Start(next)
               c == Start(next) + ChunkLen
               t == part[next]
    <3>1. /\ output' = output \o t /\ t \in Bytes /\ InOrder(t) /\ Within(t, b, c)
          /\ Start(next') = c
          /\ InOrder(output) /\ Within(output, 0, b) /\ output \in Bytes
          /\ b \in Int /\ c \in Int /\ 0 <= b /\ b <= c
      BY <1>3, <2>1, <2>2, <2>4 DEF MergeChunk, PartsInside
    <3> HIDE DEF b, c, t
    <3>2. InOrder(output \o t) /\ Within(output \o t, 0, c)
      BY <3>1, Joined
    <3> QED BY <3>1, <3>2
  <2> QED BY <2>3, <2>4
<1> QED BY <1>1, <1>2, <1>3

LEMMA ConcatExtends ==
  ASSUME NEW s \in Bytes, NEW t \in Bytes
  PROVE  Len(s \o t) >= Len(s) /\ SubSeq(s \o t, 1, Len(s)) = s
<1>1. Len(s) \in Nat /\ Len(t) \in Nat /\ Len(s \o t) = Len(s) + Len(t)
  BY ConcatProperties, LenProperties DEF Bytes
<1>2. CASE Len(s) = 0
  <2>1. s = <<>>
    BY <1>2, EmptySeq DEF Bytes
  <2>2. SubSeq(s \o t, 1, 0) = <<>>
    BY SubSeqEmpty
  <2> QED BY <1>1, <1>2, <2>1, <2>2
<1>3. CASE Len(s) # 0
  <2>1. 1 \in 1..Len(s) /\ Len(s) \in 1..Len(s)
    BY <1>1, <1>3
  <2>2. SubSeq(s \o t, 1, Len(s)) = SubSeq(s, 1, Len(s))
    BY <2>1, SubSeqOfConcat1 DEF Bytes
  <2> QED BY <1>1, <2>2, SubSeqFull DEF Bytes
<1> QED BY <1>2, <1>3

\* What is written of the rest of the file makes a longer beginning of it, and
\* all of it the file.
LEMMA Completes ==
  ASSUME TypeOK, peer = "range", Len(output) < len, IsPrefixOfFile(output),
         NEW s \in Prefixes(Rest)
  PROVE  /\ IsPrefixOfFile(output \o s)
         /\ s = Rest => output \o s = Content
<1> DEFINE n == Len(output)
<1>1. /\ len \in Nat /\ Content \in Seq(0..MaxLen) /\ Len(Content) = len
      /\ n \in Nat /\ n < len /\ output = SubSeq(Content, 1, n)
  BY ContentSeq, LenProperties DEF TypeOK, IsPrefixOfFile, Bytes
<1> HIDE DEF n
<1>2. Rest = SubSeq(Content, n + 1, len)
  <2>1. len - 1 + 1 = len
    BY <1>1
  <2> QED BY <2>1 DEF Body, Rest, n
<1>3. Rest \in Bytes /\ Len(Rest) = len - n /\ \A j \in 1..(len - n) : Rest[j] = n + j
  <2>1. len \in Int /\ len <= len /\ (IF n < len THEN len - n ELSE 0) = len - n
    BY <1>1
  <2>2. /\ SubSeq(Content, n + 1, len) \in Bytes
        /\ Len(SubSeq(Content, n + 1, len)) = IF n < len THEN len - n ELSE 0
        /\ \A j \in 1..Len(SubSeq(Content, n + 1, len)) : SubSeq(Content, n + 1, len)[j] = n + j
    BY <1>1, <2>1, Slice
  <2> QED BY <1>2, <2>1, <2>2
<1>4. PICK k \in 0..(len - n) : s = SubSeq(Rest, 1, k)
  BY <1>3 DEF Prefixes
<1>5. s \in Bytes /\ Len(s) = k /\ \A j \in 1..k : s[j] = n + j
  <2>1. k \in 0..Len(Rest)
    BY <1>3
  <2>2. s \in Bytes /\ Len(s) = k /\ \A j \in 1..k : s[j] = Rest[j]
    BY <1>3, <1>4, <2>1, Cut
  <2> QED BY <1>1, <1>3, <2>2
<1> DEFINE t == SubSeq(Content, n + 1, n + k)
<1>6. t \in Bytes /\ Len(t) = k /\ \A j \in 1..k : t[j] = n + j
  <2> DEFINE e == n + k
  <2>1. e \in Int /\ e <= len /\ (IF n < e THEN e - n ELSE 0) = k
    BY <1>1
  <2> HIDE DEF e
  <2>2. SubSeq(Content, n + 1, e) \in Bytes /\ Len(SubSeq(Content, n + 1, e)) = k
        /\ \A j \in 1..k : SubSeq(Content, n + 1, e)[j] = n + j
    BY <1>1, <2>1, Slice
  <2> QED BY <2>2 DEF e
<1> HIDE DEF t
<1>7. s = t
  BY <1>5, <1>6, SeqEqual DEF Bytes
<1>8. output \o s = SubSeq(Content, 1, n + k)
  <2>1. 1 \in 1..(Len(Content) + 1) /\ n \in (1 - 1)..Len(Content) /\ n + k \in n..Len(Content)
    BY <1>1
  <2>2. SubSeq(Content, 1, n) \o SubSeq(Content, n + 1, n + k) = SubSeq(Content, 1, n + k)
    BY <1>1, <2>1, ConcatAdjacentSubSeq
  <2> QED BY <1>1, <1>7, <2>2 DEF t
<1>9. Len(output \o s) = n + k
  <2>1. output \in Seq(0..MaxLen) /\ s \in Seq(0..MaxLen) /\ Len(output) = n
    BY <1>5 DEF n, TypeOK, Bytes
  <2>2. Len(output \o s) = Len(output) + Len(s)
    BY <2>1, ConcatProperties
  <2> QED BY <1>5, <2>1, <2>2
<1>10. IsPrefixOfFile(output \o s)
  BY <1>8, <1>9 DEF IsPrefixOfFile
<1>11. ASSUME s = Rest PROVE output \o s = Content
  <2>1. n + k = len
    BY <1>1, <1>3, <1>5, <1>11
  <2> QED BY <1>8, <2>1, ContentSeq
<1> QED BY <1>10, <1>11

LEMMA StepResume ==
  ASSUME IInv, Next
  PROVE  ResumeCompletes'
<1> SUFFICES ASSUME peer = "range", result'.by = "peer", "page" \notin flaws',
                    IsPrefixOfFile(before)'
             PROVE  IsPrefixOfFile(output)' /\ (flaws' = {} => output' = Content')
  BY RemoteStays DEF ResumeCompletes
<1>0. TypeOK /\ Shape /\ Shape' /\ Content' = Content
  BY StepShape, RemoteStays DEF IInv, Content
<1>1. pc' = "idle"
  BY <1>0 DEF Shape
<1>2. Getting
  BY <1>0, <1>1, ResultStep DEF None, Err, Ok
<1>3. GetDone \/ GetBreaks
  BY <1>2 DEF Getting, GetRefused, Refused
<1>4. PICK s \in Prefixes(Rest) : output' = output \o s /\ Short(s, Rest)
  BY <1>3 DEF GetDone, GetBreaks, Get
<1>5. output = before /\ before' = before /\ Len(output) < len
  BY <1>0, <1>3 DEF GetDone, GetBreaks, Get, Shape
<1>6. IsPrefixOfFile(output)
  BY <1>0, <1>5 DEF IsPrefixOfFile
<1>7. IsPrefixOfFile(output \o s) /\ (s = Rest => output \o s = Content)
  BY <1>0, <1>5, <1>6, Completes
<1>8. flaws' = {} => s = Rest
  BY <1>4 DEF Short
<1>9. IsPrefixOfFile(output)'
  BY <1>0, <1>4, <1>7 DEF IsPrefixOfFile
<1> QED BY <1>0, <1>4, <1>7, <1>8, <1>9

LEMMA StepInOrder ==
  ASSUME IInv, Next
  PROVE  MergedInOrder'
<1> SUFFICES ASSUME peer = "range", pc' = "idle", result'.by = "parallel"
             PROVE  InOrder(output')
  BY RemoteStays DEF MergedInOrder, InOrder
<1>0. TypeOK /\ Shape
  BY DEF IInv
<1>1. MergeBreaks \/ MergeDone
  BY <1>0, ResultStep DEF None, Err, Ok
<1>2. CASE MergeDone
  <2>1. output' = output /\ pc = "merge"
    BY <1>2 DEF MergeDone
  <2> QED BY <2>1 DEF IInv, MergedBelow
<1>3. CASE MergeBreaks
  <2>1. /\ pc = "merge" /\ next < NumChunks /\ part[next] # NoFile
        /\ \E k \in 0..Len(part[next]) : output' = output \o SubSeq(part[next], 1, k)
    BY <1>3 DEF MergeBreaks
  <2>2. next \in Chunk
    BY <1>0, <2>1, ChunkNumbers DEF Chunk, TypeOK
  <2> DEFINE b == Start(next)
             c == Start(next) + ChunkLen
             q == part[next]
  <2>3. /\ q \in Bytes /\ InOrder(q) /\ Within(q, b, c)
        /\ output \in Bytes /\ InOrder(output) /\ Within(output, 0, b)
    BY <2>1, <2>2 DEF IInv, TypeOK, PartsInside, MergedBelow, Bytes
  <2>4. b \in Int /\ c \in Int /\ 0 <= b /\ b <= c
    BY <1>0, <2>2, ChunkNumbers, ChunkAssumption
  <2> HIDE DEF b, c
  <2>5. PICK k \in 0..Len(q) : output' = output \o SubSeq(q, 1, k)
    BY <2>1
  <2> HIDE DEF q
  <2> DEFINE t == SubSeq(q, 1, k)
  <2>6. t \in Bytes /\ InOrder(t) /\ Within(t, b, c)
    BY <2>3, <2>4, Cut, CutInside
  <2> HIDE DEF t
  <2>7. InOrder(output \o t)
    BY <2>3, <2>4, <2>6, Joined
  <2> QED BY <2>5, <2>7 DEF t
<1> QED BY <1>1, <1>2, <1>3

LEMMA StepIInv == IInv /\ [Next]_vars => IInv'
<1> SUFFICES ASSUME IInv, [Next]_vars PROVE IInv'
  OBVIOUS
<1>1. CASE Next
  <2>1. TypeOK' /\ Shape' /\ PartsInside' /\ MergedBelow'
    BY <1>1, StepTypes, StepShape, StepParts, StepMerged DEF IInv
  <2> QED BY <1>1, <2>1, StepResume, StepInOrder DEF IInv
<1>2. CASE UNCHANGED vars
  BY <1>2 DEF vars, remote, IInv, TypeOK, Shape, PartsInside, MergedBelow, ResumeCompletes,
        MergedInOrder, Chunk, MaxChunks, Start, IsPrefixOfFile, Content
<1> QED BY <1>1, <1>2

LEMMA Inductive == Spec => []IInv
BY InitIInv, StepIInv, PTL DEF Spec

---------------------------------------------------------------------------
(* The theorems                                                            *)

\* The variables keep their types, for every length of chunk and file and any
\* number of connections and calls; a chunk file has bytes of the file only.
THEOREM TypeCorrect == Spec => []TypeOK
BY Inductive, PTL DEF IInv

\* A resumed download of a beginning of the file leaves a longer beginning, or the
\* file, after any number of calls that broke off or lost the end of what they had
\* received (download_from_peer).
THEOREM ResumeCompletesCorrect == Spec => []ResumeCompletes
BY Inductive, PTL DEF IInv

\* Whatever chunks fail, break off, hold the text of a refusal or are found there
\* from earlier calls, and however often merging them stopped halfway: the merged
\* bytes of the file are in its order, and none is there twice (download_parallel).
THEOREM MergedInOrderCorrect == Spec => []MergedInOrder
BY Inductive, PTL DEF IInv

\* download_from_peer opens the file with append: what is there stays, for each
\* treatment of Range, also when the connection breaks.
THEOREM PeerAppendsCorrect == Spec => PeerAppends
<1>1. ASSUME IInv, [Next]_vars
      PROVE  [pc = "get" => Len(output') >= Len(output)
                            /\ SubSeq(output', 1, Len(output)) = output]_vars
  <2> SUFFICES ASSUME Next, pc = "get"
               PROVE  Len(output') >= Len(output) /\ SubSeq(output', 1, Len(output)) = output
    BY <1>1
  <2>1. TypeOK /\ Shape /\ output \in Seq(0..MaxLen) /\ <<>> \in Seq(0..MaxLen)
    BY <1>1 DEF IInv, TypeOK
  <2>2. PICK s \in Bytes : output' = output \o s
    <3>1. output = output \o <<>> /\ <<>> \in Bytes
      BY <2>1, ConcatEmptySeq DEF Bytes
    <3> QED BY <2>1, <3>1, OutputStep DEF CreateOutput
  <2> QED BY <2>1, <2>2, ConcatExtends DEF Bytes
<1> QED BY <1>1, Inductive, PTL DEF Spec, PeerAppends

---------------------------------------------------------------------------
(* Every call ends                                                         *)

\* At most this many steps of a call are left: one for each chunk whose task has not
\* ended and for each chunk that is not merged yet.
Work ==
  CASE pc = "idle"   -> 0
    [] pc = "get"    -> 1
    [] pc = "merge"  -> 1 + MaxChunks - next
    [] pc = "chunks" -> 2 + MaxChunks + Cardinality(todo)

\* A call takes no more steps than twice the chunks a file can have, and two; each of
\* them uses up one, and the last one gives the call a result, whatever the peer does
\* and however many tasks fail (download_from_peer, download_parallel).
CallBounded  == Work \in 0..(2 + 2 * MaxChunks)
CallShortens == [][pc # "idle" => Work' < Work /\ (pc' = "idle" => result'.status # "none")]_vars

LEMMA TodoSets ==
  ASSUME NEW S \in SUBSET Chunk
  PROVE  IsFiniteSet(S) /\ MaxChunks \in Nat /\ Cardinality(S) \in 0..MaxChunks
<1>1. MaxChunks \in Nat
  <2>1. ChunkLen \in Nat /\ ChunkLen > 0 /\ MaxLen \in Nat
    BY ChunkAssumption, BoundAssumption
  <2> QED BY <2>1 DEF MaxChunks
<1>2. IsFiniteSet(Chunk) /\ Cardinality(Chunk) = MaxChunks
  BY <1>1, FS_Interval DEF Chunk
<1>3. IsFiniteSet(S) /\ Cardinality(S) <= MaxChunks
  BY <1>2, FS_Subset
<1>4. Cardinality(S) \in Nat
  BY <1>3, FS_CardinalityType
<1> QED BY <1>1, <1>3, <1>4

LEMMA CallSteps ==
  ASSUME TypeOK, Next, pc # "idle"
  PROVE  Work' < Work /\ (pc' = "idle" => result'.status # "none")
<1>0. /\ next \in 0..MaxChunks /\ MaxChunks \in Nat /\ NumChunks \in 0..MaxChunks
      /\ todo \in SUBSET Chunk /\ Cardinality(todo) \in Nat
  BY ChunkNumbers, TodoSets DEF TypeOK
<1>1. CASE Getting
  BY <1>1 DEF Getting, GetDone, GetRefused, GetBreaks, Get, Short, Refused, Return, Work, Err, Ok
<1>2. ASSUME NEW i \in Chunk, Fetching(i)
      PROVE  Work' < Work /\ pc' # "idle"
  <2>1. pc = "chunks" /\ pc' = "chunks" /\ i \in todo /\ todo' = todo \ {i}
    BY <1>2 DEF Fetching, ChunkDone, ChunkRefused, ChunkEnds, Short, Refused
  <2>2. IsFiniteSet(todo) /\ todo' \in SUBSET todo /\ todo' # todo
        /\ Cardinality(todo') \in Nat
    BY <1>0, <2>1, TodoSets
  <2>3. Cardinality(todo') < Cardinality(todo)
    <3>1. Cardinality(todo') <= Cardinality(todo) /\ Cardinality(todo') # Cardinality(todo)
      BY <2>2, FS_Subset
    <3> QED BY <1>0, <2>2, <3>1
  <2>4. Work = 2 + MaxChunks + Cardinality(todo) /\ Work' = 2 + MaxChunks + Cardinality(todo')
    BY <2>1 DEF Work, MaxChunks
  <2> QED BY <1>0, <2>1, <2>2, <2>3, <2>4
<1>3. CASE Merging
  <2>1. CASE CreateFails
    BY <1>0, <2>1 DEF CreateFails, Return, Work, Err
  <2>2. CASE CreateOutput
    <3>1. Work = 2 + MaxChunks + Cardinality(todo) /\ Work' = 1 + MaxChunks - 0 /\ pc' # "idle"
      BY <2>2 DEF CreateOutput, Work, MaxChunks
    <3> QED BY <1>0, <3>1
  <2>3. CASE MergeChunk
    <3>1. Work = 1 + MaxChunks - next /\ Work' = 1 + MaxChunks - (next + 1) /\ pc' # "idle"
      BY <2>3 DEF MergeChunk, Work, MaxChunks
    <3> QED BY <1>0, <3>1
  <2>4. CASE MergeBreaks \/ MergeDone
    <3>1. pc = "merge" /\ pc' = "idle" /\ result'.status # "none"
      BY <2>4 DEF MergeBreaks, MergeDone, Return, Err, Ok
    <3>2. Work = 1 + MaxChunks - next /\ Work' = 0
      BY <3>1 DEF Work
    <3> QED BY <1>0, <3>1, <3>2
  <2> QED BY <1>3, <2>1, <2>2, <2>3, <2>4 DEF Merging
<1>4. ~HeadFails /\ (\A n \in {0, len} : ~Starts(n)) /\ \A a \in {0, Len(output)} : ~DownloadFile(a)
  BY DEF HeadFails, Starts, AlreadyComplete, StartPeer, StartParallel, DownloadFile, Begin
<1> QED BY <1>1, <1>2, <1>3, <1>4, NextIs

\* No call of the peer downloader goes on for ever.
THEOREM CallBoundedCorrect == Spec => []CallBounded
<1>1. ASSUME TypeOK PROVE CallBounded
  <2>1. next \in 0..MaxChunks /\ todo \in SUBSET Chunk /\ pc \in {"idle", "get", "chunks", "merge"}
    BY <1>1 DEF TypeOK
  <2>2. MaxChunks \in Nat /\ Cardinality(todo) \in 0..MaxChunks
    BY <2>1, TodoSets
  <2> QED BY <2>1, <2>2 DEF CallBounded, Work
<1> QED BY <1>1, TypeCorrect, PTL

\* Every step of a call brings its end nearer, and a call that ends has a result.
THEOREM CallShortensCorrect == Spec => CallShortens
<1>1. TypeOK /\ [Next]_vars
        => [pc # "idle" => Work' < Work /\ (pc' = "idle" => result'.status # "none")]_vars
  BY CallSteps
<1> QED BY <1>1, TypeCorrect, PTL DEF Spec, CallShortens
=============================================================================
