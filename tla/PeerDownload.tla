---------------------------- MODULE PeerDownload ----------------------------
(***************************************************************************)
(* ChunkedDownloader (transfer/downloader.rs): a device fetches a file from*)
(* a peer, over one connection that resumes what is there, or in chunks    *)
(* over several.                                                           *)
(*                                                                         *)
(* The remote file is the sequence 1, ..., len of its byte positions.  A   *)
(* request with what is written of its body is one step.  No status is     *)
(* looked at: the text of a refusal is written like a body.  What is       *)
(* written may be cut short: a body that ends early ends without an error, *)
(* and no file is flushed, so that the failure of a last write is not seen.*)
(* A last write still under way when a call returns is over before the next*)
(* one begins.                                                             *)
(***************************************************************************)
EXTENDS Integers, Sequences

CONSTANTS
  ChunkLen,  \* chunk_size
  Conns,     \* num_connections
  MaxLen,    \* bound on the length of the file
  MaxCalls,  \* bound on the calls
  Peers      \* how a peer treats Range: "range", "whole" or "prefix"

ASSUME ChunkAssumption == ChunkLen \in Nat \ {0} /\ Conns \in Nat
ASSUME BoundAssumption == MaxLen \in Nat /\ MaxCalls \in Nat
ASSUME PeerAssumption  == Peers \subseteq {"range", "whole", "prefix"}

VARIABLES
  len, peer,
  pc,       \* "idle", "get", "chunks" or "merge"
  total,    \* the length that HEAD gave
  part,     \* the chunk files; NoFile where there is none
  todo,     \* chunks whose task has not ended
  next,     \* the chunk to merge next
  output,   \* the file at output_path; a missing one counts as empty
  result,   \* what the last call returned, and what it had done
  flaws,    \* history: the answers of this call that were not what was asked for
  before,   \* history: output when the call began
  calls

remote == <<len, peer>>
vars   == <<remote, pc, total, part, todo, next, output, result, flaws, before, calls>>

File(n)   == [k \in 1..n |-> k]
Content   == File(len)
NoFile    == <<-1>>
Page      == <<0>>   \* the text of a refusal
NumChunks == (total + ChunkLen - 1) \div ChunkLen
MaxChunks == (MaxLen + ChunkLen - 1) \div ChunkLen
Chunk     == 0..(MaxChunks - 1)

Start(i) == i * ChunkLen
\* Mutant: the end of a chunk is taken for the start of the next.
EndIncluded(i) == IF Start(i) + ChunkLen > total - 1 THEN total - 1 ELSE Start(i) + ChunkLen
End(i)   == IF Start(i) + ChunkLen - 1 > total - 1 THEN total - 1 ELSE Start(i) + ChunkLen - 1

\* The body of Range: bytes=a-b.  A "whole" peer ignores Range; a FileServer is
\* a "prefix" peer: it announces the range's length and sends the file from its
\* beginning.
Body(a, b) ==
  CASE peer = "range"  -> SubSeq(Content, a + 1, b + 1)
    [] peer = "whole"  -> Content
    [] peer = "prefix" -> SubSeq(Content, 1, b - a + 1)
Prefixes(s) == {SubSeq(s, 1, k) : k \in 0..Len(s)}

None       == [status |-> "none", by |-> "none"]
Err(by)    == [status |-> "err", by |-> by]
Ok(by)     == [status |-> "ok", by |-> by]
Return(r)  == pc' = "idle" /\ result' = r

\* What is written, s, of the body that was asked for.
Short(s, body) == flaws' = flaws \cup (IF s = body THEN {} ELSE {"short"})
Refused        == flaws' = flaws \cup {"page"}

---------------------------------------------------------------------------
\* HEAD.  content_length() is that of the file, or of the answer, whose body is
\* empty; a FileServer answers every HEAD with a 404.
Begin(n) ==
  /\ pc = "idle" /\ calls < MaxCalls
  /\ calls' = calls + 1 /\ before' = output /\ flaws' = {}
  /\ total' = n
  /\ UNCHANGED remote

HeadFails ==
  /\ Begin(0)
  /\ Return(Err("none"))
  /\ UNCHANGED <<part, todo, next, output>>

AlreadyComplete(n) ==
  /\ Begin(n)
  /\ Len(output) >= n
  /\ Return(Ok("complete"))
  /\ UNCHANGED <<part, todo, next, output>>

StartPeer(n) ==
  /\ Begin(n)
  /\ Len(output) < n
  /\ pc' = "get" /\ result' = None
  /\ UNCHANGED <<part, todo, next, output>>

\* What is written is appended.
Get(s, r) ==
  /\ pc = "get"
  /\ output' = output \o s
  /\ Return(r)
  /\ UNCHANGED <<remote, total, part, todo, next, before, calls>>

Rest == Body(Len(output), len - 1)

\* Mutant: the last byte that is there is fetched again.
GetOverlapping ==
  LET body == Body(IF output = <<>> THEN 0 ELSE Len(output) - 1, len - 1)
  IN \E s \in Prefixes(body) : Get(s, Ok("peer")) /\ Short(s, body)

GetDone == \E s \in Prefixes(Rest) : Get(s, Ok("peer")) /\ Short(s, Rest)

\* No answer, or a refusal whose text is appended.
GetRefused ==
  /\ \E s \in Prefixes(Page), r \in {Ok("peer"), Err("peer")} : Get(s, r)
  /\ Refused

\* Mutant: the file is opened without append.
GetBreaksTruncating ==
  /\ pc = "get"
  /\ output' \in Prefixes(Rest) /\ Short(output', Rest)
  /\ Return(Err("peer"))
  /\ UNCHANGED <<remote, total, part, todo, next, before, calls>>

GetBreaks == \E s \in Prefixes(Rest) : Get(s, Err("peer")) /\ Short(s, Rest)

---------------------------------------------------------------------------
\* download_parallel of a file of more than two chunks; of a smaller one it is
\* download_from_peer.  A task is spawned for the first Conns chunks only.
StartParallel(n) ==
  /\ Begin(n)
  /\ n > 2 * ChunkLen
  /\ pc' = "chunks" /\ result' = None
  /\ todo' = {i \in Chunk : i < NumChunks' /\ i < Conns}
  /\ UNCHANGED <<part, next, output>>

ChunkEnds(i, s) ==
  /\ pc = "chunks" /\ i \in todo
  /\ todo' = todo \ {i}
  /\ part' = [part EXCEPT ![i] = s]
  /\ UNCHANGED <<remote, pc, total, next, output, result, before, calls>>

\* What was written stays in the file of the chunk and is merged, whether the
\* task returns Ok or an error.
ChunkDone(i) ==
  LET body == Body(Start(i), End(i))
  IN \E s \in Prefixes(body) : ChunkEnds(i, s) /\ Short(s, body)

\* No answer, and the file is as it was; or it has the text of the refusal.
ChunkRefused(i) ==
  /\ \E s \in {part[i]} \cup Prefixes(Page) : ChunkEnds(i, s)
  /\ Refused

\* When all tasks have ended, whatever became of them.
CreateFails ==
  /\ pc = "chunks" /\ todo = {}
  /\ Return(Err("none"))
  /\ UNCHANGED <<remote, total, part, todo, next, output, flaws, before, calls>>

CreateOutput ==
  /\ pc = "chunks" /\ todo = {}
  /\ pc' = "merge" /\ next' = 0 /\ output' = <<>>
  /\ UNCHANGED <<remote, total, part, todo, result, flaws, before, calls>>

\* A chunk without a file is passed over; a file that cannot be removed stays.
MergeChunk ==
  /\ pc = "merge" /\ next < NumChunks
  /\ \/ part[next] = NoFile /\ UNCHANGED <<output, part>>
     \/ /\ part[next] # NoFile
        /\ output' = output \o part[next]
        /\ part' \in {part, [part EXCEPT ![next] = NoFile]}
  /\ next' = next + 1
  /\ UNCHANGED <<remote, pc, total, todo, result, flaws, before, calls>>

MergeBreaks ==
  /\ pc = "merge" /\ next < NumChunks /\ part[next] # NoFile
  /\ \E k \in 0..Len(part[next]) : output' = output \o SubSeq(part[next], 1, k)
  /\ Return(Err("parallel"))
  /\ UNCHANGED <<remote, total, part, todo, next, flaws, before, calls>>

\* Whether remove_dir_all removes what is left does not matter to the call.
MergeDone ==
  /\ pc = "merge" /\ next = NumChunks
  /\ \E stay \in SUBSET Chunk :
       part' = [i \in Chunk |-> IF i \in stay THEN part[i] ELSE NoFile]
  /\ Return(Ok("parallel"))
  /\ UNCHANGED <<remote, total, todo, next, output, flaws, before, calls>>

\* download_file: the body replaces the file, wherever it began.
DownloadFile(a) ==
  /\ Begin(0)
  /\ output' \in Prefixes(Body(a, len - 1)) \cup Prefixes(Page)
  /\ Return(Ok("file")) \/ Return(Err("file"))
  /\ UNCHANGED <<part, todo, next>>

Init ==
  /\ len \in 0..MaxLen /\ peer \in Peers
  /\ pc = "idle" /\ total = 0
  /\ part = [i \in Chunk |-> NoFile] /\ todo = {} /\ next = 0
  /\ output = <<>> /\ result = None
  /\ flaws = {} /\ before = <<>> /\ calls = 0

Next ==
  \/ HeadFails
  \/ \E n \in {0, len} : AlreadyComplete(n) \/ StartPeer(n) \/ StartParallel(n)
  \/ GetDone \/ GetRefused \/ GetBreaks
  \/ \E i \in Chunk : ChunkDone(i) \/ ChunkRefused(i)
  \/ CreateFails \/ CreateOutput \/ MergeChunk \/ MergeBreaks \/ MergeDone
  \/ \E a \in {0, Len(output)} : DownloadFile(a)

Spec == Init /\ [][Next]_vars

---------------------------------------------------------------------------
TypeOK ==
  /\ len \in 0..MaxLen /\ peer \in Peers
  /\ pc \in {"idle", "get", "chunks", "merge"}
  /\ total \in 0..MaxLen /\ next \in 0..MaxChunks
  /\ part \in [Chunk -> Seq(0..MaxLen) \cup {NoFile}] /\ todo \subseteq Chunk
  /\ output \in Seq(0..MaxLen) /\ before \in Seq(0..MaxLen)
  /\ result \in [status: {"none", "ok", "err"},
                 by: {"none", "complete", "peer", "parallel", "file"}]
  /\ flaws \subseteq {"short", "page"} /\ calls \in 0..MaxCalls

IsPrefixOfFile(s) == s = SubSeq(Content, 1, Len(s))

\* A call that resumes a beginning of the file leaves a beginning of the file,
\* and the file if no body was cut short, unless it was refused: also after calls
\* that broke off or lost the end of what they had received, since the range
\* starts where the file ends, not where a count of bytes stood; with a peer that
\* honours Range (download_from_peer: existing_size).
ResumeCompletes ==
  /\ peer = "range" /\ result.by = "peer" /\ "page" \notin flaws
  /\ IsPrefixOfFile(before)
  => IsPrefixOfFile(output) /\ (flaws = {} => output = Content)

\* download_from_peer never shortens or changes what is there: it appends.
PeerAppends ==
  [][pc = "get" => Len(output') >= Len(output)
                   /\ SubSeq(output', 1, Len(output)) = output]_vars

\* The bytes of the file are in a merged one in their order, and none is there
\* twice, whichever chunks failed, whatever an earlier merge left behind, and
\* wherever the text of a refusal stands between them (download_parallel).
InOrder(s) ==
  \A j, k \in 1..Len(s) : j < k /\ s[j] # 0 /\ s[k] # 0 => s[j] < s[k]
MergedInOrder ==
  peer = "range" /\ pc = "idle" /\ result.by = "parallel" => InOrder(output)
=============================================================================
