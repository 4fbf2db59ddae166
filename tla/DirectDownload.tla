--------------------------- MODULE DirectDownload ---------------------------
(***************************************************************************)
(* VideoDownloader (downloader.rs): a file is fetched with retries, in     *)
(* parallel segments when it is large, and an interrupted download may be  *)
(* resumed.                                                                *)
(*                                                                         *)
(* The remote file is the sequence 1, 2, ..., len of its byte positions, so*)
(* that a local file shows which bytes it got and in which order.  One     *)
(* request with everything read from its body is one step: nobody looks at *)
(* a file while it is written.  Its outcomes are a refusal (no connection, *)
(* an error status, or a file that cannot be opened), a body that breaks   *)
(* off after k bytes, and one that ends after k bytes: no length is ever   *)
(* compared, so that a connection that is closed early ends a body that has*)
(* no length of its own.  A server that does not know the Range header     *)
(* answers 200 with the whole file, which the code accepts.                *)
(***************************************************************************)
EXTENDS Integers, Sequences

CONSTANTS
  Segments,     \* parallel_segments
  Retries,      \* retry_count
  MinParallel,  \* 10 MB: a larger file is fetched in segments
  MaxLen,       \* bound on the length of the remote file
  MaxCalls      \* bound on the calls of download and resume_download

ASSUME SegmentsAssumption == Segments \in Nat \ {0}
ASSUME RetriesAssumption  == Retries \in Nat \ {0}
ASSUME LenAssumption      == MinParallel \in Nat /\ MaxLen \in Nat
ASSUME CallsAssumption    == MaxCalls \in Nat
\* Every segment has at least one byte: 10 MB is far more than 4 segments need.
ASSUME RangeAssumption    == MinParallel >= Segments * (Segments - 1)

VARIABLES
  len,      \* length of the remote file
  ranged,   \* whether the server honours Range
  pc,       \* what the call does next; "idle" between calls
  attempt,  \* download's loop variable
  seg,      \* the segment tasks: their state and their failed requests
  part,     \* the segments' temporary files
  next,     \* the segment that is merged next
  output,   \* the file at output_path
  result,   \* what the last call returned, and how it got the file
  calls,
  before,   \* history: output when the call began
  served,   \* history: a body was written to output in this call
  torn      \* history: of the segments, a body that ended early was taken for
            \* whole, or a copy into output broke off

vars == <<len, ranged, pc, attempt, seg, part, next, output, result, calls, before, served, torn>>
server == <<len, ranged>>

---------------------------------------------------------------------------
Seg      == 0..(Segments - 1)
File(n)  == [k \in 1..n |-> k]
Content  == File(len)
Prefixes(s) == {SubSeq(s, 1, k) : k \in 0..Len(s)}    \* what may have come of a body

\* (total as f64 / segments as f64).ceil()
ChunkSize(total)     == (total + Segments - 1) \div Segments
RangeStart(total, i) == i * ChunkSize(total)
\* Mutant: the end of a range, already its last byte, is lowered once more.
RangeEndShort(total, i) == IF i = Segments - 1 THEN total - 1
                                               ELSE (i + 1) * ChunkSize(total) - 2
RangeEnd(total, i)   == IF i = Segments - 1 THEN total - 1
                                            ELSE (i + 1) * ChunkSize(total) - 1

\* The body of the answer to Range: bytes=a-b.
Body(a, b) == IF ranged THEN SubSeq(Content, a + 1, b + 1) ELSE Content

Waiting   == [state |-> "waiting", tries |-> 0]
NoResult  == [status |-> "none", size |-> 0, by |-> "none"]
Failed    == [status |-> "err", size |-> 0, by |-> "none"]
Ok(n, by) == [status |-> "ok", size |-> n, by |-> by]

Return(r) == pc' = "idle" /\ result' = r

---------------------------------------------------------------------------
Start(what) ==
  /\ pc = "idle" /\ calls < MaxCalls
  /\ calls' = calls + 1
  /\ pc' = what
  /\ attempt' = 0
  /\ result' = NoResult
  /\ before' = output /\ served' = FALSE /\ torn' = FALSE
  /\ UNCHANGED <<server, seg, part, next, output>>

StartDownload == Start("head")
StartResume   == Start("resume")

\* get_content_length fails: download returns with `?`.
HeadFails ==
  /\ pc = "head"
  /\ Return(Failed)
  /\ UNCHANGED <<server, attempt, seg, part, next, output, calls, before, served, torn>>

\* The length may be missing from the answer.  A large file gets its segments.
HeadAnswered ==
  /\ pc = "head"
  /\ \/ pc' = "single" /\ UNCHANGED <<seg, part, next>>
        /\ UNCHANGED torn
     \/ /\ len > MinParallel
        /\ pc' = "segments"
        /\ seg' = [i \in Seg |-> Waiting]
        /\ part' = [i \in Seg |-> <<>>]
        /\ next' = 0
        /\ torn' = FALSE
  /\ UNCHANGED <<server, attempt, output, result, calls, before, served>>

\* download_segment: File::create truncates once the answer is there.  A segment
\* is tried retry_count times in its loop and once more after it.
SegmentRuns(i) == pc = "segments" /\ seg[i].state = "waiting"
SegmentFails(i) ==
  seg' = [seg EXCEPT ![i] = [state |-> IF @.tries = Retries THEN "failed" ELSE "waiting",
                             tries |-> @.tries + 1]]
SegmentBody(i) == Body(RangeStart(len, i), RangeEnd(len, i))

\* The directories cannot be created: parallel_download fails before its segments.
NoDirectory ==
  /\ pc = "segments" /\ \A i \in Seg : seg[i] = Waiting
  /\ pc' = "single"
  /\ UNCHANGED <<server, attempt, seg, part, next, output, result, calls, before, served, torn>>

SegmentRefused(i) ==
  /\ SegmentRuns(i)
  /\ SegmentFails(i)
  /\ UNCHANGED <<server, pc, attempt, part, next, output, result, calls, before, served, torn>>

SegmentBreaks(i) ==
  /\ SegmentRuns(i)
  /\ \E b \in Prefixes(SegmentBody(i)) : part' = [part EXCEPT ![i] = b]
  /\ SegmentFails(i)
  /\ UNCHANGED <<server, pc, attempt, next, output, result, calls, before, served, torn>>

\* Mutant: the temporary file is opened for appending.
SegmentDoneAppending(i) ==
  /\ SegmentRuns(i)
  /\ \E b \in Prefixes(SegmentBody(i)) :
       /\ part' = [part EXCEPT ![i] = @ \o b]
       /\ torn' = (torn \/ b # SegmentBody(i))
  /\ seg' = [seg EXCEPT ![i].state = "ok"]
  /\ UNCHANGED <<server, pc, attempt, next, output, result, calls, before, served>>

SegmentDone(i) ==
  /\ SegmentRuns(i)
  /\ \E b \in Prefixes(SegmentBody(i)) :
       /\ part' = [part EXCEPT ![i] = b]
       /\ torn' = (torn \/ b # SegmentBody(i))
  /\ seg' = [seg EXCEPT ![i].state = "ok"]
  /\ UNCHANGED <<server, pc, attempt, next, output, result, calls, before, served>>

\* parallel_download after all of its tasks: no segment at all is an error, which
\* leads to the single download; otherwise the output is created and merged.
Joined == pc = "segments" /\ \A i \in Seg : seg[i].state # "waiting"

NoSegment ==
  /\ Joined /\ \A i \in Seg : seg[i].state = "failed"
  /\ pc' = "single"
  /\ UNCHANGED <<server, attempt, seg, part, next, output, result, calls, before, served, torn>>

CreateOutput ==
  /\ Joined /\ \E i \in Seg : seg[i].state = "ok"
  /\ \/ pc' = "merge" /\ output' = <<>> /\ served' = TRUE
     \/ pc' = "single" /\ UNCHANGED <<output, served>>
  /\ UNCHANGED <<server, attempt, seg, part, next, result, calls, before, torn>>

\* tokio::io::copy of a temporary file; its error is only logged.
Merge ==
  /\ pc = "merge" /\ next < Segments
  /\ output' = output \o part[next]
  /\ next' = next + 1
  /\ UNCHANGED <<server, pc, attempt, seg, part, result, calls, before, served, torn>>

MergeBreaks ==
  /\ pc = "merge" /\ next < Segments
  /\ \E b \in Prefixes(part[next]) : output' = output \o b
  /\ torn' = TRUE
  /\ next' = next + 1
  /\ UNCHANGED <<server, pc, attempt, seg, part, result, calls, before, served>>

MergeDone ==
  /\ pc = "merge" /\ next = Segments
  /\ \/ Return(Ok(len, "parallel"))
     \/ pc' = "single" /\ UNCHANGED result       \* flush fails
  /\ UNCHANGED <<server, attempt, seg, part, next, output, calls, before, served, torn>>

\* Mutant: the loop does not count its attempts.
AttemptFailsForever == pc' = "head" /\ UNCHANGED <<attempt, result>>

\* do_download failed; the loop of download goes on while attempts are left.
AttemptFails ==
  IF attempt + 1 < Retries THEN pc' = "head" /\ attempt' = attempt + 1 /\ UNCHANGED result
                           ELSE Return(Failed) /\ UNCHANGED attempt

\* Mutant: File::create before the request.
SingleRefusedLate ==
  /\ pc = "single"
  /\ output' = <<>>
  /\ AttemptFails
  /\ UNCHANGED <<server, seg, part, next, calls, before, served, torn>>

\* do_download fails at its HEAD, its GET or at File::create.
SingleRefused ==
  /\ pc = "single"
  /\ AttemptFails
  /\ UNCHANGED <<server, seg, part, next, output, calls, before, served, torn>>

SingleBreaks ==
  /\ pc = "single"
  /\ output' \in Prefixes(Content)
  /\ served' = TRUE
  /\ AttemptFails
  /\ UNCHANGED <<server, seg, part, next, calls, before, torn>>

SingleDone ==
  /\ pc = "single"
  /\ output' \in Prefixes(Content)
  /\ served' = TRUE
  /\ Return(Ok(Len(output'), "single"))
  /\ UNCHANGED <<server, attempt, seg, part, next, calls, before, torn>>

\* resume_download from the length of the file: Range only if it is not zero,
\* and then the body is appended.
ResumeBody == IF output = <<>> THEN Content ELSE Body(Len(output), len - 1)

ResumeRefused ==
  /\ pc = "resume"
  /\ Return(Failed)
  /\ UNCHANGED <<server, attempt, seg, part, next, output, calls, before, served, torn>>

ResumeBreaks ==
  /\ pc = "resume" /\ (output = <<>> \/ ~ranged \/ Len(output) < len)
  /\ \E b \in Prefixes(ResumeBody) : output' = output \o b
  /\ served' = TRUE
  /\ Return(Failed)
  /\ UNCHANGED <<server, attempt, seg, part, next, calls, before, torn>>

\* Mutant: the file is created anew.
ResumeDoneTruncating ==
  /\ pc = "resume" /\ (output = <<>> \/ ~ranged \/ Len(output) < len)
  /\ output' \in Prefixes(ResumeBody)
  /\ served' = TRUE
  /\ Return(Ok(Len(output) + Len(ResumeBody), "resume"))
  /\ UNCHANGED <<server, attempt, seg, part, next, calls, before, torn>>

\* The file is not flushed: the error of the last write is lost, and with it a
\* tail w of what came does not reach the file.
ResumeDone ==
  /\ pc = "resume" /\ (output = <<>> \/ ~ranged \/ Len(output) < len)
  /\ \E b \in Prefixes(ResumeBody) : \E w \in Prefixes(b) :
       /\ output' = output \o w
       /\ Return(Ok(Len(output) + Len(b), "resume"))
  /\ served' = TRUE
  /\ UNCHANGED <<server, attempt, seg, part, next, calls, before, torn>>

---------------------------------------------------------------------------
\* Before the first call there is no file, or one of something else (0).
Init ==
  /\ len \in 1..MaxLen /\ ranged \in BOOLEAN
  /\ pc = "idle" /\ attempt = 0
  /\ seg = [i \in Seg |-> Waiting] /\ part = [i \in Seg |-> <<>>] /\ next = 0
  /\ output \in {<<>>, <<0>>}
  /\ result = NoResult /\ calls = 0
  /\ before = output /\ served = FALSE /\ torn = FALSE

Running ==
  \/ HeadFails \/ HeadAnswered \/ NoDirectory
  \/ \E i \in Seg : SegmentRefused(i) \/ SegmentBreaks(i) \/ SegmentDone(i)
  \/ NoSegment \/ CreateOutput \/ Merge \/ MergeBreaks \/ MergeDone
  \/ SingleRefused \/ SingleBreaks \/ SingleDone
  \/ ResumeRefused \/ ResumeBreaks \/ ResumeDone

Next == StartDownload \/ StartResume \/ Running

Spec == Init /\ [][Next]_vars

\* A call that was started goes on: the client's timeouts end every request.
FairSpec == Spec /\ WF_vars(Running)

---------------------------------------------------------------------------
\* The types.
TypeOK ==
  /\ len \in 1..MaxLen /\ ranged \in BOOLEAN
  /\ pc \in {"idle", "head", "segments", "merge", "single", "resume"}
  /\ attempt \in 0..(Retries - 1)
  /\ seg \in [Seg -> [state: {"waiting", "ok", "failed"}, tries: 0..(Retries + 1)]]
  /\ part \in [Seg -> Seq(Nat)]
  /\ next \in 0..Segments
  /\ output \in Seq(Nat) /\ before \in Seq(Nat)
  /\ result \in [status: {"none", "ok", "err"}, size: Nat,
                 by: {"none", "parallel", "single", "resume"}]
  /\ calls \in 0..MaxCalls
  /\ served \in BOOLEAN /\ torn \in BOOLEAN

Increasing(s) == \A j, k \in 1..Len(s) : j < k => s[j] < s[k]
IsPrefix(s)   == Len(s) <= len /\ s = SubSeq(Content, 1, Len(s))

\* A parallel download that reports success has put the whole file together, if
\* none of its segments failed, each body that ended was whole, no copy broke off
\* and the server honours Range: neither the retries of a segment nor the borders
\* lose or repeat a byte.  In all the other cases it reports success as well.
OkIsWhole ==
  (/\ result.status = "ok" /\ result.by = "parallel"
   /\ ranged /\ ~torn /\ \A i \in Seg : seg[i].state = "ok")
    => output = Content /\ result.size = len

\* Whatever fails and is tried again, download never leaves a file with a byte
\* twice, bytes out of order, or remains of an earlier file, as long as the
\* server honours Range.
InOrder ==
  [][ranged /\ pc # "resume" /\ output' # output
       => Increasing(output') /\ \A k \in 1..Len(output') : output'[k] >= 1]_vars

\* A file that is there survives a call in which no request was answered with a
\* body for it: nothing is truncated before an answer is in hand.
KeptUntilServed == ~served => output = before

\* However calls of download and resume_download break off, end early or lose the
\* tail of what came: a beginning of the file stays one and never gets shorter, so
\* that the next resumption asks for the byte that is missing.
ResumeExtends ==
  [][pc = "resume" /\ ranged /\ IsPrefix(output)
       => IsPrefix(output') /\ Len(output') >= Len(output)]_vars

\* Every call returns, whatever the server does.
CallsReturn == (pc # "idle") ~> (pc = "idle")
=============================================================================
