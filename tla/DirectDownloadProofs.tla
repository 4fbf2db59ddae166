------------------------ MODULE DirectDownloadProofs ------------------------
(***************************************************************************)
(* Downloads with any number of segments and attempts, of files of any     *)
(* length.  A merge step adds one temporary file to the output; that the   *)
(* last one makes it the whole file is an invariant over the steps: so far *)
(* the output is the beginning of the file up to the next segment's first  *)
(* byte (Merged), because the segments' ranges adjoin (RangesAdjoin).      *)
(* With segments that failed it is at least an increasing sequence of bytes*)
(* before that one (MergedBelow), because each temporary file holds a      *)
(* beginning of its segment's range (PartsInside).                         *)
(*                                                                         *)
(* And a call has only so many steps: Work is a natural number that each of*)
(* them makes smaller.                                                     *)
(***************************************************************************)
EXTENDS DirectDownload, SequenceTheorems, FiniteSetTheorems, TLAPS

---------------------------------------------------------------------------
(* The ranges                                                              *)

\* The first byte position that is not in segments 0 to i - 1.
Border(total, i) == IF i = Segments THEN total ELSE RangeStart(total, i)

LEMMA Quotient ==
  ASSUME NEW n \in Nat
  PROVE  /\ ChunkSize(n) \in Nat
         /\ Segments * ChunkSize(n) <= n + Segments - 1
         /\ n + Segments - 1 < Segments * ChunkSize(n) + Segments
BY SegmentsAssumption DEF ChunkSize

\* No segment begins beyond the end of the file.
LEMMA BordersInside ==
  ASSUME NEW n \in Nat, n > MinParallel, NEW i \in Seg
  PROVE  i * ChunkSize(n) \in Nat /\ i * ChunkSize(n) <= n
<1> DEFINE C == ChunkSize(n)
<1>1. /\ C \in Nat /\ Segments \in Nat /\ Segments >= 1
      /\ Segments * C <= n + Segments - 1
      /\ n + Segments - 1 < Segments * C + Segments
  BY Quotient, SegmentsAssumption
<1>2. MinParallel \in Nat /\ n > Segments * (Segments - 1)
  BY LenAssumption, RangeAssumption, SegmentsAssumption
<1> HIDE DEF C
<1>3. C >= Segments - 1
  <2> SUFFICES ASSUME C + 1 <= Segments - 1 PROVE FALSE
    BY <1>1
  <2>1. Segments * (C + 1) <= Segments * (Segments - 1)
    BY <1>1
  <2>2. Segments * (C + 1) = Segments * C + Segments
    BY <1>1
  <2> QED BY <1>1, <1>2, <2>1, <2>2
<1>4. (Segments - 1) * C = Segments * C - C
  BY <1>1
<1>5. (Segments - 1) * C <= n
  BY <1>1, <1>3, <1>4
<1>6. i \in Nat /\ i <= Segments - 1
  BY <1>1 DEF Seg
<1>7. i * C <= (Segments - 1) * C
  BY <1>1, <1>6
<1> QED BY <1>1, <1>5, <1>6, <1>7 DEF C

\* Each range is what lies between two borders, so that they adjoin and end with
\* the file.
THEOREM RangesAdjoin ==
  ASSUME NEW n \in Nat, n > MinParallel, NEW i \in Seg
  PROVE  /\ RangeStart(n, i) = Border(n, i)
         /\ RangeEnd(n, i) + 1 = Border(n, i + 1)
         /\ Border(n, i) \in 0..n /\ Border(n, i + 1) \in Border(n, i)..n
         /\ Border(n, 0) = 0
<1> DEFINE C == ChunkSize(n)
<1>1. i * C \in 0..n
  BY BordersInside
<1>2. RangeStart(n, i) = i * C /\ Border(n, i) = i * C
  BY SegmentsAssumption DEF RangeStart, Border, Seg
<1>3. Border(n, 0) = 0
  BY Quotient, SegmentsAssumption DEF Border, RangeStart
<1>4. CASE i = Segments - 1
  BY <1>1, <1>2, <1>3, <1>4, SegmentsAssumption DEF RangeEnd, Border
<1>5. CASE i # Segments - 1
  <2>1. i + 1 \in Seg
    BY <1>5, SegmentsAssumption DEF Seg
  <2>2. (i + 1) * C \in 0..n
    BY <2>1, BordersInside
  <2>3. Border(n, i + 1) = (i + 1) * C /\ RangeEnd(n, i) = (i + 1) * C - 1
    BY <1>5, <2>1, SegmentsAssumption DEF RangeEnd, RangeStart, Border, Seg
  <2>4. C \in Nat /\ i \in Nat
    BY Quotient, SegmentsAssumption DEF Seg
  <2>5. (i + 1) * C = i * C + C
    BY <2>4
  <2> HIDE DEF C
  <2> QED BY <1>1, <1>2, <1>3, <2>2, <2>3, <2>4, <2>5
<1> QED BY <1>4, <1>5

---------------------------------------------------------------------------
(* The invariant                                                           *)

\* A waiting segment has an attempt left; a file is fetched in segments only if
\* it is large; unless a body ended early, what a segment that is done has fetched
\* is its range.
Shape ==
  /\ \A i \in Seg : seg[i].state = "waiting" => seg[i].tries <= Retries
  /\ pc \in {"segments", "merge"} => len > MinParallel
  /\ pc = "segments" => next = 0
  /\ result.status = "ok" => pc = "idle"
PartsFetched ==
  pc \in {"segments", "merge"} /\ ~torn =>
    \A i \in Seg : seg[i].state = "ok" => part[i] = SegmentBody(i)

AllFetched == \A i \in Seg : seg[i].state = "ok"
Merged ==
  pc = "merge" /\ ranged /\ ~torn /\ AllFetched => output = SubSeq(Content, 1, Border(len, next))

Kept == KeptUntilServed /\ (pc = "merge" => served)

IInv == TypeOK /\ Shape /\ PartsFetched /\ Merged /\ OkIsWhole /\ Kept

---------------------------------------------------------------------------
(* What is sent and what is left of it                                     *)

LEMMA ContentSeq ==
  ASSUME TypeOK
  PROVE  /\ len \in Nat /\ Content \in Seq(Nat) /\ Len(Content) = len
         /\ \A k \in 1..len : Content[k] = k
<1>1. len \in Nat
  BY LenAssumption DEF TypeOK
<1>2. Content \in [1..len -> Nat]
  BY <1>1 DEF Content, File
<1> QED BY <1>1, <1>2, SeqDef DEF Content, File

LEMMA Slices ==
  ASSUME TypeOK, NEW a \in Nat, NEW b \in Nat, b <= len
  PROVE  SubSeq(Content, a + 1, b) \in Seq(Nat)
<1>1. \A k \in a + 1 .. b : Content[k] \in Nat
  BY ContentSeq
<1> QED BY <1>1, SubSeqProperties

LEMMA PrefixSeq ==
  ASSUME NEW s \in Seq(Nat), NEW b \in Prefixes(s)
  PROVE  b \in Seq(Nat)
<1>1. PICK k \in 0..Len(s) : b = SubSeq(s, 1, k)
  BY DEF Prefixes
<1>2. \A i \in 1..k : s[i] \in Nat
  BY <1>1, LenProperties
<1> QED BY <1>1, <1>2, SubSeqProperties

LEMMA SegmentSeq ==
  ASSUME TypeOK, len > MinParallel, NEW i \in Seg
  PROVE  /\ SegmentBody(i) \in Seq(Nat)
         /\ ranged => SegmentBody(i) = SubSeq(Content, Border(len, i) + 1, Border(len, i + 1))
<1>1. len \in Nat /\ Content \in Seq(Nat)
  BY ContentSeq
<1>2. /\ RangeStart(len, i) = Border(len, i) /\ RangeEnd(len, i) + 1 = Border(len, i + 1)
      /\ Border(len, i) \in Nat /\ Border(len, i + 1) \in Nat /\ Border(len, i + 1) <= len
  BY <1>1, RangesAdjoin
<1>3. SubSeq(Content, Border(len, i) + 1, Border(len, i + 1)) \in Seq(Nat)
  BY <1>2, Slices
<1> QED BY <1>1, <1>2, <1>3 DEF SegmentBody, Body

LEMMA ResumeSeq ==
  ASSUME TypeOK, output = <<>> \/ ~ranged \/ Len(output) < len
  PROVE  ResumeBody \in Seq(Nat)
<1>1. len \in Nat /\ Content \in Seq(Nat) /\ Len(output) \in Nat
  BY ContentSeq DEF TypeOK
<1>2. CASE output # <<>> /\ ranged
  <2>1. len - 1 + 1 = len
    BY <1>1
  <2>2. SubSeq(Content, Len(output) + 1, len) \in Seq(Nat)
    <3>1. len <= len
      BY <1>1
    <3>2. \A a \in Nat : SubSeq(Content, a + 1, len) \in Seq(Nat)
      BY <1>1, <3>1, Slices
    <3> QED BY <1>1, <3>2
  <2> QED BY <1>2, <2>1, <2>2 DEF ResumeBody, Body
<1>3. CASE ~(output # <<>> /\ ranged)
  BY <1>1, <1>3 DEF ResumeBody, Body
<1> QED BY <1>2, <1>3

---------------------------------------------------------------------------
(* The steps                                                               *)

Segmenting(i) == SegmentRefused(i) \/ SegmentBreaks(i) \/ SegmentDone(i)

LEMMA InitIInv == Init => IInv
<1> SUFFICES ASSUME Init PROVE IInv
  OBVIOUS
<1> USE SegmentsAssumption, RetriesAssumption, LenAssumption, CallsAssumption DEF Init
<1>1. <<>> \in Seq(Nat) /\ <<0>> \in Seq(Nat)
  OBVIOUS
<1>2. TypeOK
  <2>1. output \in Seq(Nat) /\ before \in Seq(Nat) /\ part \in [Seg -> Seq(Nat)]
    BY <1>1
  <2>2. seg \in [Seg -> [state: {"waiting", "ok", "failed"}, tries: 0..(Retries + 1)]]
    BY DEF Waiting
  <2>3. result \in [status: {"none", "ok", "err"}, size: Nat,
                  by: {"none", "parallel", "single", "resume"}]
    BY DEF NoResult
  <2>4. attempt \in 0..(Retries - 1) /\ next \in 0..Segments /\ calls \in 0..MaxCalls
    OBVIOUS
  <2> QED BY <2>1, <2>2, <2>3, <2>4 DEF TypeOK
<1>3. Shape /\ PartsFetched
  BY DEF Shape, PartsFetched, Seg, Waiting, NoResult
<1>4. Merged /\ OkIsWhole /\ Kept
  BY DEF Merged, OkIsWhole, Kept, KeptUntilServed, NoResult
<1> QED BY <1>2, <1>3, <1>4 DEF IInv

LEMMA FileTypes ==
  ASSUME IInv, Next
  PROVE  output' \in Seq(Nat) /\ before' \in Seq(Nat) /\ part' \in [Seg -> Seq(Nat)]
<1> USE DEF IInv, TypeOK
<1>0. Content \in Seq(Nat) /\ <<>> \in Seq(Nat)
  BY ContentSeq
<1>1. CASE StartDownload \/ StartResume
  BY <1>1 DEF StartDownload, StartResume, Start
<1>2. CASE HeadAnswered
  BY <1>0, <1>2 DEF HeadAnswered
<1>3. ASSUME NEW i \in Seg, Segmenting(i)
      PROVE  output' \in Seq(Nat) /\ before' \in Seq(Nat) /\ part' \in [Seg -> Seq(Nat)]
  <2>1. SegmentBody(i) \in Seq(Nat)
    BY <1>3, SegmentSeq DEF Segmenting, SegmentRefused, SegmentBreaks, SegmentDone, SegmentRuns, Shape
  <2>2. CASE SegmentBreaks(i) \/ SegmentDone(i)
    <3>1. PICK b \in Prefixes(SegmentBody(i)) : part' = [part EXCEPT ![i] = b]
      BY <2>2 DEF SegmentBreaks, SegmentDone
    <3> QED BY <2>1, <2>2, <3>1, PrefixSeq DEF SegmentBreaks, SegmentDone
  <2> QED BY <1>3, <2>2 DEF Segmenting, SegmentRefused
<1>4. CASE CreateOutput
  BY <1>0, <1>4 DEF CreateOutput
<1>5. CASE Merge \/ MergeBreaks
  <2>1. next \in Seg /\ part[next] \in Seq(Nat)
    BY <1>5, SegmentsAssumption DEF Merge, MergeBreaks, Seg
  <2>2. PICK b \in Seq(Nat) : output' = output \o b /\ UNCHANGED <<part, before>>
    BY <1>5, <2>1, PrefixSeq DEF Merge, MergeBreaks
  <2> QED BY <2>2, ConcatProperties
<1>6. CASE SingleBreaks \/ SingleDone
  BY <1>0, <1>6, PrefixSeq DEF SingleBreaks, SingleDone
<1>7. CASE ResumeBreaks \/ ResumeDone
  <2>1. ResumeBody \in Seq(Nat)
    BY <1>7, ResumeSeq DEF ResumeBreaks, ResumeDone
  <2>2. PICK b \in Seq(Nat) : output' = output \o b /\ UNCHANGED <<part, before>>
    <3>1. \A b \in Prefixes(ResumeBody) : b \in Seq(Nat) /\ \A w \in Prefixes(b) : w \in Seq(Nat)
      BY <2>1, PrefixSeq
    <3> QED BY <1>7, <3>1 DEF ResumeBreaks, ResumeDone
  <2> QED BY <2>2, ConcatProperties
<1>8. CASE HeadFails \/ NoDirectory \/ NoSegment \/ MergeDone \/ SingleRefused \/ ResumeRefused
  BY <1>8 DEF HeadFails, NoDirectory, NoSegment, MergeDone, SingleRefused, ResumeRefused
<1> QED
  BY <1>1, <1>2, <1>3, <1>4, <1>5, <1>6, <1>7, <1>8 DEF Next, Running, Segmenting

SegStates == [state: {"waiting", "ok", "failed"}, tries: 0..(Retries + 1)]
Results   == [status: {"none", "ok", "err"}, size: Nat,
              by: {"none", "parallel", "single", "resume"}]

LEMMA SegTypes ==
  ASSUME IInv, Next
  PROVE  seg' \in [Seg -> SegStates]
<1>0. seg \in [Seg -> SegStates] /\ Retries \in Nat
  BY RetriesAssumption DEF IInv, TypeOK, SegStates
<1>1. CASE HeadAnswered
  <2>1. Waiting \in SegStates
    BY <1>0 DEF Waiting, SegStates
  <2> QED BY <1>0, <1>1, <2>1 DEF HeadAnswered
<1>2. ASSUME NEW i \in Seg, Segmenting(i)
      PROVE  seg' \in [Seg -> SegStates]
  <2>1. seg[i] \in SegStates /\ seg[i].state = "waiting" /\ seg[i].tries <= Retries
    BY <1>0, <1>2 DEF Segmenting, SegmentRefused, SegmentBreaks, SegmentDone, SegmentRuns, IInv, Shape
  <2>2. CASE SegmentDone(i)
    <3>1. [seg[i] EXCEPT !.state = "ok"] \in SegStates
      BY <2>1 DEF SegStates
    <3> QED BY <1>0, <2>2, <3>1 DEF SegmentDone
  <2>3. CASE SegmentRefused(i) \/ SegmentBreaks(i)
    <3> DEFINE r == [state |-> IF seg[i].tries = Retries THEN "failed" ELSE "waiting",
                     tries |-> seg[i].tries + 1]
    <3>1. seg[i].tries + 1 \in 0..(Retries + 1)
      BY <1>0, <2>1 DEF SegStates
    <3>2. r \in SegStates
      BY <3>1 DEF SegStates
    <3>3. seg' = [seg EXCEPT ![i] = r]
      BY <2>3 DEF SegmentRefused, SegmentBreaks, SegmentFails
    <3> HIDE DEF r
    <3> QED BY <1>0, <3>2, <3>3
  <2> QED BY <1>2, <2>2, <2>3 DEF Segmenting
<1>3. HeadAnswered \/ (\E i \in Seg : Segmenting(i)) \/ UNCHANGED seg
  BY DEF Next, Running, StartDownload, StartResume, Start, HeadFails, NoDirectory, NoSegment,
         CreateOutput, Merge, MergeBreaks, MergeDone, SingleRefused, SingleBreaks,
         SingleDone, ResumeRefused, ResumeBreaks, ResumeDone, Segmenting
<1> QED BY <1>0, <1>1, <1>2, <1>3

LEMMA ResultTypes ==
  ASSUME IInv, Next
  PROVE  result' \in Results
<1>0. result \in Results /\ output' \in Seq(Nat) /\ output \in Seq(Nat) /\ len \in Nat
  BY FileTypes, ContentSeq DEF IInv, TypeOK, Results
<1>1. /\ NoResult \in Results /\ Failed \in Results
      /\ \A n \in Nat, by \in {"parallel", "single", "resume"} : Ok(n, by) \in Results
  BY DEF NoResult, Failed, Ok, Results
<1>2. CASE SingleDone
  <2>1. Len(output') \in Nat
    BY <1>0
  <2> QED BY <1>1, <1>2, <2>1 DEF SingleDone, Return
<1>3. CASE ResumeDone
  <2>1. ResumeBody \in Seq(Nat)
    BY <1>3, ResumeSeq DEF ResumeDone, IInv
  <2>2. \A b \in Prefixes(ResumeBody) : Len(output) + Len(b) \in Nat
    BY <1>0, <2>1, PrefixSeq, LenProperties
  <2> QED BY <1>1, <1>3, <2>2 DEF ResumeDone, Return
<1>4. CASE MergeDone
  BY <1>0, <1>1, <1>4 DEF MergeDone, Return
<1>5. CASE StartDownload \/ StartResume
  BY <1>1, <1>5 DEF StartDownload, StartResume, Start
<1>6. CASE HeadFails \/ ResumeRefused \/ ResumeBreaks \/ SingleRefused \/ SingleBreaks
  BY <1>0, <1>1, <1>6 DEF HeadFails, ResumeRefused, ResumeBreaks, SingleRefused, SingleBreaks,
                          Return, AttemptFails
<1>7. CASE HeadAnswered \/ NoDirectory \/ (\E i \in Seg : Segmenting(i)) \/ NoSegment
           \/ CreateOutput \/ Merge \/ MergeBreaks
  BY <1>0, <1>7 DEF HeadAnswered, NoDirectory, Segmenting, SegmentRefused, SegmentBreaks,
                    SegmentDone, NoSegment, CreateOutput, Merge, MergeBreaks
<1> QED BY <1>2, <1>3, <1>4, <1>5, <1>6, <1>7 DEF Next, Running, Segmenting

\* What the steps do to the variables that are neither files nor results.
LEMMA CounterTypes ==
  ASSUME IInv, Next
  PROVE  calls' \in 0..MaxCalls /\ next' \in 0..Segments /\ attempt' \in 0..(Retries - 1)
<1>0. /\ calls \in 0..MaxCalls /\ next \in 0..Segments /\ attempt \in 0..(Retries - 1)
      /\ MaxCalls \in Nat /\ Segments \in Nat /\ Retries \in Nat /\ Retries >= 1
  BY SegmentsAssumption, RetriesAssumption, CallsAssumption DEF IInv, TypeOK
<1>1. UNCHANGED calls \/ (calls < MaxCalls /\ calls' = calls + 1)
  BY DEF Next, Running, StartDownload, StartResume, Start, HeadFails, HeadAnswered, NoDirectory,
         SegmentRefused, SegmentBreaks, SegmentDone, NoSegment, CreateOutput, Merge,
         MergeBreaks, MergeDone, SingleRefused, SingleBreaks, SingleDone, ResumeRefused,
         ResumeBreaks, ResumeDone
<1>2. UNCHANGED next \/ next' = 0 \/ (next < Segments /\ next' = next + 1)
  BY DEF Next, Running, StartDownload, StartResume, Start, HeadFails, HeadAnswered, NoDirectory,
         SegmentRefused, SegmentBreaks, SegmentDone, NoSegment, CreateOutput, Merge,
         MergeBreaks, MergeDone, SingleRefused, SingleBreaks, SingleDone, ResumeRefused,
         ResumeBreaks, ResumeDone
<1>3. UNCHANGED attempt \/ attempt' = 0 \/ (attempt + 1 < Retries /\ attempt' = attempt + 1)
  BY DEF Next, Running, StartDownload, StartResume, Start, HeadFails, HeadAnswered, NoDirectory,
         SegmentRefused, SegmentBreaks, SegmentDone, NoSegment, CreateOutput, Merge,
         MergeBreaks, MergeDone, SingleRefused, SingleBreaks, SingleDone, ResumeRefused,
         ResumeBreaks, ResumeDone, AttemptFails
<1> QED BY <1>0, <1>1, <1>2, <1>3

LEMMA ServerStays ==
  ASSUME Next
  PROVE  UNCHANGED <<len, ranged>>
BY DEF Next, Running, StartDownload, StartResume, Start, HeadFails, HeadAnswered, NoDirectory,
       SegmentRefused, SegmentBreaks, SegmentDone, NoSegment, CreateOutput, Merge, MergeBreaks,
       MergeDone, SingleRefused, SingleBreaks, SingleDone, ResumeRefused, ResumeBreaks,
       ResumeDone, server

LEMMA ControlTypes ==
  ASSUME IInv, Next
  PROVE  /\ pc' \in {"idle", "head", "segments", "merge", "single", "resume"}
         /\ served' \in BOOLEAN /\ torn' \in BOOLEAN
<1>1. /\ UNCHANGED pc
         \/ pc' \in {"idle", "head", "segments", "merge", "single", "resume"}
      /\ UNCHANGED served \/ served' \in BOOLEAN
      /\ UNCHANGED torn \/ torn' \in BOOLEAN
  BY DEF Next, Running, StartDownload, StartResume, Start, HeadFails, HeadAnswered, NoDirectory,
         SegmentRefused, SegmentBreaks, SegmentDone, NoSegment, CreateOutput, Merge,
         MergeBreaks, MergeDone, SingleRefused, SingleBreaks, SingleDone, ResumeRefused,
         ResumeBreaks, ResumeDone, AttemptFails, Return
<1> QED BY <1>1 DEF IInv, TypeOK

LEMMA StepTypes ==
  ASSUME IInv, Next
  PROVE  TypeOK'
<1>1. len' \in 1..MaxLen /\ ranged' \in BOOLEAN
  BY ServerStays DEF IInv, TypeOK
<1> QED BY <1>1, FileTypes, SegTypes, ResultTypes, CounterTypes, ControlTypes
        DEF TypeOK, SegStates, Results

\* What a step at pc leads to, as far as Shape tells it.
LEMMA StepShape ==
  ASSUME IInv, Next
  PROVE  Shape'
<1>0. /\ Shape /\ len \in Nat /\ UNCHANGED len
      /\ seg \in [Seg -> SegStates] /\ Retries \in Nat
  BY ContentSeq, ServerStays, RetriesAssumption DEF IInv, TypeOK, SegStates
<1>1. \A i \in Seg : seg'[i].state = "waiting" => seg'[i].tries <= Retries
  <2>1. CASE HeadAnswered
    <3>1. seg' = [i \in Seg |-> Waiting] \/ seg' = seg
      BY <2>1 DEF HeadAnswered
    <3> QED BY <1>0, <3>1 DEF Shape, Waiting
  <2>2. ASSUME NEW i \in Seg, Segmenting(i), NEW j \in Seg, seg'[j].state = "waiting"
        PROVE  seg'[j].tries <= Retries
    <3>1. CASE j # i
      <4>1. seg'[j] = seg[j]
        BY <1>0, <2>2, <3>1 DEF Segmenting, SegmentRefused, SegmentBreaks, SegmentDone, SegmentFails
      <4> QED BY <1>0, <2>2, <4>1 DEF Shape
    <3>2. CASE j = i
      <4>1. seg[i].state = "waiting" /\ seg[i].tries <= Retries /\ seg[i].tries \in Nat
        BY <1>0, <2>2 DEF Segmenting, SegmentRefused, SegmentBreaks, SegmentDone, SegmentRuns,
                          Shape, SegStates
      <4>2. ~SegmentDone(i)
        <5>1. [seg[i] EXCEPT !.state = "ok"].state = "ok"
          BY <1>0 DEF SegStates
        <5> QED BY <1>0, <2>2, <3>2, <5>1 DEF SegmentDone
      <4>3. seg'[i] = [state |-> IF seg[i].tries = Retries THEN "failed" ELSE "waiting",
                       tries |-> seg[i].tries + 1]
        BY <1>0, <2>2, <4>2 DEF Segmenting, SegmentRefused, SegmentBreaks, SegmentFails
      <4> QED BY <1>0, <2>2, <3>2, <4>1, <4>3
    <3> QED BY <3>1, <3>2
  <2>3. HeadAnswered \/ (\E i \in Seg : Segmenting(i)) \/ UNCHANGED seg
    BY DEF Next, Running, StartDownload, StartResume, Start, HeadFails, NoDirectory, NoSegment,
           CreateOutput, Merge, MergeBreaks, MergeDone, SingleRefused, SingleBreaks,
           SingleDone, ResumeRefused, ResumeBreaks, ResumeDone, Segmenting
  <2> QED BY <1>0, <2>1, <2>2, <2>3 DEF Shape
<1>2. /\ pc' \in {"segments", "merge"} => len > MinParallel
      /\ pc' = "segments" => next' = 0
  <2>1. \/ pc' \notin {"segments", "merge"}
        \/ pc' = pc /\ (next' = next \/ pc = "merge")
        \/ pc' = "segments" /\ len > MinParallel /\ next' = 0
        \/ pc = "segments" /\ pc' = "merge"
    BY DEF Next, Running, StartDownload, StartResume, Start, HeadFails, HeadAnswered, NoDirectory,
           SegmentRefused, SegmentBreaks, SegmentDone, NoSegment, CreateOutput, Joined, Merge,
           MergeBreaks, MergeDone, SingleRefused, SingleBreaks, SingleDone, ResumeRefused,
           ResumeBreaks, ResumeDone, AttemptFails, Return, SegmentRuns
  <2> QED BY <1>0, <2>1 DEF Shape
<1>3. result'.status = "ok" => pc' = "idle"
  <2>1. \/ pc' = "idle"
        \/ result' = NoResult
        \/ result' = result /\ pc # "idle"
    BY DEF Next, Running, StartDownload, StartResume, Start, HeadFails, HeadAnswered, NoDirectory,
           SegmentRefused, SegmentBreaks, SegmentDone, NoSegment, CreateOutput, Joined, Merge,
           MergeBreaks, MergeDone, SingleRefused, SingleBreaks, SingleDone, ResumeRefused,
           ResumeBreaks, ResumeDone, AttemptFails, Return, SegmentRuns
  <2> QED BY <1>0, <2>1 DEF Shape, NoResult
<1> QED BY <1>0, <1>1, <1>2, <1>3 DEF Shape

\* Nothing but a segment's own requests, and a new attempt, changes what it has.
LEMMA StepParts ==
  ASSUME IInv, Next
  PROVE  PartsFetched'
<1> USE DEF IInv, TypeOK, PartsFetched
<1>1. \A i \in Seg : SegmentBody(i)' = SegmentBody(i)
  <2>1. UNCHANGED <<len, ranged>>
    BY DEF Next, Running, StartDownload, StartResume, Start, HeadFails, HeadAnswered, NoDirectory,
           SegmentRefused, SegmentBreaks, SegmentDone, NoSegment, CreateOutput, Merge,
           MergeBreaks, MergeDone, SingleRefused, SingleBreaks, SingleDone, ResumeRefused,
           ResumeBreaks, ResumeDone, server
  <2> QED BY <2>1 DEF SegmentBody, Body, Content
<1>2. CASE HeadAnswered
  BY <1>1, <1>2 DEF HeadAnswered, Waiting
<1>3. ASSUME NEW i \in Seg, Segmenting(i) PROVE PartsFetched'
  <2> SUFFICES ASSUME ~torn', NEW j \in Seg, seg'[j].state = "ok"
               PROVE  part'[j] = SegmentBody(j)
    BY <1>1
  <2>0. pc = "segments"
    BY <1>3 DEF Segmenting, SegmentRefused, SegmentBreaks, SegmentDone, SegmentRuns
  <2>1. CASE SegmentDone(i)
    <3>1. PICK b \in Prefixes(SegmentBody(i)) : /\ part' = [part EXCEPT ![i] = b]
                                               /\ torn' = (torn \/ b # SegmentBody(i))
      BY <2>1 DEF SegmentDone
    <3>2. ~torn /\ b = SegmentBody(i)
      BY <3>1
    <3>3. CASE j = i
      BY <3>1, <3>2, <3>3
    <3>4. CASE j # i
      <4>1. part'[j] = part[j] /\ seg'[j] = seg[j]
        BY <2>1, <3>1, <3>4 DEF SegmentDone
      <4> QED BY <2>0, <3>2, <4>1
    <3> QED BY <3>3, <3>4
  <2>2. CASE SegmentRefused(i) \/ SegmentBreaks(i)
    <3>1. seg'[i].state # "ok" /\ \A k \in Seg \ {i} : seg'[k] = seg[k] /\ part'[k] = part[k]
      BY <2>2 DEF SegmentRefused, SegmentBreaks, SegmentFails
    <3>2. ~torn
      BY <2>2 DEF SegmentRefused, SegmentBreaks
    <3> QED BY <2>0, <3>1, <3>2
  <2> QED BY <1>3, <2>1, <2>2 DEF Segmenting
<1>4. ASSUME UNCHANGED <<seg, part>>,
             pc' \in {"segments", "merge"} /\ ~torn' => pc \in {"segments", "merge"} /\ ~torn
      PROVE  PartsFetched'
  BY <1>1, <1>4
<1>5. \/ HeadAnswered \/ \E i \in Seg : Segmenting(i)
      \/ /\ UNCHANGED <<seg, part>>
         /\ pc' \in {"segments", "merge"} /\ ~torn' => pc \in {"segments", "merge"} /\ ~torn
  BY DEF Next, Running, StartDownload, StartResume, Start, HeadFails, NoDirectory, NoSegment,
         CreateOutput, Joined, Merge, MergeBreaks, MergeDone, SingleRefused, SingleBreaks,
         SingleDone, ResumeRefused, ResumeBreaks, ResumeDone, Segmenting, AttemptFails, Return
<1> QED BY <1>2, <1>3, <1>4, <1>5

LEMMA StepMerged ==
  ASSUME IInv, Next
  PROVE  Merged'
<1> SUFFICES ASSUME pc' = "merge", ranged', ~torn', AllFetched'
             PROVE  output' = SubSeq(Content', 1, Border(len', next'))
  BY DEF Merged
<1>0. /\ Shape /\ PartsFetched /\ Merged /\ TypeOK
      /\ UNCHANGED <<len, ranged>> /\ Content' = Content
      /\ len \in Nat /\ Content \in Seq(Nat) /\ Len(Content) = len
      /\ Segments \in Nat /\ Segments >= 1
  <2>1. Shape /\ PartsFetched /\ Merged /\ TypeOK
    BY DEF IInv
  <2>2. UNCHANGED <<len, ranged>> /\ Content' = Content
    BY ServerStays DEF Content
  <2>3. Segments \in Nat /\ Segments >= 1
    BY SegmentsAssumption
  <2> QED BY <2>1, <2>2, <2>3, ContentSeq
<1>1. CreateOutput \/ Merge
  BY <1>0 DEF Next, Running, StartDownload, StartResume, Start, HeadFails, HeadAnswered, NoDirectory,
         SegmentRefused, SegmentBreaks, SegmentDone, SegmentRuns, NoSegment, MergeBreaks,
         MergeDone, SingleRefused, SingleBreaks, SingleDone, ResumeRefused, ResumeBreaks,
         ResumeDone, AttemptFails, Return
<1>2. CASE CreateOutput
  <2>1. output' = <<>> /\ next' = 0 /\ len > MinParallel
    BY <1>0, <1>2 DEF CreateOutput, Joined, Shape
  <2>2. 0 \in Seg
    BY <1>0 DEF Seg
  <2>3. Border(len, 0) = 0
    BY <1>0, <2>1, <2>2, RangesAdjoin
  <2>4. SubSeq(Content, 1, 0) = <<>>
    BY SubSeqEmpty
  <2> QED BY <1>0, <2>1, <2>3, <2>4
<1>3. CASE Merge
  <2>1. /\ next \in Seg /\ len > MinParallel /\ pc = "merge" /\ ranged /\ ~torn /\ AllFetched
        /\ output' = output \o part[next] /\ next' = next + 1
    BY <1>0, <1>3 DEF Merge, Seg, Shape, AllFetched, TypeOK
  <2> DEFINE from == Border(len, next)
             to   == Border(len, next + 1)
  <2>2. output = SubSeq(Content, 1, from)
    BY <1>0, <2>1 DEF Merged
  <2>3. part[next] = SubSeq(Content, from + 1, to)
    BY <1>0, <2>1, SegmentSeq DEF PartsFetched, AllFetched
  <2>4. from \in 0..len /\ to \in from..len
    BY <1>0, <2>1, RangesAdjoin
  <2> HIDE DEF from, to
  <2>5. 1 \in 1..(Len(Content) + 1) /\ from \in (1 - 1)..Len(Content) /\ to \in from..Len(Content)
    BY <1>0, <2>4
  <2>6. SubSeq(Content, 1, from) \o SubSeq(Content, from + 1, to) = SubSeq(Content, 1, to)
    BY <1>0, <2>5, ConcatAdjacentSubSeq
  <2> QED BY <1>0, <2>1, <2>2, <2>3, <2>6 DEF to
<1> QED BY <1>1, <1>2, <1>3

\* The length of the merged file is the last border.
LEMMA StepOkIsWhole ==
  ASSUME IInv, Next
  PROVE  OkIsWhole'
<1>0. /\ Shape /\ Merged /\ TypeOK
      /\ UNCHANGED <<len, ranged>> /\ Content' = Content
      /\ len \in Nat /\ Content \in Seq(Nat) /\ Len(Content) = len
  BY ServerStays, ContentSeq DEF IInv, Content
<1>1. \/ result'.status # "ok"
      \/ result'.by \in {"resume", "single"}
      \/ MergeDone /\ result' = Ok(len, "parallel")
  <2>1. CASE StartDownload \/ StartResume
    BY <2>1 DEF StartDownload, StartResume, Start, NoResult
  <2>2. CASE HeadFails \/ ResumeRefused \/ ResumeBreaks
    BY <2>2 DEF HeadFails, ResumeRefused, ResumeBreaks, Return, Failed
  <2>3. CASE SingleRefused \/ SingleBreaks
    BY <1>0, <2>3 DEF SingleRefused, SingleBreaks, AttemptFails, Return, Failed, Shape
  <2>4. CASE HeadAnswered \/ NoDirectory \/ (\E i \in Seg : Segmenting(i)) \/ NoSegment
             \/ CreateOutput \/ Merge \/ MergeBreaks
    BY <1>0, <2>4 DEF HeadAnswered, NoDirectory, Segmenting, SegmentRefused, SegmentBreaks,
              SegmentDone, SegmentRuns, NoSegment, CreateOutput, Joined, Merge, MergeBreaks, Shape
  <2>5. CASE MergeDone
    BY <1>0, <2>5 DEF MergeDone, Return, Shape
  <2>6. CASE ResumeDone \/ SingleDone
    BY <2>6 DEF ResumeDone, SingleDone, Return, Ok
  <2> QED BY <2>1, <2>2, <2>3, <2>4, <2>5, <2>6 DEF Next, Running, Segmenting
<1>3. CASE MergeDone /\ result' = Ok(len, "parallel")
  <2> SUFFICES ASSUME ranged, ~torn, AllFetched
               PROVE  output' = Content /\ result'.size = len
    BY <1>0, <1>3 DEF OkIsWhole, MergeDone, Ok, AllFetched
  <2>1. Border(len, next) = len /\ output' = output
    BY <1>3 DEF MergeDone, Border
  <2>2. output = SubSeq(Content, 1, len)
    BY <1>0, <1>3, <2>1 DEF Merged, MergeDone
  <2> QED BY <1>0, <1>3, <2>1, <2>2, SubSeqFull DEF Ok
<1>4. CASE result'.by \in {"resume", "single"} \/ result'.status # "ok"
  BY <1>4 DEF OkIsWhole
<1> QED BY <1>1, <1>3, <1>4

LEMMA StepKept ==
  ASSUME IInv, Next
  PROVE  Kept'
<1>0. (~served => output = before) /\ (pc = "merge" => served)
  BY DEF IInv, Kept, KeptUntilServed
<1>1. CASE StartDownload \/ StartResume
  BY <1>1 DEF StartDownload, StartResume, Start, Kept, KeptUntilServed
<1>2. CASE HeadFails \/ HeadAnswered \/ NoDirectory \/ (\E i \in Seg : Segmenting(i)) \/ NoSegment
           \/ MergeDone \/ SingleRefused \/ ResumeRefused
  <2>1. UNCHANGED <<output, before, served>> /\ (pc' = "merge" => pc = "merge")
    BY <1>2 DEF HeadFails, HeadAnswered, NoDirectory, Segmenting, SegmentRefused, SegmentBreaks,
                SegmentDone, SegmentRuns, NoSegment, MergeDone, SingleRefused, ResumeRefused,
                AttemptFails, Return
  <2> QED BY <1>0, <2>1 DEF Kept, KeptUntilServed
<1>3. CASE CreateOutput
  BY <1>0, <1>3 DEF CreateOutput, Kept, KeptUntilServed
<1>4. CASE Merge \/ MergeBreaks
  BY <1>0, <1>4 DEF Merge, MergeBreaks, Kept, KeptUntilServed
<1>5. CASE SingleBreaks \/ SingleDone \/ ResumeBreaks \/ ResumeDone
  <2>1. served' = TRUE
    BY <1>5 DEF SingleBreaks, SingleDone, ResumeBreaks, ResumeDone
  <2> QED BY <2>1 DEF Kept, KeptUntilServed
<1> QED BY <1>1, <1>2, <1>3, <1>4, <1>5 DEF Next, Running, Segmenting

LEMMA StepIInv == IInv /\ [Next]_vars => IInv'
<1>1. ASSUME IInv, Next PROVE IInv'
  BY <1>1, StepTypes, StepShape, StepParts, StepMerged, StepOkIsWhole, StepKept DEF IInv
<1>2. ASSUME IInv, UNCHANGED vars PROVE IInv'
  BY <1>2 DEF IInv, vars, TypeOK, Shape, PartsFetched, SegmentBody, Body, Content, Merged,
              AllFetched, OkIsWhole, Kept, KeptUntilServed
<1> QED BY <1>1, <1>2

---------------------------------------------------------------------------
(* The order of the bytes                                                  *)

Increases(s, n) == Increasing(s) /\ \A k \in 1..Len(s) : s[k] \in 1..n

\* What segment i may have fetched so far from a server that honours Range.
Pieces(i) == {SubSeq(Content, Border(len, i) + 1, k) : k \in Border(len, i)..Border(len, i + 1)}

\* While segments are fetched and merged, each file holds a beginning of its range,
\* and what is merged lies below the next range.
PartsInside == ranged /\ pc \in {"segments", "merge"} => \A i \in Seg : part[i] \in Pieces(i)
MergedBelow == ranged /\ pc = "merge" => Increases(output, Border(len, next))
Ordered     == PartsInside /\ MergedBelow

LEMMA SliceIncreases ==
  ASSUME TypeOK, NEW a \in 0..len, NEW b \in a..len
  PROVE  /\ SubSeq(Content, a + 1, b) \in Seq(Nat)
         /\ Len(SubSeq(Content, a + 1, b)) = b - a
         /\ \A k \in 1..(b - a) : SubSeq(Content, a + 1, b)[k] = a + k
<1>1. len \in Nat /\ Content \in Seq(Nat) /\ \A k \in 1..len : Content[k] = k
  BY ContentSeq
<1>2. \A k \in a + 1 .. b : Content[k] \in Nat
  BY <1>1
<1>3. a + 1 \in Int /\ b \in Int
  BY <1>1
<1> DEFINE s == SubSeq(Content, a + 1, b)
<1>4. /\ s \in Seq(Nat)
      /\ Len(s) = IF a + 1 <= b THEN b - (a + 1) + 1 ELSE 0
      /\ \A k \in 1 .. b - (a + 1) + 1 : s[k] = Content[a + 1 + k - 1]
  BY <1>2, <1>3, SubSeqProperties
<1> HIDE DEF s
<1>5. \A k \in 1..(b - a) : s[k] = a + k
  BY <1>1, <1>4
<1> QED BY <1>1, <1>4, <1>5 DEF s

LEMMA IncreasesOn ==
  ASSUME TypeOK, NEW s \in Seq(Nat), NEW a \in 0..len, NEW b \in a..len, NEW c \in b..len,
         Increases(s, a)
  PROVE  Increases(s \o SubSeq(Content, a + 1, b), c)
<1> DEFINE t == SubSeq(Content, a + 1, b)
<1>1. /\ t \in Seq(Nat) /\ Len(t) = b - a /\ len \in Nat
      /\ \A k \in 1..(b - a) : t[k] = a + k
  BY SliceIncreases, ContentSeq
<1> HIDE DEF t
<1> DEFINE u == s \o t
<1>2. /\ Len(s) \in Nat /\ Len(u) = Len(s) + (b - a)
      /\ \A k \in 1..Len(s) : u[k] = s[k]
      /\ \A k \in Len(s) + 1 .. Len(u) : u[k] = t[k - Len(s)]
  <2>1. /\ Len(u) = Len(s) + Len(t)
        /\ \A i \in 1..Len(s) + Len(t) : u[i] = IF i <= Len(s) THEN s[i] ELSE t[i - Len(s)]
    BY <1>1, ConcatProperties
  <2>2. Len(s) \in Nat /\ Len(t) \in Nat
    BY <1>1
  <2> HIDE DEF u
  <2>3. \A k \in 1..Len(s) : u[k] = s[k]
    BY <2>1, <2>2
  <2>4. \A k \in Len(s) + 1 .. Len(u) : u[k] = t[k - Len(s)]
    BY <2>1, <2>2
  <2> QED BY <1>1, <2>1, <2>2, <2>3, <2>4
<1> HIDE DEF u
<1>3. /\ \A k \in 1..Len(s) : s[k] \in 1..a
      /\ \A j, k \in 1..Len(s) : j < k => s[j] < s[k]
  BY DEF Increases, Increasing
<1>4. \A k \in 1..Len(s) : u[k] \in 1..a
  BY <1>2, <1>3
<1>5. \A k \in 1..Len(u) : k > Len(s) => u[k] = a + (k - Len(s)) /\ u[k] \in a + 1 .. b
  <2> SUFFICES ASSUME NEW k \in 1..Len(u), k > Len(s)
               PROVE  u[k] = a + (k - Len(s)) /\ u[k] \in a + 1 .. b
    OBVIOUS
  <2>1. k \in Len(s) + 1 .. Len(u) /\ k - Len(s) \in 1..(b - a)
    BY <1>1, <1>2
  <2> QED BY <1>1, <1>2, <2>1
<1>6. Increasing(u)
  <2> SUFFICES ASSUME NEW j \in 1..Len(u), NEW k \in 1..Len(u), j < k PROVE u[j] < u[k]
    BY DEF Increasing
  <2>1. CASE k <= Len(s)
    <3>1. j \in 1..Len(s) /\ k \in 1..Len(s)
      BY <1>2, <2>1
    <3>2. s[j] < s[k] /\ u[j] = s[j] /\ u[k] = s[k]
      BY <1>2, <1>3, <3>1
    <3> QED BY <3>2
  <2>2. CASE j <= Len(s) /\ k > Len(s)
    <3>1. u[j] \in 1..a
      BY <1>2, <1>4, <2>2
    <3> QED BY <1>1, <1>5, <2>2, <3>1
  <2>3. CASE j > Len(s)
    <3>1. u[j] = a + (j - Len(s)) /\ u[k] = a + (k - Len(s))
      BY <1>2, <1>5, <2>3
    <3> QED BY <1>1, <1>2, <3>1
  <2>4. j \in Int /\ k \in Int /\ Len(s) \in Int
    BY <1>2
  <2> QED BY <2>1, <2>2, <2>3, <2>4
<1>7. \A k \in 1..Len(u) : u[k] \in 1..c
  <2> SUFFICES ASSUME NEW k \in 1..Len(u) PROVE u[k] \in 1..c
    OBVIOUS
  <2>1. CASE k <= Len(s)
    <3>1. u[k] \in 1..a
      BY <1>2, <1>4, <2>1
    <3> QED BY <1>1, <3>1
  <2>2. CASE k > Len(s)
    BY <1>1, <1>5, <2>2
  <2> QED BY <1>2, <2>1, <2>2
<1> QED BY <1>6, <1>7 DEF Increases, u, t

\* A body that breaks off within a slice of the file is a shorter slice.
LEMMA PrefixOfSlice ==
  ASSUME TypeOK, NEW a \in 0..len, NEW c \in a..len,
         NEW b \in Prefixes(SubSeq(Content, a + 1, c))
  PROVE  \E k \in a..c : b = SubSeq(Content, a + 1, k)
<1>0. len \in Nat /\ Content \in Seq(Nat) /\ Len(Content) = len
  BY ContentSeq
<1>1. Len(SubSeq(Content, a + 1, c)) = c - a
  BY SliceIncreases
<1>2. PICK j \in 0..(c - a) : b = SubSeq(SubSeq(Content, a + 1, c), 1, j)
  BY <1>1 DEF Prefixes
<1>3. CASE j = 0
  <2>1. b = <<>> /\ SubSeq(Content, a + 1, a) = <<>>
    BY <1>0, <1>2, <1>3, SubSeqEmpty
  <2>2. a \in a..c
    BY <1>0
  <2> QED BY <2>1, <2>2
<1>4. CASE j # 0
  <2>1. /\ a + 1 \in 1..Len(Content) /\ c \in 1..Len(Content)
        /\ 1 \in 1..(c - (a + 1) + 1) /\ j \in 1..(c - (a + 1) + 1)
    BY <1>0, <1>2, <1>4
  <2>2. (a + 1) + 1 - 1 = a + 1 /\ (a + 1) + j - 1 = a + j /\ a + j \in a..c
    BY <1>0, <1>2
  <2>3. SubSeq(SubSeq(Content, a + 1, c), 1, j)
          = SubSeq(Content, (a + 1) + 1 - 1, (a + 1) + j - 1)
    BY <1>0, <2>1, SubSeqOfSubSeq
  <2>4. b = SubSeq(Content, a + 1, a + j)
    BY <1>2, <2>2, <2>3
  <2> QED BY <2>2, <2>4
<1> QED BY <1>2, <1>3, <1>4

LEMMA StepPartsInside ==
  ASSUME IInv, Ordered, Next
  PROVE  PartsInside'
<1> SUFFICES ASSUME ranged, pc' \in {"segments", "merge"} PROVE \A i \in Seg : part'[i] \in Pieces(i)
  BY ServerStays DEF PartsInside, Pieces, Content
<1>0. /\ TypeOK /\ Shape /\ len \in Nat /\ part \in [Seg -> Seq(Nat)]
      /\ \A i \in Seg : len > MinParallel => /\ Border(len, i) \in 0..len
                                             /\ Border(len, i + 1) \in Border(len, i)..len
  BY ContentSeq, RangesAdjoin DEF IInv, TypeOK
<1>1. CASE HeadAnswered
  <2> SUFFICES ASSUME NEW i \in Seg PROVE part'[i] \in Pieces(i)
    OBVIOUS
  <2>1. len > MinParallel /\ part'[i] = <<>>
    BY <1>1 DEF HeadAnswered
  <2>2. Border(len, i) < Border(len, i) + 1 /\ Border(len, i) \in Border(len, i)..Border(len, i + 1)
    BY <1>0, <2>1
  <2>3. SubSeq(Content, Border(len, i) + 1, Border(len, i)) = <<>>
    BY <1>0, <2>1, SubSeqEmpty
  <2> QED BY <2>1, <2>2, <2>3 DEF Pieces
<1>2. ASSUME NEW i \in Seg, Segmenting(i), NEW j \in Seg
      PROVE  part'[j] \in Pieces(j)
  <2>0. pc = "segments" /\ len > MinParallel
    BY <1>0, <1>2 DEF Segmenting, SegmentRefused, SegmentBreaks, SegmentDone, SegmentRuns, Shape
  <2>1. part[j] \in Pieces(j)
    BY <2>0 DEF Ordered, PartsInside
  <2>2. SegmentBody(i) = SubSeq(Content, Border(len, i) + 1, Border(len, i + 1))
    BY <1>0, <2>0, SegmentSeq
  <2>3. part' = part \/ \E b \in Pieces(i) : part' = [part EXCEPT ![i] = b]
    <3>2. CASE SegmentBreaks(i) \/ SegmentDone(i)
      <4>1. PICK b \in Prefixes(SegmentBody(i)) : part' = [part EXCEPT ![i] = b]
        BY <3>2 DEF SegmentBreaks, SegmentDone
      <4> DEFINE from == Border(len, i)
                 to   == Border(len, i + 1)
      <4>2. from \in 0..len /\ to \in from..len /\ b \in Prefixes(SubSeq(Content, from + 1, to))
        BY <1>0, <2>0, <2>2, <4>1
      <4> HIDE DEF from, to
      <4>3. \E k \in from..to : b = SubSeq(Content, from + 1, k)
        BY <1>0, <4>2, PrefixOfSlice
      <4> QED BY <4>1, <4>3 DEF Pieces, from, to
    <3>3. CASE SegmentRefused(i)
      BY <3>3 DEF SegmentRefused
    <3> QED BY <1>2, <3>2, <3>3 DEF Segmenting
  <2> QED BY <1>0, <2>1, <2>3
<1>3. CASE UNCHANGED part /\ pc \in {"segments", "merge"}
  BY <1>3 DEF Ordered, PartsInside
<1>4. HeadAnswered \/ (\E i \in Seg : Segmenting(i)) \/ (UNCHANGED part /\ pc \in {"segments", "merge"})
  BY DEF Next, Running, StartDownload, StartResume, Start, HeadFails, NoDirectory, Segmenting,
         SegmentRefused, SegmentBreaks, SegmentDone, NoSegment, CreateOutput, Joined, Merge,
         MergeBreaks, MergeDone, SingleRefused, SingleBreaks, SingleDone, ResumeRefused,
         ResumeBreaks, ResumeDone, AttemptFails, Return
<1> QED BY <1>1, <1>2, <1>3, <1>4

LEMMA StepMergedBelow ==
  ASSUME IInv, Ordered, Next
  PROVE  MergedBelow'
<1> SUFFICES ASSUME ranged, pc' = "merge" PROVE Increases(output', Border(len, next'))
  BY ServerStays DEF MergedBelow, Border, RangeStart, ChunkSize
<1>0. TypeOK /\ Shape /\ len \in Nat /\ output \in Seq(Nat)
  BY ContentSeq DEF IInv, TypeOK
<1>1. CreateOutput \/ Merge \/ MergeBreaks
  BY DEF Next, Running, StartDownload, StartResume, Start, HeadFails, HeadAnswered, NoDirectory,
         SegmentRefused, SegmentBreaks, SegmentDone, SegmentRuns, NoSegment, MergeDone,
         SingleRefused, SingleBreaks, SingleDone, ResumeRefused, ResumeBreaks, ResumeDone,
         AttemptFails, Return
<1>2. CASE CreateOutput
  <2>1. output' = <<>>
    BY <1>2 DEF CreateOutput
  <2> QED BY <2>1 DEF Increases, Increasing
<1>3. CASE Merge \/ MergeBreaks
  <2>1. /\ next \in Seg /\ len > MinParallel /\ next' = next + 1
        /\ part[next] \in Pieces(next) /\ Increases(output, Border(len, next))
    <3>1. next \in Seg /\ next' = next + 1 /\ pc = "merge"
      BY <1>0, <1>3, SegmentsAssumption DEF Merge, MergeBreaks, Seg, TypeOK
    <3> QED BY <1>0, <3>1 DEF Shape, Ordered, PartsInside, MergedBelow
  <2> DEFINE from == Border(len, next)
             to   == Border(len, next + 1)
  <2>2. from \in 0..len /\ to \in from..len
    BY <1>0, <2>1, RangesAdjoin
  <2>3. PICK k \in from..to : part[next] = SubSeq(Content, from + 1, k)
    BY <2>1 DEF Pieces
  <2> HIDE DEF from, to
  <2>4. PICK j \in from..to : output' = output \o SubSeq(Content, from + 1, j)
    <3>1. CASE Merge
      BY <2>3, <3>1 DEF Merge
    <3>2. CASE MergeBreaks
      <4>1. PICK b \in Prefixes(part[next]) : output' = output \o b
        BY <3>2 DEF MergeBreaks
      <4>2. k \in from..len /\ b \in Prefixes(SubSeq(Content, from + 1, k))
        BY <1>0, <2>2, <2>3, <4>1
      <4>3. PICK j \in from..k : b = SubSeq(Content, from + 1, j)
        BY <1>0, <2>2, <4>2, PrefixOfSlice
      <4>4. j \in from..to
        BY <1>0, <2>2, <2>3, <4>3
      <4> QED BY <4>1, <4>3, <4>4
    <3> QED BY <1>3, <3>1, <3>2
  <2>5. j \in from..len /\ to \in j..len /\ Increases(output, from)
    BY <1>0, <2>1, <2>2, <2>4 DEF from
  <2>6. Increases(output \o SubSeq(Content, from + 1, j), to)
    BY <1>0, <2>2, <2>5, IncreasesOn
  <2> QED BY <2>1, <2>4, <2>6 DEF to
<1> QED BY <1>1, <1>2, <1>3

LEMMA StepInOrder ==
  ASSUME IInv, Ordered, Next, ranged, pc # "resume", output' # output
  PROVE  Increasing(output') /\ \A k \in 1..Len(output') : output'[k] >= 1
<1> SUFFICES \E n \in Nat : Increases(output', n)
  BY DEF Increases
<1>0. TypeOK /\ len \in Nat /\ Content \in Seq(Nat) /\ Len(Content) = len
  BY ContentSeq DEF IInv
<1>1. CASE pc' = "merge"
  <2>1. Increases(output', Border(len', next'))
    BY <1>1, ServerStays, StepMergedBelow DEF MergedBelow
  <2>2. \A k \in 1..Len(output') : output'[k] >= 1
    BY <2>1 DEF Increases
  <2>3. Border(len', next') \in Nat
    <3>1. next' \in 0..Segments /\ len' = len
      BY CounterTypes, ServerStays
    <3>2. ChunkSize(len) \in Nat /\ Segments \in Nat
      BY <1>0, Quotient, SegmentsAssumption
    <3>3. next' * ChunkSize(len) \in Nat
      BY <3>1, <3>2
    <3> QED BY <1>0, <3>1, <3>3 DEF Border, RangeStart
  <2> QED BY <2>1, <2>3
<1>2. CASE pc' # "merge"
  <2>1. (SingleBreaks \/ SingleDone)
    BY <1>2 DEF Next, Running, StartDownload, StartResume, Start, HeadFails, HeadAnswered,
           NoDirectory, SegmentRefused, SegmentBreaks, SegmentDone, NoSegment, CreateOutput,
           Merge, MergeBreaks, MergeDone, SingleRefused, ResumeRefused, ResumeBreaks, ResumeDone
  <2>2. PICK k \in 0..len : output' = SubSeq(Content, 1, k)
    BY <1>0, <2>1 DEF SingleDone, SingleBreaks, Prefixes
  <2>3. 0 \in 0..len /\ k \in 0..len /\ len \in k..len /\ 0 + 1 = 1 /\ <<>> \in Seq(Nat)
    BY <1>0
  <2>4. Increases(<<>>, 0)
    BY DEF Increases, Increasing
  <2>5. Increases(<<>> \o SubSeq(Content, 0 + 1, k), len)
    BY <1>0, <2>3, <2>4, IncreasesOn
  <2>6. SubSeq(Content, 1, k) \in Seq(Nat)
    BY <1>0, <2>3, SliceIncreases
  <2>7. <<>> \o SubSeq(Content, 1, k) = SubSeq(Content, 1, k)
    BY <2>6, ConcatEmptySeq
  <2> QED BY <1>0, <2>2, <2>3, <2>5, <2>7
<1> QED BY <1>1, <1>2

LEMMA StepOrdered == IInv /\ Ordered /\ [Next]_vars => Ordered'
<1>1. ASSUME IInv, Ordered, Next PROVE Ordered'
  BY <1>1, StepPartsInside, StepMergedBelow DEF Ordered
<1>2. ASSUME Ordered, UNCHANGED vars PROVE Ordered'
  BY <1>2 DEF vars, Ordered, PartsInside, MergedBelow, Pieces, Content, Increases, Increasing
<1> QED BY <1>1, <1>2

---------------------------------------------------------------------------
(* Resuming                                                                *)

\* A beginning of the file and a beginning of the rest of it are one.
LEMMA PrefixGrows ==
  ASSUME TypeOK, IsPrefix(output), Len(output) < len, NEW k \in Len(output)..len
  PROVE  IsPrefix(output \o SubSeq(Content, Len(output) + 1, k))
<1> DEFINE n == Len(output)
<1>1. /\ len \in Nat /\ Content \in Seq(Nat) /\ Len(Content) = len
      /\ output \in Seq(Nat) /\ n \in Nat /\ output = SubSeq(Content, 1, n)
  BY ContentSeq DEF TypeOK, IsPrefix
<1> HIDE DEF n
<1>2. 1 \in 1..(Len(Content) + 1) /\ n \in (1 - 1)..Len(Content) /\ k \in n..Len(Content)
  BY <1>1 DEF n
<1>3. SubSeq(Content, 1, n) \o SubSeq(Content, n + 1, k) = SubSeq(Content, 1, k)
  BY <1>1, <1>2, ConcatAdjacentSubSeq
<1>4. Len(SubSeq(Content, 1, k)) = k
  <2>1. \A i \in 1..k : Content[i] \in Nat
    BY <1>1, <1>2, ContentSeq
  <2> QED BY <1>1, <1>2, <2>1, SubSeqProperties
<1> QED BY <1>1, <1>2, <1>3, <1>4 DEF IsPrefix, n

LEMMA StepResume ==
  ASSUME IInv, Next, pc = "resume", ranged, IsPrefix(output)
  PROVE  IsPrefix(output') /\ Len(output') >= Len(output)
<1> DEFINE n == Len(output)
<1>0. /\ TypeOK /\ len \in Nat /\ Content \in Seq(Nat) /\ Len(Content) = len /\ Content' = Content
      /\ UNCHANGED <<len, ranged>> /\ output \in Seq(Nat) /\ n \in Nat
  BY ServerStays, ContentSeq DEF IInv, TypeOK, Content
<1>1. ResumeRefused \/ ResumeBreaks \/ ResumeDone
  BY DEF Next, Running, StartDownload, StartResume, Start, HeadFails, HeadAnswered, NoDirectory,
         SegmentRefused, SegmentBreaks, SegmentDone, SegmentRuns, NoSegment, CreateOutput,
         Joined, Merge, MergeBreaks, MergeDone, SingleRefused, SingleBreaks, SingleDone
<1>2. CASE ResumeRefused
  BY <1>0, <1>2 DEF ResumeRefused, Return, Failed, IsPrefix
<1>3. CASE ResumeBreaks \/ ResumeDone
  <2>1. n < len
    BY <1>0, <1>3 DEF ResumeBreaks, ResumeDone, TypeOK
  <2>2. ResumeBody = SubSeq(Content, n + 1, len)
    <3>1. CASE output = <<>>
      BY <1>0, <3>1, SubSeqFull DEF ResumeBody
    <3>2. CASE output # <<>>
      <4>1. len - 1 + 1 = len
        BY <1>0
      <4> QED BY <3>2, <4>1 DEF ResumeBody, Body
    <3> QED BY <3>1, <3>2
  <2>3. PICK k \in n..len : output' = output \o SubSeq(Content, n + 1, k)
    <3>1. n \in 0..len /\ len \in n..len
      BY <1>0, <2>1
    <3> HIDE DEF n
    <3>2. \A c \in n..len : \A b \in Prefixes(SubSeq(Content, n + 1, c)) :
            \E k \in n..c : b = SubSeq(Content, n + 1, k)
      <4> SUFFICES ASSUME NEW c \in n..len, NEW b \in Prefixes(SubSeq(Content, n + 1, c))
                   PROVE  \E k \in n..c : b = SubSeq(Content, n + 1, k)
        OBVIOUS
      <4>1. c \in n..len
        OBVIOUS
      <4> QED BY <1>0, <3>1, <4>1, PrefixOfSlice
    <3>3. PICK b \in Prefixes(ResumeBody) :
            output' = output \o b \/ \E w \in Prefixes(b) : output' = output \o w
      BY <1>3 DEF ResumeBreaks, ResumeDone
    <3>4. PICK c \in n..len : b = SubSeq(Content, n + 1, c)
      BY <2>2, <3>1, <3>2, <3>3
    <3>5. CASE output' = output \o b
      BY <3>4, <3>5
    <3>6. CASE \E w \in Prefixes(b) : output' = output \o w
      <4>1. PICK w \in Prefixes(b) : output' = output \o w
        BY <3>6
      <4>2. PICK k \in n..c : w = SubSeq(Content, n + 1, k)
        BY <3>2, <3>4, <4>1
      <4>3. k \in n..len
        BY <1>0, <3>4, <4>2
      <4> QED BY <4>1, <4>2, <4>3
    <3> QED BY <3>3, <3>5, <3>6
  <2>4. IsPrefix(output')
    <3>1. IsPrefix(output \o SubSeq(Content, n + 1, k))
      BY <1>0, <2>1, <2>3, PrefixGrows
    <3> QED BY <1>0, <2>3, <3>1 DEF IsPrefix
  <2>5. Len(output') >= n
    <3>1. n \in 0..len /\ k \in n..len
      BY <1>0, <2>1, <2>3
    <3> DEFINE r == SubSeq(Content, n + 1, k)
    <3> HIDE DEF n
    <3>2. r \in Seq(Nat) /\ Len(r) = k - n
      BY <1>0, <3>1, SliceIncreases
    <3> HIDE DEF r
    <3>3. Len(output \o r) = Len(output) + Len(r)
      BY <1>0, <3>2, ConcatProperties
    <3> QED BY <1>0, <2>3, <3>1, <3>2, <3>3 DEF n, r
  <2> QED BY <2>4, <2>5
<1> QED BY <1>1, <1>2, <1>3

---------------------------------------------------------------------------
(* The theorems                                                            *)

LEMMA Inductive == Spec => []IInv
BY InitIInv, StepIInv, PTL DEF Spec

\* The variables keep their types, for every number of segments, attempts and calls.
THEOREM TypeCorrect == Spec => []TypeOK
BY Inductive, PTL DEF IInv

\* However many segments there are, and whatever failed and was tried again, a
\* parallel download that reports success with all of them has put the whole file
\* together, unless a body ended early or a copy broke off (parallel_download, its
\* ranges, their retries and the merge loop).
THEOREM OkIsWholeCorrect == Spec => []OkIsWhole
BY Inductive, PTL DEF IInv

\* A call that got no body for the file has left it alone (File::create comes
\* after the answer's status in do_download and after the segments in
\* parallel_download).
THEOREM KeptUntilServedCorrect == Spec => []KeptUntilServed
<1>1. IInv => KeptUntilServed
  BY DEF IInv, Kept
<1> QED BY <1>1, Inductive, PTL

\* Over every retry and from segments that failed, from a server that honours Range:
\* download writes no byte twice and none out of order.
THEOREM InOrderCorrect == Spec => InOrder
<1>1. Init => Ordered
  BY DEF Init, Ordered, PartsInside, MergedBelow
<1>2. IInv /\ Ordered /\ [Next]_vars
        => [ranged /\ pc # "resume" /\ output' # output
              => Increasing(output') /\ \A k \in 1..Len(output') : output'[k] >= 1]_vars
  BY StepInOrder
<1> QED BY <1>1, <1>2, StepOrdered, Inductive, PTL DEF Spec, InOrder

\* Whatever becomes of resume_download, a beginning of the file stays one and never
\* gets shorter, after any number of calls before it.
THEOREM ResumeExtendsCorrect == Spec => ResumeExtends
<1>1. IInv /\ [Next]_vars
        => [pc = "resume" /\ ranged /\ IsPrefix(output)
              => IsPrefix(output') /\ Len(output') >= Len(output)]_vars
  BY StepResume
<1> QED BY <1>1, Inductive, PTL DEF Spec, ResumeExtends

---------------------------------------------------------------------------
(* Every call ends                                                         *)

\* The requests that the segments may still make.
Tickets == Seg \X (0..Retries)
Left    == {p \in Tickets : seg[p[1]].state = "waiting" /\ p[2] >= seg[p[1]].tries}

\* At most this many steps are left of an attempt, and of all of them.
Round == 5 + Segments + Segments * (Retries + 1)
Phase ==
  CASE pc = "head"     -> Round - 1
    [] pc = "segments" -> 3 + Segments + Cardinality(Left)
    [] pc = "merge"    -> 2 + Segments - next
    [] OTHER           -> 1
Work  == IF pc = "idle" THEN 0 ELSE Phase + (Retries - 1 - attempt) * Round

\* A call of download or resume_download makes at most retry_count attempts, and no
\* attempt has more than Round steps, of which every step uses up one: no server
\* keeps a call from returning (the loops of download and download_segment).
CallBounded  == Work \in 0..(Retries * Round)
CallShortens == [][pc # "idle" => Work' < Work]_vars

LEMMA TicketSets ==
  /\ Segments * (Retries + 1) \in Nat
  /\ \A S \in SUBSET Tickets : IsFiniteSet(S) /\ Cardinality(S) \in 0..(Segments * (Retries + 1))
  /\ Left \in SUBSET Tickets /\ Left' \in SUBSET Tickets
<1>1. IsFiniteSet(Seg) /\ Cardinality(Seg) = Segments
  BY SegmentsAssumption, FS_Interval DEF Seg
<1>2. IsFiniteSet(0..Retries) /\ Cardinality(0..Retries) = Retries + 1
  BY RetriesAssumption, FS_Interval
<1>3. IsFiniteSet(Tickets) /\ Cardinality(Tickets) = Segments * (Retries + 1)
  BY <1>1, <1>2, FS_Product DEF Tickets
<1>4. Segments * (Retries + 1) \in Nat
  BY SegmentsAssumption, RetriesAssumption
<1>5. ASSUME NEW S \in SUBSET Tickets
      PROVE  IsFiniteSet(S) /\ Cardinality(S) \in 0..(Segments * (Retries + 1))
  <2>1. IsFiniteSet(S) /\ Cardinality(S) <= Cardinality(Tickets)
    BY <1>3, FS_Subset
  <2>2. Cardinality(S) \in Nat
    BY <2>1, FS_CardinalityType
  <2> DEFINE n == Segments * (Retries + 1)
  <2>3. Cardinality(S) <= n /\ n \in Nat
    BY <1>3, <1>4, <2>1
  <2> HIDE DEF n
  <2>4. Cardinality(S) \in 0..n
    BY <2>2, <2>3
  <2> QED BY <2>1, <2>4 DEF n
<1>6. Left \in SUBSET Tickets /\ Left' \in SUBSET Tickets
  BY DEF Left
<1> QED BY <1>4, <1>5, <1>6

LEMMA RoundIs ==
  /\ Round \in Nat /\ Round >= 6
  /\ \A n \in Nat : n * Round \in Nat /\ (n + 1) * Round = n * Round + Round
<1>1. Segments * (Retries + 1) \in Nat
  BY SegmentsAssumption, RetriesAssumption
<1>2. Round \in Nat /\ Round >= 6
  BY <1>1, SegmentsAssumption DEF Round
<1>3. ASSUME NEW n \in Nat, NEW r \in Nat PROVE n * r \in Nat /\ (n + 1) * r = n * r + r
  OBVIOUS
<1> QED BY <1>2, <1>3

LEMMA PhaseInRound ==
  ASSUME IInv, pc # "idle"
  PROVE  Phase \in 1..(Round - 1)
<1>1. next \in 0..Segments /\ Segments \in Nat
  BY SegmentsAssumption DEF IInv, TypeOK
<1>2. Segments * (Retries + 1) \in Nat
  BY SegmentsAssumption, RetriesAssumption
<1> DEFINE n == Segments * (Retries + 1)
<1>3. Round = 5 + Segments + n /\ n \in Nat /\ Cardinality(Left) \in 0..n
  BY <1>2, TicketSets DEF Round
<1> HIDE DEF n
<1> QED BY <1>1, <1>3 DEF Phase

LEMMA WorkIs ==
  ASSUME IInv
  PROVE  CallBounded
<1>1. CASE pc = "idle"
  <2>1. Retries * Round \in Nat
    BY RoundIs, RetriesAssumption
  <2> QED BY <1>1, <2>1 DEF CallBounded, Work
<1>2. CASE pc # "idle"
  <2> DEFINE later == Retries - 1 - attempt
  <2>1. later \in 0..(Retries - 1) /\ Retries - 1 \in Nat
    BY RetriesAssumption DEF IInv, TypeOK
  <2>2. later * Round \in Nat /\ (Retries - 1) * Round \in Nat
        /\ ((Retries - 1) + 1) * Round = (Retries - 1) * Round + Round
    BY <2>1, RoundIs
  <2>3. later * Round <= (Retries - 1) * Round
    <3>1. ASSUME NEW a \in Nat, NEW b \in Nat, NEW r \in Nat, a <= b PROVE a * r <= b * r
      BY <3>1
    <3> QED BY <2>1, <3>1, RoundIs
  <2>4. (Retries - 1) + 1 = Retries
    BY RetriesAssumption
  <2>5. Retries * Round = (Retries - 1) * Round + Round
    BY <2>2, <2>4
  <2>6. Work = Phase + later * Round
    BY <1>2 DEF Work
  <2> DEFINE p == later * Round
             q == (Retries - 1) * Round
             w == Retries * Round
  <2>7. p \in Nat /\ q \in Nat /\ p <= q /\ w = q + Round /\ Work = Phase + p
    BY <2>2, <2>3, <2>5, <2>6
  <2>8. Phase \in 1..(Round - 1) /\ Round \in Nat
    BY <1>2, PhaseInRound, RoundIs
  <2> HIDE DEF p, q, w
  <2>9. Work \in 0..w
    BY <2>7, <2>8
  <2> QED BY <2>9 DEF CallBounded, w
<1> QED BY <1>1, <1>2

\* A segment that was answered, or refused, has made one of its requests.
LEMMA LeftShrinks ==
  ASSUME IInv, NEW i \in Seg, Segmenting(i)
  PROVE  Cardinality(Left') < Cardinality(Left)
<1>0. seg \in [Seg -> SegStates] /\ Retries \in Nat
  BY RetriesAssumption DEF IInv, TypeOK, SegStates
<1>1. seg[i].state = "waiting" /\ seg[i].tries \in 0..Retries
  BY <1>0 DEF Segmenting, SegmentRefused, SegmentBreaks, SegmentDone, SegmentRuns, IInv, Shape,
              SegStates
<1>2. \A j \in Seg : j # i => seg'[j] = seg[j]
  BY <1>0 DEF Segmenting, SegmentRefused, SegmentBreaks, SegmentDone, SegmentFails
<1>3. seg'[i].state # "waiting" \/ seg'[i].tries = seg[i].tries + 1
  <2>1. CASE SegmentDone(i)
    <3>1. seg' = [seg EXCEPT ![i] = [@ EXCEPT !.state = "ok"]]
      BY <2>1 DEF SegmentDone
    <3>2. seg'[i].state = "ok"
      BY <1>0, <3>1 DEF SegStates
    <3> QED BY <3>2
  <2>2. CASE SegmentRefused(i) \/ SegmentBreaks(i)
    <3>1. seg'[i] = [state |-> IF seg[i].tries = Retries THEN "failed" ELSE "waiting",
                     tries |-> seg[i].tries + 1]
      BY <1>0, <2>2 DEF SegmentRefused, SegmentBreaks, SegmentFails
    <3> QED BY <3>1
  <2> QED BY <2>1, <2>2 DEF Segmenting
<1> DEFINE e == <<i, seg[i].tries>>
<1>4. e \in Left
  BY <1>1 DEF Left, Tickets
<1>5. e \notin Left'
  BY <1>1, <1>3 DEF Left
<1>6. ASSUME NEW p \in Left' PROVE p \in Left
  <2>1. p \in Tickets /\ p[1] \in Seg /\ p[2] \in Nat
    BY DEF Left, Tickets
  <2>2. CASE p[1] # i
    BY <1>2, <2>1, <2>2 DEF Left
  <2>3. CASE p[1] = i
    <3>1. seg'[i].state = "waiting" /\ p[2] >= seg'[i].tries
      BY <2>3 DEF Left
    <3>2. p[2] >= seg[i].tries
      BY <1>1, <1>3, <2>1, <3>1
    <3> QED BY <1>1, <2>1, <2>3, <3>2 DEF Left
  <2> QED BY <2>2, <2>3
<1>7. Left' \in SUBSET Left /\ Left' # Left
  BY <1>4, <1>5, <1>6
<1>8. IsFiniteSet(Left) /\ Cardinality(Left) \in Nat /\ Cardinality(Left') \in Nat
  BY TicketSets
<1>9. Cardinality(Left') <= Cardinality(Left) /\ Cardinality(Left') # Cardinality(Left)
  BY <1>7, <1>8, FS_Subset
<1> QED BY <1>8, <1>9

\* A step of a call either ends it, or begins the next attempt, or goes on in this
\* one to a phase with less left.
LEMMA PhaseShrinks ==
  ASSUME IInv, Next, pc # "idle", pc' # "idle"
  PROVE  \/ pc' = "head" /\ attempt' = attempt + 1
         \/ UNCHANGED attempt /\ Phase' < Phase
<1>0. next \in 0..Segments /\ Segments \in Nat /\ pc \in {"head", "segments", "merge", "single", "resume"}
  BY SegmentsAssumption DEF IInv, TypeOK
<1> DEFINE n == Segments * (Retries + 1)
<1>1. Segments * (Retries + 1) \in Nat
  BY SegmentsAssumption, RetriesAssumption
<1>2. /\ Round = 5 + Segments + n /\ n \in Nat
      /\ Cardinality(Left) \in 0..n /\ Cardinality(Left') \in 0..n
  BY TicketSets DEF Round
<1> HIDE DEF n
<1> USE DEF Phase
<1>3. CASE HeadAnswered
  BY <1>0, <1>2, <1>3 DEF HeadAnswered
<1>4. ASSUME NEW i \in Seg, Segmenting(i)
      PROVE  UNCHANGED attempt /\ Phase' < Phase
  <2>1. pc = "segments" /\ UNCHANGED <<pc, attempt>>
    BY <1>4 DEF Segmenting, SegmentRefused, SegmentBreaks, SegmentDone, SegmentRuns
  <2> QED BY <1>0, <1>2, <1>4, <2>1, LeftShrinks
<1>5. CASE NoDirectory \/ NoSegment
  BY <1>0, <1>2, <1>5 DEF NoDirectory, NoSegment, Joined
<1>6. CASE CreateOutput
  <2>1. pc = "segments" /\ UNCHANGED <<attempt, next>> /\ pc' \in {"merge", "single"}
    BY <1>6 DEF CreateOutput, Joined
  <2> QED BY <1>0, <1>2, <2>1
<1>7. CASE Merge \/ MergeBreaks
  BY <1>0, <1>7 DEF Merge, MergeBreaks
<1>8. CASE MergeDone
  BY <1>0, <1>8 DEF MergeDone, Return
<1>9. CASE SingleRefused \/ SingleBreaks
  BY <1>9 DEF SingleRefused, SingleBreaks, AttemptFails, Return
<1>10. CASE HeadFails \/ SingleDone \/ ResumeRefused \/ ResumeBreaks \/ ResumeDone
            \/ StartDownload \/ StartResume
  BY <1>10 DEF HeadFails, SingleDone, ResumeRefused, ResumeBreaks, ResumeDone, Return,
               StartDownload, StartResume, Start
<1> QED BY <1>3, <1>4, <1>5, <1>6, <1>7, <1>8, <1>9, <1>10 DEF Next, Running, Segmenting

LEMMA WorkShrinks ==
  ASSUME IInv, Next, pc # "idle"
  PROVE  Work' < Work
<1>1. IInv'
  BY StepIInv
<1>2. Phase \in 1..(Round - 1) /\ Round \in Nat /\ Round >= 6
  BY PhaseInRound, RoundIs
<1>3. attempt \in 0..(Retries - 1) /\ attempt' \in 0..(Retries - 1) /\ Retries \in Nat
  BY <1>1, RetriesAssumption DEF IInv, TypeOK
<1> DEFINE p  == (Retries - 1 - attempt) * Round
           pn == (Retries - 1 - attempt') * Round
<1>4. p \in Nat /\ pn \in Nat /\ Work = Phase + p
  <2>1. \A a \in 0..(Retries - 1) : Retries - 1 - a \in Nat
    BY RetriesAssumption
  <2> QED BY <1>3, <2>1, RoundIs DEF Work
<1>9. Phase \in Int /\ \A a, b, c \in Int : a < b => a + c < b + c
  BY <1>2
<1>5. CASE pc' = "idle"
  <2>1. Work' = 0
    BY <1>5 DEF Work
  <2> HIDE DEF p, pn
  <2> QED BY <1>2, <1>4, <2>1
<1>6. CASE pc' # "idle" /\ UNCHANGED attempt /\ Phase' < Phase
  <2>1. Work' = Phase' + p
    BY <1>6 DEF Work, Round
  <2>2. Phase' \in Int
    <3>1. next' \in Int
      BY <1>1, SegmentsAssumption DEF IInv, TypeOK
    <3>2. Cardinality(Left') \in Nat
      BY TicketSets
    <3> QED BY <1>2, <3>1, <3>2, SegmentsAssumption DEF Phase, Round
  <2>3. p \in Int /\ Phase' < Phase
    BY <1>4, <1>6
  <2>4. Phase' + p < Phase + p
    BY <1>9, <2>2, <2>3
  <2> QED BY <1>4, <2>1, <2>4
<1>7. CASE pc' = "head" /\ attempt' = attempt + 1
  <2>1. Work' = Round - 1 + pn
    BY <1>7 DEF Work, Phase, Round
  <2>2. Retries - 1 - attempt' \in Nat /\ (Retries - 1 - attempt') + 1 = Retries - 1 - attempt
    BY <1>3, <1>7
  <2>3. p = pn + Round
    BY <2>2, RoundIs
  <2> HIDE DEF p, pn
  <2> QED BY <1>2, <1>4, <2>1, <2>3
<1> QED BY <1>5, <1>6, <1>7, PhaseShrinks

\* In all the code's retries there is no endless one: every call returns after at
\* most as many steps as Work says when it begins.
THEOREM CallBoundedCorrect == Spec => []CallBounded
BY WorkIs, Inductive, PTL

\* Every step of a call, whatever the server does, brings its end nearer.
THEOREM CallShortensCorrect == Spec => CallShortens
<1>1. IInv /\ [Next]_vars => [pc # "idle" => Work' < Work]_vars
  BY WorkShrinks
<1> QED BY <1>1, Inductive, PTL DEF Spec, CallShortens
=============================================================================
