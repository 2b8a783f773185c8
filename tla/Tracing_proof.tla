---------------------------- MODULE Tracing_proof ----------------------------
(***************************************************************************)
(* Proofs about the counter and its pipe, for any increments and times of  *)
(* the calls, any length of a line and any size of the pipe.               *)
(***************************************************************************)
EXTENDS TracingInvariant, SequenceTheorems, TLAPS

USE TracingAssumption DEF TracingAssumption, Elapsed, Restart, NewMax, Done, Amount

------------------------------------------------------------------------------
(* What is read from the pipe and what is put into it *)

\* What is left of the pipe when n bytes were read.
LEMMA TakeIs ==
    ASSUME TypeOK, NEW n \in 0..Len(pipe), Take(n)
    PROVE  /\ pipe' \in Seq(Byte)
           /\ Len(pipe') = Len(pipe) - n
           /\ \A i \in 1..(Len(pipe) - n) : pipe'[i] = pipe[n + i]
<1>1. pipe \in Seq(Byte) /\ Len(pipe) \in Nat
  BY LenProperties DEF TypeOK
<1>2. CASE n = Len(pipe)
  <2>1. pipe' = <<>>
    BY <1>1, <1>2, SubSeqEmpty DEF Take
  <2> QED  BY <1>1, <1>2, <2>1, EmptySeq
<1>3. CASE n < Len(pipe)
  <2>1. n + 1 \in 1..(Len(pipe) + 1) /\ Len(pipe) \in (n + 1 - 1)..Len(pipe)
    BY <1>1, <1>3
  <2> QED  BY <1>1, <1>3, <2>1 DEF Take
<1> QED  BY <1>1, <1>2, <1>3

NewPage  == IF pipe = <<>> THEN 0 ELSE IF SamePage THEN LastByte.page ELSE LastByte.page + 1
NewStart == IF SamePage THEN LastByte.at ELSE 0
NewByte(i) == [report |-> reports, nth |-> i, page |-> NewPage, at |-> NewStart + i]

\* A pipe that is not empty has a first and a last byte.
LEMMA LastIs ==
    ASSUME TypeOK, pipe # <<>>
    PROVE  Len(pipe) \in Nat \ {0} /\ LastByte \in Byte /\ Head(pipe) = pipe[1] /\ pipe[1] \in Byte
<1>1. pipe \in Seq(Byte)
  BY DEF TypeOK
<1>2. Len(pipe) \in Nat \ {0}
  BY <1>1, EmptySeq, LenProperties
<1> QED  BY <1>1, <1>2, ElementOfSeq, HeadTailProperties DEF LastByte

\* A line goes to the end of the pipe, byte by byte on one page.
LEMMA PutIs ==
    ASSUME TypeOK, Put
    PROVE  /\ pipe' \in Seq(Byte)
           /\ Len(pipe') = Len(pipe) + Line
           /\ \A i \in 1..Len(pipe) : pipe'[i] = pipe[i]
           /\ \A i \in 1..Line : pipe'[Len(pipe) + i] = NewByte(i)
<1> DEFINE line == [i \in 1..Line |-> NewByte(i)]
<1>1. pipe \in Seq(Byte) /\ Len(pipe) \in Nat
  BY LenProperties DEF TypeOK
<1>2. ASSUME NEW i \in 1..Line PROVE NewByte(i) \in Byte
  <2>1. NewPage \in Nat /\ NewStart \in Nat /\ NewStart + Line <= Page
    BY SMTT(60), LastIs DEF NewPage, NewStart, SamePage, Byte
  <2>2. reports \in Nat
    BY DEF TypeOK
  <2>3. NewStart + i \in 1..Page
    BY <2>1
  <2> QED  BY <2>1, <2>2, <2>3 DEF NewByte, Byte
<1>3. line \in Seq(Byte) /\ Len(line) = Line
  <2>1. line \in Seq(Byte)
    BY <1>2, IsASeq
  <2> QED  BY <2>1, LenProperties
<1>4. pipe' = pipe \o line
  BY DEF Put, NewByte, NewPage, NewStart
<1>5. \A i \in 1..Line : line[i] = NewByte(i)
  OBVIOUS
<1> HIDE DEF line
<1>6. /\ pipe' \in Seq(Byte) /\ Len(pipe') = Len(pipe) + Line
      /\ \A i \in 1..(Len(pipe) + Line) :
            pipe'[i] = IF i <= Len(pipe) THEN pipe[i] ELSE line[i - Len(pipe)]
  BY ZenonT(60), <1>1, <1>3, <1>4, ConcatProperties
<1>7. \A i \in 1..Line : pipe'[Len(pipe) + i] = line[i]
  BY <1>1, <1>6
<1> QED  BY <1>5, <1>1, <1>6, <1>7
------------------------------------------------------------------------------
(* One lemma for each part of the invariant: what a step needs to preserve it. *)

\* Between two reports nothing but the pipe changes.
LEMMA TypeStep ==
    ASSUME TypeOK, Forward, [Next]_vars
    PROVE  TypeOK'
<1> USE DEF TypeOK
<1> DEFINE Pipe == fd \in BOOLEAN /\ pipe \in Seq(Byte)
           Rest == /\ now \in Nat /\ tpStart \in Nat /\ tpTrace \in Nat /\ tpLast \in Nat
                   /\ duMin \in Nat /\ duMax \in Nat /\ uTotal \in Nat /\ uTrace \in Nat
                   /\ pc \in {"idle", "write", "drain", "rewrite"}
                   /\ report \in [total : Nat, trace : Nat, min : Nat, max : Nat]
                   /\ calls \in Nat /\ reports \in Nat /\ sum \in Nat /\ before \in Nat
                   /\ dropped \in Nat /\ paces \subseteq Nat
<1>1. Pipe'
  <2>1. CASE UNCHANGED <<fd, pipe>>
    BY <2>1
  <2>2. CASE Put /\ UNCHANGED fd
    BY <2>2, PutIs
  <2>3. ASSUME NEW n \in 0..Len(pipe), Take(n), UNCHANGED fd PROVE Pipe'
    BY <2>3, TakeIs
  <2>4. Len(pipe) \in Nat
    BY LenProperties
  <2>5. CASE Drain
    BY <2>3, <2>4, <2>5 DEF Drain, Kept
  <2>6. ASSUME NEW n \in 1..Len(pipe), ReadPipe(n) PROVE Pipe'
    BY <2>3, <2>4, <2>6 DEF ReadPipe, Kept
  <2> QED
    BY <2>1, <2>2, <2>5, <2>6 DEF Next, vars, channel, FirstPace, PaceWithin, PaceAfter, Call,
       WritePipe, WriteFails, Rewrite, Drop, Kept
<1>2. Rest'
  <2>1. ASSUME NEW inc \in Incs, NEW gap \in Gaps, FirstPace(inc, gap) PROVE Rest'
    BY <2>1 DEF FirstPace, Call
  <2>2. ASSUME NEW inc \in Incs, NEW gap \in Gaps, PaceWithin(inc, gap) PROVE Rest'
    BY <2>2 DEF PaceWithin, Call, Forward
  <2>3. ASSUME NEW inc \in Incs, NEW gap \in Gaps, PaceAfter(inc, gap) PROVE Rest'
    <3>1. InMilli(duMin) \in Nat /\ InMilli(duMax) \in Nat
      BY DEF InMilli
    <3> QED  BY <2>3, <3>1 DEF PaceAfter, Report, Call, Forward
  <2>4. CASE WritePipe \/ WriteFails \/ Drain \/ Rewrite \/ Drop
    <3>1. Kept
      BY <2>4 DEF WritePipe, WriteFails, Drain, Rewrite, Drop
    <3>2. pc' \in {"idle", "drain", "rewrite"} /\ dropped' \in {0, dropped, dropped + 1}
      BY <2>4 DEF WritePipe, WriteFails, Drain, Rewrite, Drop
    <3> QED  BY <3>1, <3>2 DEF Kept, times, totals, window
  <2>5. ASSUME NEW n \in 1..Len(pipe), ReadPipe(n) PROVE Rest'
    BY <2>5 DEF ReadPipe, Kept, times, totals, window
  <2>6. CASE UNCHANGED vars
    BY <2>6 DEF vars, times, totals, window
  <2> QED  BY <2>1, <2>2, <2>3, <2>4, <2>5, <2>6 DEF Next
<1> QED  BY <1>1, <1>2

\* No call loses or repeats an increment or an extreme of its window.
LEMMA CountStep ==
    ASSUME TypeOK, Forward, WindowsAddUp, ExtremesExact, [Next]_vars
    PROVE  Forward' /\ WindowsAddUp' /\ ExtremesExact'
<1> USE DEF TypeOK, Forward, WindowsAddUp, ExtremesExact
<1>1. ASSUME NEW inc \in Incs, NEW gap \in Gaps, FirstPace(inc, gap)
      PROVE Forward' /\ WindowsAddUp' /\ ExtremesExact'
  BY <1>1 DEF FirstPace, Call
<1>2. ASSUME NEW inc \in Incs, NEW gap \in Gaps, PaceWithin(inc, gap)
      PROVE Forward' /\ WindowsAddUp' /\ ExtremesExact'
  <2>1. Forward' /\ WindowsAddUp'
    BY <1>2 DEF PaceWithin, Call
  <2>2. before > 2 => uTotal # 2
    OBVIOUS
  <2> QED  BY <1>2, <2>1, <2>2 DEF PaceWithin, Call
<1>3. ASSUME NEW inc \in Incs, NEW gap \in Gaps, PaceAfter(inc, gap)
      PROVE Forward' /\ WindowsAddUp' /\ ExtremesExact'
  BY <1>3 DEF PaceAfter, Report, Call
<1>4. CASE UNCHANGED <<times, totals, report, window>>
  BY <1>4 DEF times, totals, window
<1> QED
  BY <1>1, <1>2, <1>3, <1>4 DEF Next, vars, WritePipe, WriteFails, Drain, Rewrite, Drop, ReadPipe,
     Kept

\* No step cuts a line behind the first one, or swaps two.
LEMMA LinesStep ==
    ASSUME TypeOK, Reported, LinesWhole, [Next]_vars
    PROVE  Reported' /\ LinesWhole'
<1>1. Len(pipe) \in Nat /\ reports \in Nat
  BY LenProperties DEF TypeOK
<1>2. ASSUME NEW i \in 1..Len(pipe) PROVE pipe[i].report \in Nat /\ pipe[i].nth \in 1..Line
  <2>1. pipe[i] \in Byte
    BY ElementOfSeq DEF TypeOK
  <2> QED  BY <2>1 DEF Byte
<1>3. ASSUME Put, pc # "idle", pc' = "idle", reports' = reports
      PROVE  Reported' /\ LinesWhole'
  <2>1. /\ Len(pipe') = Len(pipe) + Line
        /\ \A i \in 1..Len(pipe) : pipe'[i] = pipe[i]
        /\ \A i \in 1..Line : pipe'[Len(pipe) + i].report = reports /\ pipe'[Len(pipe) + i].nth = i
    <3>1. \A i \in 1..Line : NewByte(i).report = reports /\ NewByte(i).nth = i
      BY DEF NewByte
    <3> QED  BY <1>3, <3>1, PutIs
  <2>2. ASSUME NEW i \in 1..Len(pipe') PROVE pipe'[i].report <= reports
    <3>1. CASE i <= Len(pipe)
      BY <1>1, <2>1, <3>1 DEF Reported
    <3>2. CASE i > Len(pipe)
      <4>1. i - Len(pipe) \in 1..Line /\ i = Len(pipe) + (i - Len(pipe))
        BY <1>1, <2>1, <3>2
      <4>2. pipe'[i].report = reports
        BY <2>1, <4>1
      <4> QED  BY <1>1, <4>2
    <3> QED  BY <1>1, <2>1, <3>1, <3>2
  <2>3. ASSUME NEW i \in 1..(Len(pipe') - 1)
        PROVE  \/ pipe'[i + 1].report = pipe'[i].report /\ pipe'[i + 1].nth = pipe'[i].nth + 1
               \/ /\ pipe'[i + 1].report > pipe'[i].report
                  /\ pipe'[i].nth = Line /\ pipe'[i + 1].nth = 1
    <3>1. CASE i < Len(pipe)
      BY SMTT(60), <1>1, <2>1, <3>1 DEF LinesWhole
    <3>2. CASE i = Len(pipe)
      <4>1. pipe'[i + 1].report = reports /\ pipe'[i + 1].nth = 1
        BY SMTT(60), <1>1, <2>1, <3>2
      <4>2. pipe'[i] = LastByte /\ LastByte.report < reports /\ LastByte.nth = Line
        BY <1>1, <1>3, <2>1, <3>2, EmptySeq DEF Reported, LinesWhole, LastByte
      <4> QED  BY <1>1, <4>1, <4>2
    <3>3. CASE i > Len(pipe)
      <4>1. /\ i - Len(pipe) \in 1..(Line - 1) /\ i = Len(pipe) + (i - Len(pipe))
            /\ i + 1 = Len(pipe) + (i - Len(pipe) + 1)
        BY <1>1, <2>1, <3>3
      <4> QED  BY SMTT(60), <1>1, <2>1, <4>1
    <3> QED  BY <1>1, <2>1, <3>1, <3>2, <3>3
  <2>4. pipe'[Len(pipe')].nth = Line
    BY <1>1, <2>1
  <2> QED  BY <1>3, <2>2, <2>3, <2>4 DEF Reported, LinesWhole, LastByte
<1>4. ASSUME NEW n \in 0..Len(pipe), Take(n), reports' = reports, pc' # "idle" => pc # "idle"
      PROVE  Reported' /\ LinesWhole'
  <2>1. /\ Len(pipe') = Len(pipe) - n
        /\ \A i \in 1..(Len(pipe) - n) : pipe'[i] = pipe[n + i]
        /\ pipe' \in Seq(Byte)
    BY <1>4, TakeIs
  <2>2. ASSUME NEW i \in 1..Len(pipe')
        PROVE  pipe'[i].report <= reports /\ (pc' # "idle" => pipe'[i].report < reports)
    <3>1. i \in 1..(Len(pipe) - n) /\ n + i \in 1..Len(pipe)
      BY <1>1, <2>1
    <3>2. pipe'[i] = pipe[n + i]
      BY <2>1, <3>1
    <3> QED  BY <1>4, <3>1, <3>2 DEF Reported
  <2>3. ASSUME NEW i \in 1..(Len(pipe') - 1)
        PROVE  \/ pipe'[i + 1].report = pipe'[i].report /\ pipe'[i + 1].nth = pipe'[i].nth + 1
               \/ /\ pipe'[i + 1].report > pipe'[i].report
                  /\ pipe'[i].nth = Line /\ pipe'[i + 1].nth = 1
    <3>1. i \in 1..(Len(pipe) - n - 1)
      BY <1>1, <2>1
    <3>2. n + i \in 1..(Len(pipe) - 1) /\ n + (i + 1) = (n + i) + 1
      BY <1>1, <3>1
    <3>3. i \in 1..(Len(pipe) - n) /\ i + 1 \in 1..(Len(pipe) - n)
      BY <1>1, <3>1
    <3>4. pipe'[i] = pipe[n + i] /\ pipe'[i + 1] = pipe[(n + i) + 1]
      BY SMTT(60), <2>1, <3>2, <3>3
    <3> QED  BY <3>2, <3>4 DEF LinesWhole
  <2>4. ASSUME pipe' # <<>> PROVE pipe'[Len(pipe')].nth = Line
    <3>1. Len(pipe') \in Nat \ {0}
      BY <2>1, <2>4, EmptySeq
    <3>2. pipe'[Len(pipe')] = LastByte /\ pipe # <<>>
      BY <1>1, <2>1, <3>1, EmptySeq DEF LastByte
    <3> QED  BY <3>2 DEF LinesWhole
  <2> QED  BY <1>4, <2>2, <2>3, <2>4 DEF Reported, LinesWhole, LastByte
<1>5. ASSUME NEW inc \in Incs, NEW gap \in Gaps, PaceAfter(inc, gap)
      PROVE  Reported' /\ LinesWhole'
  <2>1. pipe' = pipe /\ reports' = reports + 1 /\ pc = "idle"
    BY <1>5 DEF PaceAfter, Report, Call, channel
  <2> QED  BY <1>1, <1>2, <2>1 DEF Reported, LinesWhole, LastByte
<1>6. CASE UNCHANGED <<pipe, reports, pc>>
  BY <1>6 DEF Reported, LinesWhole, LastByte
<1>7. CASE WriteFails \/ Drop
  BY <1>7 DEF WriteFails, Drop, Kept, window, Reported, LinesWhole, LastByte
<1>8. CASE WritePipe \/ Rewrite
  BY <1>3, <1>8 DEF WritePipe, Rewrite, Kept, window
<1>9. CASE Drain
  BY <1>1, <1>4, <1>9 DEF Drain, Kept, window
<1>10. ASSUME NEW n \in 1..Len(pipe), ReadPipe(n) PROVE Reported' /\ LinesWhole'
  BY <1>1, <1>4, <1>10 DEF ReadPipe, Kept, window
<1> QED
  BY <1>5, <1>6, <1>7, <1>8, <1>9, <1>10 DEF Next, vars, channel, window, FirstPace, PaceWithin, Call

\* What follows from the order of the pages.
LEMMA FirstPage ==
    ASSUME TypeOK, pipe # <<>>
    PROVE  /\ Len(pipe) \in Nat \ {0} /\ pipe[1] \in Byte /\ LastByte \in Byte
           /\ PagesUsed = LastByte.page - pipe[1].page + 1 /\ Head(pipe) = pipe[1]
BY LastIs DEF PagesUsed

\* The bytes of a page stay next to each other.
LEMMA PagingStep ==
    ASSUME TypeOK, Paging, [Next]_vars
    PROVE  Paging'
<1>1. Len(pipe) \in Nat
  BY LenProperties DEF TypeOK
<1>2. ASSUME NEW i \in 1..Len(pipe) PROVE pipe[i].page \in Nat /\ pipe[i].at \in 1..Page
  <2>1. pipe[i] \in Byte
    BY ElementOfSeq DEF TypeOK
  <2> QED  BY <2>1 DEF Byte
<1>3. CASE Put
  <2>1. /\ Len(pipe') = Len(pipe) + Line
        /\ \A i \in 1..Len(pipe) : pipe'[i] = pipe[i]
        /\ \A i \in 1..Line : pipe'[Len(pipe) + i].page = NewPage
                              /\ pipe'[Len(pipe) + i].at = NewStart + i
    <3>1. \A i \in 1..Line : NewByte(i).page = NewPage /\ NewByte(i).at = NewStart + i
      BY DEF NewByte
    <3> QED  BY <1>3, <3>1, PutIs
  <2>2. NewPage \in Nat /\ NewStart \in Nat
    BY SMTT(60), LastIs DEF NewPage, NewStart, SamePage, Byte
  <2>3. ASSUME NEW i \in 1..Len(pipe') PROVE i <= Len(pipe) \/ \E k \in 1..Line : i = Len(pipe) + k
    <3>1. ASSUME i > Len(pipe) PROVE \E k \in 1..Line : i = Len(pipe) + k
      <4>1. i - Len(pipe) \in 1..Line /\ i = Len(pipe) + (i - Len(pipe))
        BY <1>1, <2>1, <3>1
      <4> QED  BY <4>1
    <3>2. i \in Nat
      BY <1>1, <2>1
    <3> QED  BY <1>1, <3>1, <3>2
  <2>4. ASSUME NEW i \in 1..Len(pipe), NEW k \in 1..Line
        PROVE  /\ pipe[i].page <= NewPage
               /\ pipe[i].page = NewPage => NewStart + k - pipe[i].at = Len(pipe) + k - i
    <3>1. Len(pipe) \in 1..Len(pipe) /\ pipe # <<>> /\ i <= Len(pipe)
      BY <1>1, EmptySeq
    <3>2. /\ pipe[i].page <= LastByte.page
          /\ pipe[i].page = LastByte.page => LastByte.at - pipe[i].at = Len(pipe) - i
      BY <3>1 DEF Paging, LastByte
    <3>3. LastByte.page \in Nat /\ LastByte.at \in 1..Page
      BY <1>2, <3>1 DEF LastByte
    <3>4. CASE SamePage
      <4>1. NewPage = LastByte.page /\ NewStart = LastByte.at
        BY <3>1, <3>4 DEF NewPage, NewStart
      <4>2. /\ pipe[i].page <= NewPage
            /\ pipe[i].page = NewPage => NewStart - pipe[i].at = Len(pipe) - i
        BY <3>2, <4>1
      <4>3. pipe[i].at \in Nat /\ NewStart \in Nat
        BY <1>2, <2>2
      <4> QED  BY <1>1, <4>2, <4>3
    <3>5. CASE ~SamePage
      <4>1. NewPage = LastByte.page + 1
        BY <3>1, <3>5 DEF NewPage
      <4> QED  BY <1>1, <1>2, <3>2, <3>3, <4>1
    <3> QED  BY <3>4, <3>5
  <2>5. ASSUME NEW i \in 1..Len(pipe'), NEW j \in 1..Len(pipe'), i <= j
        PROVE  /\ pipe'[i].page <= pipe'[j].page
               /\ pipe'[i].page = pipe'[j].page => pipe'[j].at - pipe'[i].at = j - i
    <3>1. CASE j <= Len(pipe)
      <4>1. i \in 1..Len(pipe) /\ j \in 1..Len(pipe)
        BY <1>1, <2>1, <2>5, <3>1
      <4> QED  BY <2>1, <2>5, <4>1 DEF Paging
    <3>2. ASSUME NEW k \in 1..Line, j = Len(pipe) + k, i <= Len(pipe)
          PROVE  /\ pipe'[i].page <= pipe'[j].page
                 /\ pipe'[i].page = pipe'[j].page => pipe'[j].at - pipe'[i].at = j - i
      <4>1. i \in 1..Len(pipe) /\ pipe'[i] = pipe[i]
        BY <1>1, <2>1, <3>2
      <4>2. pipe'[j].page = NewPage /\ pipe'[j].at = NewStart + k
        BY <2>1, <3>2
      <4>3. /\ pipe[i].page <= NewPage
            /\ pipe[i].page = NewPage => NewStart + k - pipe[i].at = Len(pipe) + k - i
        BY <2>4, <4>1
      <4>4. j - i = Len(pipe) + k - i
        BY <3>2
      <4>5. pipe'[j].at - pipe'[i].at = NewStart + k - pipe[i].at
        BY <1>2, <2>2, <4>1, <4>2
      <4> QED  BY <4>1, <4>2, <4>3, <4>4, <4>5
    <3>3. ASSUME NEW k \in 1..Line, j = Len(pipe) + k, NEW l \in 1..Line, i = Len(pipe) + l
          PROVE  /\ pipe'[i].page <= pipe'[j].page
                 /\ pipe'[i].page = pipe'[j].page => pipe'[j].at - pipe'[i].at = j - i
      <4>1. /\ pipe'[i].page = NewPage /\ pipe'[i].at = NewStart + l
            /\ pipe'[j].page = NewPage /\ pipe'[j].at = NewStart + k
        BY <2>1, <3>3
      <4> QED  BY <1>1, <2>2, <3>3, <4>1
    <3> QED  BY <2>3, <3>1, <3>2, <3>3
  <2> QED  BY <2>5 DEF Paging
<1>4. ASSUME NEW n \in 0..Len(pipe), Take(n) PROVE Paging'
  <2>1. /\ Len(pipe') = Len(pipe) - n
        /\ \A i \in 1..(Len(pipe) - n) : pipe'[i] = pipe[n + i]
    BY <1>4, TakeIs
  <2>2. ASSUME NEW i \in 1..Len(pipe'), NEW j \in 1..Len(pipe'), i <= j
        PROVE  /\ pipe'[i].page <= pipe'[j].page
               /\ pipe'[i].page = pipe'[j].page => pipe'[j].at - pipe'[i].at = j - i
    <3>1. i \in 1..(Len(pipe) - n) /\ j \in 1..(Len(pipe) - n)
      BY <2>1
    <3>2. n + i \in 1..Len(pipe) /\ n + j \in 1..Len(pipe) /\ n + i <= n + j
      BY <1>1, <2>2, <3>1
    <3>3. (n + j) - (n + i) = j - i
      BY <3>1
    <3>4. pipe'[i] = pipe[n + i] /\ pipe'[j] = pipe[n + j]
      BY <2>1, <3>1
    <3> QED  BY <3>2, <3>3, <3>4 DEF Paging
  <2> QED  BY <2>2 DEF Paging
<1>5. CASE UNCHANGED pipe
  BY <1>5 DEF Paging
<1>6. CASE WritePipe \/ Rewrite
  BY <1>3, <1>6 DEF WritePipe, Rewrite
<1>7. CASE Drain
  BY <1>1, <1>4, <1>7 DEF Drain
<1>8. ASSUME NEW n \in 1..Len(pipe), ReadPipe(n) PROVE Paging'
  BY <1>1, <1>4, <1>8 DEF ReadPipe
<1> QED
  BY <1>5, <1>6, <1>7, <1>8 DEF Next, vars, channel, FirstPace, PaceWithin, PaceAfter, Call,
     WriteFails, Drop

\* Each chunk that is read away from a full pipe moves the first byte by as much.
LEMMA DrainedStep ==
    ASSUME TypeOK, Paging, Drained, PipeRecovers, [Next]_vars
    PROVE  Drained' /\ PipeRecovers'
<1>1. Len(pipe) \in Nat /\ dropped \in Nat /\ dropped * Chunk \in Nat
  BY LenProperties DEF TypeOK
<1>2. CASE (WritePipe \/ Rewrite) /\ HasRoom
  <2>1. /\ Len(pipe') = Len(pipe) + Line /\ pipe' \in Seq(Byte)
        /\ \A i \in 1..Len(pipe) : pipe'[i] = pipe[i]
        /\ \A i \in 1..Line : pipe'[Len(pipe) + i].page = NewPage
    <3>1. \A i \in 1..Line : NewByte(i).page = NewPage
      BY DEF NewByte
    <3> QED  BY <1>2, <3>1, PutIs DEF WritePipe, Rewrite
  <2>2. dropped' = 0 /\ dropped' * Chunk = 0 /\ pc' = "idle"
    BY <1>2 DEF WritePipe, Rewrite
  <2>3. /\ pipe' # <<>> /\ pipe'[1] \in Byte /\ Head(pipe') = pipe'[1]
        /\ LastByte' = pipe'[Len(pipe')] /\ LastByte'.page = NewPage
    <3>1. Len(pipe') \in Nat \ {0} /\ pipe' # <<>>
      BY <1>1, <2>1, EmptySeq
    <3>2. pipe'[1] \in Byte /\ Head(pipe') = pipe'[1]
      BY <2>1, <3>1, ElementOfSeq, HeadTailProperties
    <3> QED  BY SMTT(60), <1>1, <2>1, <3>1, <3>2 DEF LastByte
  <2>4. PagesUsed' = NewPage - pipe'[1].page + 1
    BY <2>3 DEF PagesUsed
  <2>5. NewPage - pipe'[1].page + 1 <= Pages
    <3>1. CASE pipe = <<>>
      <4>1. NewPage = 0 /\ pipe'[1].page = NewPage
        BY <1>1, <2>1, <3>1, EmptySeq DEF NewPage
      <4> QED  BY <4>1
    <3>2. CASE pipe # <<>>
      <4>0. Len(pipe) \in Nat \ {0} /\ pipe[1] \in Byte /\ LastByte \in Byte
        BY <3>2, FirstPage
      <4>1. /\ pipe'[1] = pipe[1] /\ pipe[1].page \in Nat /\ LastByte.page \in Nat
            /\ PagesUsed = LastByte.page - pipe[1].page + 1
        <5>1. \A b \in Byte : b.page \in Nat
          BY DEF Byte
        <5>2. 1 \in 1..Len(pipe)
          BY <4>0
        <5> QED  BY <2>1, <3>2, <4>0, <5>1, <5>2, FirstPage
      <4>2. CASE SamePage
        BY <3>2, <4>1, <4>2 DEF NewPage, Drained
      <4>3. CASE ~SamePage
        BY <1>2, <3>2, <4>1, <4>3 DEF NewPage, HasRoom
      <4> QED  BY <4>2, <4>3
    <3> QED  BY <3>1, <3>2
  <2>6. Head(pipe').at > 0
    BY <2>3 DEF Byte
  <2> QED  BY <2>2, <2>4, <2>5, <2>6 DEF Drained, PipeRecovers
<1>3. ASSUME NEW n \in 0..Len(pipe), Take(n), dropped' = dropped,
             pc' # "rewrite" \/ pc = "rewrite" \/ (n = Len(pipe) \/ n = Chunk)
      PROVE  Drained' /\ PipeRecovers'
  <2>1. /\ Len(pipe') = Len(pipe) - n /\ pipe' \in Seq(Byte)
        /\ \A i \in 1..(Len(pipe) - n) : pipe'[i] = pipe[n + i]
    BY <1>3, TakeIs
  <2>2. CASE n = Len(pipe)
    <3>1. pipe' = <<>>
      BY <1>1, <2>1, <2>2, EmptySeq
    <3> QED  BY <1>3, <3>1 DEF Drained, PagesUsed, PipeRecovers
  <2>3. CASE n < Len(pipe)
    <3>1. pipe # <<>> /\ Len(pipe) \in Nat \ {0} /\ 1 + n \in 1..Len(pipe)
      BY <1>1, <2>3, EmptySeq
    <3>2. pipe' # <<>> /\ Head(pipe') = pipe'[1] /\ pipe'[1] = pipe[n + 1] /\ LastByte' = LastByte
      <4>1. Len(pipe') \in 1..(Len(pipe) - n) /\ Len(pipe') # 0 /\ n + Len(pipe') = Len(pipe)
        BY <1>1, <2>1, <2>3
      <4>2. pipe' # <<>> /\ Head(pipe') = pipe'[1]
        BY <2>1, <4>1, EmptySeq, HeadTailProperties
      <4>3. pipe'[1] = pipe[n + 1]
        BY <1>1, <2>1, <2>3
      <4>4. Len(pipe') \in 1..(Len(pipe) - n)
        BY <4>1
      <4>5. pipe'[Len(pipe')] = pipe[n + Len(pipe')]
        BY <2>1, <4>4
      <4> QED  BY <4>1, <4>2, <4>3, <4>5 DEF LastByte
    <3>3. /\ pipe[1] \in Byte /\ LastByte \in Byte /\ pipe[n + 1] \in Byte
          /\ PagesUsed = LastByte.page - pipe[1].page + 1 /\ Head(pipe) = pipe[1]
      BY <1>1, <2>3, <3>1, FirstPage, ElementOfSeq DEF TypeOK
    <3>4. PagesUsed' = LastByte.page - pipe[n + 1].page + 1
      BY <3>2 DEF PagesUsed
    <3>5. /\ pipe[1].page <= pipe[n + 1].page
          /\ pipe[1].page = pipe[n + 1].page => pipe[n + 1].at - pipe[1].at = (n + 1) - 1
      <4>1. 1 \in 1..Len(pipe) /\ n + 1 \in 1..Len(pipe) /\ 1 <= n + 1
        BY <1>1, <2>3
      <4> QED  BY <4>1 DEF Paging
    <3>6. /\ pipe[1].page \in Nat /\ pipe[n + 1].page \in Nat /\ LastByte.page \in Nat
          /\ pipe[1].at \in Nat /\ pipe[n + 1].at \in Nat
      <4>1. \A b \in Byte : b.page \in Nat /\ b.at \in Nat
        BY DEF Byte
      <4> QED  BY <3>3, <4>1
    <3>7. PagesUsed' <= PagesUsed /\ (PagesUsed' = PagesUsed => pipe[n + 1].at = pipe[1].at + n)
      <4>1. PagesUsed' = PagesUsed => pipe[1].page = pipe[n + 1].page
        BY SMTT(60), <3>3, <3>4, <3>6
      <4>2. PagesUsed' <= PagesUsed
        BY SMTT(60), <3>3, <3>4, <3>5, <3>6
      <4>3. pipe[n + 1].at - pipe[1].at = (n + 1) - 1 => pipe[n + 1].at = pipe[1].at + n
        BY SMTT(60), <1>1, <3>6
      <4> QED  BY <3>5, <4>1, <4>2, <4>3
    <3>8. PagesUsed' \in Int /\ PagesUsed \in Int
      BY SMTT(60), <3>3, <3>4, <3>6
    <3>9. PagesUsed' < Pages \/
            Head(pipe').at > dropped * Chunk + (IF pc' = "rewrite" THEN Chunk ELSE 0)
      <4>1. CASE PagesUsed < Pages
        BY <3>7, <3>8, <4>1
      <4>2. CASE PagesUsed' # PagesUsed
        BY <3>7, <3>8, <4>2 DEF Drained
      <4>3. CASE PagesUsed' = PagesUsed /\ ~(PagesUsed < Pages)
        <5>1. pipe[1].at > dropped * Chunk + (IF pc = "rewrite" THEN Chunk ELSE 0)
          BY <3>3, <4>3 DEF Drained
        <5>2. Head(pipe').at = pipe[1].at + n
          BY <3>2, <3>7, <4>3
        <5> QED  BY SMTT(60), <1>1, <1>3, <2>3, <3>6, <5>1, <5>2
      <4> QED  BY <4>1, <4>2, <4>3
    <3> QED  BY <1>3, <3>7, <3>8, <3>9 DEF Drained, PipeRecovers
  <2> QED  BY <1>1, <2>2, <2>3
<1>4. CASE WriteFails
  BY <1>4 DEF WriteFails, Drained, PipeRecovers, PagesUsed, LastByte
<1>5. CASE Drain
  <2>1. PICK n \in 0..Len(pipe) : Take(n) /\ (n = Len(pipe) \/ n = Chunk)
    BY <1>1, <1>5 DEF Drain
  <2> QED  BY <1>3, <1>5, <2>1 DEF Drain
<1>6. CASE Drop
  <2>1. ~(PagesUsed < Pages)
    BY <1>6 DEF Drop, HasRoom
  <2>2. pipe # <<>>
    BY <2>1 DEF PagesUsed
  <2>3. Head(pipe).at \in 1..Page
    BY <2>2, FirstPage DEF Byte
  <2>4. dropped' = dropped + 1 /\ pipe' = pipe /\ pc = "rewrite" /\ pc' = "idle"
    BY <1>6 DEF Drop
  <2>5. dropped' * Chunk = dropped * Chunk + Chunk
    BY <1>1, <2>4
  <2>6. Head(pipe).at > dropped' * Chunk
    BY <2>1, <2>4, <2>5 DEF Drained
  <2>7. PagesUsed' = PagesUsed
    BY <2>4 DEF PagesUsed, LastByte
  <2> QED  BY <1>1, <2>3, <2>4, <2>5, <2>6, <2>7 DEF Drained, PipeRecovers
<1>7. ASSUME NEW n \in 1..Len(pipe), ReadPipe(n) PROVE Drained' /\ PipeRecovers'
  BY <1>1, <1>3, <1>7 DEF ReadPipe
<1>8. CASE UNCHANGED <<pipe, dropped>> /\ pc # "rewrite" /\ pc' # "rewrite"
  BY <1>8 DEF Drained, PipeRecovers, PagesUsed, LastByte
<1>9. CASE UNCHANGED vars
  BY <1>9 DEF vars, channel, Drained, PipeRecovers, PagesUsed, LastByte
<1>10. ASSUME NEW inc \in Incs, NEW gap \in Gaps,
              FirstPace(inc, gap) \/ PaceWithin(inc, gap) \/ PaceAfter(inc, gap)
       PROVE  UNCHANGED <<pipe, dropped>> /\ pc # "rewrite" /\ pc' # "rewrite"
  BY <1>10 DEF FirstPace, PaceWithin, PaceAfter, Report, Call, channel
<1> QED
  BY <1>2, <1>4, <1>5, <1>6, <1>7, <1>8, <1>9, <1>10 DEF Next, WritePipe, Rewrite

------------------------------------------------------------------------------
(* The theorems *)

\* The invariant holds for a new counter and an empty pipe.
LEMMA TracingInit == Init => TracingInv
<1> SUFFICES ASSUME Init PROVE TracingInv
  OBVIOUS
<1>1. pipe \in Seq(Byte) /\ Len(pipe) = 0 /\ pipe = <<>>
  BY EmptySeq DEF Init
<1>2. TypeOK /\ Forward /\ WindowsAddUp /\ ExtremesExact
  BY <1>1 DEF Init, TypeOK, Forward, WindowsAddUp, ExtremesExact
<1>3. Reported /\ LinesWhole /\ Paging
  BY <1>1 DEF Reported, LinesWhole, Paging
<1>4. Drained /\ PipeRecovers
  BY <1>1 DEF Init, Drained, PagesUsed, PipeRecovers
<1> QED  BY <1>2, <1>3, <1>4 DEF TracingInv

\* No call, write or read of the other process breaks the invariant.
LEMMA TracingStep == TracingInv /\ [Next]_vars => TracingInv'
<1> SUFFICES ASSUME TracingInv, [Next]_vars PROVE TracingInv'
  OBVIOUS
<1>1. TypeOK' /\ Forward' /\ WindowsAddUp' /\ ExtremesExact'
  BY TypeStep, CountStep DEF TracingInv
<1>2. Reported' /\ LinesWhole'
  BY LinesStep DEF TracingInv
<1>3. Paging' /\ Drained' /\ PipeRecovers'
  BY PagingStep, DrainedStep DEF TracingInv
<1> QED  BY <1>1, <1>2, <1>3 DEF TracingInv

\* However calls and reads of the pipe interleave, the invariant holds.
THEOREM TracingInvariantHolds == Spec => []TracingInv
BY TracingInit, TracingStep, PTL DEF Spec

\* Type correctness; the pipe holds bytes of reports.
THEOREM TracingTypeOK == Spec => []TypeOK
<1>1. TracingInv => TypeOK  BY DEF TracingInv
<1> QED  BY <1>1, TracingInvariantHolds, PTL

\* The reported windows add up to the total, with nothing counted twice or lost.
THEOREM TracingWindowsAddUp == Spec => []WindowsAddUp
<1>1. TracingInv => WindowsAddUp  BY DEF TracingInv
<1> QED  BY <1>1, TracingInvariantHolds, PTL

\* From the window that begins after more than two events on, minimum and maximum
\* are those of the window.
THEOREM TracingExtremesExact == Spec => []ExtremesExact
<1>1. TracingInv => ExtremesExact  BY DEF TracingInv
<1> QED  BY <1>1, TracingInvariantHolds, PTL

\* Only the first line in the pipe is ever cut.
THEOREM TracingLinesWhole == Spec => []LinesWhole
<1>1. TracingInv => LinesWhole  BY DEF TracingInv
<1> QED  BY <1>1, TracingInvariantHolds, PTL

\* A pipe that nobody reads loses fewer reports in a row than a page has chunks.
THEOREM TracingPipeRecovers == Spec => []PipeRecovers
<1>1. TracingInv => PipeRecovers  BY DEF TracingInv
<1> QED  BY <1>1, TracingInvariantHolds, PTL

==============================================================================
