------------------------------- MODULE Tracing -------------------------------
(***************************************************************************)
(* The counter (src/tracing): Pace adds to the totals, and once a second   *)
(* reports the window that has just passed into a named pipe.  The counter *)
(* keeps both ends of the pipe and never waits: when the pipe is full it   *)
(* reads a chunk of it away and tries once more.  Another process may read *)
(* the pipe at any time.                                                   *)
(*                                                                         *)
(* One thread calls Pace (its members have no synchronisation); its calls  *)
(* of the pipe are steps, since the other process runs between them.       *)
(***************************************************************************)
EXTENDS Integers, Sequences

CONSTANTS
    Milli,              \* ticks of the clock in a millisecond
    Window,             \* 999 ms, in ticks
    Gaps, Incs,         \* bounds of the model: ticks between two calls, increments
    MaxCalls,           \* bound of the model: calls of Pace
    Line,               \* bytes of a report
    Chunk,              \* bytes read to make room, 1024
    Page, Pages         \* the kernel's pipe: bytes of a page, pages

ASSUME TracingAssumption ==
    /\ Gaps \subseteq Nat /\ Incs \subseteq Nat /\ MaxCalls \in Nat
    /\ Milli \in Nat \ {0} /\ Window \in Nat \ {0}
    /\ Line \in Nat \ {0} /\ Chunk \in Nat \ {0} /\ Page \in Nat \ {0} /\ Pages \in Nat \ {0}
    /\ Milli <= Window /\ Line <= Page

VARIABLES
    now, tpStart, tpTrace, tpLast,      \* time; the time points (0: not set)
    duMin, duMax, uTotal, uTrace,       \* the totals and the extremes of a window
    fd, pipe,                           \* whether the pipe is open; its bytes
    pc, report,                         \* inside Pace; the report
    calls, reports, sum, paces, before, dropped     \* history

times   == <<now, tpStart, tpTrace, tpLast>>
totals  == <<duMin, duMax, uTotal, uTrace>>
channel == <<fd, pipe>>
window  == <<calls, reports, sum, paces, before>>
vars    == <<times, totals, channel, pc, report, window, dropped>>

\* The pipe is the sequence of its unread bytes: the nth of which report, in which
\* page and where in it.  Opening it may fail (fd = -1); then there are no reports in it.
Init ==
    /\ now = 1 /\ tpStart = 0 /\ tpTrace = 0 /\ tpLast = 0
    /\ duMin = 0 /\ duMax = 0 /\ uTotal = 0 /\ uTrace = 0
    /\ fd \in BOOLEAN /\ pipe = <<>>
    /\ pc = "idle" /\ report = [total |-> 0, trace |-> 0, min |-> 0, max |-> 0]
    /\ calls = 0 /\ reports = 0 /\ sum = 0 /\ paces = {} /\ before = 0 /\ dropped = 0
------------------------------------------------------------------------------
(* Pace *)

InMilli(t)  == t \div Milli
Truncate(t) == t - (t % Milli)

Call(gap) ==
    /\ pc = "idle" /\ calls < MaxCalls /\ calls' = calls + 1
    /\ now' = now + gap /\ tpLast' = now'
    /\ UNCHANGED <<channel, dropped>>

\* m_tpTrace is truncated to milliseconds before it is subtracted.
WindowOver == now' - Truncate(tpTrace) >= Window

FirstPace(inc, gap) ==
    /\ Call(gap) /\ tpStart = 0
    /\ tpStart' = now' /\ tpTrace' = now'
    /\ uTrace' = uTrace + inc /\ uTotal' = uTotal + inc
    /\ UNCHANGED <<duMin, duMax, pc, report, reports, sum, paces, before>>

\* Mutant of Elapsed: the difference is the wrong way round.
ElapsedBack == tpLast - now'

Elapsed == now' - tpLast

\* Within the window.  The test of the total is as the code has it.
PaceWithin(inc, gap) ==
    /\ Call(gap) /\ tpStart # 0 /\ ~WindowOver
    /\ LET pace == Elapsed
       IN  /\ duMin' = IF uTotal = 2 \/ duMin > pace THEN pace ELSE duMin
           /\ duMax' = IF uTotal = 2 \/ duMax < pace THEN pace ELSE duMax
           /\ paces' = paces \cup {pace}
    /\ uTrace' = uTrace + inc /\ uTotal' = uTotal + inc
    /\ UNCHANGED <<tpStart, tpTrace, pc, report, reports, sum, before>>

\* The report of the window, and the history of the next one.
Report(pace) ==
    /\ report' = [total |-> uTotal, trace |-> uTrace,
                  min |-> InMilli(duMin), max |-> InMilli(duMax)]
    /\ reports' = reports + 1 /\ sum' = sum + uTrace
    /\ paces' = {pace} /\ before' = uTotal
    /\ pc' = IF fd THEN "write" ELSE "idle"

\* Mutant of Restart: the counter of the window goes on.
RestartNot(inc) == uTrace + inc

Restart(inc) == inc

\* Mutant of NewMax: the maximum of the last window stays.
NewMaxOld(pace) == duMax

NewMax(pace) == pace

\* The window is over: report it, without this call, and begin the next with it.
\* The members change here and not after the pipe: only this thread reads them.
PaceAfter(inc, gap) ==
    /\ Call(gap) /\ tpStart # 0 /\ WindowOver
    /\ LET pace == Elapsed
       IN  Report(pace) /\ duMin' = pace /\ duMax' = NewMax(pace)
    /\ tpTrace' = now'
    /\ uTrace' = Restart(inc) /\ uTotal' = uTotal + inc
    /\ UNCHANGED tpStart
------------------------------------------------------------------------------
(* operator<<.  The kernel takes a line whole or not at all (EAGAIN): it goes *)
(* into the last page if it fits there, or into a new one; a page is free     *)
(* again when its last byte has been read.                                    *)

LastByte  == pipe[Len(pipe)]
SamePage  == pipe # <<>> /\ LastByte.at + Line <= Page
PagesUsed == IF pipe = <<>> THEN 0 ELSE LastByte.page - Head(pipe).page + 1
HasRoom   == SamePage \/ PagesUsed < Pages

Put ==
    LET page  == IF pipe = <<>> THEN 0 ELSE IF SamePage THEN LastByte.page ELSE LastByte.page + 1
        start == IF SamePage THEN LastByte.at ELSE 0
    IN  pipe' = pipe \o [i \in 1..Line |->
                    [report |-> reports, nth |-> i, page |-> page, at |-> start + i]]

Take(n) == pipe' = SubSeq(pipe, n + 1, Len(pipe))

Kept == UNCHANGED <<times, totals, fd, report, window>>

\* Mutant of Done: every result of write counts as EAGAIN.
DoneNever == "drain"

Done == "idle"

WritePipe ==
    /\ pc = "write" /\ HasRoom /\ pc' = Done /\ dropped' = 0
    /\ Put
    /\ Kept

WriteFails ==
    /\ pc = "write" /\ ~HasRoom /\ pc' = "drain"
    /\ UNCHANGED <<pipe, dropped>> /\ Kept

\* Mutant of Amount: nothing is read.
AmountNone == 0

Amount == IF Len(pipe) < Chunk THEN Len(pipe) ELSE Chunk

Drain ==
    /\ pc = "drain" /\ pc' = "rewrite"
    /\ Take(Amount)
    /\ UNCHANGED dropped /\ Kept

Rewrite ==
    /\ pc = "rewrite" /\ HasRoom /\ pc' = "idle" /\ dropped' = 0
    /\ Put
    /\ Kept

\* The chunk left something in its page: this line is lost.
Drop ==
    /\ pc = "rewrite" /\ ~HasRoom /\ pc' = "idle" /\ dropped' = dropped + 1
    /\ UNCHANGED pipe /\ Kept

\* The other process reads.
ReadPipe(n) ==
    /\ Take(n)
    /\ UNCHANGED <<pc, dropped>> /\ Kept

Next ==
    \/ \E inc \in Incs, gap \in Gaps :
        FirstPace(inc, gap) \/ PaceWithin(inc, gap) \/ PaceAfter(inc, gap)
    \/ WritePipe \/ WriteFails \/ Drain \/ Rewrite \/ Drop
    \/ \E n \in 1..Len(pipe) : ReadPipe(n)

Spec == Init /\ [][Next]_vars
------------------------------------------------------------------------------
Byte == [report : Nat, nth : 1..Line, page : Nat, at : 1..Page]

TypeOK ==
    /\ now \in Nat /\ tpStart \in Nat /\ tpTrace \in Nat /\ tpLast \in Nat
    /\ duMin \in Nat /\ duMax \in Nat /\ uTotal \in Nat /\ uTrace \in Nat
    /\ fd \in BOOLEAN /\ pipe \in Seq(Byte)
    /\ pc \in {"idle", "write", "drain", "rewrite"}
    /\ report \in [total : Nat, trace : Nat, min : Nat, max : Nat]
    /\ calls \in Nat /\ reports \in Nat /\ sum \in Nat /\ before \in Nat /\ dropped \in Nat
    /\ paces \subseteq Nat

\* The windows partition the calls: what the reports so far said of their
\* windows adds up to the total of the last one, and with the open window to
\* everything that was counted.
WindowsAddUp ==
    /\ sum + uTrace = uTotal
    /\ reports > 0 => report.total = sum

\* In every window that began after more than two events, the reported extremes
\* are those of the paces of this window.  Before that they need not be: the test
\* m_uTotal == 2, meant for the second call, starts the extremes again at a call
\* that depends on the increments.
ExtremesExact ==
    reports > 0 /\ before > 2 =>
        /\ duMin \in paces /\ duMax \in paces
        /\ \A pace \in paces : duMin <= pace /\ pace <= duMax

\* A reader of the pipe finds whole lines in order, each once: the chunk read away
\* to make room, or what another read left, cuts the first one only.
LinesWhole ==
    /\ \A i \in 1..(Len(pipe) - 1) :
        \/ pipe[i + 1].report = pipe[i].report /\ pipe[i + 1].nth = pipe[i].nth + 1
        \/ pipe[i + 1].report > pipe[i].report /\ pipe[i].nth = Line /\ pipe[i + 1].nth = 1
    /\ pipe # <<>> => LastByte.nth = Line

\* A pipe that nobody reads does not silence the counter: reports are lost in a row
\* only until chunk after chunk has emptied a page.
PipeRecovers == dropped * Chunk < Page
==============================================================================
