---------------------------- MODULE LogFileWriter ----------------------------
(***************************************************************************)
(* The file writer (src/log/LogFileWriter): threads that call Write, the   *)
(* storage thread that runs LoopWrite, the prune task it starts, and the   *)
(* owner that destroys the writer (Stop).  They share the log buffer, the  *)
(* flags, m_bLogging, the loss counter, the mutex and the condition        *)
(* variable.  The buffer is its contract, ByteQueue: a message is a number *)
(* of bytes that enters whole or not at all.                               *)
(*                                                                         *)
(* Only flags |= x runs under the mutex.  flags = 0, the tests of flags    *)
(* and every access to m_bLogging do not, so each is a step of its own and *)
(* |= is a load and a store.                                               *)
(***************************************************************************)
EXTENDS Integers

CONSTANTS
    Producers,      \* the threads that call Write
    Cap,            \* bytes of the log buffer (32 KiB in the code)
    MaxLen,         \* the longest message
    Budget,         \* bound of the model: bytes offered over a behaviour
    WriteCacheSize, \* kWriteCacheSize
    MaxLogFileSize, \* m_uMaxLogFileSize
    LossLine        \* bytes of the "Log Loss" line

ASSUME WriterAssumption ==
    /\ Cap \in Nat \ {0} /\ MaxLen \in Nat /\ Budget \in Nat
    /\ WriteCacheSize \in Nat /\ MaxLogFileSize \in Nat \ {0} /\ LossLine \in Nat
    /\ Producers \cap {"free", "storage", "owner"} = {}

VARIABLES
    acc, out,                           \* m_buffer.data: see ByteQueue
    loss, flags, logging, lock,         \* m_buffer.loss, .flags, m_bLogging, mutex
    ppc, msg, old,                      \* inside Write; old: flags as |= read them
    wpc, eof, blk, fileSize, lossMsg,   \* LoopWrite and its locals
    pruning, prune, threw,              \* bPruning, the task behind ftPrune, its exception
    spc, sawEmpty,                      \* inside Stop; whether it found nothing (history)
    offered, refused, flushTo,          \* history of the producers
    stored, reported, dropped, failed   \* history of the storage thread

queue    == <<acc, out>>
shared   == <<loss, flags, logging, lock>>
producer == <<ppc, msg, old>>
file     == <<eof, blk, fileSize, lossMsg>>
pruner   == <<pruning, prune, threw>>
owner    == <<spc, sawEmpty>>
asked    == <<offered, refused, flushTo>>
done     == <<stored, reported, dropped, failed>>
vars     == <<queue, shared, producer, wpc, file, pruner, owner, asked, done>>

data == INSTANCE ByteQueue

Users   == Producers \cup {"owner"}     \* the threads that set a flag
NoBlock == <<0, 0>>

\* Start: the storage thread runs unless the directory cannot be created.
Init ==
    /\ data!QueueInit
    /\ loss = 0 /\ flags = {} /\ logging = TRUE /\ lock = "free"
    /\ ppc = [p \in Producers |-> "idle"]
    /\ msg = [p \in Producers |-> [n |-> 0, urgent |-> FALSE]]
    /\ old = [u \in Users |-> {}]
    /\ wpc \in {"outer", "none"}
    /\ eof = FALSE /\ blk = NoBlock /\ fileSize = 0 /\ lossMsg = 0
    /\ pruning = FALSE /\ prune = "none" /\ threw = FALSE
    /\ spc = "running" /\ sawEmpty = FALSE
    /\ offered = 0 /\ refused = 0 /\ flushTo = 0
    /\ stored = 0 /\ reported = 0 /\ dropped = 0 /\ failed = FALSE

GotoP(p, from, to) == ppc[p] = from /\ ppc' = [ppc EXCEPT ![p] = to]
GotoW(from, to)    == wpc = from /\ wpc' = to
GotoS(from, to)    == spc = from /\ spc' = to

\* Mutant of Empty: a few bytes count as none.
NearlyEmpty == data!Held <= WriteCacheSize

Empty == data!Held = 0

\* Mutant of Acquire: the mutex is not taken.
AcquireNot(u) == UNCHANGED lock

Acquire(u) == lock = "free" /\ lock' = u

\* Mutant of Notify: nobody is notified.
NotifyNobody == UNCHANGED wpc

\* m_cvWriteEvent.notify_all: a sleeping storage thread looks again.
Notify == wpc' = IF wpc = "blocked" THEN "wait" ELSE wpc
------------------------------------------------------------------------------
(* Write *)

\* The owner calls no Write after it began to destroy the writer.  (Once
\* m_bLogging is false, Write returns false and changes nothing.)
BeginWrite(p, n, u) ==
    /\ spc = "running" /\ logging /\ offered + n <= Budget
    /\ GotoP(p, "idle", "put")
    /\ msg' = [msg EXCEPT ![p] = [n |-> n, urgent |-> u]]
    /\ offered' = offered + n
    /\ UNCHANGED <<queue, shared, old, wpc, file, pruner, owner, refused, flushTo, done>>

\* level <= FAULT asks for a flush whatever the buffer holds.
Accept(p) ==
    /\ GotoP(p, "put", IF msg[p].urgent THEN "lock" ELSE "size")
    /\ data!Put(msg[p].n)
    /\ UNCHANGED <<loss, flags, lock, old, wpc, refused, flushTo>>

Refuse(p) ==
    /\ GotoP(p, "put", "lost")
    /\ ~data!HasRoom(msg[p].n)
    /\ UNCHANGED <<acc, loss, flags, lock, old, wpc, refused, flushTo>>

CountLoss(p) ==
    /\ GotoP(p, "lost", "idle")
    /\ loss' = loss + 1
    /\ refused' = refused + 1
    /\ UNCHANGED <<acc, flags, lock, old, wpc, flushTo>>

CheckSize(p) ==
    /\ GotoP(p, "size", IF data!Held > WriteCacheSize THEN "flag" ELSE "idle")
    /\ UNCHANGED <<acc, loss, flags, lock, old, wpc, refused, flushTo>>

\* flushTo: what is in the buffer when a Write has left a flush request behind.
CheckFlag(p) ==
    /\ GotoP(p, "flag", IF "FLUSH" \in flags THEN "idle" ELSE "lock")
    /\ flushTo' = IF "FLUSH" \in flags THEN acc ELSE flushTo
    /\ UNCHANGED <<acc, loss, flags, lock, old, wpc, refused>>

\* Under the lock, flags |= FLUSH loads flags ...
LockAndLoad(p) ==
    /\ GotoP(p, "lock", "set") /\ Acquire(p)
    /\ old' = [old EXCEPT ![p] = flags]
    /\ UNCHANGED <<acc, loss, flags, wpc, refused, flushTo>>

\* ... and stores them; the storage thread is notified before the unlock.
SetFlush(p) ==
    /\ GotoP(p, "set", "idle")
    /\ flags' = old[p] \cup {"FLUSH"} /\ Notify /\ lock' = "free"
    /\ flushTo' = acc
    /\ UNCHANGED <<acc, loss, old, refused>>

ProducerFrame == UNCHANGED <<out, logging, msg, file, pruner, owner, offered, done>>

WriteStep(p) ==
    /\ \/ Accept(p) \/ Refuse(p) \/ CountLoss(p) \/ CheckSize(p) \/ CheckFlag(p)
       \/ LockAndLoad(p) \/ SetFlush(p)
    /\ ProducerFrame
------------------------------------------------------------------------------
(* LoopWrite *)

StorageFrame == UNCHANGED <<producer, owner, asked>>

\* The storage thread looks at something and goes on.
Moves == UNCHANGED <<queue, shared, file, pruner, done>>

Outer == GotoW("outer", IF logging /\ ~eof THEN "open" ELSE "finish") /\ Moves

OpenFile ==
    /\ logging /\ GotoW("open", "inner")
    /\ fileSize' = 0
    /\ UNCHANGED <<queue, shared, eof, blk, lossMsg, pruner, done>>

\* No name, no directory or no handle; or m_bLogging went down meanwhile.
OpenFails ==
    /\ GotoW("open", "finish")
    /\ failed' = (failed \/ logging)
    /\ UNCHANGED <<queue, shared, file, pruner, stored, reported, dropped>>

\* Mutant of Inner: the loop over one file never looks at m_bLogging.
InnerForever == GotoW("inner", "test") /\ Moves

Inner == GotoW("inner", IF logging THEN "test" ELSE "close") /\ Moves

TestEmpty == GotoW("test", IF Empty THEN "wait" ELSE "peek") /\ Moves

\* wait_for takes the lock and evaluates its predicate ...
EnterWait ==
    /\ lock = "free"
    /\ IF ~logging \/ flags # {}
       THEN GotoW("wait", "inner") /\ UNCHANGED lock
       ELSE GotoW("wait", "sleep") /\ lock' = "storage"
    /\ UNCHANGED <<queue, loss, flags, logging, file, pruner, done>>

\* ... then unlocks and sleeps, in one step as far as notify is concerned.
Sleep ==
    /\ GotoW("sleep", "blocked")
    /\ lock' = "free"
    /\ UNCHANGED <<queue, loss, flags, logging, file, pruner, done>>

\* After one second the wait is over whatever the predicate says.
TimeOut == lock = "free" /\ GotoW("blocked", "inner") /\ Moves /\ StorageFrame

\* Mutant of ToEnd: the begin index is not wrapped.
ToEndUnwrapped == Cap - out

\* The slots from the begin index to the end of the ring.
ToEnd == Cap - (out % Cap)

\* The bytes in the buffer, as they lie before and after the end of the ring.
Peek ==
    /\ GotoW("peek", "write0")
    /\ blk' = IF data!Held <= ToEnd THEN <<data!Held, 0>> ELSE <<ToEnd, data!Held - ToEnd>>
    /\ UNCHANGED <<queue, shared, eof, fileSize, lossMsg, pruner, done>>

\* write() of the first slice takes k of its bytes; a short one ends the pass.
WriteSlice0(k) ==
    /\ GotoW("write0", IF k = blk[1] /\ blk[2] > 0 THEN "write1" ELSE "readed")
    /\ blk' = <<k, IF k < blk[1] THEN 0 ELSE blk[2]>>
    /\ stored' = stored + k
    /\ UNCHANGED <<queue, shared, eof, fileSize, lossMsg, pruner, reported, dropped, failed>>

WriteSlice1(k) ==
    /\ GotoW("write1", "readed")
    /\ blk' = <<blk[1], k>>
    /\ stored' = stored + k
    /\ UNCHANGED <<queue, shared, eof, fileSize, lossMsg, pruner, reported, dropped, failed>>

\* write() returns -1: bEof = true.
Fails == eof' = TRUE /\ failed' = TRUE /\ UNCHANGED <<shared, fileSize, pruner, stored, reported>>

FailSlice0 ==
    /\ GotoW("write0", "close") /\ Fails
    /\ blk' = NoBlock
    /\ UNCHANGED <<queue, lossMsg, dropped>>

\* Mutant of FirstSlice: szSlice1 is not cleared, both slices are given back.
BothSlices == blk

FirstSlice == <<blk[1], 0>>

\* The first slice is in the file and is still given back.
FailSlice1 ==
    /\ GotoW("write1", "readed") /\ Fails
    /\ blk' = FirstSlice
    /\ UNCHANGED <<queue, lossMsg, dropped>>

Readed ==
    /\ GotoW("readed", IF eof THEN "close" ELSE "loss")
    /\ data!Take(blk[1] + blk[2])
    /\ fileSize' = IF eof THEN fileSize ELSE fileSize + blk[1] + blk[2]
    /\ blk' = NoBlock
    /\ UNCHANGED <<shared, eof, lossMsg, pruner, done>>

\* m_buffer.loss > 0; writers count further losses before the counter is taken.
TestLoss == GotoW("loss", IF loss > 0 THEN "take" ELSE "eof") /\ Moves

\* Mutant of TakeLoss: the counter is loaded, then set to zero.
LoadAndClearLoss ==
    /\ wpc = "take"
    /\ IF lossMsg = 0 THEN lossMsg' = loss /\ UNCHANGED <<wpc, loss>>
                      ELSE wpc' = "report" /\ loss' = 0 /\ UNCHANGED lossMsg
    /\ UNCHANGED <<queue, flags, logging, lock, eof, blk, fileSize, pruner, done>>

\* m_buffer.loss.exchange(0)
TakeLoss ==
    /\ GotoW("take", "report")
    /\ lossMsg' = loss /\ loss' = 0
    /\ UNCHANGED <<queue, flags, logging, lock, eof, blk, fileSize, pruner, done>>

WriteLoss ==
    /\ GotoW("report", "eof")
    /\ fileSize' = fileSize + LossLine
    /\ reported' = reported + lossMsg
    /\ lossMsg' = 0
    /\ UNCHANGED <<queue, shared, eof, blk, pruner, stored, dropped, failed>>

FailLoss ==
    /\ GotoW("report", "close") /\ Fails
    /\ dropped' = dropped + lossMsg
    /\ lossMsg' = 0
    /\ UNCHANGED <<queue, blk>>

CheckEof ==
    /\ GotoW("eof", IF "EOF" \in flags THEN "close" ELSE "clear")
    /\ eof' = ("EOF" \in flags)
    /\ UNCHANGED <<queue, shared, blk, fileSize, lossMsg, pruner, done>>

\* Mutant of Full: > where the code says >=.
FullLate == fileSize > MaxLogFileSize

Full == fileSize >= MaxLogFileSize

\* Mutant of NoFlags: the flags stay.
FlagsStay == flags

NoFlags == {}

\* flags = 0, without the lock; then the file is full or the loop goes on.
ClearFlags ==
    /\ GotoW("clear", IF Full THEN "roll" ELSE "inner")
    /\ flags' = NoFlags
    /\ UNCHANGED <<queue, loss, logging, lock, file, pruner, done>>

\* A full file is closed; a prune task starts unless one is at work.
Roll ==
    /\ GotoW("roll", "close")
    /\ IF pruning THEN UNCHANGED <<pruning, prune>> ELSE pruning' = TRUE /\ prune' = "running"
    /\ UNCHANGED <<queue, shared, file, threw, done>>

Close == GotoW("close", "outer") /\ Moves

\* Mutant of Valid: the prune task is left to itself.
ValidNever == FALSE

\* ftPrune.valid(): a prune task was started at some time.
Valid == prune # "none"

\* After the loop: wait for the last prune task.
Finish ==
    /\ GotoW("finish", IF Valid THEN "join" ELSE "exit")
    /\ pruning' = FALSE
    /\ UNCHANGED <<queue, shared, file, prune, threw, done>>

JoinPrune == prune = "ended" /\ GotoW("join", "exit") /\ Moves

Exit ==
    /\ GotoW("exit", "end")
    /\ logging' = FALSE
    /\ UNCHANGED <<queue, loss, flags, lock, file, pruner, done>>

StorageStep ==
    /\ \/ Outer \/ OpenFile \/ OpenFails \/ Inner \/ TestEmpty \/ EnterWait \/ Sleep
       \/ Peek \/ FailSlice0 \/ FailSlice1 \/ Readed
       \/ \E k \in 1..blk[1] : WriteSlice0(k)
       \/ \E k \in 1..blk[2] : WriteSlice1(k)
       \/ TestLoss \/ TakeLoss \/ WriteLoss \/ FailLoss \/ CheckEof \/ ClearFlags \/ Roll
       \/ Close \/ Finish \/ JoinPrune \/ Exit
    /\ StorageFrame

\* Mutant of ResetPruning: bPruning stays true.
KeepPruning == UNCHANGED pruning

ResetPruning == pruning' = FALSE

\* PruneLogStorage returns, or leaves by an exception that the future keeps.
PruneEnds ==
    /\ prune = "running" /\ prune' = "ended"
    /\ \/ ResetPruning /\ UNCHANGED threw
       \/ UNCHANGED pruning /\ threw' = TRUE
    /\ UNCHANGED <<queue, shared, producer, wpc, file, owner, asked, done>>
------------------------------------------------------------------------------
(* Stop *)

Quiet == \A p \in Producers : ppc[p] = "idle"

\* Nothing is buffered: m_bLogging = false, without the lock.
StopEmpty ==
    /\ Quiet /\ wpc # "none" /\ Empty
    /\ GotoS("running", "notify")
    /\ logging' = FALSE /\ sawEmpty' = TRUE
    /\ UNCHANGED <<queue, loss, flags, lock, old, wpc>>

\* Something is buffered: set EOF under the lock.
StopBuffered ==
    /\ Quiet /\ wpc # "none" /\ ~Empty
    /\ GotoS("running", "lock")
    /\ UNCHANGED <<queue, shared, old, wpc, sawEmpty>>

StopLock ==
    /\ GotoS("lock", "set") /\ Acquire("owner")
    /\ old' = [old EXCEPT !["owner"] = flags]
    /\ UNCHANGED <<queue, loss, flags, logging, wpc, sawEmpty>>

SetEof ==
    /\ GotoS("set", "notify")
    /\ flags' = old["owner"] \cup {"EOF"} /\ lock' = "free"
    /\ UNCHANGED <<queue, loss, logging, old, wpc, sawEmpty>>

StopNotify ==
    /\ GotoS("notify", "join") /\ Notify
    /\ UNCHANGED <<queue, shared, old, sawEmpty>>

\* join() returns, or there was no thread to join.
StopReturn ==
    /\ \/ GotoS("join", "stopped") /\ wpc = "end"
       \/ GotoS("running", "stopped") /\ wpc = "none" /\ Quiet
    /\ UNCHANGED <<queue, shared, old, wpc, sawEmpty>>

OwnerFrame == UNCHANGED <<ppc, msg, file, pruner, asked, done>>
BeginStop  == (StopEmpty \/ StopBuffered) /\ OwnerFrame
StopStep   == (StopLock \/ SetEof \/ StopNotify \/ StopReturn) /\ OwnerFrame
------------------------------------------------------------------------------
Next ==
    \/ \E p \in Producers, n \in 1..MaxLen, u \in BOOLEAN : BeginWrite(p, n, u)
    \/ \E p \in Producers : WriteStep(p)
    \/ StorageStep \/ TimeOut \/ PruneEnds
    \/ BeginStop \/ StopStep

Spec == Init /\ [][Next]_vars

\* Every thread that can run does; nothing is said of the clock.
UntimedSpec ==
    /\ Spec
    /\ \A p \in Producers : WF_vars(WriteStep(p))
    /\ WF_vars(StorageStep) /\ WF_vars(PruneEnds) /\ WF_vars(StopStep)

\* The one-second wait also comes to an end, and Stop is not starved at the mutex.
FairSpec == UntimedSpec /\ WF_vars(TimeOut) /\ SF_vars(StopStep)
------------------------------------------------------------------------------
TypeOK ==
    /\ acc \in Nat /\ out \in Nat /\ loss \in Nat /\ fileSize \in Nat /\ lossMsg \in Nat
    /\ offered \in Nat /\ refused \in Nat /\ flushTo \in Nat
    /\ stored \in Nat /\ reported \in Nat /\ dropped \in Nat
    /\ flags \subseteq {"FLUSH", "EOF"}
    /\ lock \in {"free", "storage"} \cup Users
    /\ ppc \in [Producers -> {"idle", "put", "size", "flag", "lock", "set", "lost"}]
    /\ msg \in [Producers -> [n : 0..MaxLen, urgent : BOOLEAN]]
    /\ old \in [Users -> SUBSET {"FLUSH", "EOF"}]
    /\ wpc \in {"none", "outer", "open", "inner", "test", "wait", "sleep", "blocked",
               "peek", "write0", "write1", "readed", "loss", "take", "report", "eof",
               "clear", "roll", "close", "finish", "join", "exit", "end"}
    /\ blk \in Nat \X Nat
    /\ prune \in {"none", "running", "ended"}
    /\ spc \in {"running", "lock", "set", "notify", "join", "stopped"}
    /\ logging \in BOOLEAN /\ eof \in BOOLEAN /\ pruning \in BOOLEAN /\ threw \in BOOLEAN
    /\ failed \in BOOLEAN /\ sawEmpty \in BOOLEAN

\* What Readed gives back to the buffer is what write() put into the files, no
\* byte more (it would be lost) and no byte less (it would be stored twice),
\* through short writes, a failure of the second slice and rolls.
StoredOnce ==
    stored = out + CASE wpc = "write1" -> blk[1]
                     [] wpc = "readed" -> blk[1] + blk[2]
                     [] OTHER          -> 0

\* Every refused message is counted once, whoever increments the counter while
\* the storage thread tests it and exchanges it for zero: in the counter, in the line being
\* written, in a line of a file, or in a line whose write failed.
LossAccounted == refused = loss + lossMsg + reported + dropped

\* The storage thread never sleeps on a flag without a notify on its way:
\* setting a flag under the mutex closes the gap between its test and its sleep.
SleepIsSafe == wpc = "blocked" /\ flags # {} => spc = "notify"

\* A file outgrows m_uMaxLogFileSize by one block and one loss line at most,
\* however the storage thread and the writers interleave.
FileBounded == fileSize < MaxLogFileSize + Cap + LossLine

\* The file in use, from open to close or to the end of a full one.
Current ==
    CASE wpc \in {"none", "outer", "open", "close", "finish", "join"} -> "none"
      [] wpc = "roll"                                                -> "full"
      [] wpc \in {"exit", "end"}                                     -> "gone"
      [] OTHER                                                       -> "open"

cycle == INSTANCE PruneCycle WITH current <- Current

\* Whatever ends a file, a full one starts a prune exactly when none is at work and none
\* threw, and LoopWrite ends only when there is none left: the prune task refers to its
\* locals bPruning and strDir, and never outlives them.
PrunesInTurn == cycle!CycleSpec

\* A Stop that found the buffer empty cuts no accepted byte off the files,
\* although m_bLogging = false makes the storage thread drop what it was doing.
EmptyStopKeepsAll == sawEmpty => stored = acc

\* Whether the storage thread is gone, or was never started.
NoStorage == wpc \in {"end", "none"}

\* A flag that is set over an empty buffer makes the storage thread go round
\* without sleeping; the next message ends that: with something in the buffer the
\* flags are cleared, although only a pass that stores a block does it.
SpinEnds == flags # {} /\ ~Empty ~> flags = {} \/ NoStorage

\* A flush request takes everything buffered to the file without the help of
\* the one-second timer, although flags = 0 may erase the request.
FlushReachesDisk == \A k \in 1..Budget : flushTo >= k ~> stored >= k \/ NoStorage

\* With the timer every accepted byte reaches a file while the thread lives.
EverythingStored ==
    WF_vars(TimeOut) => \A k \in 1..Budget : acc >= k ~> stored >= k \/ NoStorage

\* A Stop that found the buffer empty returns: its m_bLogging = false and its
\* notify are made without the lock and can be missed, the timer makes up for it.
EmptyStopReturns == WF_vars(TimeOut) => (sawEmpty ~> spc = "stopped")

\* The comment in Stop (LogFileWriter.cpp:108-110): when something is left it
\* sets EOF and waits for the writing to be done, so that the last messages
\* are not lost when the process ends.
StopDrains == spc = "stopped" /\ wpc = "end" /\ ~failed => stored = acc

\* The same comment: Stop waits for the writing to be done, then closes.
StopReturns == spc # "running" ~> spc = "stopped"
==============================================================================
