--------------------------- MODULE WriterInvariant ---------------------------
(***************************************************************************)
(* Why the safety properties of LogFileWriter hold: the invariant that     *)
(* every step preserves.  TLC checks it (Writer.cfg);                      *)
(* LogFileWriter_proof proves it.                                          *)
(***************************************************************************)
EXTENDS LogFileWriter

\* The contract of the buffer: never less than nothing, never more than it holds.
Buffered == 0 <= data!Held /\ data!Held <= Cap

\* What the storage thread writes is still in the buffer.
BlockInBuffer == wpc \in {"write0", "write1", "readed"} => blk[1] + blk[2] <= data!Held

\* A loss that was taken off the counter is in the line being written.
LossInLine == wpc # "report" => lossMsg = 0

\* Who is between the load and the store of flags |= x holds the mutex, and so
\* does the storage thread between its test of the flags and its sleep.
Locking ==
    /\ \A p \in Producers : ppc[p] = "set" => lock = p
    /\ spc = "set" => lock = "owner"
    /\ wpc = "sleep" => lock = "storage" /\ flags = {}

\* A block is written to a file that is not full.
FileGrowth ==
    /\ wpc \in {"inner", "test", "wait", "sleep", "blocked", "peek", "write0", "write1",
                "readed"} => fileSize < MaxLogFileSize
    /\ wpc \in {"loss", "take", "report"} => fileSize < MaxLogFileSize + Cap

\* Stop saw the buffer empty, and nobody writes any more.
EmptyStop ==
    sawEmpty => data!Held = 0 /\ spc # "running" /\ \A p \in Producers : ppc[p] = "idle"

\* The prune task holds references to bPruning and strDir, locals of LoopWrite:
\* it never outlives them.
PruneJoined == wpc \in {"exit", "end"} => prune # "running"

\* As long as no prune threw, bPruning says whether a prune is at work, until
\* LoopWrite is left: prunes never overlap, and a roll that finds none starts one.
\* After an exception no roll ever prunes again.
PruneAtWork ==
    wpc \notin {"join", "exit", "end"} /\ ~threw => (pruning <=> prune = "running")

\* A prune that threw was the last: bPruning is still true when LoopWrite is left.
LastThrew == threw => prune = "ended" /\ (wpc \notin {"join", "exit", "end"} => pruning)

\* The file writer between two steps of whatever threads: the properties that
\* Writer.cfg checks, with what makes each of them survive the next step.
WriterInv ==
    /\ TypeOK /\ Buffered /\ BlockInBuffer /\ StoredOnce
    /\ LossInLine /\ LossAccounted
    /\ Locking /\ SleepIsSafe
    /\ FileGrowth /\ FileBounded
    /\ PruneJoined /\ PruneAtWork /\ LastThrew /\ EmptyStop
==============================================================================
