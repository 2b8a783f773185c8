----------------------------- MODULE LogStorage -----------------------------
(***************************************************************************)
(* The directory of log files (src/log/LogFileWriter.cpp): the constructor *)
(* finds or makes it, the storage thread opens a file, writes blocks to it *)
(* and rolls to the next, the prune task scans the directory and removes   *)
(* old files while the storage thread goes on.  Other processes of the     *)
(* same program use the directory too: their files are there from the      *)
(* beginning or appear later, grow, and are removed.  LogFileWriter has    *)
(* the same threads without the files.                                     *)
(*                                                                         *)
(* One clock serves the names (seconds) and the modification times: what   *)
(* happens between two ticks happens at the same time.  The POSIX branch   *)
(* of OpenLogFile is modelled.                                             *)
(***************************************************************************)
EXTENDS Integers, FiniteSets

CONSTANTS
    DefaultFile,    \* DEFAULT_MAX_FILE_SIZE
    Params,         \* pairs uMaxLogFileSize, uMaxLogStorage of Param; 0: not given
    Epoch,          \* where file_time_type::clock counts from
    Word,           \* uint64_t counts modulo Word
    MaxWrite,       \* bytes of the longest block
    Foreign,        \* names of the files of other processes, and of earlier ones
    Dates,          \* times that those have that are there at first
    MaxOther,       \* bound of the model: bytes of such a file
    MaxClock,       \* bound of the model: ticks of the clock
    Budget,         \* bound of the model: bytes written over a behaviour
    Vanishing       \* bound of the model: files removed by somebody else

\* A foreign process number is less or greater than the number of this process (see
\* Plain); times fit into a word.
ASSUME StorageAssumption ==
    /\ DefaultFile \in Nat \ {0} /\ Params \subseteq Nat \X Nat
    /\ Word \in Nat \ {0} /\ Epoch \in Int /\ Epoch <= Word
    /\ IsFiniteSet(Foreign) /\ Foreign \subseteq (Int \ {0, 1}) \X Nat
    /\ MaxWrite \in Nat /\ MaxOther \in Nat
    /\ MaxClock \in Nat \ {0} /\ Dates \subseteq 0..MaxClock
    /\ Budget \in Nat /\ Vanishing \in Nat

VARIABLES
    now, disk, dir,                 \* clock; files: name -> [size, time]; whether there is
                                    \* the directory
    maxFile, maxStorage,            \* m_uMaxLogFileSize, m_uMaxLogStorage
    wpc, name, active, fileSize,    \* Start, OpenLogFile and LoopWrite
    leaked,                         \* a descriptor 17 was taken for an error
    pruning, ppc, timenow, uAll,    \* bPruning, PruneLogStorage and its locals
    listed,                         \* listAllFile: pairs of a sort key and a name
    unseen, seen, cur,              \* the directory iterator
    written, since, kept,           \* history: bytes ever written, written since the last
                                    \* scan began, in files it could not remove
    vanished, foreign               \* history: files others removed; whether they wrote

limits  == <<maxFile, maxStorage>>
thread  == <<wpc, name, active, fileSize, leaked>>
task    == <<timenow, uAll, listed, unseen, seen, cur>>
pruner  == <<pruning, ppc, task>>
history == <<written, since, kept, vanished, foreign>>
vars    == <<now, disk, dir, limits, thread, pruner, history>>

\* <pid>_<time>.log, and <pid>@<time>#1.log, which sorts before the former.
Plain(t)     == <<1, t>>
Numbered(t)  == <<0, t>>
NoName       == <<0, 0>>
Before(f, g) == f[1] < g[1] \/ (f[1] = g[1] /\ f[2] < g[2])

Exists(f) == f \in DOMAIN disk

Put(f, file) == [g \in DOMAIN disk \cup {f} |-> IF g = f THEN file ELSE disk[g]]
Drop(f)      == [g \in DOMAIN disk \ {f} |-> disk[g]]

\* A byte is a pair of its file and its number in the file, and a size is the number
\* of bytes: of those of the files S that are in directory d.
Bytes(d, S) == UNION {{f} \X (1..d[f].size) : f \in S \cap DOMAIN d}
Size(d, S)  == Cardinality(Bytes(d, S))

Total == Size(disk, DOMAIN disk)

\* The constructor takes a storage limit that exceeds the file limit as given.
Init ==
    /\ now = 1 /\ dir \in BOOLEAN
    /\ \E S \in SUBSET Foreign :
        /\ S # {} => dir
        /\ disk \in [S -> [size : 0..MaxOther, time : Dates]]
    /\ written = Total /\ written <= Budget
    /\ \E p \in Params :
        /\ maxFile = IF p[1] > 0 THEN p[1] ELSE DefaultFile
        /\ maxStorage = IF p[2] > p[1] THEN p[2] ELSE 8 * DefaultFile
    /\ wpc = "start" /\ name = NoName /\ active = NoName /\ fileSize = 0
    /\ leaked = FALSE
    /\ pruning = FALSE /\ ppc = "idle" /\ timenow = 0 /\ uAll = 0
    /\ listed = {} /\ unseen = {} /\ seen = {} /\ cur = NoName
    /\ since = 0 /\ kept = 0 /\ vanished = 0 /\ foreign = FALSE

GotoW(from, to) == wpc = from /\ wpc' = to
GotoP(from, to) == ppc = from /\ ppc' = to
------------------------------------------------------------------------------
(* Start *)

TestDirectory == GotoW("start", IF dir THEN "name" ELSE "make") /\ UNCHANGED dir

\* create_directories makes it, and says no when there is nothing left to make ...
MakeDirectory == GotoW("make", IF dir THEN "none" ELSE "name") /\ dir' = TRUE

\* ... or cannot.
MakeFails == GotoW("make", "none") /\ ~dir /\ UNCHANGED dir

StartStep ==
    /\ TestDirectory \/ MakeDirectory \/ MakeFails
    /\ UNCHANGED <<now, disk, limits, name, active, fileSize, leaked, pruner, history>>
------------------------------------------------------------------------------
(* OpenLogFile and LoopWrite *)

ChooseName ==
    /\ GotoW("name", "open") /\ name' = Plain(now)
    /\ UNCHANGED <<disk, active, fileSize, leaked, written, since>>

\* open(O_CREAT | O_EXCL) makes the file.
Create == ~Exists(name) /\ disk' = Put(name, [size |-> 0, time |-> now])

\* The loop over the names ends with the new descriptor ...
Open ==
    /\ GotoW("open", "write") /\ Create
    /\ active' = name /\ name' = NoName /\ fileSize' = 0
    /\ UNCHANGED <<leaked, written, since>>

\* ... unless that is number 17, which err == EEXIST takes for a conflict.  It
\* stays open: no later open returns it.
OpenSeventeen ==
    /\ GotoW("open", "open") /\ Create
    /\ ~leaked /\ leaked' = TRUE
    /\ name' = Numbered(name[2])
    /\ UNCHANGED <<active, fileSize, written, since>>

\* The name is taken: open returns -1, which is not EEXIST; LoopWrite ends.
OpenTaken ==
    /\ GotoW("open", "ended") /\ Exists(name)
    /\ UNCHANGED <<disk, name, active, fileSize, leaked, written, since>>

\* The file is as long as a file may be.
Full(n) == n >= maxFile

\* A block of k bytes, in the directory or in a file that is no longer in it.
Write(k) ==
    /\ written + k <= Budget
    /\ GotoW("write", IF Full(fileSize + k) THEN "roll" ELSE "write")
    /\ fileSize' = fileSize + k
    /\ disk' = IF Exists(active)
               THEN Put(active, [size |-> disk[active].size + k, time |-> now])
               ELSE disk
    /\ written' = written + k /\ since' = since + k
    /\ UNCHANGED <<name, active, leaked>>

StorageStep ==
    /\ \/ ChooseName \/ Open \/ OpenSeventeen \/ OpenTaken
       \/ \E k \in 1..MaxWrite : Write(k)
    /\ UNCHANGED <<now, dir, limits, pruner, kept, vanished, foreign>>

\* Mutant of AtWork: bPruning is not looked at.
NeverAtWork == FALSE

AtWork == pruning

\* The file is closed; a prune task starts unless one is at work.
Roll ==
    /\ GotoW("roll", "name")
    /\ active' = NoName /\ fileSize' = 0
    /\ IF AtWork THEN UNCHANGED <<pruning, ppc>> ELSE pruning' = TRUE /\ ppc' = "clock"
    /\ UNCHANGED <<now, disk, dir, limits, name, leaked, task, history>>
------------------------------------------------------------------------------
(* PruneLogStorage *)

ReadClock ==
    /\ GotoP("clock", "scan")
    /\ timenow' = now /\ uAll' = 0 /\ listed' = {}
    /\ unseen' = DOMAIN disk /\ seen' = {}
    /\ since' = 0 /\ kept' = 0
    /\ UNCHANGED <<disk, pruning, cur>>

\* file_size: -1 for a file that is gone.
SizeOf(f) == IF Exists(f) THEN disk[f].size ELSE -1

\* Mutant of Wrap: a signed sum.
WrapNot(n) == n

\* uint64_t arithmetic.
Wrap(n) == n % Word

\* The next entry: one that was there when the iterator was opened, or came later.
\* A stale entry adds -1 to the sum and is not listed.
ScanSize(f) ==
    /\ GotoP("scan", IF Exists(f) THEN "time" ELSE "scan")
    /\ f \in unseen \cup (DOMAIN disk \ seen)
    /\ uAll' = Wrap(uAll + SizeOf(f))
    /\ unseen' = unseen \ {f} /\ seen' = seen \cup {f}
    /\ cur' = IF Exists(f) THEN f ELSE NoName
    /\ UNCHANGED <<disk, pruning, timenow, listed, since, kept>>

\* The count that listAllFile is sorted by: a time after the scan gives its age, any
\* other the time since the epoch; no time is the smallest there is.
Age(t) == t - (IF timenow < t THEN timenow ELSE Epoch)
Key(f) == IF Exists(f) THEN Age(disk[f].time) ELSE -Word

ScanTime ==
    /\ GotoP("time", "scan")
    /\ listed' = listed \cup {<<Key(cur), cur>>} /\ cur' = NoName
    /\ UNCHANGED <<disk, pruning, timenow, uAll, unseen, seen, since, kept>>

\* Mutant of Scanned: one entry is enough.
ScannedOne == seen # {}

\* A file that is gone need not be yielded.
Scanned == unseen \cap DOMAIN disk = {}

ScanEnd ==
    /\ GotoP("scan", "delete") /\ Scanned
    /\ unseen' = {} /\ seen' = {}
    /\ UNCHANGED <<disk, pruning, timenow, uAll, listed, cur, since, kept>>

\* listAllFile.sort() compares keys, then names.
Precedes(x, y) == x[1] < y[1] \/ (x[1] = y[1] /\ Before(x[2], y[2]))

\* Mutant of First: the list is not sorted.
AnyOrder(x) == TRUE

First(x) == \A y \in listed \ {x} : Precedes(x, y)

\* Mutant of Rest: the sum stays what it was.
RestSame(f) == uAll

Rest(f) == Wrap(uAll - SizeOf(f))

\* Over the limit: the size the file has now is taken off ...
Subtract(x) ==
    /\ GotoP("delete", "remove")
    /\ uAll > maxStorage /\ x \in listed /\ First(x)
    /\ uAll' = Rest(x[2])
    /\ listed' = listed \ {x} /\ cur' = x[2]
    /\ UNCHANGED <<disk, pruning, timenow, unseen, seen, since, kept>>

\* ... and the file is removed, or cannot be, which goes unnoticed.
Remove ==
    /\ GotoP("remove", "delete")
    /\ \/ disk' = Drop(cur) /\ UNCHANGED kept
       \/ Exists(cur) /\ kept' = kept + SizeOf(cur) /\ UNCHANGED disk
    /\ cur' = NoName
    /\ UNCHANGED <<pruning, timenow, uAll, listed, unseen, seen, since>>

PruneEnd ==
    /\ GotoP("delete", "ended") /\ (uAll <= maxStorage \/ listed = {})
    /\ pruning' = FALSE
    /\ timenow' = 0 /\ uAll' = 0 /\ listed' = {}
    /\ UNCHANGED <<disk, unseen, seen, cur, since, kept>>

PruneStep ==
    /\ \/ ReadClock \/ ScanTime \/ ScanEnd \/ Remove \/ PruneEnd
       \/ \E f \in unseen \cup DOMAIN disk : ScanSize(f)
       \/ \E x \in listed : Subtract(x)
    /\ UNCHANGED <<now, dir, limits, thread, written, vanished, foreign>>
------------------------------------------------------------------------------
(* The environment *)

Tick ==
    /\ now < MaxClock /\ now' = now + 1
    /\ UNCHANGED <<disk, dir, limits, thread, pruner, history>>

\* Another process that logs to this directory, or its user, removes a file ...
Vanish(f) ==
    /\ vanished < Vanishing /\ vanished' = vanished + 1
    /\ disk' = Drop(f)
    /\ UNCHANGED <<now, dir, limits, thread, pruner, written, since, kept, foreign>>

\* ... or such a process opens a file, or writes k bytes to one ...
OtherWrites(f, k) ==
    /\ dir /\ written + k <= Budget
    /\ LET n == k + IF Exists(f) THEN disk[f].size ELSE 0
       IN  n <= MaxOther /\ disk' = Put(f, [size |-> n, time |-> now])
    /\ written' = written + k /\ since' = since + k /\ foreign' = TRUE
    /\ UNCHANGED <<now, dir, limits, thread, pruner, kept, vanished>>

\* ... or makes the directory, perhaps after Start found it missing.
OtherMakes ==
    /\ ~dir /\ dir' = TRUE
    /\ UNCHANGED <<now, disk, limits, thread, pruner, history>>

Next ==
    \/ StartStep \/ StorageStep \/ Roll \/ PruneStep \/ Tick \/ OtherMakes
    \/ \E f \in DOMAIN disk : Vanish(f)
    \/ \E f \in Foreign, k \in 0..MaxOther : OtherWrites(f, k)

Spec == Init /\ [][Next]_vars
------------------------------------------------------------------------------
Own   == {0, 1} \X (0..MaxClock)
Names == Own \cup Foreign

TypeOK ==
    /\ now \in 1..MaxClock /\ timenow \in 0..MaxClock
    /\ DOMAIN disk \subseteq Names
    /\ \A f \in DOMAIN disk :
        /\ disk[f].size \in Nat /\ disk[f].time \in 0..MaxClock
        /\ f \in Own => disk[f].time <= now /\ f[2] \in 1..disk[f].time
    /\ maxFile \in Nat \ {0} /\ maxStorage \in Nat \ {0}
    /\ wpc \in {"start", "make", "none", "name", "open", "write", "roll", "ended"}
    /\ name \in Own /\ active \in Own /\ cur \in Names
    /\ uAll \in 0..(Word - 1)
    /\ ppc \in {"idle", "clock", "scan", "time", "delete", "remove", "ended"}
    /\ listed \subseteq Int \X Names
    /\ unseen \subseteq Names /\ seen \subseteq Names
    /\ dir \in BOOLEAN /\ leaked \in BOOLEAN /\ pruning \in BOOLEAN /\ foreign \in BOOLEAN
    /\ written \in Nat /\ since \in Nat /\ kept \in Nat /\ vanished \in Nat /\ fileSize \in Nat

\* Nobody else has removed files of the directory, or written to it, so far.
Alone == vanished = 0 /\ ~foreign

\* A numbered name sorts before the plain name of the same time, so between two
\* files with equal times the younger one goes first: properties of a process that
\* is alone leave it out.
IsPlain(f) == f[1] = 1

\* The time in the entry x is the one that its file has now.
Fresh(x) == x[1] = Key(x[2])

\* The comment "after going through the files sort them by modification time; over
\* the limit, remove the old ones first" (LogFileWriter.cpp:321-322): what the
\* prune task takes to remove was modified no later than any file left on its list,
\* although the storage thread and other processes wrote, rolled and removed since
\* it read the times.  A file that was itself written since it was listed counts only
\* where this process is alone.
OldestGoFirst ==
    [][\A x \in listed :
        Subtract(x) /\ Exists(x[2]) /\ (Fresh(x) \/ (Alone /\ IsPlain(x[2]))) =>
            \A y \in listed : Exists(y[2]) => disk[x[2]].time <= disk[y[2]].time]_vars

\* The comment "the time of a file may be later than now, such a file is simply taken
\* for an older one" (LogFileWriter.cpp:310-311): its entry precedes those of all
\* files that are not dated after the scan began.
AheadGoesFirst ==
    \A x, y \in listed :
        /\ Exists(x[2]) /\ Fresh(x) /\ disk[x[2]].time > timenow
        /\ Exists(y[2]) /\ disk[y[2]].time <= timenow
        => Precedes(x, y)

\* The storage limit leaves room for a full file and its last block, or a file of
\* another process.  The constructor does not see to that: it compares the parameters
\* before the default replaces a 0.
Roomy == maxStorage >= maxFile + MaxWrite - 1 /\ maxStorage >= MaxOther

\* The file being written is never pruned (bytes written to it from then on
\* would be lost), as long as this process is alone and the limit is roomy.  A file
\* that another process writes may be younger, and stay in its stead.
ActiveOnDisk ==
    wpc \in {"write", "roll"} /\ Alone /\ IsPlain(active) /\ Roomy => Exists(active)

\* As long as nobody else removes files and the limit is roomy, the prune task
\* removes one only while the directory, as it is at that moment, is over the limit:
\* sizes read during the scan, sizes read again and sizes that grew in between never
\* make the unsigned sum exceed what is there, whoever writes.
RemovesOnlyOverLimit ==
    [][Remove /\ vanished = 0 /\ Roomy => Total > maxStorage]_vars

\* When a prune has ended the directory holds no more than the limit, what was
\* written since the scan began, and the files that could not be removed, however the
\* files changed meanwhile; a file that vanished during the scan makes the sum one
\* short.
LimitReached == ppc = "ended" => Total <= maxStorage + since + kept + vanished

\* The file in use and the prune task (none throws here), as PruneCycle has them.
Current == IF wpc = "write" THEN "open" ELSE IF wpc = "roll" THEN "full" ELSE "none"
Task ==
    CASE ppc = "idle"  -> "none"
      [] ppc = "clock" -> "started"
      [] ppc = "ended" -> "ended"
      [] OTHER         -> "running"

cycle == INSTANCE PruneCycle WITH current <- Current, prune <- Task, threw <- FALSE

\* A full file starts a prune exactly when none is at work: while one scans or
\* removes, further files fill and roll, and neither start another nor this one over.
PrunesInTurn == cycle!CycleSpec

\* The comment in OpenLogFile (LogFileWriter.cpp:150-151): numbers 1 to 512 in
\* the name resolve the conflict of files that roll within one second.
ConflictResolved == wpc # "ended"
==============================================================================
