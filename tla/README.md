# tracejj: a verification of the logging library

`tracejj` (Trace++) is a C++17 logging library. Threads format a message, a
logger singleton filters it and hands it to a writer, the file writer copies it
into a ring of bytes, and one storage thread moves the bytes into log files that
roll at a size and are pruned at a total size. This directory models the part of
it that is concurrent, checks it with TLC and proves its safety with TLAPS.

## 1. Inventory

All paths are below `src/` of the repository; the program is the directories
`src/src` and `src/include`.

| component | state | operations | talks to |
|---|---|---|---|
| **MultiWriteRingBuffer** (`src/buffer`) | the bytes, `m_uBeginIndex`, `m_uWriteableIndex`, `m_uEndIndex`, `m_uDataOfBytes` | `Write` (any thread), `Peek`, `Readed`, `Bytes`, `Empty` (storage thread) | shared atomics, no lock |
| **LogFileWriter** (`src/log/LogFileWriter`) | the ring, `loss`, `flags`, `m_bLogging`, mutex, condition variable, the storage thread; locals of `LoopWrite`: `bPruning`, `bEof`, `ftPrune` | `Write`, `Stop` (destructor), `Start`, `LoopWrite` | producers through the ring and the flags; the prune task through `bPruning` |
| **log directory** (constructor, `Start`, `OpenLogFile`, `PruneLogStorage`) | the two limits; the directory, files, names, sizes, modification times; `listAllFile`, `uAllLogFileSize`, `timenow` | find or make the directory, open, write, roll, scan, remove | storage thread and prune task share the file system |
| **LoggerImpl** (`src/log/LoggerImpl`) | level, switches, 16 writer slots, observer | `Set*`, `MessageNow`, `Write`, `Print` | every logging thread, without synchronisation |
| **LogPrintAndWrite**, `LOG_*` (`include/trace++/Logging.hpp`) | none | format, test the level, `MessageNow` | LoggerImpl |
| **P1SCounter** (`src/tracing`) | start, last, trace times, totals, minimum, maximum | `Pace` | LoggerImpl, TrackFIFO |
| **TrackFIFO** (`src/tracing`, Linux) | two ends of a named pipe | `operator<<` | the kernel's pipe |
| **platform** (`src/platform`) | process and thread number | paths, numbers | the operating system |

What is hard, and what makes each part correct:

* **Ring.** Threads race on three indexes without a lock. The bytes of an
  accepted message must come out whole, once, in reservation order; no slot may
  be written while it is read; a spin must end; the room must not be
  over-committed.
* **File writer.** Flags are set under a mutex and tested and cleared without
  it; there are lost notifications, short and failed writes, a task that refers
  to locals of the function that started it, and a shutdown that races with all
  of that. What is given back must be what is in the file; a refused message
  must be counted; a flush must reach the file; Stop must return, and with
  nothing lost.
* **Directory.** It may appear while `Start` looks for it, and then `Start` gives up
  although it is there. It is shared with other processes of the program, which write and
  remove files. Sizes and times are read while they change and used later; a removal may
  fail. Old files go first, the file being written stays, files go only above the limit,
  and down to it; a conflict of names must not end the logging.
* **Logger.** Check-then-use of slots and observer, up to four tests of one level,
  switches set during a call, a terminal that fails between the writer and the observer.
* **Counter.** Windows of one second; minimum and maximum of the pace; a pipe
  that is full.

The hazards of the code, each at its line with the properties that watch it, are
listed in `PROJECT.json`.

## 2. Plan

| step | modules | state |
|---|---|---|
| 1 | `ByteQueue` (abstract specification), `MultiWriteRingBuffer`, `RingInvariant`, `MCRing` | done: checked, refinement checked |
| 2 | `MultiWriteRingBuffer_proof` | done: all safety properties and the refinement |
| 3 | `LogFileWriter` over `ByteQueue`, `WriterInvariant`, `MCLogFileWriter` | done: safety, liveness, two disagreements |
| 4 | `LogFileWriter_proof` | done: all safety properties |
| 5 | `LogStorage`, `MCLogStorage`, with the constructor and `Start` | done: checked, three disagreements |
| 6 | `Logger`, `MCLogger`: configuration against logging threads, with prefix and terminal | done: checked |
| 7 | `Tracing`, `MCTracing`: `P1SCounter` and `TrackFIFO` over a pipe of a few bytes | done: checked |
| 8 | `LoggerInvariant`, `Logger_proof`, `TracingInvariant`, `Tracing_proof` | done: all safety properties |
| 9 | `StorageInvariant`, `StorageSizes_proof`, `LogStorage_proof` | done: all safety properties, the order and the sums |
| 10 | `PruneCycle` (abstract specification), which `LogFileWriter` and `LogStorage` both implement | done: checked, both refinements proved |

## 3. Modules

| module | models | lines of the code |
|---|---|---|
| `ByteQueue` | what the ring promises its users: `acc` bytes accepted, `out` given back, a message enters whole or not at all | `MultiWriteRingBuffer.h` |
| `MultiWriteRingBuffer` | the ring | `MultiWriteRingBuffer.cpp:7-113` |
| `RingInvariant` | its inductive invariant | |
| `LogFileWriter` | producers, storage thread, prune task as a task, owner | `LogFileWriter.cpp:71-136, 181-286` (`OpenLogFile` as success or failure) |
| `WriterInvariant` | its inductive invariant | |
| `PruneCycle` | what the storage thread promises of its files and its prune task: which file is in use, which rolls start a prune | `LogFileWriter.cpp:184-286` |
| `LogStorage` | the files, the storage thread and the prune task as they act on files | `LogFileWriter.cpp:42-64, 119-179, 206-273, 288-336` |
| `StorageInvariant` | its inductive invariant | |
| `StorageSizes_proof` | lemmas: sizes of sets of files, and what a change of one file does to them | |
| `Logger` | the logger, its callers and its configuration | `LoggerImpl.cpp:61-213`, `Logging.hpp:13-28` |
| `Tracing` | the counter and its pipe | `Counter.cpp:17-72, 113-186` |
| `LoggerInvariant`, `TracingInvariant` | their inductive invariants | |
| `MCRing`, `MCLogFileWriter`, `MCLogStorage`, `MCLogger`, `MCTracing` | definitions for TLC | |
| `*_proof` | theorems and proofs | |

### The ring

There is one action per access to an atomic and one per byte of `memcpy`; the
atomics are used with the default, sequentially consistent order, so an
interleaving of actions is what the program does. `pc[w]` is where writer `w` is
in `Write`: `load` (line 34), `cas` (43), `recheck` (47), `copy` (52-63), `wait`
(66), `publish` (68), `add` (69). `rpc` is where the reader is: it holds a block
between `Peek` and `Readed`, and `Readed` is two steps, the counter (110) and the
begin index (111).

A byte is its number in the stream of reserved bytes (`at[w] + i`), so "the
right bytes in the right order" is `buf[slot] = number`. `offered`, `reserved`,
`published`, `released`, `at` and `overrun` are history: no guard of the code
reads them. `overrun` becomes true when a reservation makes `reserved - released`
exceed the capacity. The check of the room wraps like unsigned subtraction does
(`NoRoom`).

Not modelled: a null buffer (allocation throws), a null or empty message (it
returns at once), `Readed` returning false (there is one reader, which gives back
no more than it peeked).

### The file writer

It uses the ring by its contract, `ByteQueue`. The contract is exact up to the
first over-reservation of the ring; beyond it (section 5, `ring_overrun`) the
contents of the files are not what was written and nothing here speaks of them.

`ppc[p]` is a producer inside `Write`, `wpc` the storage thread inside
`LoopWrite`, `prune` the prune task, `spc` the owner inside `Stop`. Everything
done without the mutex is an action of its own: the test of `flags` (81), the test of
`loss` and its exchange for zero (239, 241), the
load and the store of `flags |= x` (84, 112), the predicate of `wait_for` and
the sleep (198-202, atomic with respect to `notify_all` only because
`wait_for` holds the mutex), the test of EOF (250), `flags = 0` (255), and each
access to `m_bLogging`. A block is a pair of slice lengths; `write` may take any
non-empty part of a slice, or fail.

Abstractions:

* a message is its length and whether its level is `FAULT` or above;
* `Empty()` and the following `Peek` are two actions, and so is everything in
  between; the loads within `Peek` are one (only the reader moves the begin
  index);
* `std::async` with the default policy runs its task on another thread, as the
  common libraries do;
* the end of the prune task and its `bPruning = false` are one step; an
  exception skips the latter (`threw`);
* `PruneLogStorage` has a parameter `bBreak` that it never reads, so the
  `bPruning = false` of line 282 does not shorten it: LoopWrite waits for all of it;
* a `write` of 0 bytes for a non-empty slice does not happen; it would be tried
  again;
* a spurious wake-up of `wait_for` evaluates the predicate again and changes
  nothing;
* producers do not call `Write` while or after the owner destroys the writer
  (that would be use after destruction), and `Stop` runs once.

`offered`, `stored`, `refused`, `reported`, `dropped`, `failed`, `threw`,
`flushTo`, `sawEmpty` are history.

### The directory

One clock is both the second in the names and the modification time; a tick may
fall between any two steps. A name is `Plain(t)` or `Numbered(t)`. The storage
thread is reduced to what it does to files: choose a name, open it, write blocks,
roll. Before that it is the constructor: `Init` takes the limits from `Params` as
lines 42-64 do, and `start`, `make` are the two calls of `Start` (128, 130), between
which another process may make the directory (`OtherMakes`); then
`create_directories` has nothing to make and returns false, and `Start` gives up. The
directory may hold files when the program starts (`Init`: any subset of `Foreign`, of
any size, dated as `Dates` allows).

The POSIX branch of `OpenLogFile` is modelled as it is: `open` returns -1
for a name that is taken, which is not `EEXIST`; it returns 17, which is
`EEXIST`, at most once, as that descriptor is then never closed.

The prune task reads the clock, opens the directory and takes the entries in any
order: every one that was there at that time and still is, and possibly later
ones. Size and time of an entry are read in two steps, so are the size of a
file to be removed and its removal. The sum is modulo `Word`, as `uint64_t` is
modulo 2^64; an entry that vanished counts as -1. `Epoch` is where
`file_time_type::clock` counts from: behind the present in libc++, MSVC and
ghc::filesystem, ahead of it (the year 2174) in libstdc++. The list is modelled
as the set of its elements with `First` for the order that `sort` gives it.
`fs::remove` removes the file or fails, which line 329 does not look at (`Remove`): the
file stays and its size is off the sum. `kept` is history: the bytes in such files.

The directory is shared with other processes of the same program (the process number is
in the names for that, lines 148-149). The model has their files (`Foreign`) as the only
thing of theirs that matters here: they open and write files at any time
(`OtherWrites`), and they or the user remove any file (`Vanish`), the one being written
included, as a prune of theirs may. `foreign` and `vanished` are history: whether they
wrote, and how many files they removed. `Alone` is a process to which neither happened.

`Roomy` is a condition of two properties, on the parameters: the storage limit
leaves room for a full file and its last block, and for a file of another process. The
constructor compares the two parameters before a 0 is replaced by the default, so
`<<0, 2>>` with a default of 4 is accepted as it stands; the run has such a pair.

Not modelled: a directory that disappears or cannot be read, exceptions (in
`LogFileWriter` they end LoopWrite or the prune task), the Windows branch of
`OpenLogFile`, `m_bLogging` going down during a prune or a roll (that is in
`LogFileWriter`), a clock that goes back while the program runs (a file dated ahead by
an earlier process is in the run `storage_ahead`), and directory entries that
cache the size: with MSVC, and with ghc::filesystem on Windows, line 328 takes off the size
that line 304 added, with which the sum neither drifts nor wraps; the model reads it again, as
libstdc++ does.

### Files and prunes

`LogFileWriter` and `LogStorage` have the same two threads: the one sees the buffer and
the flags and takes a prune as a single step, the other sees the files and takes it
apart. `PruneCycle` is what they have in common, and each is shown to implement it
(`PrunesInTurn`): `Current` and `Task` map the places of the storage thread and of the
prune task to whether a file is open or full and whether a task is at work. The
contract says who starts a prune without `bPruning`, which is how the code finds out:
a full file that finds no prune at work starts one, whatever became of the files and
prunes before. A task at work is not started over, which only `LogStorage` can tell; a
task may throw and may still be at work when the loop is left, which only
`LogFileWriter` can tell. In the code such a start would wait at the assignment of
`ftPrune` for the task before.

### The logger

A call begins in `LogPrintAndWrite`, `Write` or `Print` and reads one member per
action: the level up to four times (`Logging.hpp:18`, `LoggerImpl.cpp:122, 155,
195`, and 146 or 186 when a C string is passed), then the slot of its module,
slot 0, the switches for prefix and terminal, the observer. Another thread changes the members at any time. None of
them is atomic: where the code reads a pointer twice, to test and to use it, the
compiled program may read it once, so the use yields the value tested or the
present one. A value half written is not modelled (aligned words). Writers and
observers are objects that their owner takes out of the logger and then deletes.

A message is abstracted to whether it has a prefix (`text`). `Terminal` says whether
standard output is one; a print to it may throw (`TerminalFails`), which ends the call
before the observer.

`lo` and `hi`, the least and the greatest level during a call, `moved`, that a
pointer was replaced during it, and `flipped`, that a switch was set, are history.
`wrote`, `told` and `shown` record whom the call reached, `threw` that the terminal
failed; `None` in `wrote` or `shown` is a call through a null pointer.

Not modelled: colours and what the prefix says; the debugger window, which is compiled
on Windows only; which handler of `LogPrintAndWrite` gets an exception; assertions
(the library is built with NDEBUG).

### The counter and its pipe

`Pace` is one action in three cases, by the time since the last report, then one
action per system call of `operator<<`, with the other process reading between
them. Time is in ticks finer than a millisecond, since `m_tpTrace` is truncated
to milliseconds before it is subtracted and the reported extremes are truncated
too. The pipe is the kernel's: a line not longer than a page goes in whole or not
at all; it goes to the last page if it fits there, else to a new page; a page is
free again when its last byte has been read. That is why 1024 bytes read away need
not make room, and `PipeRecovers` says how many reports may be lost in a row:
three with pages of 4096 bytes.

Not modelled: several threads in one `Pace` (there is no synchronisation, and
nothing promises any), two processes that write one pipe, a line longer than a
page, and the copy of the report that goes to the logger.

## 4. Bounds

| run | bound | why it is enough |
|---|---|---|
| `ring_many` | 2 writers, 3 slots, messages of 1 to 3 bytes, 6 bytes | both writers can be anywhere in `Write`, twice around the ring, with a message across its end and one as long as the ring; two messages that fit one by one and not together make over-reservation possible and its absence a real condition |
| `writer_safety` | 2 producers, 2 slots, 5 bytes, file limit 2, cache limit 1 | every flag, a refused message, a block of two slices, a roll during a prune, a Stop at every point; producers are symmetric |
| `writer_liveness` | 1 producer, 3 bytes | no symmetry with liveness; one producer suffices to lose a flag to `flags = 0` |
| `storage` | parameters <<2, 3>> and <<0, 2>> with a default of 4, blocks of 1 and 2 bytes, 5 bytes, 2 ticks, one other process with a file of up to 2 bytes, one foreign removal, the directory there or not, empty or not | two files of the process and one of another, so some to order while one is written, a prune that removes and one that cannot, a second prune; a limit with room for a file and its last block, and one below a file; another process before, between and after the calls of `Start` and at every step of a prune. 3.6 million states |
| `logger` | 1 logging thread, 2 writers, 1 observer, 2 slots, levels 0 to 2, a terminal, 3 changes of the configuration | logging threads read the configuration and share nothing else, so one meets every interleaving with the configuring thread; three changes replace, restore and lower between any tests |
| `tracing` | 8 calls, gaps of 1, 2 and 4 ticks, increments 1 and 2, a pipe of 2 pages of 5 bytes, lines of 2, chunks of 3 | up to six reports fill the pipe, one is dropped and the next gets in; windows of one and of several calls; the test of the total at 2 is met in the first window and in later ones |
| violations | the smallest that show the behaviour | |

`Budget`, `MaxClock`, `Vanishing`, `MaxChanges` and `MaxCalls` bound the length of a behaviour only, and
`MaxOther` the files of other processes; the actions have no other bound. `CHECK_DEADLOCK FALSE` is in every configuration but that of `logger`:
once the budget is spent, or Stop has returned, the system stops.

## 5. Runs

| run | expected | what it shows |
|---|---|---|
| `ring_many` | pass | up to the first over-reservation, which takes a second thread, blocks are intact and in order, no data race on a slot, one writer whose turn it is, each step is a step of the byte queue, each `Write` returns |
| `ring_overrun` | violation | two writers both pass the check of the room, which counts published bytes only, and accepted bytes are overwritten (line 47) |
| `writer_safety` | pass | bytes are stored once, losses accounted for, a sleep hides no flag, files are bounded, an empty Stop loses nothing; full files start prunes and the last is joined as `PruneCycle` says; the invariant, with `bPruning` exact until a prune throws |
| `writer_liveness` | pass | a flush reaches the file without the timer, and flags set over an empty buffer, with which the storage thread does not sleep, are cleared once a message is in it; everything else, and the end of a Stop that saw an empty buffer, with the timer |
| `stop_tail` | violation | a message accepted after the last `Peek` stays behind when EOF is seen (line 250) |
| `stop_hang` | violation | `flags = 0` erases an EOF set since line 250; `join` never returns (line 255) |
| `storage` | pass | with the clock of libstdc++ what goes is the oldest on the list, and the active file is safe while the process is alone and the limit is roomy; files go only over the limit; a prune leaves no more than it could not see or remove, whatever others write and remove; files roll during a prune as `PruneCycle` says; the invariant |
| `storage_order` | violation | with the other clocks the file written during the scan is removed first (line 308) |
| `storage_ahead` | violation | with the clock of libstdc++ a file from a time to come is listed behind all others, not as an older one (line 312) |
| `storage_conflict` | violation | on POSIX a second file within one second ends the logging (line 162) |
| `logger` | pass | no message above the maximum level gets out, one at or below it reaches its writer, the terminal and the observer, with or without a prefix as switched, whatever changes; a null or deleted object is called only if a pointer was replaced during the call; the invariant |
| `tracing` | pass | windows add up to the total, extremes belong to their window, only the first line in the pipe is ever cut, and reports lost in a row are bounded; the invariant |

The violations are disagreements between the code and what its comments or tests
say; `findings` in `PROJECT.json` quotes them.

The limits of what `storage` shows are worth knowing.

* *Names.* A numbered name sorts before a plain name of the same time, so among files
  with equal times the younger can go first: `ActiveOnDisk` leaves numbered names out, and
  so does `OldestGoFirst` for a file that was written since it was listed.
* *Other processes.* Nothing keeps a prune from removing the file being written, of this
  or of another process, when there are several. Take a closed file of 16 MiB, one of 3 MiB that
  process A writes, a younger one of 15 MiB that B writes, and a limit of 17 MiB: the prune
  of A takes the first, is at 18 MiB, and takes the second. So `ActiveOnDisk` is about a
  process that is alone. `OldestGoFirst` holds among several processes for files that were not
  written since they were listed; one that was may be taken before an older one.
* *Removals by others.* When every file but the active one vanishes between the opening of
  the iterator and its size (another process pruned) and the active one is still empty, their
  -1 makes the sum wrap, and the active file is "over the limit": `RemovesOnlyOverLimit` holds as long as nobody
  else removes files. `LimitReached` holds regardless.
* *Small limits.* With a storage limit below a file, which the constructor accepts with a
  file size of 0, a prune may remove the file being written; and a file that was scanned
  at 2, has grown to 3 and was rolled when it is taken off a sum of 2 makes the subtraction wrap,
  so that the new file goes too, though the directory is empty but for it:
  `ActiveOnDisk` and `RemovesOnlyOverLimit` ask for `Roomy`.
* *Failed removals.* The size is off the sum although the file stays, so the prune ends as
  much over the limit as such files are long (`kept` in `LimitReached`).
* *Time.* Lines 310-311 say that a file dated after the scan is taken for an older one. That
  is so where the clock counts from the past, and there it hits the file being written
  (`storage_order`). Where it counts from the future, such a file is taken for the youngest
  (`storage_ahead`), which is what keeps the file being written safe. `StorageInv` and the theorems on
  the order ask for the latter clock and for files found at the start that are no newer
  than the process (`InOrder`).

`Start` gives up when the directory cannot be made, and also when another process
makes it between the two calls (lines 128 and 130). Then nothing is stored, and `Write`
accepts until the ring is full. No document says otherwise, so there is no property.

A prune that throws leaves `bPruning` true for good: no later roll prunes.
`PruneAtWork` says that this is the only way the flag can be wrong; the code promises
nothing about exceptions, so there is no finding.

`UsesLive` states what the logger does promise. It does not promise that a writer
may be replaced and deleted while other threads log: that `SetWriter` has returned
does not mean that no call uses the old writer any more. No document of the
repository claims it, so there is no finding; a user has to keep writers alive, or
stop logging, first.

`ExtremesExact` begins with the window that starts after more than two events. The
first windows are off: `Counter.cpp:174` and `178` test `m_uTotal == 2u` before
this call is counted, so with increments of one it is the third call that starts
the extremes, the second leaves the minimum at 0, and with increments of 0 after a
total of 2 the extremes start again at every call.

## 6. Fairness

* `WF(WriteStep(p))`, `WF(StorageStep)`, `WF(PruneEnds)`, `WF(StopStep)`: a
  thread that can run does, and a prune ends. Nothing obliges a producer to
  begin a `Write`, or the owner to begin Stop. Weak
  fairness lets a thread starve at the mutex, since `std::mutex` promises no
  order: the liveness properties hold in spite of it. `FlushReachesDisk` begins
  where the flag is set, a Stop on an empty buffer takes no mutex, and the
  storage thread competes only with writers, of which a behaviour has finitely
  many. `stop_hang` runs under `FairSpec`, which adds strong fairness of
  the steps of Stop, so that its counterexample is not a starved owner.
* `WF(TimeOut)`: `wait_for` waits one second. It is an assumption of
  `EverythingStored` and `EmptyStopReturns` and not of `FlushReachesDisk`, which
  is how the run separates what depends on the timer.
* In the ring, `WF(WriteStep(w))` for each writer: the spin of line 66 and the
  retry of line 43 end because the others go on. That the retry ends is due to
  `Budget`, which makes the competing writes finite: each lost race is a race that
  somebody won, so the loop is lock-free, but one writer may lose for ever to others that
  never stop (it is not wait-free). The reader has no fairness: a
  full ring makes `Write` return false, not wait.

## 7. Proofs

All theorems hold for every value of the constants that satisfies the named
assumption of the module (`RingAssumption`, `WriterAssumption`,
`StorageAssumption`, `LoggerAssumption`, `TracingAssumption`), and a theorem that needs
more says so in its `ASSUME`. `Budget` is such a constant, so nothing proved depends
on it, but that three theorems about the directory ask for fewer bytes, or bytes and
files, than a 64-bit number can count. The producers and the writers are any sets.

**Ring** (`MultiWriteRingBuffer_proof`). `RingInv` is inductive: types;
`Reservations` (the active writers hold disjoint intervals of the stream, and
`m_uWriteableIndex` is the end of the stream modulo the capacity); `Reading`; and,
while nothing has been over-reserved, `Window` (released <= published <= reserved
<= released + Cap), `Turns` (the unpublished intervals tile the bytes from
`published` to `reserved`) and `Contents` (slot `p % Cap` holds byte `p`). The
properties themselves are not inductive: that a block is intact depends on where
the reservations of writers not yet publishing are, and that a turn exists on the
tiling. `Window` says which bytes are published and not yet counted
(`Uncounted`, between lines 68 and 69) by a cardinality, since any number of
writers can be there; the proof uses the library's facts about finite sets. Two
positions in a window of at most `Cap` bytes that are equal modulo `Cap` are equal:
this is a lemma, and what turns intervals of the stream into disjoint slots.
From `RingInv` follow type correctness, `BlockIntact`, `NoDataRace`, `TurnExists`,
`ActsAsQueue` and, with `LoneWriter` for a writer that has been the only one so far,
`LoneWriterFits`. The last two make the ring with one writer an implementation of
`ByteQueue` (`RingImplementsQueue`).

**File writer** (`LogFileWriter_proof`). `WriterInv` is the conjunction of the
properties with what they need: the contract of the buffer (`Buffered`), that a
block being written is still in it (`BlockInBuffer`), that a loss taken off the
counter is in the line being written (`LossInLine`), who holds the mutex where
(`Locking`), how full a file is where (`FileGrowth`) and that nobody writes after
an empty Stop (`EmptyStop`). Each part is preserved by most actions because they
leave its variables alone; `Frames` says so once for all actions, and the lemma of
each part deals with the remaining ones. `SleepIsSafe` is the one that needs
`Locking`: the flag is stored under the mutex and the notification sent before it
is released, and the storage thread tests and sleeps under it. `EmptyStopKeepsAll`
is `StoredOnce` and an empty buffer.

`PruneAtWork` is inductive by itself: the flag and the task change
together in `Roll` and `PruneEnds`, and only `Finish` and an exception part them.
With `LastThrew` (a prune that threw was the last) it is what `bPruning` means, and
what takes each `Roll` to the right step of `PruneCycle` (`WriterPrunesInTurn`); the
guard of its `Leave` is `PruneJoined`. `WriterUsesQueue` says that the file
writer is a legal client of the ring's contract: every step is one of `ByteQueue` or
leaves it alone, and `BlockInBuffer` that the guard of `Readed` (no more is given back
than is there) never stops the storage thread, so the model loses no behaviour by it.

**Directory** (`LogStorage_proof`). `OldestGoFirst` compares the times the files have
when one is removed, but the list was sorted by what they were when each was read; in
between the storage thread wrote and rolled. `StorageInv` says what ties the two
together: which file the storage thread has, before, in and after `open` (`Naming`), that
the entries of the list are of different files (`Scanning`) that are there (`Listing`),
that no file is dated ahead (`Dating`) and that a key is no greater than the one its file
would get now, nor than that of a file written now (`Dated`). The last two need a clock whose
epoch is ahead of every tick (libstdc++) and files at the start that are not dated ahead
(`InOrder`): keys are then negative, and a file written after `timenow`, whose key is its
age, sorts last. For an entry that is up to date, the order of the keys is then the order
of the times, whoever writes the other files. For one whose file was written since, it
takes that nobody else writes: only then the file being written is the youngest there is
(`Youngest`), and every entry still stands behind the files that sort before it or
is no younger than they are (`Ranked`). `StorageInv` makes the parts conditional on
`InOrder`, `Alone` and `Roomy`, each on what it needs; `storage_order` and `storage_ahead` are
counterexamples without `InOrder`.

The other half is the sum. It adds sizes that were read at different times to an
unsigned number, entries that are gone count as -1, and a file may have grown or
vanished when its size is taken off again. `Size(disk, S)` is the number of bytes of the
files `S`, as the cardinality of a set of pairs of a file and a number: how the size
changes with one file then follows from the library's facts about finite sets, without
an induction (`StorageSizes_proof`). At every step of a prune there is a number, the
sum or the sum less a word, between two bounds (`Summed`). From below: the files it
stands for hold no more than it, what was written since the scan began, what could not
be removed and one byte for each file that vanished, where each file that vanished and
was not yielded yet leaves room for its -1. From above: with what is still to be counted
it is no more than what was ever written, where each entry that is gone leaves room for
the 1 that taking off -1 adds. The bounds also say that the sum does not wrap twice; for
that the bytes written, twice, and the files that vanished must be fewer than a word
(`2 * Budget + Vanishing < Word`, with `Word` 2^64). `Missed` says that what is neither to
be scanned nor on the list is at most what was written since and what could not be
removed, which is all there is when the list is empty; `LimitReached` follows. That a file is
on the list once bounds `kept` (`Spent`).
When nobody else removes files the sum is at most the size of the list (`Exact`), so
nothing is removed unless the directory is over the limit at that moment
(`RemovesOnlyOverLimit`): in the scan the sum stays below what was written, and what is
taken off it is a file, which a roomy limit exceeds (`Fitting`), so it never wraps. And
a file that is being written is last on the list it is on; when it is all there is of
the list, the sum is no more than that file, which is within the limit (`Keeping`):
`ActiveOnDisk`. The prune task takes the name off and removes the file in two steps, so
`Keeping` also says that the name taken off is not that of the file being written.
`StoragePrunesInTurn` needs only the first line of `Scanning`: `bPruning` is true from the
start of a prune to its end.

**Logger** (`Logger_proof`). `LoggerInv` says which operations come along where
(`OnItsWay`), that the present level lies between the least and the greatest of the
call (`LevelRange`), that nobody is called before a test of the level (`Tested`), that
slots and observer name objects that exist (`NoneDangling`), that what was tested is
still there unless something was replaced (`Current`), and that the writer's part is
complete when the observer's begins (`Written`); `Switched` says of the prefix and of
the terminal that they are as the switches say from the step that reads them on, unless
one was set during the call. `Delivered` speaks of the end of a
call and holds there because `Written` and `Current` held on the way; `UsesLive` is
`Current` and `NoneDangling` at the moment of the call.

**Counter** (`Tracing_proof`). `WindowsAddUp` is inductive; `ExtremesExact` needs that
the total never falls below what it was when the window began, so the test of the
total at 2 cannot be true again. For the pipe, a byte is the `nth` of its line and is
at a place (`at`) of a page: the properties then compare neighbours, and no counting
of bytes is needed. `Paging` says that the bytes of a page lie next to each other, so
reading a chunk moves the first byte by as much unless it ends the page; `Drained`
that the first byte of a full pipe is beyond all the chunks read away since the last
line got in. As it is within its page, `PipeRecovers` follows.

**Model-checked only.** Liveness (`WriteReturns`, `FlushReachesDisk`,
`EverythingStored`, `EmptyStopReturns`, `SpinEnds`), which this prover cannot do.

## 8. Not modelled, and why

What each module leaves out is at its end in section 3. Besides:

* **Platform** (`src/src/platform`): functions that return a path, or a process or
  thread number cached at first use. They keep no state that changes. A process
  that forks keeps the number of its parent, and would write to files of the same
  names; nothing in the program forks.
* **Wording**: formatting, colours, what the prefix says.
* **The 32-bit length** of a message on its way into the ring (`LogFileWriter.cpp:79`):
  no bound reaches that far.
* **Windows**: the branch of `OpenLogFile`, the debugger window.
* **Tests, example, tools, build files**: not part of the program.
* **Third-party code** (`src/third`: fmt and ghc::filesystem): vendored libraries,
  of which the modules contain what the program observes, as definitions marked
  external. They are some 23 000 of the 24 600 lines of C++ in the repository; the
  modules cover most lines that act in the other 5 %, and there is
  no more of the program's own logic to model.

## 9. Running

    tlc -config RingMany.cfg MCRing.tla         # each run: PROJECT.json names module and cfg
    tlapm MultiWriteRingBuffer_proof.tla
    tlapm LogFileWriter_proof.tla
    tlapm StorageSizes_proof.tla
    tlapm LogStorage_proof.tla
    tlapm Logger_proof.tla
    tlapm Tracing_proof.tla
