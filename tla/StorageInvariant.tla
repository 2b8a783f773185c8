-------------------------- MODULE StorageInvariant --------------------------
(***************************************************************************)
(* Why the prune task of LogStorage removes old files first: the invariant *)
(* that every step preserves.  TLC checks it (Storage.cfg);                *)
(* LogStorage_proof proves it.                                             *)
(***************************************************************************)
EXTENDS LogStorage

\* The file clock counts from a time to come, and no file at first is dated ahead.
InOrder == Epoch > MaxClock /\ Dates \subseteq {0}

\* Then no file is ever dated ahead, and those that are there at first are the oldest.
Dating ==
    \A f \in DOMAIN disk :
        disk[f].time <= now /\ (f \in Foreign /\ ~foreign => disk[f].time = 0)

\* A file that is opened next is named no earlier than any that is there.
Naming ==
    /\ wpc = "open" => name[2] \in 1..now /\ \A f \in DOMAIN disk \cap Own : f[2] <= name[2]
    /\ active # NoName => wpc \in {"write", "roll"}

\* The file being written is the youngest of a process that is alone, by time and by
\* the time in the names.
Youngest ==
    Exists(active) => \A f \in DOMAIN disk \ {active} :
        /\ disk[f].time <= disk[active].time
        /\ IF f \in Own THEN f[2] <= active[2] ELSE disk[f].time < disk[active].time

Listed  == {x[2] : x \in listed}
Running == ppc \in {"scan", "time", "delete", "remove"}

\* One task prunes at a time.  Its iterator yields a name once, and an entry of its
\* list is of a file of its own.
Scanning ==
    /\ pruning <=> ppc \notin {"idle", "ended"}
    /\ ppc \in {"time", "remove"} <=> cur # NoName
    /\ \A x \in listed : x[2] \notin {cur, NoName}
    /\ \A x \in listed, y \in listed : x[2] = y[2] => x = y
    /\ unseen \cap seen = {}
    /\ ppc = "time" => cur \in seen
    /\ ppc \in {"scan", "time"} => Listed \subseteq seen
    /\ ppc \in {"delete", "remove"} => unseen = {}

\* As long as nobody else removes files, every file that is still to be yielded, on
\* the list, or on its way into it or out of it, is there.
Listing ==
    /\ \A x \in listed : Exists(x[2])
    /\ ppc \in {"time", "remove"} => Exists(cur)
    /\ ppc \in {"scan", "time"} => unseen \subseteq DOMAIN disk

Entry(f) == <<Key(f), f>>

\* The keys are as old as the scan: a file that was written since has an older key
\* than it would get now, and one that is gone would come back as young as the moment.
Dated == \A x \in listed : x[1] <= Age(now) /\ (Exists(x[2]) => x[1] <= Key(x[2]))

\* In a process that is alone, an entry still stands before those of all younger
\* files, and behind those of the others; that of the file being written is last.
Ranked ==
    \A x \in listed : IsPlain(x[2]) =>
        \A f \in DOMAIN disk \ {x[2]} :
            \/ Precedes(Entry(f), x)
            \/ x[2] # active /\ disk[x[2]].time <= disk[f].time

\* No file is longer than the limit and the block that reached it.
Fitting ==
    /\ \A f \in DOMAIN disk :
        IF f \in Own THEN disk[f].size < maxFile + MaxWrite ELSE disk[f].size <= MaxOther
    /\ Exists(active) => disk[active].size <= fileSize
    /\ wpc = "write" => fileSize < maxFile

\* What is there was written, and so was what could not be removed, each file of which
\* was on the list.
Spent ==
    /\ Total <= written /\ since <= written /\ written <= Budget /\ vanished <= Vanishing
    /\ kept + Size(disk, Listed \cup {cur}) <= written
    /\ ppc \in {"scan", "time"} => kept = 0

\* The names that the sum stands for, those that it has yet to count, and that of the
\* file between its size and its time.  A file is taken off the sum, then removed.
Counted == (Names \ unseen) \ (IF ppc = "remove" THEN {cur} ELSE {})
Unread  == IF ppc \in {"scan", "time"} THEN Names \ seen ELSE {}
Reading == IF ppc = "time" THEN {cur} ELSE {}

\* The sum, which may be a small negative number modulo Word, is short of the files
\* it stands for by no more than what was written since the scan began, what could not
\* be removed and the files that vanished, and it never exceeds what was written at all
\* by more than the entries whose file is gone, each of which adds 1 to it.
Summed ==
    Running => \E u \in {uAll, uAll - Word} :
        /\ Size(disk, Counted) + Cardinality(unseen \ DOMAIN disk) <= u + since + kept + vanished
        /\ u + Size(disk, Unread) + Cardinality((Listed \cup Reading) \ DOMAIN disk)
              <= written + vanished

\* Files that the scan missed hold nothing but what was written since it began; the
\* others that it is done with could not be removed.
Missed == Running => Size(disk, Names \ (unseen \cup Listed \cup {cur})) <= since + kept

\* As long as nobody else removes files, the sum is that of the list, where files
\* only grow; there is more than the limit when a file goes.
Exact ==
    /\ Running => uAll <= Size(disk, Listed \cup Reading)
    /\ ppc = "remove" => Total > maxStorage

\* A file that is being written is the last of the list: when it is all that is left
\* of it, there is no more than fits into one file.
Keeping ==
    /\ ppc = "remove" /\ IsPlain(cur) => cur # active
    /\ IsPlain(active) => Exists(active)

\* The directory between two steps of whatever threads and processes.  The sum needs
\* fewer bytes and files than an unsigned number can count, the order of the list
\* clocks that agree, and most of the rest that nobody else removes files, or writes.
StorageInv ==
    /\ TypeOK /\ Naming /\ Fitting /\ Scanning /\ Spent /\ Missed
    /\ 2 * Budget + Vanishing < Word => Summed /\ LimitReached
    /\ vanished = 0 => Listing
    /\ vanished = 0 /\ Roomy /\ Budget < Word => Exact
    /\ InOrder => Dating /\ Dated
    /\ InOrder /\ Alone => Youngest /\ Ranked
    /\ InOrder /\ Alone /\ Roomy /\ Budget < Word => Keeping
==============================================================================
