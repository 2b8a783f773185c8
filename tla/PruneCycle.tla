------------------------------ MODULE PruneCycle ------------------------------
(***************************************************************************)
(* What the storage thread promises of its files and its prune task: one   *)
(* file at a time, closed at latest when it is full, and every full file   *)
(* starts a prune, unless the last one is still at work or has thrown.  A  *)
(* prune at work is never started over, and the thread is gone only when   *)
(* there is none.                                                          *)
(*                                                                         *)
(* bPruning is how the code knows; it does not appear here.                *)
(* LogFileWriter and LogStorage, which see the same two threads with the   *)
(* buffer and with the files, both implement this contract.                *)
(***************************************************************************)

VARIABLES
    current,        \* the file in use: "none", "open" or "full"; "gone" with the thread
    prune,          \* the task behind ftPrune: "none", "started" (it has not read the
                    \* clock yet), "running" or "ended"
    threw           \* whether it ended by an exception

CycleInit == current = "none" /\ prune = "none" /\ threw = FALSE

GotoC(from, to) == current = from /\ current' = to

AtWork == prune \in {"started", "running"}

Open == GotoC("none", "open") /\ UNCHANGED <<prune, threw>>

\* Closed before it was full: an error, EOF, or m_bLogging went down.
Shut == GotoC("open", "none") /\ UNCHANGED <<prune, threw>>

Fill == GotoC("open", "full") /\ UNCHANGED <<prune, threw>>

RollAndPrune ==
    /\ GotoC("full", "none")
    /\ ~AtWork /\ ~threw /\ prune' \in {"started", "running"}
    /\ UNCHANGED threw

RollOnly ==
    /\ GotoC("full", "none")
    /\ AtWork \/ threw
    /\ UNCHANGED <<prune, threw>>

PruneBegins == prune = "started" /\ prune' = "running" /\ UNCHANGED <<current, threw>>

PruneEnds ==
    /\ AtWork /\ prune' = "ended"
    /\ UNCHANGED threw \/ threw' = TRUE
    /\ UNCHANGED current

Leave == GotoC("none", "gone") /\ ~AtWork /\ UNCHANGED <<prune, threw>>

CycleNext == Open \/ Shut \/ Fill \/ RollAndPrune \/ RollOnly \/ PruneBegins \/ PruneEnds \/ Leave

CycleSpec == CycleInit /\ [][CycleNext]_<<current, prune, threw>>
==============================================================================
