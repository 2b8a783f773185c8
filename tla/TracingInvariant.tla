--------------------------- MODULE TracingInvariant ---------------------------
(***************************************************************************)
(* Why the safety properties of Tracing hold: the invariant that every     *)
(* step preserves.  TLC checks it (Tracing.cfg); Tracing_proof proves it.  *)
(***************************************************************************)
EXTENDS Tracing

\* The clock does not go back, and what was counted stays counted.
Forward == tpLast <= now /\ tpTrace <= now /\ before <= uTotal

\* The bytes in the pipe are of reports so far; a report being written is not there.
Reported ==
    \A i \in 1..Len(pipe) :
        pipe[i].report <= reports /\ (pc # "idle" => pipe[i].report < reports)

\* The bytes of a page lie next to each other, and the pages follow each other.
Paging ==
    \A i, j \in 1..Len(pipe) : i <= j =>
        /\ pipe[i].page <= pipe[j].page
        /\ pipe[i].page = pipe[j].page => pipe[j].at - pipe[i].at = j - i

\* The pipe has its pages, and while it is full, each chunk read away is gone from its first page.
Drained ==
    /\ PagesUsed <= Pages
    /\ \/ PagesUsed < Pages
       \/ Head(pipe).at > dropped * Chunk + (IF pc = "rewrite" THEN Chunk ELSE 0)

\* The counter between two steps of the two processes: the properties that
\* Tracing.cfg checks, with what makes each of them survive the next step.
TracingInv ==
    /\ TypeOK /\ Forward /\ WindowsAddUp /\ ExtremesExact
    /\ Reported /\ LinesWhole
    /\ Paging /\ Drained /\ PipeRecovers
===============================================================================
