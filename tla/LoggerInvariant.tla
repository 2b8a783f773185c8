--------------------------- MODULE LoggerInvariant ---------------------------
(***************************************************************************)
(* Why the safety properties of Logger hold: the invariant that every step *)
(* preserves.  TLC checks it (Logger.cfg); Logger_proof proves it.         *)
(***************************************************************************)
EXTENDS Logger

\* Where a call is on its way: before the writer, at it, and after it.
ToWrite  == {"get", "message", "prefix", "write0", "write"}
AtSlot   == {"slot", "use", "zero", "useZero"}
ToShow   == {"print0", "print", "console", "observer", "notify"}

\* Which operations come along there, in which module, with what in hand.
OnItsWay ==
    \A t \in Threads :
        /\ pc[t] \in {"get", "message", "prefix"} => op[t] = "log"
        /\ pc[t] \in {"write0", "write"} \cup AtSlot => op[t] # "print"
        /\ pc[t] \in ToShow => op[t] # "write"
        /\ pc[t] = "write0" => op[t] = "write"
        /\ pc[t] = "print0" => op[t] = "print"
        /\ pc[t] \in AtSlot => mod[t] < Mods
        /\ pc[t] \in {"use", "useZero"} => seen[t] \in Targets \cup {None}
        /\ pc[t] = "notify" => seen[t] \in Observers \cup {None}

\* The level has been between lo and hi since the call began.
LevelRange == \A t \in Threads : lo[t] <= maxLevel /\ maxLevel <= hi[t]

\* Nobody is called before a test of the level.
Tested ==
    \A t \in Threads :
        /\ pc[t] \in ToWrite \cup AtSlot \cup {"print0"} => wrote[t] = Nobody
        /\ pc[t] \in ToWrite \cup AtSlot \cup ToShow => shown[t] = Nobody /\ ~threw[t]
        /\ pc[t] \in ToWrite \cup AtSlot \cup {"print0", "print", "console"} => ~told[t]
        /\ pc[t] \in AtSlot \cup {"console", "observer", "notify"} => level[t] <= hi[t]

\* The owners take a writer or an observer out before they delete it.
NoneDangling ==
    /\ \A m \in Modules : slot[m] # None => slot[m] \in alive
    /\ observer # None => observer \in alive

\* As long as nobody replaces a pointer, what was tested is still there.
Current ==
    \A t \in Threads : ~moved[t] =>
        /\ pc[t] = "use" => slot[mod[t]] = seen[t] /\ seen[t] # None
        /\ pc[t] \in {"zero", "useZero"} => slot[mod[t]] = None
        /\ pc[t] = "useZero" => slot[0] = seen[t] /\ seen[t] # None
        /\ pc[t] = "notify" => observer = seen[t] /\ seen[t] # None

\* The writer's part is done when the observer's begins.
Written ==
    \A t \in Threads : ~moved[t] /\ level[t] <= lo[t] /\ pc[t] \in ToShow =>
        wrote[t] = IF op[t] = "print" THEN Nobody ELSE Route(mod[t])

\* As long as nobody sets a switch, the prefix and the terminal are as it says.
AsSwitched(t) ==
    /\ pc[t] \in {"get", "message", "prefix", "write0", "print0"} => ~text[t]
    /\ level[t] <= lo[t] /\ pc[t] \in {"write"} \cup AtSlot \cup ToShow =>
        text[t] = (op[t] = "log" /\ gen)
    /\ pc[t] \in {"observer", "notify"} => told[t] = (console /\ Terminal)

Switched == \A t \in Threads : ~flipped[t] => AsSwitched(t)

\* The logger between two steps of whatever threads: the properties that Logger.cfg
\* checks, with what makes each of them survive the next step.
LoggerInv ==
    /\ TypeOK /\ OnItsWay /\ LevelRange /\ Tested
    /\ NoneDangling /\ Current /\ Written /\ Switched
    /\ AboveLevelSilent /\ Delivered
==============================================================================
