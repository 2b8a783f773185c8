------------------------------- MODULE Logger -------------------------------
(***************************************************************************)
(* The logger (src/log/LoggerImpl, include/trace++/Logging.hpp): threads   *)
(* log, write or print messages while another thread configures it.  The   *)
(* members are plain variables without synchronisation: each read of one   *)
(* is a step, and a member that is read twice may be read once by the      *)
(* compiled program, so a second read yields either value.                 *)
(*                                                                         *)
(* What a message looks like is left out, except that it has a prefix or   *)
(* not.  Assertions are off (NDEBUG), and the debug window is of Windows.  *)
(***************************************************************************)
EXTENDS Integers, FiniteSets

CONSTANTS
    Threads,        \* the threads that log
    Targets,        \* the LogWriter objects
    Observers,      \* the Observer objects
    None,           \* nullptr
    Mods,           \* MAX_LOG_MODS
    Top,            \* the least urgent level
    Fault,          \* LogLevel::FAULT
    Terminal,       \* isatty(fileno(stdout))
    MaxChanges      \* bound of the model: changes of the configuration

ASSUME LoggerAssumption ==
    /\ Mods \in Nat \ {0} /\ Top \in Nat /\ Fault \in 0..Top /\ MaxChanges \in Nat
    /\ Terminal \in BOOLEAN
    /\ Targets \cap Observers = {} /\ None \notin Targets \cup Observers

VARIABLES
    maxLevel, slot, observer,       \* m_levelMax, m_arrWriter, m_pPrintObserver
    gen, console,                   \* m_enableGenPrefix, m_enablePrint2Stdout
    alive,                          \* the writers and observers that exist
    pc, op, level, mod, seen,       \* a call; seen: the pointer it tested
    text,                           \* it has a prefix
    wrote, told, shown, threw,      \* a writer, the terminal and an observer got it; fmt::print
                                    \* threw
    lo, hi, moved, flipped, changes \* history

config  == <<maxLevel, slot, observer, gen, console, alive>>
outcome == <<wrote, told, shown, threw>>
call    == <<pc, op, level, mod, seen, text, outcome>>
history == <<lo, hi, moved, flipped, changes>>
vars    == <<config, call, history>>

Modules == 0..(Mods - 1)
Levels  == 0..Top
Nobody  == "nobody"

Init ==
    /\ maxLevel = Top /\ slot = [m \in Modules |-> None] /\ observer = None
    /\ gen = TRUE /\ console = TRUE
    /\ alive = Targets \cup Observers
    /\ pc = [t \in Threads |-> "idle"] /\ op = [t \in Threads |-> "log"]
    /\ level = [t \in Threads |-> 0] /\ mod = [t \in Threads |-> 0]
    /\ seen = [t \in Threads |-> None] /\ text = [t \in Threads |-> FALSE]
    /\ wrote = [t \in Threads |-> Nobody] /\ shown = [t \in Threads |-> Nobody]
    /\ told = [t \in Threads |-> FALSE] /\ threw = [t \in Threads |-> FALSE]
    /\ lo = [t \in Threads |-> Top] /\ hi = [t \in Threads |-> Top]
    /\ moved = [t \in Threads |-> TRUE] /\ flipped = [t \in Threads |-> TRUE]
    /\ changes = 0

Goto(t, from, to) == pc[t] = from /\ pc' = [pc EXCEPT ![t] = to]
------------------------------------------------------------------------------
(* A call *)

\* LogPrintAndWrite, Write and Print, the latter two with a C string or a length.
Entries == [log |-> {"get"}, write |-> {"write0", "write"}, print |-> {"print0", "print"}]

\* The members are read from now on.  A module may be out of range.
Begin(t, o, l, m) ==
    /\ \E entry \in Entries[o] : Goto(t, "idle", entry)
    /\ op' = [op EXCEPT ![t] = o]
    /\ level' = [level EXCEPT ![t] = l] /\ mod' = [mod EXCEPT ![t] = m]
    /\ seen' = [seen EXCEPT ![t] = None] /\ text' = [text EXCEPT ![t] = FALSE]
    /\ wrote' = [wrote EXCEPT ![t] = Nobody] /\ shown' = [shown EXCEPT ![t] = Nobody]
    /\ told' = [told EXCEPT ![t] = FALSE] /\ threw' = [threw EXCEPT ![t] = FALSE]
    /\ lo' = [lo EXCEPT ![t] = maxLevel] /\ hi' = [hi EXCEPT ![t] = maxLevel]
    /\ moved' = [moved EXCEPT ![t] = FALSE] /\ flipped' = [flipped EXCEPT ![t] = FALSE]
    /\ UNCHANGED <<config, changes>>

\* Mutant of Passes: one level too many.
PassesOneMore(t) == level[t] <= maxLevel + 1

Passes(t) == level[t] <= maxLevel

\* One of the tests of the level on the way of a message.
Test(t, from, to, otherwise) ==
    /\ Goto(t, from, IF Passes(t) THEN to ELSE otherwise)
    /\ UNCHANGED <<op, level, seen, text, outcome>>

\* What follows the writer's part: MessageNow goes on to Print.
AfterWrite(t) == IF op[t] = "log" THEN "print" ELSE "idle"

GetLevel(t)    == Test(t, "get", "message", "idle")
MessageNow(t)  == Test(t, "message", "prefix", "idle")
WriteString(t) == Test(t, "write0", "write", "idle")
Write(t)       == Test(t, "write", IF mod[t] < Mods THEN "slot" ELSE AfterWrite(t), AfterWrite(t))
ShowString(t)  == Test(t, "print0", "print", "idle")
ShowMessage(t) == Test(t, "print", "console", "idle")

\* fmt::format throws: the error is printed, at level FAULT, and nothing written.
FormatFails(t) ==
    /\ Passes(t) /\ Goto(t, "get", "print0")
    /\ op' = [op EXCEPT ![t] = "print"] /\ level' = [level EXCEPT ![t] = Fault]
    /\ UNCHANGED <<seen, text, outcome>>

\* The prefix is for the writer, the terminal and the observer alike.
AddPrefix(t) ==
    /\ Goto(t, "prefix", "write")
    /\ text' = [text EXCEPT ![t] = gen]
    /\ UNCHANGED <<op, level, seen, outcome>>

\* Mutant of Otherwise: a module without a writer of its own is not written.
OtherwiseNone(t) == AfterWrite(t)

Otherwise(t) == "zero"

\* The writer of the module, or else that of module 0.
TestSlot(t) ==
    /\ Goto(t, "slot", IF slot[mod[t]] # None THEN "use" ELSE Otherwise(t))
    /\ seen' = [seen EXCEPT ![t] = slot[mod[t]]]
    /\ UNCHANGED <<op, level, text, outcome>>

\* Mutant of HasDefault: the fallback is taken for granted.
HasDefaultAlways == TRUE

HasDefault == slot[0] # None

TestZero(t) ==
    /\ Goto(t, "zero", IF HasDefault THEN "useZero" ELSE AfterWrite(t))
    /\ seen' = [seen EXCEPT ![t] = slot[0]]
    /\ UNCHANGED <<op, level, text, outcome>>

\* The virtual call: on the pointer that was tested, or on what is there now.
UseWriter(t, from, m) ==
    /\ Goto(t, from, AfterWrite(t))
    /\ \E w \in {seen[t], slot[m]} : wrote' = [wrote EXCEPT ![t] = w]
    /\ UNCHANGED <<op, level, seen, text, told, shown, threw>>

UseSlot(t) == UseWriter(t, "use", mod[t])
UseZero(t) == UseWriter(t, "useZero", 0)

Prints == console /\ Terminal

ShowOnTerminal(t) ==
    /\ Goto(t, "console", "observer")
    /\ told' = [told EXCEPT ![t] = Prints]
    /\ UNCHANGED <<op, level, seen, text, wrote, shown, threw>>

\* fmt::print throws: LogPrintAndWrite drops the exception, or the program gets it.
TerminalFails(t) ==
    /\ Prints /\ Goto(t, "console", "idle")
    /\ threw' = [threw EXCEPT ![t] = TRUE]
    /\ UNCHANGED <<op, level, seen, text, wrote, told, shown>>

TestObserver(t) ==
    /\ Goto(t, "observer", IF observer # None THEN "notify" ELSE "idle")
    /\ seen' = [seen EXCEPT ![t] = observer]
    /\ UNCHANGED <<op, level, text, outcome>>

NotifyObserver(t) ==
    /\ Goto(t, "notify", "idle")
    /\ \E o \in {seen[t], observer} : shown' = [shown EXCEPT ![t] = o]
    /\ UNCHANGED <<op, level, seen, text, wrote, told, threw>>

CallStep(t) ==
    /\ \/ GetLevel(t) \/ FormatFails(t) \/ MessageNow(t) \/ AddPrefix(t)
       \/ WriteString(t) \/ Write(t)
       \/ TestSlot(t) \/ TestZero(t) \/ UseSlot(t) \/ UseZero(t)
       \/ ShowString(t) \/ ShowMessage(t) \/ ShowOnTerminal(t) \/ TerminalFails(t)
       \/ TestObserver(t) \/ NotifyObserver(t)
    /\ UNCHANGED <<config, mod, history>>
------------------------------------------------------------------------------
(* Configuration *)

Change == changes < MaxChanges /\ changes' = changes + 1

\* A writer or an observer was replaced: every call so far may have seen it.
Moved == Change /\ moved' = [t \in Threads |-> TRUE] /\ UNCHANGED <<lo, hi, flipped>>

\* Mutant of InRange: > where the code says >=.
InRangeOneMore(m) == m <= Mods

InRange(m) == m < Mods

\* A module out of range is refused.
SetWriter(m, w) ==
    /\ Moved /\ InRange(m)
    /\ slot' = [n \in Modules \cup {m} |-> IF n = m THEN w ELSE slot[n]]
    /\ UNCHANGED <<maxLevel, observer, gen, console, alive>>

SetPrintObserver(o) ==
    /\ Moved
    /\ observer' = o
    /\ UNCHANGED <<maxLevel, slot, gen, console, alive>>

SetMaxLevel(l) ==
    /\ Change
    /\ maxLevel' = l
    /\ lo' = [t \in Threads |-> IF l < lo[t] THEN l ELSE lo[t]]
    /\ hi' = [t \in Threads |-> IF l > hi[t] THEN l ELSE hi[t]]
    /\ UNCHANGED <<slot, observer, gen, console, alive, moved, flipped>>

\* SetGeneratePrefix and SetPrint2Stdout.
Flip(g, c) ==
    /\ Change
    /\ gen' = g /\ console' = c
    /\ flipped' = [t \in Threads |-> TRUE]
    /\ UNCHANGED <<maxLevel, slot, observer, alive, lo, hi, moved>>

SetGeneratePrefix(g) == Flip(g, console)
SetPrint2Stdout(c)   == Flip(gen, c)

\* The singleton is destroyed at exit; a thread may still be in it.
Shutdown ==
    /\ Moved
    /\ slot' = [m \in Modules |-> None] /\ observer' = None
    /\ UNCHANGED <<maxLevel, gen, console, alive>>

\* The owner of a writer or an observer takes it out of the logger, then deletes it.
Destroy(x) ==
    /\ x \in alive /\ x # observer /\ \A m \in Modules : slot[m] # x
    /\ alive' = alive \ {x}
    /\ UNCHANGED <<maxLevel, slot, observer, gen, console, history>>

Configure ==
    /\ \/ \E m \in 0..Mods, w \in (Targets \cap alive) \cup {None} : SetWriter(m, w)
       \/ \E o \in (Observers \cap alive) \cup {None} : SetPrintObserver(o)
       \/ \E l \in Levels : SetMaxLevel(l)
       \/ \E b \in BOOLEAN : SetGeneratePrefix(b) \/ SetPrint2Stdout(b)
       \/ Shutdown
       \/ \E x \in alive : Destroy(x)
    /\ UNCHANGED call

Next ==
    \/ \E t \in Threads, o \in DOMAIN Entries, l \in Levels, m \in 0..Mods : Begin(t, o, l, m)
    \/ \E t \in Threads : CallStep(t)
    \/ Configure

Spec == Init /\ [][Next]_vars
------------------------------------------------------------------------------
Pointers == Targets \cup Observers \cup {None}

TypeOK ==
    /\ maxLevel \in Levels
    /\ slot \in [Modules -> Targets \cup {None}]
    /\ observer \in Observers \cup {None}
    /\ alive \subseteq Targets \cup Observers
    /\ pc \in [Threads -> {"idle", "get", "message", "prefix", "write0", "write", "slot", "use",
                           "zero", "useZero", "print0", "print", "console", "observer",
                           "notify"}]
    /\ op \in [Threads -> DOMAIN Entries]
    /\ level \in [Threads -> Levels] /\ mod \in [Threads -> 0..Mods]
    /\ seen \in [Threads -> Pointers]
    /\ wrote \in [Threads -> Targets \cup {None, Nobody}]
    /\ shown \in [Threads -> Observers \cup {None, Nobody}]
    /\ gen \in BOOLEAN /\ console \in BOOLEAN
    /\ text \in [Threads -> BOOLEAN]
    /\ told \in [Threads -> BOOLEAN] /\ threw \in [Threads -> BOOLEAN]
    /\ lo \in [Threads -> Levels] /\ hi \in [Threads -> Levels]
    /\ moved \in [Threads -> BOOLEAN] /\ flipped \in [Threads -> BOOLEAN] /\ changes \in Nat

\* Whatever the level is changed to and when, no message is written or shown
\* whose level was above the maximum throughout the call.
AboveLevelSilent ==
    \A t \in Threads :
        wrote[t] # Nobody \/ told[t] \/ shown[t] # Nobody => level[t] <= hi[t]

\* A call goes through a null pointer or to an object that was deleted only if
\* writers or observers were replaced since the call began: with the pointers
\* left alone, the tests of lines 203, 209 and 178 are enough.
UsesLive ==
    [][\A t \in Threads :
        /\ wrote'[t] \notin {wrote[t], Nobody} => wrote'[t] \in alive \/ moved[t]
        /\ shown'[t] \notin {shown[t], Nobody} => shown'[t] \in alive \/ moved[t]]_vars

\* Who is to get a message of module m, by the documented order of the slots.
Route(m) ==
    IF m >= Mods THEN Nobody
    ELSE IF slot[m] # None THEN slot[m]
    ELSE IF slot[0] # None THEN slot[0]
    ELSE Nobody

Audience == IF observer = None THEN Nobody ELSE observer

\* Who has got the message of a call that returns.
Arrived(t) ==
    /\ ~moved[t] =>
        /\ wrote[t] = IF op[t] = "print" THEN Nobody ELSE Route(mod[t])
        /\ shown[t] = IF op[t] = "write" \/ threw[t] THEN Nobody ELSE Audience
    /\ ~flipped[t] =>
        /\ told[t] = (op[t] # "write" /\ ~threw[t] /\ console /\ Terminal)
        /\ text[t] = (op[t] = "log" /\ gen)

\* A message at or below the maximum level throughout its call has, when the call
\* returns, reached exactly the writer of its module (or of module 0) and, unless the
\* terminal failed, the observer, even if the level changed between its tests; a
\* writer or an observer replaced during the call is excepted.  The terminal got it
\* when it is one and switched on, and it had a prefix when it was logged with
\* prefixes on; a switch that was set during the call is excepted.
Delivered == \A t \in Threads : pc[t] = "idle" /\ level[t] <= lo[t] => Arrived(t)
==============================================================================
