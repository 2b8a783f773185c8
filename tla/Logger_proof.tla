---------------------------- MODULE Logger_proof ----------------------------
(***************************************************************************)
(* Proofs about the logger, for any number of threads, writers, observers, *)
(* modules and levels.                                                     *)
(***************************************************************************)
EXTENDS LoggerInvariant, TLAPS

USE LoggerAssumption DEF LoggerAssumption

------------------------------------------------------------------------------
(* Where a call begins *)

\* The three ways into a call.
LEMMA Kinds == DOMAIN Entries = {"log", "write", "print"}
BY DEF Entries

\* Thread t has begun operation o.
Entered(t, o) ==
    /\ pc[t] = "idle"
    /\ \/ o = "log" /\ pc' = [pc EXCEPT ![t] = "get"]
       \/ o = "write" /\ pc' = [pc EXCEPT ![t] = "write0"]
       \/ o = "write" /\ pc' = [pc EXCEPT ![t] = "write"]
       \/ o = "print" /\ pc' = [pc EXCEPT ![t] = "print0"]
       \/ o = "print" /\ pc' = [pc EXCEPT ![t] = "print"]

\* Which of the three ways a call takes is where it begins.
LEMMA Enters ==
    ASSUME NEW t \in Threads, NEW o \in DOMAIN Entries, NEW l, NEW m, Begin(t, o, l, m)
    PROVE  Entered(t, o)
<1> USE DEF Entered
<1>1. PICK entry \in Entries[o] : Goto(t, "idle", entry)
  BY DEF Begin
<1>2. CASE o = "log"
  <2>1. entry = "get"  BY <1>2 DEF Entries
  <2> QED  BY <1>1, <1>2, <2>1 DEF Goto
<1>3. CASE o = "write"
  <2>1. entry \in {"write0", "write"}  BY <1>3 DEF Entries
  <2> QED  BY <1>1, <1>3, <2>1 DEF Goto
<1>4. CASE o = "print"
  <2>1. entry \in {"print0", "print"}  BY <1>4 DEF Entries
  <2> QED  BY <1>1, <1>4, <2>1 DEF Goto
<1> QED  BY <1>2, <1>3, <1>4, Kinds

------------------------------------------------------------------------------
(* One lemma for each part of the invariant: what a step needs to preserve it. *)

\* The invariant holds before any call.
LEMMA LoggerInit == Init => LoggerInv
BY DEF Init, LoggerInv, TypeOK, OnItsWay, LevelRange, Tested, NoneDangling, Current, Written,
   Switched, AsSwitched, AboveLevelSilent, Delivered, Arrived, Modules, Levels, Pointers, Entries, ToWrite, AtSlot, ToShow

\* Every step keeps the types; an object in use is one there is.
LEMMA TypeStep ==
    ASSUME TypeOK, OnItsWay, [Next]_vars
    PROVE  TypeOK'
<1> USE DEF TypeOK, OnItsWay, Modules, Levels, Pointers, AtSlot
<1>1. ASSUME NEW t \in Threads, NEW o \in DOMAIN Entries, NEW l \in Levels,
             NEW m \in 0..Mods, Begin(t, o, l, m)
      PROVE TypeOK'
  <2>1. Entered(t, o)
    BY <1>1, Enters
  <2> QED
    BY ZenonT(60), <1>1, <2>1, Kinds DEF Entered, Begin, call, outcome, config, history
<1>2. ASSUME NEW t \in Threads, CallStep(t) PROVE TypeOK'
  <2>0. UNCHANGED <<config, mod, history>>  BY <1>2 DEF CallStep
  <2>1. CASE GetLevel(t)
    BY <2>0, <2>1, Kinds DEF Goto, GetLevel, Test, Passes, call, outcome, config, history
  <2>2. CASE FormatFails(t)
    BY <2>0, <2>2, Kinds DEF Goto, FormatFails, Passes, call, outcome, config, history
  <2>3. CASE MessageNow(t)
    BY <2>0, <2>3, Kinds DEF Goto, MessageNow, Test, Passes, call, outcome, config, history
  <2>4. CASE AddPrefix(t)
    BY <2>0, <2>4, Kinds DEF Goto, AddPrefix, call, outcome, config, history
  <2>5. CASE WriteString(t)
    BY <2>0, <2>5, Kinds DEF Goto, WriteString, Test, Passes, call, outcome, config, history
  <2>6. CASE Write(t)
    BY <2>0, <2>6, Kinds DEF Goto, Write, Test, Passes, AfterWrite, call, outcome, config,
      history
  <2>7. CASE TestSlot(t)
    BY SMTT(60), <2>0, <2>7, Kinds DEF Goto, TestSlot, Otherwise, AfterWrite, call, outcome,
      config, history
  <2>8. CASE TestZero(t)
    BY SMTT(60), <2>0, <2>8, Kinds DEF Goto, TestZero, HasDefault, AfterWrite, call,
      outcome, config, history
  <2>9. CASE UseSlot(t)
    BY <2>0, <2>9, Kinds DEF Goto, UseSlot, UseWriter, AfterWrite, call, outcome, config,
      history
  <2>10. CASE UseZero(t)
    BY SMTT(60), <2>0, <2>10, Kinds DEF Goto, UseZero, UseWriter, AfterWrite, call, outcome,
      config, history
  <2>11. CASE ShowString(t)
    BY <2>0, <2>11, Kinds DEF Goto, ShowString, Test, Passes, call, outcome, config, history
  <2>12. CASE ShowMessage(t)
    BY <2>0, <2>12, Kinds DEF Goto, ShowMessage, Test, Passes, call, outcome, config,
      history
  <2>13. CASE ShowOnTerminal(t)
    BY <2>0, <2>13, Kinds DEF Goto, ShowOnTerminal, Prints, call, outcome, config, history
  <2>14. CASE TerminalFails(t)
    BY <2>0, <2>14, Kinds DEF Goto, TerminalFails, Prints, call, outcome, config, history
  <2>15. CASE TestObserver(t)
    BY <2>0, <2>15, Kinds DEF Goto, TestObserver, call, outcome, config, history
  <2>16. CASE NotifyObserver(t)
    BY <2>0, <2>16, Kinds DEF Goto, NotifyObserver, call, outcome, config, history
  <2> QED  BY <1>2, <2>1, <2>2, <2>3, <2>4, <2>5, <2>6, <2>7, <2>8, <2>9, <2>10, <2>11,
    <2>12, <2>13, <2>14, <2>15, <2>16 DEF CallStep
<1>3. CASE Configure
  <2>0. UNCHANGED call  BY <1>3 DEF Configure
  <2>1. ASSUME NEW m \in 0..Mods, NEW w \in (Targets \cap alive) \cup {None}, SetWriter(m,
    w) PROVE TypeOK'
    BY <2>0, <2>1 DEF SetWriter, InRange, Change, Moved, call, outcome, config, history
  <2>2. ASSUME NEW o \in (Observers \cap alive) \cup {None}, SetPrintObserver(o) PROVE
    TypeOK'
    BY <2>0, <2>2 DEF SetPrintObserver, Change, Moved, call, outcome, config, history
  <2>3. ASSUME NEW l \in Levels, SetMaxLevel(l) PROVE TypeOK'
    BY <2>0, <2>3 DEF SetMaxLevel, Change, call, outcome, config, history
  <2>4. ASSUME NEW b \in BOOLEAN, SetGeneratePrefix(b) \/ SetPrint2Stdout(b) PROVE TypeOK'
    <3>1. PICK g \in BOOLEAN, c \in BOOLEAN : Flip(g, c)
      BY ZenonT(60), <2>4 DEF SetGeneratePrefix, SetPrint2Stdout, TypeOK
    <3>2. gen' \in BOOLEAN /\ console' \in BOOLEAN
      BY <3>1, Zenon DEF Flip
    <3>3. flipped' \in [Threads -> BOOLEAN] /\ changes' \in Nat
      BY <3>1 DEF Flip, Change
    <3>4. UNCHANGED <<maxLevel, slot, observer, alive, lo, hi, moved>>
      BY <3>1 DEF Flip
    <3> QED  BY <2>0, <3>2, <3>3, <3>4 DEF call, outcome
  <2>5. CASE Shutdown
    BY <2>0, <2>5 DEF Shutdown, Change, Moved, call, outcome, config, history
  <2>6. ASSUME NEW x \in alive, Destroy(x) PROVE TypeOK'
    BY <2>0, <2>6 DEF Destroy, call, outcome, config, history
  <2> QED  BY <1>3, <2>1, <2>2, <2>3, <2>4, <2>5, <2>6 DEF Configure
<1>4. CASE UNCHANGED vars
  BY <1>4 DEF vars, call, outcome, config, history
<1> QED  BY <1>1, <1>2, <1>3, <1>4 DEF Next

\* No step takes a call to a place its kind does not pass.
LEMMA OnItsWayStep ==
    ASSUME TypeOK, OnItsWay, [Next]_vars
    PROVE  OnItsWay'
<1> USE DEF TypeOK, OnItsWay, Modules, ToWrite, AtSlot, ToShow
<1>1. ASSUME NEW t \in Threads, NEW o \in DOMAIN Entries, NEW l \in Levels,
             NEW m \in 0..Mods, Begin(t, o, l, m)
      PROVE OnItsWay'
  <2>1. Entered(t, o)
    BY <1>1, Enters
  <2> QED
    BY <1>1, <2>1, Kinds DEF Entered, Begin, call, outcome, config, history
<1>2. ASSUME NEW t \in Threads, CallStep(t) PROVE OnItsWay'
  <2>0. UNCHANGED <<config, mod, history>>  BY <1>2 DEF CallStep
  <2>1. CASE GetLevel(t)
    BY <2>0, <2>1, Kinds DEF Goto, GetLevel, Test, Passes, call, outcome, config, history
  <2>2. CASE FormatFails(t)
    BY <2>0, <2>2, Kinds DEF Goto, FormatFails, Passes, call, outcome, config, history
  <2>3. CASE MessageNow(t)
    BY <2>0, <2>3, Kinds DEF Goto, MessageNow, Test, Passes, call, outcome, config, history
  <2>4. CASE AddPrefix(t)
    BY <2>0, <2>4, Kinds DEF Goto, AddPrefix, call, outcome, config, history
  <2>5. CASE WriteString(t)
    BY <2>0, <2>5, Kinds DEF Goto, WriteString, Test, Passes, call, outcome, config, history
  <2>6. CASE Write(t)
    BY <2>0, <2>6, Kinds DEF Goto, Write, Test, Passes, AfterWrite, call, outcome, config,
      history
  <2>7. CASE TestSlot(t)
    BY <2>0, <2>7, Kinds DEF Goto, TestSlot, Otherwise, AfterWrite, call, outcome,
      config, history
  <2>8. CASE TestZero(t)
    BY <2>0, <2>8, Kinds DEF Goto, TestZero, HasDefault, AfterWrite, call,
      outcome, config, history
  <2>9. CASE UseSlot(t)
    BY <2>0, <2>9, Kinds DEF Goto, UseSlot, UseWriter, AfterWrite, call, outcome, config,
      history
  <2>10. CASE UseZero(t)
    BY <2>0, <2>10, Kinds DEF Goto, UseZero, UseWriter, AfterWrite, call, outcome,
      config, history
  <2>11. CASE ShowString(t)
    BY <2>0, <2>11, Kinds DEF Goto, ShowString, Test, Passes, call, outcome, config, history
  <2>12. CASE ShowMessage(t)
    BY <2>0, <2>12, Kinds DEF Goto, ShowMessage, Test, Passes, call, outcome, config,
      history
  <2>13. CASE ShowOnTerminal(t)
    BY <2>0, <2>13, Kinds DEF Goto, ShowOnTerminal, Prints, call, outcome, config, history
  <2>14. CASE TerminalFails(t)
    BY <2>0, <2>14, Kinds DEF Goto, TerminalFails, Prints, call, outcome, config, history
  <2>15. CASE TestObserver(t)
    BY <2>0, <2>15, Kinds DEF Goto, TestObserver, call, outcome, config, history
  <2>16. CASE NotifyObserver(t)
    BY <2>0, <2>16, Kinds DEF Goto, NotifyObserver, call, outcome, config, history
  <2> QED  BY <1>2, <2>1, <2>2, <2>3, <2>4, <2>5, <2>6, <2>7, <2>8, <2>9, <2>10, <2>11,
    <2>12, <2>13, <2>14, <2>15, <2>16 DEF CallStep
<1>3. CASE Configure
  <2>0. UNCHANGED call  BY <1>3 DEF Configure
  <2>1. ASSUME NEW m \in 0..Mods, NEW w \in (Targets \cap alive) \cup {None}, SetWriter(m,
    w) PROVE OnItsWay'
    BY <2>0, <2>1 DEF SetWriter, InRange, Change, Moved, call, outcome, config, history
  <2>2. ASSUME NEW o \in (Observers \cap alive) \cup {None}, SetPrintObserver(o) PROVE
    OnItsWay'
    BY <2>0, <2>2 DEF SetPrintObserver, Change, Moved, call, outcome, config, history
  <2>3. ASSUME NEW l \in Levels, SetMaxLevel(l) PROVE OnItsWay'
    BY <2>0, <2>3 DEF SetMaxLevel, Change, call, outcome, config, history
  <2>4. ASSUME NEW b \in BOOLEAN, SetGeneratePrefix(b) \/ SetPrint2Stdout(b) PROVE OnItsWay'
    BY <2>0, <2>4 DEF SetGeneratePrefix, SetPrint2Stdout, Flip, Change, call, outcome,
      config, history
  <2>5. CASE Shutdown
    BY <2>0, <2>5 DEF Shutdown, Change, Moved, call, outcome, config, history
  <2>6. ASSUME NEW x \in alive, Destroy(x) PROVE OnItsWay'
    BY <2>0, <2>6 DEF Destroy, call, outcome, config, history
  <2> QED  BY <1>3, <2>1, <2>2, <2>3, <2>4, <2>5, <2>6 DEF Configure
<1>4. CASE UNCHANGED vars
  BY <1>4 DEF vars, call, outcome, config, history
<1> QED  BY <1>1, <1>2, <1>3, <1>4 DEF Next

\* Whoever sets the level, it stays between the least and the greatest of each call.
LEMMA LevelStep ==
    ASSUME TypeOK, LevelRange, [Next]_vars
    PROVE  LevelRange'
<1> USE DEF TypeOK, LevelRange, Levels
<1>1. ASSUME NEW t \in Threads, NEW o \in DOMAIN Entries, NEW l \in Levels,
             NEW m \in 0..Mods, Begin(t, o, l, m)
      PROVE LevelRange'
  <2>1. Entered(t, o)
    BY <1>1, Enters
  <2> QED
    BY <1>1, <2>1, Kinds DEF Entered, Begin, call, outcome, config, history
<1>2. ASSUME NEW t \in Threads, CallStep(t) PROVE LevelRange'
  <2>0. UNCHANGED <<config, mod, history>>  BY <1>2 DEF CallStep
  <2>1. CASE GetLevel(t)
    BY <2>0, <2>1, Kinds DEF Goto, GetLevel, Test, Passes, call, outcome, config, history
  <2>2. CASE FormatFails(t)
    BY <2>0, <2>2, Kinds DEF Goto, FormatFails, Passes, call, outcome, config, history
  <2>3. CASE MessageNow(t)
    BY <2>0, <2>3, Kinds DEF Goto, MessageNow, Test, Passes, call, outcome, config, history
  <2>4. CASE AddPrefix(t)
    BY <2>0, <2>4, Kinds DEF Goto, AddPrefix, call, outcome, config, history
  <2>5. CASE WriteString(t)
    BY <2>0, <2>5, Kinds DEF Goto, WriteString, Test, Passes, call, outcome, config, history
  <2>6. CASE Write(t)
    BY <2>0, <2>6, Kinds DEF Goto, Write, Test, Passes, AfterWrite, call, outcome, config,
      history
  <2>7. CASE TestSlot(t)
    BY <2>0, <2>7, Kinds DEF Goto, TestSlot, Otherwise, AfterWrite, call, outcome,
      config, history
  <2>8. CASE TestZero(t)
    BY <2>0, <2>8, Kinds DEF Goto, TestZero, HasDefault, AfterWrite, call,
      outcome, config, history
  <2>9. CASE UseSlot(t)
    BY <2>0, <2>9, Kinds DEF Goto, UseSlot, UseWriter, AfterWrite, call, outcome, config,
      history
  <2>10. CASE UseZero(t)
    BY <2>0, <2>10, Kinds DEF Goto, UseZero, UseWriter, AfterWrite, call, outcome,
      config, history
  <2>11. CASE ShowString(t)
    BY <2>0, <2>11, Kinds DEF Goto, ShowString, Test, Passes, call, outcome, config, history
  <2>12. CASE ShowMessage(t)
    BY <2>0, <2>12, Kinds DEF Goto, ShowMessage, Test, Passes, call, outcome, config,
      history
  <2>13. CASE ShowOnTerminal(t)
    BY <2>0, <2>13, Kinds DEF Goto, ShowOnTerminal, Prints, call, outcome, config, history
  <2>14. CASE TerminalFails(t)
    BY <2>0, <2>14, Kinds DEF Goto, TerminalFails, Prints, call, outcome, config, history
  <2>15. CASE TestObserver(t)
    BY <2>0, <2>15, Kinds DEF Goto, TestObserver, call, outcome, config, history
  <2>16. CASE NotifyObserver(t)
    BY <2>0, <2>16, Kinds DEF Goto, NotifyObserver, call, outcome, config, history
  <2> QED  BY <1>2, <2>1, <2>2, <2>3, <2>4, <2>5, <2>6, <2>7, <2>8, <2>9, <2>10, <2>11,
    <2>12, <2>13, <2>14, <2>15, <2>16 DEF CallStep
<1>3. CASE Configure
  <2>0. UNCHANGED call  BY <1>3 DEF Configure
  <2>1. ASSUME NEW m \in 0..Mods, NEW w \in (Targets \cap alive) \cup {None}, SetWriter(m,
    w) PROVE LevelRange'
    BY <2>0, <2>1 DEF SetWriter, InRange, Change, Moved, call, outcome, config, history
  <2>2. ASSUME NEW o \in (Observers \cap alive) \cup {None}, SetPrintObserver(o) PROVE
    LevelRange'
    BY <2>0, <2>2 DEF SetPrintObserver, Change, Moved, call, outcome, config, history
  <2>3. ASSUME NEW l \in Levels, SetMaxLevel(l) PROVE LevelRange'
    BY <2>0, <2>3 DEF SetMaxLevel, Change, call, outcome, config, history
  <2>4. ASSUME NEW b \in BOOLEAN, SetGeneratePrefix(b) \/ SetPrint2Stdout(b) PROVE
    LevelRange'
    BY <2>0, <2>4 DEF SetGeneratePrefix, SetPrint2Stdout, Flip, Change, call, outcome,
      config, history
  <2>5. CASE Shutdown
    BY <2>0, <2>5 DEF Shutdown, Change, Moved, call, outcome, config, history
  <2>6. ASSUME NEW x \in alive, Destroy(x) PROVE LevelRange'
    BY <2>0, <2>6 DEF Destroy, call, outcome, config, history
  <2> QED  BY <1>3, <2>1, <2>2, <2>3, <2>4, <2>5, <2>6 DEF Configure
<1>4. CASE UNCHANGED vars
  BY <1>4 DEF vars, call, outcome, config, history
<1> QED  BY <1>1, <1>2, <1>3, <1>4 DEF Next

\* Nobody is called before the level was tested.
LEMMA TestedStep ==
    ASSUME TypeOK, OnItsWay, LevelRange, Tested, [Next]_vars
    PROVE  Tested'
<1> USE DEF TypeOK, OnItsWay, LevelRange, Tested, Levels, ToWrite, AtSlot, ToShow
<1>1. ASSUME NEW t \in Threads, NEW o \in DOMAIN Entries, NEW l \in Levels,
             NEW m \in 0..Mods, Begin(t, o, l, m)
      PROVE Tested'
  <2>1. Entered(t, o)
    BY <1>1, Enters
  <2> QED
    BY <1>1, <2>1, Kinds DEF Entered, Begin, call, outcome, config, history
<1>2. ASSUME NEW t \in Threads, CallStep(t) PROVE Tested'
  <2>0. UNCHANGED <<config, mod, history>>  BY <1>2 DEF CallStep
  <2>1. CASE GetLevel(t)
    BY <2>0, <2>1, Kinds DEF Goto, GetLevel, Test, Passes, call, outcome, config, history
  <2>2. CASE FormatFails(t)
    BY <2>0, <2>2, Kinds DEF Goto, FormatFails, Passes, call, outcome, config, history
  <2>3. CASE MessageNow(t)
    BY <2>0, <2>3, Kinds DEF Goto, MessageNow, Test, Passes, call, outcome, config, history
  <2>4. CASE AddPrefix(t)
    BY <2>0, <2>4, Kinds DEF Goto, AddPrefix, call, outcome, config, history
  <2>5. CASE WriteString(t)
    BY <2>0, <2>5, Kinds DEF Goto, WriteString, Test, Passes, call, outcome, config, history
  <2>6. CASE Write(t)
    BY <2>0, <2>6, Kinds DEF Goto, Write, Test, Passes, AfterWrite, call, outcome, config,
      history
  <2>7. CASE TestSlot(t)
    BY <2>0, <2>7, Kinds DEF Goto, TestSlot, Otherwise, AfterWrite, call, outcome,
      config, history
  <2>8. CASE TestZero(t)
    BY <2>0, <2>8, Kinds DEF Goto, TestZero, HasDefault, AfterWrite, call,
      outcome, config, history
  <2>9. CASE UseSlot(t)
    BY <2>0, <2>9, Kinds DEF Goto, UseSlot, UseWriter, AfterWrite, call, outcome, config,
      history
  <2>10. CASE UseZero(t)
    BY <2>0, <2>10, Kinds DEF Goto, UseZero, UseWriter, AfterWrite, call, outcome,
      config, history
  <2>11. CASE ShowString(t)
    BY <2>0, <2>11, Kinds DEF Goto, ShowString, Test, Passes, call, outcome, config, history
  <2>12. CASE ShowMessage(t)
    BY <2>0, <2>12, Kinds DEF Goto, ShowMessage, Test, Passes, call, outcome, config,
      history
  <2>13. CASE ShowOnTerminal(t)
    BY <2>0, <2>13, Kinds DEF Goto, ShowOnTerminal, Prints, call, outcome, config, history
  <2>14. CASE TerminalFails(t)
    BY <2>0, <2>14, Kinds DEF Goto, TerminalFails, Prints, call, outcome, config, history
  <2>15. CASE TestObserver(t)
    BY <2>0, <2>15, Kinds DEF Goto, TestObserver, call, outcome, config, history
  <2>16. CASE NotifyObserver(t)
    BY <2>0, <2>16, Kinds DEF Goto, NotifyObserver, call, outcome, config, history
  <2> QED  BY <1>2, <2>1, <2>2, <2>3, <2>4, <2>5, <2>6, <2>7, <2>8, <2>9, <2>10, <2>11,
    <2>12, <2>13, <2>14, <2>15, <2>16 DEF CallStep
<1>3. CASE Configure
  <2>0. UNCHANGED call  BY <1>3 DEF Configure
  <2>1. ASSUME NEW m \in 0..Mods, NEW w \in (Targets \cap alive) \cup {None}, SetWriter(m,
    w) PROVE Tested'
    BY <2>0, <2>1 DEF SetWriter, InRange, Change, Moved, call, outcome, config, history
  <2>2. ASSUME NEW o \in (Observers \cap alive) \cup {None}, SetPrintObserver(o) PROVE
    Tested'
    BY <2>0, <2>2 DEF SetPrintObserver, Change, Moved, call, outcome, config, history
  <2>3. ASSUME NEW l \in Levels, SetMaxLevel(l) PROVE Tested'
    BY <2>0, <2>3 DEF SetMaxLevel, Change, call, outcome, config, history
  <2>4. ASSUME NEW b \in BOOLEAN, SetGeneratePrefix(b) \/ SetPrint2Stdout(b) PROVE Tested'
    BY <2>0, <2>4 DEF SetGeneratePrefix, SetPrint2Stdout, Flip, Change, call, outcome,
      config, history
  <2>5. CASE Shutdown
    BY <2>0, <2>5 DEF Shutdown, Change, Moved, call, outcome, config, history
  <2>6. ASSUME NEW x \in alive, Destroy(x) PROVE Tested'
    BY <2>0, <2>6 DEF Destroy, call, outcome, config, history
  <2> QED  BY <1>3, <2>1, <2>2, <2>3, <2>4, <2>5, <2>6 DEF Configure
<1>4. CASE UNCHANGED vars
  BY <1>4 DEF vars, call, outcome, config, history
<1> QED  BY <1>1, <1>2, <1>3, <1>4 DEF Next

\* An object is deleted only when no slot names it.
LEMMA DanglingStep ==
    ASSUME TypeOK, NoneDangling, [Next]_vars
    PROVE  NoneDangling'
<1> USE DEF TypeOK, NoneDangling, Modules
<1>1. ASSUME NEW t \in Threads, NEW o \in DOMAIN Entries, NEW l \in Levels,
             NEW m \in 0..Mods, Begin(t, o, l, m)
      PROVE NoneDangling'
  <2>1. Entered(t, o)
    BY <1>1, Enters
  <2> QED
    BY <1>1, <2>1, Kinds DEF Entered, Begin, call, outcome, config, history
<1>2. ASSUME NEW t \in Threads, CallStep(t) PROVE NoneDangling'
  <2>0. UNCHANGED <<config, mod, history>>  BY <1>2 DEF CallStep
  <2>1. CASE GetLevel(t)
    BY <2>0, <2>1, Kinds DEF Goto, GetLevel, Test, Passes, call, outcome, config, history
  <2>2. CASE FormatFails(t)
    BY <2>0, <2>2, Kinds DEF Goto, FormatFails, Passes, call, outcome, config, history
  <2>3. CASE MessageNow(t)
    BY <2>0, <2>3, Kinds DEF Goto, MessageNow, Test, Passes, call, outcome, config, history
  <2>4. CASE AddPrefix(t)
    BY <2>0, <2>4, Kinds DEF Goto, AddPrefix, call, outcome, config, history
  <2>5. CASE WriteString(t)
    BY <2>0, <2>5, Kinds DEF Goto, WriteString, Test, Passes, call, outcome, config, history
  <2>6. CASE Write(t)
    BY <2>0, <2>6, Kinds DEF Goto, Write, Test, Passes, AfterWrite, call, outcome, config,
      history
  <2>7. CASE TestSlot(t)
    BY <2>0, <2>7, Kinds DEF Goto, TestSlot, Otherwise, AfterWrite, call, outcome,
      config, history
  <2>8. CASE TestZero(t)
    BY <2>0, <2>8, Kinds DEF Goto, TestZero, HasDefault, AfterWrite, call,
      outcome, config, history
  <2>9. CASE UseSlot(t)
    BY <2>0, <2>9, Kinds DEF Goto, UseSlot, UseWriter, AfterWrite, call, outcome, config,
      history
  <2>10. CASE UseZero(t)
    BY <2>0, <2>10, Kinds DEF Goto, UseZero, UseWriter, AfterWrite, call, outcome,
      config, history
  <2>11. CASE ShowString(t)
    BY <2>0, <2>11, Kinds DEF Goto, ShowString, Test, Passes, call, outcome, config, history
  <2>12. CASE ShowMessage(t)
    BY <2>0, <2>12, Kinds DEF Goto, ShowMessage, Test, Passes, call, outcome, config,
      history
  <2>13. CASE ShowOnTerminal(t)
    BY <2>0, <2>13, Kinds DEF Goto, ShowOnTerminal, Prints, call, outcome, config, history
  <2>14. CASE TerminalFails(t)
    BY <2>0, <2>14, Kinds DEF Goto, TerminalFails, Prints, call, outcome, config, history
  <2>15. CASE TestObserver(t)
    BY <2>0, <2>15, Kinds DEF Goto, TestObserver, call, outcome, config, history
  <2>16. CASE NotifyObserver(t)
    BY <2>0, <2>16, Kinds DEF Goto, NotifyObserver, call, outcome, config, history
  <2> QED  BY <1>2, <2>1, <2>2, <2>3, <2>4, <2>5, <2>6, <2>7, <2>8, <2>9, <2>10, <2>11,
    <2>12, <2>13, <2>14, <2>15, <2>16 DEF CallStep
<1>3. CASE Configure
  <2>0. UNCHANGED call  BY <1>3 DEF Configure
  <2>1. ASSUME NEW m \in 0..Mods, NEW w \in (Targets \cap alive) \cup {None}, SetWriter(m,
    w) PROVE NoneDangling'
    BY <2>0, <2>1 DEF SetWriter, InRange, Change, Moved, call, outcome, config, history
  <2>2. ASSUME NEW o \in (Observers \cap alive) \cup {None}, SetPrintObserver(o) PROVE
    NoneDangling'
    BY <2>0, <2>2 DEF SetPrintObserver, Change, Moved, call, outcome, config, history
  <2>3. ASSUME NEW l \in Levels, SetMaxLevel(l) PROVE NoneDangling'
    BY <2>0, <2>3 DEF SetMaxLevel, Change, call, outcome, config, history
  <2>4. ASSUME NEW b \in BOOLEAN, SetGeneratePrefix(b) \/ SetPrint2Stdout(b) PROVE
    NoneDangling'
    BY <2>0, <2>4 DEF SetGeneratePrefix, SetPrint2Stdout, Flip, Change, call, outcome,
      config, history
  <2>5. CASE Shutdown
    BY <2>0, <2>5 DEF Shutdown, Change, Moved, call, outcome, config, history
  <2>6. ASSUME NEW x \in alive, Destroy(x) PROVE NoneDangling'
    BY <2>0, <2>6 DEF Destroy, call, outcome, config, history
  <2> QED  BY <1>3, <2>1, <2>2, <2>3, <2>4, <2>5, <2>6 DEF Configure
<1>4. CASE UNCHANGED vars
  BY <1>4 DEF vars, call, outcome, config, history
<1> QED  BY <1>1, <1>2, <1>3, <1>4 DEF Next

\* What a call has tested stays as it is, or a replacement is recorded.
LEMMA CurrentStep ==
    ASSUME TypeOK, OnItsWay, Current, [Next]_vars
    PROVE  Current'
<1> USE DEF TypeOK, OnItsWay, Current, Modules, AtSlot
<1>1. ASSUME NEW t \in Threads, NEW o \in DOMAIN Entries, NEW l \in Levels,
             NEW m \in 0..Mods, Begin(t, o, l, m)
      PROVE Current'
  <2>1. Entered(t, o)
    BY <1>1, Enters
  <2> QED
    BY <1>1, <2>1, Kinds DEF Entered, Begin, call, outcome, config, history
<1>2. ASSUME NEW t \in Threads, CallStep(t) PROVE Current'
  <2>0. UNCHANGED <<config, mod, history>>  BY <1>2 DEF CallStep
  <2>1. CASE GetLevel(t)
    BY <2>0, <2>1, Kinds DEF Goto, GetLevel, Test, Passes, call, outcome, config, history
  <2>2. CASE FormatFails(t)
    BY <2>0, <2>2, Kinds DEF Goto, FormatFails, Passes, call, outcome, config, history
  <2>3. CASE MessageNow(t)
    BY <2>0, <2>3, Kinds DEF Goto, MessageNow, Test, Passes, call, outcome, config, history
  <2>4. CASE AddPrefix(t)
    BY <2>0, <2>4, Kinds DEF Goto, AddPrefix, call, outcome, config, history
  <2>5. CASE WriteString(t)
    BY <2>0, <2>5, Kinds DEF Goto, WriteString, Test, Passes, call, outcome, config, history
  <2>6. CASE Write(t)
    BY <2>0, <2>6, Kinds DEF Goto, Write, Test, Passes, AfterWrite, call, outcome, config,
      history
  <2>7. CASE TestSlot(t)
    BY <2>0, <2>7, Kinds DEF Goto, TestSlot, Otherwise, AfterWrite, call, outcome,
      config, history
  <2>8. CASE TestZero(t)
    BY <2>0, <2>8, Kinds DEF Goto, TestZero, HasDefault, AfterWrite, call,
      outcome, config, history
  <2>9. CASE UseSlot(t)
    BY <2>0, <2>9, Kinds DEF Goto, UseSlot, UseWriter, AfterWrite, call, outcome, config,
      history
  <2>10. CASE UseZero(t)
    BY <2>0, <2>10, Kinds DEF Goto, UseZero, UseWriter, AfterWrite, call, outcome,
      config, history
  <2>11. CASE ShowString(t)
    BY <2>0, <2>11, Kinds DEF Goto, ShowString, Test, Passes, call, outcome, config, history
  <2>12. CASE ShowMessage(t)
    BY <2>0, <2>12, Kinds DEF Goto, ShowMessage, Test, Passes, call, outcome, config,
      history
  <2>13. CASE ShowOnTerminal(t)
    BY <2>0, <2>13, Kinds DEF Goto, ShowOnTerminal, Prints, call, outcome, config, history
  <2>14. CASE TerminalFails(t)
    BY <2>0, <2>14, Kinds DEF Goto, TerminalFails, Prints, call, outcome, config, history
  <2>15. CASE TestObserver(t)
    BY <2>0, <2>15, Kinds DEF Goto, TestObserver, call, outcome, config, history
  <2>16. CASE NotifyObserver(t)
    BY <2>0, <2>16, Kinds DEF Goto, NotifyObserver, call, outcome, config, history
  <2> QED  BY <1>2, <2>1, <2>2, <2>3, <2>4, <2>5, <2>6, <2>7, <2>8, <2>9, <2>10, <2>11,
    <2>12, <2>13, <2>14, <2>15, <2>16 DEF CallStep
<1>3. CASE Configure
  <2>0. UNCHANGED call  BY <1>3 DEF Configure
  <2>1. ASSUME NEW m \in 0..Mods, NEW w \in (Targets \cap alive) \cup {None}, SetWriter(m,
    w) PROVE Current'
    BY <2>0, <2>1 DEF SetWriter, InRange, Change, Moved, call, outcome, config, history
  <2>2. ASSUME NEW o \in (Observers \cap alive) \cup {None}, SetPrintObserver(o) PROVE
    Current'
    BY <2>0, <2>2 DEF SetPrintObserver, Change, Moved, call, outcome, config, history
  <2>3. ASSUME NEW l \in Levels, SetMaxLevel(l) PROVE Current'
    BY <2>0, <2>3 DEF SetMaxLevel, Change, call, outcome, config, history
  <2>4. ASSUME NEW b \in BOOLEAN, SetGeneratePrefix(b) \/ SetPrint2Stdout(b) PROVE Current'
    BY <2>0, <2>4 DEF SetGeneratePrefix, SetPrint2Stdout, Flip, Change, call, outcome,
      config, history
  <2>5. CASE Shutdown
    BY <2>0, <2>5 DEF Shutdown, Change, Moved, call, outcome, config, history
  <2>6. ASSUME NEW x \in alive, Destroy(x) PROVE Current'
    BY <2>0, <2>6 DEF Destroy, call, outcome, config, history
  <2> QED  BY <1>3, <2>1, <2>2, <2>3, <2>4, <2>5, <2>6 DEF Configure
<1>4. CASE UNCHANGED vars
  BY <1>4 DEF vars, call, outcome, config, history
<1> QED  BY <1>1, <1>2, <1>3, <1>4 DEF Next

\* A call that is on its way to the observer has finished with the writer.
LEMMA WrittenStep ==
    ASSUME TypeOK, OnItsWay, LevelRange, Tested, Current, Written, [Next]_vars
    PROVE  Written'
<1> USE DEF TypeOK, OnItsWay, LevelRange, Tested, Current, Written, Route, Modules, Levels,
        ToWrite, AtSlot, ToShow
<1>1. ASSUME NEW t \in Threads, NEW o \in DOMAIN Entries, NEW l \in Levels,
             NEW m \in 0..Mods, Begin(t, o, l, m)
      PROVE Written'
  <2>1. Entered(t, o)
    BY <1>1, Enters
  <2> QED
    BY SMTT(60), <1>1, <2>1, Kinds DEF Entered, Begin, call, outcome, config, history
<1>2. ASSUME NEW t \in Threads, CallStep(t) PROVE Written'
  <2>0. UNCHANGED <<config, mod, history>>  BY <1>2 DEF CallStep
  <2>1. CASE GetLevel(t)
    BY <2>0, <2>1, Kinds DEF Goto, GetLevel, Test, Passes, call, outcome, config, history
  <2>2. CASE FormatFails(t)
    BY <2>0, <2>2, Kinds DEF Goto, FormatFails, Passes, call, outcome, config, history
  <2>3. CASE MessageNow(t)
    BY <2>0, <2>3, Kinds DEF Goto, MessageNow, Test, Passes, call, outcome, config, history
  <2>4. CASE AddPrefix(t)
    BY <2>0, <2>4, Kinds DEF Goto, AddPrefix, call, outcome, config, history
  <2>5. CASE WriteString(t)
    BY <2>0, <2>5, Kinds DEF Goto, WriteString, Test, Passes, call, outcome, config, history
  <2>6. CASE Write(t)
    BY <2>0, <2>6, Kinds DEF Goto, Write, Test, Passes, AfterWrite, call, outcome, config,
      history
  <2>7. CASE TestSlot(t)
    BY <2>0, <2>7, Kinds DEF Goto, TestSlot, Otherwise, AfterWrite, call, outcome,
      config, history
  <2>8. CASE TestZero(t)
    BY <2>0, <2>8, Kinds DEF Goto, TestZero, HasDefault, AfterWrite, call,
      outcome, config, history
  <2>9. CASE UseSlot(t)
    BY <2>0, <2>9, Kinds DEF Goto, UseSlot, UseWriter, AfterWrite, call, outcome, config,
      history
  <2>10. CASE UseZero(t)
    BY <2>0, <2>10, Kinds DEF Goto, UseZero, UseWriter, AfterWrite, call, outcome,
      config, history
  <2>11. CASE ShowString(t)
    BY <2>0, <2>11, Kinds DEF Goto, ShowString, Test, Passes, call, outcome, config, history
  <2>12. CASE ShowMessage(t)
    BY <2>0, <2>12, Kinds DEF Goto, ShowMessage, Test, Passes, call, outcome, config,
      history
  <2>13. CASE ShowOnTerminal(t)
    BY <2>0, <2>13, Kinds DEF Goto, ShowOnTerminal, Prints, call, outcome, config, history
  <2>14. CASE TerminalFails(t)
    BY <2>0, <2>14, Kinds DEF Goto, TerminalFails, Prints, call, outcome, config, history
  <2>15. CASE TestObserver(t)
    BY <2>0, <2>15, Kinds DEF Goto, TestObserver, call, outcome, config, history
  <2>16. CASE NotifyObserver(t)
    BY <2>0, <2>16, Kinds DEF Goto, NotifyObserver, call, outcome, config, history
  <2> QED  BY <1>2, <2>1, <2>2, <2>3, <2>4, <2>5, <2>6, <2>7, <2>8, <2>9, <2>10, <2>11,
    <2>12, <2>13, <2>14, <2>15, <2>16 DEF CallStep
<1>3. CASE Configure
  <2>0. UNCHANGED call  BY <1>3 DEF Configure
  <2>1. ASSUME NEW m \in 0..Mods, NEW w \in (Targets \cap alive) \cup {None}, SetWriter(m,
    w) PROVE Written'
    BY <2>0, <2>1 DEF SetWriter, InRange, Change, Moved, call, outcome, config, history
  <2>2. ASSUME NEW o \in (Observers \cap alive) \cup {None}, SetPrintObserver(o) PROVE
    Written'
    BY <2>0, <2>2 DEF SetPrintObserver, Change, Moved, call, outcome, config, history
  <2>3. ASSUME NEW l \in Levels, SetMaxLevel(l) PROVE Written'
    BY <2>0, <2>3 DEF SetMaxLevel, Change, call, outcome, config, history
  <2>4. ASSUME NEW b \in BOOLEAN, SetGeneratePrefix(b) \/ SetPrint2Stdout(b) PROVE Written'
    BY <2>0, <2>4 DEF SetGeneratePrefix, SetPrint2Stdout, Flip, Change, call, outcome,
      config, history
  <2>5. CASE Shutdown
    BY <2>0, <2>5 DEF Shutdown, Change, Moved, call, outcome, config, history
  <2>6. ASSUME NEW x \in alive, Destroy(x) PROVE Written'
    BY <2>0, <2>6 DEF Destroy, call, outcome, config, history
  <2> QED  BY <1>3, <2>1, <2>2, <2>3, <2>4, <2>5, <2>6 DEF Configure
<1>4. CASE UNCHANGED vars
  BY <1>4 DEF vars, call, outcome, config, history
<1> QED  BY <1>1, <1>2, <1>3, <1>4 DEF Next

\* Prefix and terminal are as switched, or a switch is recorded.
LEMMA SwitchedStep ==
    ASSUME TypeOK, OnItsWay, LevelRange, Tested, Switched, [Next]_vars
    PROVE  Switched'
<1> USE DEF TypeOK, OnItsWay, LevelRange, Tested, Switched, AsSwitched, Levels, ToWrite, AtSlot, ToShow
<1>1. ASSUME NEW t \in Threads, NEW o \in DOMAIN Entries, NEW l \in Levels,
             NEW m \in 0..Mods, Begin(t, o, l, m)
      PROVE Switched'
  <2>1. Entered(t, o)
    BY <1>1, Enters
  <2>2. /\ pc'[t] # "idle" /\ op'[t] = o /\ text'[t] = FALSE
        /\ pc'[t] \in {"get", "write0", "write", "print0", "print"}
        /\ pc'[t] # "get" => o # "log"
    BY <1>1, <2>1, Kinds DEF Entered, Begin
  <2>3. ASSUME NEW u \in Threads, u # t
        PROVE  /\ UNCHANGED <<pc[u], op[u], level[u], mod[u], text[u], wrote[u]>>
               /\ UNCHANGED <<told[u], shown[u], threw[u], lo[u], hi[u], moved[u],
                 flipped[u]>>
    BY <1>1, <2>1, <2>3 DEF Entered, Begin
  <2>4. UNCHANGED <<slot, observer, gen, console>>  BY <1>1 DEF Begin, config
  <2>5. AsSwitched(t)'
    <3>1. ~text'[t] /\ (pc'[t] # "get" => ~(op'[t] = "log" /\ gen'))  BY <2>2
    <3> QED  BY <2>2, <3>1
  <2>6. ASSUME NEW u \in Threads, u # t PROVE AsSwitched(u)' <=> AsSwitched(u)
    BY <2>3, <2>4, <2>6
  <2> QED  BY <2>3, <2>5, <2>6 DEF Switched
<1>2. ASSUME NEW t \in Threads, CallStep(t) PROVE Switched'
  <2>0. UNCHANGED <<config, mod, history>>  BY <1>2 DEF CallStep
  <2>1. CASE GetLevel(t)
    BY <2>0, <2>1, Kinds DEF Goto, GetLevel, Test, Passes, call, outcome, config, history
  <2>2. CASE FormatFails(t)
    BY <2>0, <2>2, Kinds DEF Goto, FormatFails, Passes, call, outcome, config, history
  <2>3. CASE MessageNow(t)
    BY <2>0, <2>3, Kinds DEF Goto, MessageNow, Test, Passes, call, outcome, config, history
  <2>4. CASE AddPrefix(t)
    BY <2>0, <2>4, Kinds DEF Goto, AddPrefix, call, outcome, config, history
  <2>5. CASE WriteString(t)
    <3>1. pc[t] = "write0" /\ \E l \in {"write", "idle"} : pc' = [pc EXCEPT ![t] = l]
      BY <2>5 DEF WriteString, Test, Goto
    <3>2. UNCHANGED <<op, level, text, told, gen, console, flipped, lo>>
      BY <2>0, <2>5 DEF WriteString, Test, outcome, config, history
    <3>3. op[t] = "write"  BY <3>1
    <3> QED  BY <3>1, <3>2, <3>3
  <2>6. CASE Write(t)
    BY <2>0, <2>6, Kinds DEF Goto, Write, Test, Passes, AfterWrite, call, outcome, config,
      history
  <2>7. CASE TestSlot(t)
    BY <2>0, <2>7, Kinds DEF Goto, TestSlot, Otherwise, AfterWrite, call, outcome,
      config, history
  <2>8. CASE TestZero(t)
    BY <2>0, <2>8, Kinds DEF Goto, TestZero, HasDefault, AfterWrite, call,
      outcome, config, history
  <2>9. CASE UseSlot(t)
    BY <2>0, <2>9, Kinds DEF Goto, UseSlot, UseWriter, AfterWrite, call, outcome, config,
      history
  <2>10. CASE UseZero(t)
    BY <2>0, <2>10, Kinds DEF Goto, UseZero, UseWriter, AfterWrite, call, outcome,
      config, history
  <2>11. CASE ShowString(t)
    BY <2>0, <2>11, Kinds DEF Goto, ShowString, Test, Passes, call, outcome, config, history
  <2>12. CASE ShowMessage(t)
    BY <2>0, <2>12, Kinds DEF Goto, ShowMessage, Test, Passes, call, outcome, config,
      history
  <2>13. CASE ShowOnTerminal(t)
    BY <2>0, <2>13, Kinds DEF Goto, ShowOnTerminal, Prints, call, outcome, config, history
  <2>14. CASE TerminalFails(t)
    BY <2>0, <2>14, Kinds DEF Goto, TerminalFails, Prints, call, outcome, config, history
  <2>15. CASE TestObserver(t)
    BY <2>0, <2>15, Kinds DEF Goto, TestObserver, call, outcome, config, history
  <2>16. CASE NotifyObserver(t)
    BY <2>0, <2>16, Kinds DEF Goto, NotifyObserver, call, outcome, config, history
  <2> QED  BY <1>2, <2>1, <2>2, <2>3, <2>4, <2>5, <2>6, <2>7, <2>8, <2>9, <2>10, <2>11,
    <2>12, <2>13, <2>14, <2>15, <2>16 DEF CallStep
<1>3. CASE Configure
  <2>0. UNCHANGED call  BY <1>3 DEF Configure
  <2>1. ASSUME NEW m \in 0..Mods, NEW w \in (Targets \cap alive) \cup {None}, SetWriter(m,
    w) PROVE Switched'
    BY <2>0, <2>1 DEF SetWriter, InRange, Change, Moved, call, outcome, config, history
  <2>2. ASSUME NEW o \in (Observers \cap alive) \cup {None}, SetPrintObserver(o) PROVE
    Switched'
    BY <2>0, <2>2 DEF SetPrintObserver, Change, Moved, call, outcome, config, history
  <2>3. ASSUME NEW l \in Levels, SetMaxLevel(l) PROVE Switched'
    BY <2>0, <2>3 DEF SetMaxLevel, Change, call, outcome, config, history
  <2>4. ASSUME NEW b \in BOOLEAN, SetGeneratePrefix(b) \/ SetPrint2Stdout(b) PROVE Switched'
    BY <2>0, <2>4 DEF SetGeneratePrefix, SetPrint2Stdout, Flip, Change, call, outcome,
      config, history
  <2>5. CASE Shutdown
    BY <2>0, <2>5 DEF Shutdown, Change, Moved, call, outcome, config, history
  <2>6. ASSUME NEW x \in alive, Destroy(x) PROVE Switched'
    BY <2>0, <2>6 DEF Destroy, call, outcome, config, history
  <2> QED  BY <1>3, <2>1, <2>2, <2>3, <2>4, <2>5, <2>6 DEF Configure
<1>4. CASE UNCHANGED vars
  BY <1>4 DEF vars, call, outcome, config, history
<1> QED  BY <1>1, <1>2, <1>3, <1>4 DEF Next

\* A call above the level reaches nobody.
LEMMA SilentStep ==
    ASSUME TypeOK, Tested, AboveLevelSilent, [Next]_vars
    PROVE  AboveLevelSilent'
<1> USE DEF TypeOK, Tested, AboveLevelSilent, Levels, ToWrite, AtSlot, ToShow
<1>1. ASSUME NEW t \in Threads, NEW o \in DOMAIN Entries, NEW l \in Levels,
             NEW m \in 0..Mods, Begin(t, o, l, m)
      PROVE AboveLevelSilent'
  <2>1. Entered(t, o)
    BY <1>1, Enters
  <2> QED
    BY <1>1, <2>1, Kinds DEF Entered, Begin, call, outcome, config, history
<1>2. ASSUME NEW t \in Threads, CallStep(t) PROVE AboveLevelSilent'
  <2>0. UNCHANGED <<config, mod, history>>  BY <1>2 DEF CallStep
  <2>1. CASE GetLevel(t)
    BY <2>0, <2>1, Kinds DEF Goto, GetLevel, Test, Passes, call, outcome, config, history
  <2>2. CASE FormatFails(t)
    BY <2>0, <2>2, Kinds DEF Goto, FormatFails, Passes, call, outcome, config, history
  <2>3. CASE MessageNow(t)
    BY <2>0, <2>3, Kinds DEF Goto, MessageNow, Test, Passes, call, outcome, config, history
  <2>4. CASE AddPrefix(t)
    BY <2>0, <2>4, Kinds DEF Goto, AddPrefix, call, outcome, config, history
  <2>5. CASE WriteString(t)
    BY <2>0, <2>5, Kinds DEF Goto, WriteString, Test, Passes, call, outcome, config, history
  <2>6. CASE Write(t)
    BY <2>0, <2>6, Kinds DEF Goto, Write, Test, Passes, AfterWrite, call, outcome, config,
      history
  <2>7. CASE TestSlot(t)
    BY <2>0, <2>7, Kinds DEF Goto, TestSlot, Otherwise, AfterWrite, call, outcome,
      config, history
  <2>8. CASE TestZero(t)
    BY <2>0, <2>8, Kinds DEF Goto, TestZero, HasDefault, AfterWrite, call,
      outcome, config, history
  <2>9. CASE UseSlot(t)
    BY <2>0, <2>9, Kinds DEF Goto, UseSlot, UseWriter, AfterWrite, call, outcome, config,
      history
  <2>10. CASE UseZero(t)
    BY <2>0, <2>10, Kinds DEF Goto, UseZero, UseWriter, AfterWrite, call, outcome,
      config, history
  <2>11. CASE ShowString(t)
    BY <2>0, <2>11, Kinds DEF Goto, ShowString, Test, Passes, call, outcome, config, history
  <2>12. CASE ShowMessage(t)
    BY <2>0, <2>12, Kinds DEF Goto, ShowMessage, Test, Passes, call, outcome, config,
      history
  <2>13. CASE ShowOnTerminal(t)
    BY <2>0, <2>13, Kinds DEF Goto, ShowOnTerminal, Prints, call, outcome, config, history
  <2>14. CASE TerminalFails(t)
    BY <2>0, <2>14, Kinds DEF Goto, TerminalFails, Prints, call, outcome, config, history
  <2>15. CASE TestObserver(t)
    BY <2>0, <2>15, Kinds DEF Goto, TestObserver, call, outcome, config, history
  <2>16. CASE NotifyObserver(t)
    BY <2>0, <2>16, Kinds DEF Goto, NotifyObserver, call, outcome, config, history
  <2> QED  BY <1>2, <2>1, <2>2, <2>3, <2>4, <2>5, <2>6, <2>7, <2>8, <2>9, <2>10, <2>11,
    <2>12, <2>13, <2>14, <2>15, <2>16 DEF CallStep
<1>3. CASE Configure
  <2>0. UNCHANGED call  BY <1>3 DEF Configure
  <2>1. ASSUME NEW m \in 0..Mods, NEW w \in (Targets \cap alive) \cup {None}, SetWriter(m,
    w) PROVE AboveLevelSilent'
    BY <2>0, <2>1 DEF SetWriter, InRange, Change, Moved, call, outcome, config, history
  <2>2. ASSUME NEW o \in (Observers \cap alive) \cup {None}, SetPrintObserver(o) PROVE
    AboveLevelSilent'
    BY <2>0, <2>2 DEF SetPrintObserver, Change, Moved, call, outcome, config, history
  <2>3. ASSUME NEW l \in Levels, SetMaxLevel(l) PROVE AboveLevelSilent'
    BY <2>0, <2>3 DEF SetMaxLevel, Change, call, outcome, config, history
  <2>4. ASSUME NEW b \in BOOLEAN, SetGeneratePrefix(b) \/ SetPrint2Stdout(b) PROVE
    AboveLevelSilent'
    BY <2>0, <2>4 DEF SetGeneratePrefix, SetPrint2Stdout, Flip, Change, call, outcome,
      config, history
  <2>5. CASE Shutdown
    BY <2>0, <2>5 DEF Shutdown, Change, Moved, call, outcome, config, history
  <2>6. ASSUME NEW x \in alive, Destroy(x) PROVE AboveLevelSilent'
    BY <2>0, <2>6 DEF Destroy, call, outcome, config, history
  <2> QED  BY <1>3, <2>1, <2>2, <2>3, <2>4, <2>5, <2>6 DEF Configure
<1>4. CASE UNCHANGED vars
  BY <1>4 DEF vars, call, outcome, config, history
<1> QED  BY <1>1, <1>2, <1>3, <1>4 DEF Next

\* A call that ends has reached whom it should.
LEMMA DeliveredStep ==
    ASSUME TypeOK, OnItsWay, LevelRange, Tested, Current, Written, Switched, Delivered,
           [Next]_vars
    PROVE  Delivered'
<1> USE DEF TypeOK, OnItsWay, LevelRange, Tested, Current, Written, Switched, AsSwitched,
        Delivered, Arrived, Route, Audience, Modules, Levels, ToWrite, AtSlot, ToShow
<1>1. ASSUME NEW t \in Threads, NEW o \in DOMAIN Entries, NEW l \in Levels,
             NEW m \in 0..Mods, Begin(t, o, l, m)
      PROVE Delivered'
  <2>1. Entered(t, o)
    BY <1>1, Enters
  <2>2. /\ pc'[t] # "idle" /\ op'[t] = o /\ text'[t] = FALSE
        /\ pc'[t] \in {"get", "write0", "write", "print0", "print"}
        /\ pc'[t] # "get" => o # "log"
    BY <1>1, <2>1, Kinds DEF Entered, Begin
  <2>3. ASSUME NEW u \in Threads, u # t
        PROVE  /\ UNCHANGED <<pc[u], op[u], level[u], mod[u], text[u], wrote[u]>>
               /\ UNCHANGED <<told[u], shown[u], threw[u], lo[u], hi[u], moved[u],
                 flipped[u]>>
    BY <1>1, <2>1, <2>3 DEF Entered, Begin
  <2>4. UNCHANGED <<slot, observer, gen, console>>  BY <1>1 DEF Begin, config
  <2>5. ASSUME NEW u \in Threads, u # t PROVE Arrived(u)' <=> Arrived(u)
    BY SMTT(60), <2>3, <2>4, <2>5
  <2> HIDE DEF Arrived
  <2> QED  BY <2>2, <2>3, <2>5 DEF Delivered
<1>2. ASSUME NEW t \in Threads, CallStep(t) PROVE Delivered'
  <2>0. UNCHANGED <<config, mod, history>>  BY <1>2 DEF CallStep
  <2>1. CASE GetLevel(t)
    BY <2>0, <2>1, Kinds DEF Goto, GetLevel, Test, Passes, call, outcome, config, history
  <2>2. CASE FormatFails(t)
    BY <2>0, <2>2, Kinds DEF Goto, FormatFails, Passes, call, outcome, config, history
  <2>3. CASE MessageNow(t)
    BY <2>0, <2>3, Kinds DEF Goto, MessageNow, Test, Passes, call, outcome, config, history
  <2>4. CASE AddPrefix(t)
    BY <2>0, <2>4, Kinds DEF Goto, AddPrefix, call, outcome, config, history
  <2>5. CASE WriteString(t)
    BY <2>0, <2>5, Kinds DEF Goto, WriteString, Test, Passes, call, outcome, config, history
  <2>6. CASE Write(t)
    BY <2>0, <2>6, Kinds DEF Goto, Write, Test, Passes, AfterWrite, call, outcome, config,
      history
  <2>7. CASE TestSlot(t)
    BY <2>0, <2>7, Kinds DEF Goto, TestSlot, Otherwise, AfterWrite, call, outcome,
      config, history
  <2>8. CASE TestZero(t)
    BY <2>0, <2>8, Kinds DEF Goto, TestZero, HasDefault, AfterWrite, call,
      outcome, config, history
  <2>9. CASE UseSlot(t)
    BY <2>0, <2>9, Kinds DEF Goto, UseSlot, UseWriter, AfterWrite, call, outcome, config,
      history
  <2>10. CASE UseZero(t)
    BY <2>0, <2>10, Kinds DEF Goto, UseZero, UseWriter, AfterWrite, call, outcome,
      config, history
  <2>11. CASE ShowString(t)
    BY <2>0, <2>11, Kinds DEF Goto, ShowString, Test, Passes, call, outcome, config, history
  <2>12. CASE ShowMessage(t)
    BY <2>0, <2>12, Kinds DEF Goto, ShowMessage, Test, Passes, call, outcome, config,
      history
  <2>13. CASE ShowOnTerminal(t)
    BY <2>0, <2>13, Kinds DEF Goto, ShowOnTerminal, Prints, call, outcome, config, history
  <2>14. CASE TerminalFails(t)
    BY <2>0, <2>14, Kinds DEF Goto, TerminalFails, Prints, call, outcome, config, history
  <2>15. CASE TestObserver(t)
    BY <2>0, <2>15, Kinds DEF Goto, TestObserver, call, outcome, config, history
  <2>16. CASE NotifyObserver(t)
    BY <2>0, <2>16, Kinds DEF Goto, NotifyObserver, call, outcome, config, history
  <2> QED  BY <1>2, <2>1, <2>2, <2>3, <2>4, <2>5, <2>6, <2>7, <2>8, <2>9, <2>10, <2>11,
    <2>12, <2>13, <2>14, <2>15, <2>16 DEF CallStep
<1>3. CASE Configure
  <2>0. UNCHANGED call  BY <1>3 DEF Configure
  <2>1. ASSUME NEW m \in 0..Mods, NEW w \in (Targets \cap alive) \cup {None}, SetWriter(m,
    w) PROVE Delivered'
    BY <2>0, <2>1 DEF SetWriter, InRange, Change, Moved, call, outcome, config, history
  <2>2. ASSUME NEW o \in (Observers \cap alive) \cup {None}, SetPrintObserver(o) PROVE
    Delivered'
    BY <2>0, <2>2 DEF SetPrintObserver, Change, Moved, call, outcome, config, history
  <2>3. ASSUME NEW l \in Levels, SetMaxLevel(l) PROVE Delivered'
    BY <2>0, <2>3 DEF SetMaxLevel, Change, call, outcome, config, history
  <2>4. ASSUME NEW b \in BOOLEAN, SetGeneratePrefix(b) \/ SetPrint2Stdout(b) PROVE
    Delivered'
    BY <2>0, <2>4 DEF SetGeneratePrefix, SetPrint2Stdout, Flip, Change, call, outcome,
      config, history
  <2>5. CASE Shutdown
    BY <2>0, <2>5 DEF Shutdown, Change, Moved, call, outcome, config, history
  <2>6. ASSUME NEW x \in alive, Destroy(x) PROVE Delivered'
    BY <2>0, <2>6 DEF Destroy, call, outcome, config, history
  <2> QED  BY <1>3, <2>1, <2>2, <2>3, <2>4, <2>5, <2>6 DEF Configure
<1>4. CASE UNCHANGED vars
  BY <1>4 DEF vars, call, outcome, config, history
<1> QED  BY <1>1, <1>2, <1>3, <1>4 DEF Next

\* The object a step calls is alive, or a replacement was recorded.
LEMMA LiveStep ==
    ASSUME TypeOK, OnItsWay, NoneDangling, Current, [Next]_vars, NEW u \in Threads
    PROVE  /\ wrote'[u] \notin {wrote[u], Nobody} => wrote'[u] \in alive \/ moved[u]
           /\ shown'[u] \notin {shown[u], Nobody} => shown'[u] \in alive \/ moved[u]
<1> DEFINE Goal == /\ wrote'[u] \notin {wrote[u], Nobody} => wrote'[u] \in alive \/ moved[u]
                   /\ shown'[u] \notin {shown[u], Nobody} => shown'[u] \in alive \/ moved[u]
<1> SUFFICES Goal
  OBVIOUS
<1> USE DEF TypeOK, OnItsWay, NoneDangling, Current, Modules, AtSlot
<1>1. ASSUME NEW t \in Threads, NEW o \in DOMAIN Entries, NEW l \in Levels,
             NEW m \in 0..Mods, Begin(t, o, l, m)
      PROVE Goal
  <2>1. Entered(t, o)
    BY <1>1, Enters
  <2> QED
    BY <1>1, <2>1, Kinds DEF Entered, Begin, call, outcome, config, history
<1>2. ASSUME NEW t \in Threads, CallStep(t) PROVE Goal
  <2>0. UNCHANGED <<config, mod, history>>  BY <1>2 DEF CallStep
  <2>1. CASE GetLevel(t)
    BY <2>0, <2>1, Kinds DEF Goto, GetLevel, Test, Passes, call, outcome, config, history
  <2>2. CASE FormatFails(t)
    BY <2>0, <2>2, Kinds DEF Goto, FormatFails, Passes, call, outcome, config, history
  <2>3. CASE MessageNow(t)
    BY <2>0, <2>3, Kinds DEF Goto, MessageNow, Test, Passes, call, outcome, config, history
  <2>4. CASE AddPrefix(t)
    BY <2>0, <2>4, Kinds DEF Goto, AddPrefix, call, outcome, config, history
  <2>5. CASE WriteString(t)
    BY <2>0, <2>5, Kinds DEF Goto, WriteString, Test, Passes, call, outcome, config, history
  <2>6. CASE Write(t)
    BY <2>0, <2>6, Kinds DEF Goto, Write, Test, Passes, AfterWrite, call, outcome, config,
      history
  <2>7. CASE TestSlot(t)
    BY <2>0, <2>7, Kinds DEF Goto, TestSlot, Otherwise, AfterWrite, call, outcome,
      config, history
  <2>8. CASE TestZero(t)
    BY <2>0, <2>8, Kinds DEF Goto, TestZero, HasDefault, AfterWrite, call,
      outcome, config, history
  <2>9. CASE UseSlot(t)
    BY <2>0, <2>9, Kinds DEF Goto, UseSlot, UseWriter, AfterWrite, call, outcome, config,
      history
  <2>10. CASE UseZero(t)
    BY <2>0, <2>10, Kinds DEF Goto, UseZero, UseWriter, AfterWrite, call, outcome,
      config, history
  <2>11. CASE ShowString(t)
    BY <2>0, <2>11, Kinds DEF Goto, ShowString, Test, Passes, call, outcome, config, history
  <2>12. CASE ShowMessage(t)
    BY <2>0, <2>12, Kinds DEF Goto, ShowMessage, Test, Passes, call, outcome, config,
      history
  <2>13. CASE ShowOnTerminal(t)
    BY <2>0, <2>13, Kinds DEF Goto, ShowOnTerminal, Prints, call, outcome, config, history
  <2>14. CASE TerminalFails(t)
    BY <2>0, <2>14, Kinds DEF Goto, TerminalFails, Prints, call, outcome, config, history
  <2>15. CASE TestObserver(t)
    BY <2>0, <2>15, Kinds DEF Goto, TestObserver, call, outcome, config, history
  <2>16. CASE NotifyObserver(t)
    BY <2>0, <2>16, Kinds DEF Goto, NotifyObserver, call, outcome, config, history
  <2> QED  BY <1>2, <2>1, <2>2, <2>3, <2>4, <2>5, <2>6, <2>7, <2>8, <2>9, <2>10, <2>11,
    <2>12, <2>13, <2>14, <2>15, <2>16 DEF CallStep
<1>3. CASE Configure
  <2>0. UNCHANGED call  BY <1>3 DEF Configure
  <2>1. ASSUME NEW m \in 0..Mods, NEW w \in (Targets \cap alive) \cup {None}, SetWriter(m,
    w) PROVE Goal
    BY <2>0, <2>1 DEF SetWriter, InRange, Change, Moved, call, outcome, config, history
  <2>2. ASSUME NEW o \in (Observers \cap alive) \cup {None}, SetPrintObserver(o) PROVE Goal
    BY <2>0, <2>2 DEF SetPrintObserver, Change, Moved, call, outcome, config, history
  <2>3. ASSUME NEW l \in Levels, SetMaxLevel(l) PROVE Goal
    BY <2>0, <2>3 DEF SetMaxLevel, Change, call, outcome, config, history
  <2>4. ASSUME NEW b \in BOOLEAN, SetGeneratePrefix(b) \/ SetPrint2Stdout(b) PROVE Goal
    BY <2>0, <2>4 DEF SetGeneratePrefix, SetPrint2Stdout, Flip, Change, call, outcome,
      config, history
  <2>5. CASE Shutdown
    BY <2>0, <2>5 DEF Shutdown, Change, Moved, call, outcome, config, history
  <2>6. ASSUME NEW x \in alive, Destroy(x) PROVE Goal
    BY <2>0, <2>6 DEF Destroy, call, outcome, config, history
  <2> QED  BY <1>3, <2>1, <2>2, <2>3, <2>4, <2>5, <2>6 DEF Configure
<1>4. CASE UNCHANGED vars
  BY <1>4 DEF vars, call, outcome, config, history
<1> QED  BY <1>1, <1>2, <1>3, <1>4 DEF Next

------------------------------------------------------------------------------
(* The theorems *)

\* No step of a call or of the configuration breaks the invariant.
LEMMA LoggerStep == LoggerInv /\ [Next]_vars => LoggerInv'
<1> SUFFICES ASSUME LoggerInv, [Next]_vars PROVE LoggerInv'
  OBVIOUS
<1>1. TypeOK' /\ OnItsWay' /\ LevelRange'
  BY TypeStep, OnItsWayStep, LevelStep DEF LoggerInv
<1>2. Tested' /\ NoneDangling' /\ Current'
  BY TestedStep, DanglingStep, CurrentStep DEF LoggerInv
<1>3. Written' /\ Switched' /\ AboveLevelSilent' /\ Delivered'
  BY WrittenStep, SwitchedStep, SilentStep, DeliveredStep DEF LoggerInv
<1> QED  BY <1>1, <1>2, <1>3 DEF LoggerInv

\* However calls and changes of the configuration interleave, the invariant holds.
THEOREM LoggerInvariantHolds == Spec => []LoggerInv
BY LoggerInit, LoggerStep, PTL DEF Spec

\* Type correctness; the writers stay in an array of Mods slots.
THEOREM LoggerTypeOK == Spec => []TypeOK
<1>1. LoggerInv => TypeOK  BY DEF LoggerInv
<1> QED  BY <1>1, LoggerInvariantHolds, PTL

\* A message above the maximum level, throughout its call, reaches nobody.
THEOREM LoggerAboveLevelSilent == Spec => []AboveLevelSilent
<1>1. LoggerInv => AboveLevelSilent  BY DEF LoggerInv
<1> QED  BY <1>1, LoggerInvariantHolds, PTL

\* A message at or below the maximum level, throughout its call, reaches the writer of
\* its module, or else of module 0, and, if the terminal does not fail, the observer.
THEOREM LoggerDelivered == Spec => []Delivered
<1>1. LoggerInv => Delivered  BY DEF LoggerInv
<1> QED  BY <1>1, LoggerInvariantHolds, PTL

\* A null or deleted writer or observer is called only if one was replaced since the
\* call began.
THEOREM LoggerUsesLive == Spec => UsesLive
<1>1. LoggerInv /\ [Next]_vars =>
        [\A t \in Threads :
          /\ wrote'[t] \notin {wrote[t], Nobody} => wrote'[t] \in alive \/ moved[t]
          /\ shown'[t] \notin {shown[t], Nobody} => shown'[t] \in alive \/ moved[t]]_vars
  BY LiveStep DEF LoggerInv
<1> QED  BY <1>1, LoggerInvariantHolds, PTL DEF Spec, UsesLive
==============================================================================
