-------------------------- MODULE LogStorage_proof --------------------------
(***************************************************************************)
(* Proofs about the directory of log files, for any limits, any number of  *)
(* files and any interleaving of the storage thread, the prune task and    *)
(* other processes.                                                        *)
(***************************************************************************)
EXTENDS StorageSizes_proof

USE StorageAssumption DEF StorageAssumption

------------------------------------------------------------------------------
(* Files and keys *)

\* A new file, empty and as old as the moment.
LEMMA Created ==
    ASSUME Create
    PROVE  /\ ~Exists(name) /\ DOMAIN disk' = DOMAIN disk \cup {name}
           /\ disk'[name].size = 0 /\ disk'[name].time = now
           /\ \A f \in DOMAIN disk : f # name /\ disk'[f] = disk[f]
<1> DEFINE file == [size |-> 0, time |-> now]
<1>1. ~Exists(name) /\ disk' = Put(name, file)  BY DEF Create
<1>2. file.size = 0 /\ file.time = now
  OBVIOUS
<1> HIDE DEF file
<1> QED  BY <1>1, <1>2 DEF Put, Exists

\* A block makes the file longer, and as young as can be.
LEMMA Written ==
    ASSUME NEW k, Write(k)
    PROVE  /\ DOMAIN disk' = DOMAIN disk
           /\ Exists(active) => /\ disk'[active].size = disk[active].size + k
                               /\ disk'[active].time = now
           /\ \A f \in DOMAIN disk \ {active} : disk'[f] = disk[f]
<1> DEFINE file == [size |-> disk[active].size + k, time |-> now]
<1>1. Exists(active) => disk' = Put(active, file)  BY DEF Write
<1>2. ~Exists(active) => disk' = disk  BY DEF Write
<1>3. file.size = disk[active].size + k /\ file.time = now
  OBVIOUS
<1> HIDE DEF file
<1> QED  BY <1>1, <1>2, <1>3 DEF Put, Exists

\* What another process writes, to a file of its own.
LEMMA OtherWritten ==
    ASSUME NEW f, NEW k, OtherWrites(f, k)
    PROVE  /\ DOMAIN disk' = DOMAIN disk \cup {f}
           /\ disk'[f].size = k + IF Exists(f) THEN disk[f].size ELSE 0
           /\ disk'[f].size <= MaxOther /\ disk'[f].time = now
           /\ \A g \in DOMAIN disk \ {f} : disk'[g] = disk[g]
<1> DEFINE n == k + IF Exists(f) THEN disk[f].size ELSE 0
           file == [size |-> n, time |-> now]
<1>1. disk' = Put(f, file) /\ n <= MaxOther  BY DEF OtherWrites
<1>2. file.size = n /\ file.time = now
  OBVIOUS
<1> HIDE DEF file
<1>3. DOMAIN disk' = DOMAIN disk \cup {f} /\ disk'[f] = file /\ \A g \in DOMAIN disk \ {f} : disk'[g] = disk[g]
  BY <1>1 DEF Put
<1> QED  BY <1>1, <1>2, <1>3

\* The files of other processes have other names.
LEMMA ForeignNames ==
    ASSUME NEW f \in Foreign
    PROVE  f \in Names /\ f \notin Own
BY DEF Names, Own

\* The directory after a file was removed.
LEMMA Dropped ==
    ASSUME NEW f
    PROVE  /\ DOMAIN Drop(f) = DOMAIN disk \ {f}
           /\ \A g \in DOMAIN disk \ {f} : Drop(f)[g] = disk[g]
BY DEF Drop

\* No file has the name that stands for none.
LEMMA Unnamed == TypeOK => NoName \notin DOMAIN disk
BY DEF TypeOK, NoName, Own

\* With an epoch ahead the younger of two times has the greater key.
LEMMA AgeGrows ==
    ASSUME TypeOK, Epoch > MaxClock, NEW s \in 0..MaxClock, NEW t \in 0..MaxClock
    PROVE  /\ Age(s) \in Int
           /\ s < t => Age(s) < Age(t)
BY DEF Age, TypeOK

\* A sort key is a number, also that of a file that is gone.
LEMMA KeyType ==
    ASSUME TypeOK, NEW f
    PROVE  Key(f) \in Int
<1>1. f \in DOMAIN disk => disk[f].time \in Int  BY DEF TypeOK
<1> QED  BY <1>1 DEF Key, Age, Exists, TypeOK

\* No key is less than that of a file that is gone.
LEMMA KeyLeast ==
    ASSUME TypeOK, NEW f
    PROVE  -Word <= Key(f)
<1>1. f \in DOMAIN disk => disk[f].time \in 0..MaxClock  BY DEF TypeOK
<1> QED  BY <1>1 DEF Key, Age, Exists, TypeOK

\* Of two entries at most one precedes the other.
LEMMA PrecedesOnce ==
    ASSUME NEW x \in Int \X Names, NEW y \in Int \X Names, Precedes(x, y)
    PROVE  ~Precedes(y, x)
<1>1. /\ x[1] \in Int /\ y[1] \in Int
      /\ x[2][1] \in Int /\ x[2][2] \in Int /\ y[2][1] \in Int /\ y[2][2] \in Int
  BY DEF Names, Own
<1> QED  BY <1>1 DEF Precedes, Before
------------------------------------------------------------------------------
(* Types *)

\* Every variable starts with a value of its type.
LEMMA TypeInit == Init => TypeOK
<1> SUFFICES ASSUME Init PROVE TypeOK
  OBVIOUS
<1>1. maxFile \in Nat \ {0} /\ maxStorage \in Nat \ {0}
  BY DEF Init
<1>2. /\ DOMAIN disk \subseteq Foreign
      /\ \A f \in DOMAIN disk : disk[f].size \in 0..MaxOther /\ disk[f].time \in Dates
  BY DEF Init
<1>3. name \in Own /\ active \in Own /\ cur \in Names
  BY DEF Init, NoName, Names, Own
<1>4. /\ now = 1 /\ timenow = 0 /\ uAll = 0 /\ uAll \in 0..(Word - 1)
      /\ wpc = "start" /\ ppc = "idle"
      /\ listed = {} /\ unseen = {} /\ seen = {}
      /\ since = 0 /\ kept = 0 /\ vanished = 0 /\ fileSize = 0
  BY DEF Init
<1>5. /\ dir \in BOOLEAN /\ leaked \in BOOLEAN /\ pruning \in BOOLEAN /\ foreign \in BOOLEAN
  BY DEF Init
<1>6. written \in Nat
  <2>1. Directory(disk, MaxOther)  BY <1>2, ForeignNames DEF Directory
  <2>2. Total \in Nat  BY <2>1, SizeType DEF Total
  <2> QED  BY <2>2 DEF Init
<1>7. ASSUME NEW f \in DOMAIN disk
      PROVE  f \in Names /\ f \notin Own /\ disk[f].size \in Nat /\ disk[f].time \in 0..MaxClock
  <2>1. f \in Names /\ f \notin Own  BY <1>2, ForeignNames
  <2>2. disk[f].size \in 0..MaxOther /\ disk[f].time \in Dates  BY <1>2
  <2>3. disk[f].size \in Nat  BY <2>2
  <2>4. disk[f].time \in 0..MaxClock
    <3>1. Dates \subseteq 0..MaxClock  OBVIOUS
    <3> QED  BY <2>2, <3>1, Zenon
  <2> QED  BY <2>1, <2>3, <2>4
<1> QED  BY <1>1, <1>3, <1>4, <1>5, <1>6, <1>7 DEF TypeOK

\* Every step keeps the types: times not after the clock, names not after times.
LEMMA TypeStep ==
    ASSUME TypeOK, Naming, [Next]_vars
    PROVE  TypeOK'
<1> USE DEF TypeOK
<1>1. CASE StartStep
  BY ZenonT(60), <1>1 DEF StartStep, TestDirectory, MakeDirectory, MakeFails, GotoW,
     limits, task, pruner, history
<1>2. CASE StorageStep
  <2> USE DEF limits, task, pruner
  <2>1. ASSUME Create, name[2] \in 1..now, UNCHANGED now
        PROVE  /\ DOMAIN disk' \subseteq Names
               /\ \A f \in DOMAIN disk' :
                    /\ disk'[f].size \in Nat /\ disk'[f].time \in 0..MaxClock
                    /\ f \in Own => disk'[f].time <= now' /\ f[2] \in 1..disk'[f].time
    BY <2>1, Created DEF Names
  <2>2. CASE ChooseName
    BY <1>2, <2>2 DEF StorageStep, ChooseName, GotoW, Plain, Own
  <2>3. CASE Open
    BY <1>2, <2>1, <2>3 DEF StorageStep, Open, GotoW, Naming, NoName, Own
  <2>4. CASE OpenSeventeen
    BY <1>2, <2>1, <2>4 DEF StorageStep, OpenSeventeen, GotoW, Naming, Numbered, Own
  <2>5. CASE OpenTaken
    BY <1>2, <2>5 DEF StorageStep, OpenTaken, GotoW
  <2>6. ASSUME NEW k \in 1..MaxWrite, Write(k) PROVE TypeOK'
    <3>1. /\ DOMAIN disk' \subseteq Names
          /\ \A f \in DOMAIN disk' :
                /\ disk'[f].size \in Nat /\ disk'[f].time \in 0..MaxClock
                /\ f \in Own => disk'[f].time <= now /\ f[2] \in 1..disk'[f].time
      <4>1. Exists(active) => disk[active].size \in Nat /\ active[2] \in 1..now
        BY DEF Exists
      <4> QED  BY <2>6, <4>1, Written DEF Exists
    <3> QED  BY <1>2, <2>6, <3>1 DEF StorageStep, Write, GotoW
  <2> QED  BY <1>2, <2>2, <2>3, <2>4, <2>5, <2>6 DEF StorageStep
<1>3. CASE Roll
  <2>1. pruning' \in BOOLEAN /\ ppc' \in {"idle", "clock", "scan", "time", "delete", "remove", "ended"}
    BY <1>3 DEF Roll, AtWork
  <2>2. /\ UNCHANGED <<now, disk, dir, limits, name, leaked, task, history>>
        /\ active' = NoName /\ fileSize' = 0 /\ wpc' = "name"
    BY <1>3 DEF Roll, AtWork, GotoW
  <2> QED  BY <2>1, <2>2 DEF NoName, Own, limits, task, history
<1>4. CASE PruneStep
  <2> USE DEF limits, thread
  <2>1. \A n \in Int : Wrap(n) \in 0..(Word - 1)
    BY DEF Wrap
  <2>2. \A f : SizeOf(f) \in Int
    BY DEF SizeOf, Exists
  <2>3. CASE ReadClock
    BY <1>4, <2>3 DEF PruneStep, ReadClock, GotoP
  <2>4. ASSUME NEW f \in unseen \cup DOMAIN disk, ScanSize(f) PROVE TypeOK'
    BY <1>4, <2>1, <2>2, <2>4 DEF PruneStep, ScanSize, GotoP, NoName, Names, Own
  <2>5. CASE ScanTime
    BY <1>4, <2>5, KeyType DEF PruneStep, ScanTime, GotoP, NoName, Names, Own
  <2>6. CASE ScanEnd
    BY <1>4, <2>6 DEF PruneStep, ScanEnd, GotoP
  <2>7. ASSUME NEW x \in listed, Subtract(x) PROVE TypeOK'
    BY <1>4, <2>1, <2>2, <2>7 DEF PruneStep, Subtract, Rest, GotoP
  <2>8. CASE Remove
    <3>1. /\ DOMAIN disk' \subseteq DOMAIN disk
          /\ \A f \in DOMAIN disk' : disk'[f] = disk[f]
      <4>1. CASE disk' = Drop(cur)
        BY <4>1, Dropped
      <4>2. CASE disk' = disk
        BY <4>2
      <4> QED  BY <2>8, <4>1, <4>2 DEF Remove
    <3>2. kept' \in Nat  BY <2>8 DEF Remove, SizeOf, Exists
    <3> QED  BY <1>4, <2>8, <3>1, <3>2 DEF PruneStep, Remove, GotoP, NoName, Names, Own
  <2>9. CASE PruneEnd
    <3>1. pruning' \in BOOLEAN  BY <2>9 DEF PruneEnd
    <3>2. /\ UNCHANGED <<now, dir, limits, thread, written, vanished, foreign>>
          /\ ppc' = "ended" /\ timenow' = 0 /\ uAll' = 0 /\ listed' = {}
          /\ UNCHANGED <<disk, unseen, seen, cur, since, kept>>
      BY <1>4, <2>9 DEF PruneStep, PruneEnd, GotoP
    <3> QED  BY <3>1, <3>2
  <2> QED  BY <1>4, <2>3, <2>4, <2>5, <2>6, <2>7, <2>8, <2>9 DEF PruneStep
<1>5. CASE Tick
  BY <1>5 DEF Tick, limits, thread, task, pruner, history
<1>6. CASE OtherMakes
  BY <1>6 DEF OtherMakes, limits, thread, task, pruner, history
<1>7. ASSUME NEW f \in DOMAIN disk, Vanish(f) PROVE TypeOK'
  <2>1. /\ DOMAIN disk' = DOMAIN disk \ {f}
        /\ \A g \in DOMAIN disk \ {f} : disk'[g] = disk[g]
    BY <1>7, Dropped DEF Vanish
  <2> QED  BY <1>7, <2>1 DEF Vanish, limits, thread, task, pruner
<1>8. ASSUME NEW f \in Foreign, NEW k \in 0..MaxOther, OtherWrites(f, k) PROVE TypeOK'
  <2>1. /\ DOMAIN disk' = DOMAIN disk \cup {f} /\ f \in Names /\ f \notin Own
        /\ \A g \in DOMAIN disk \ {f} : disk'[g] = disk[g]
        /\ disk'[f].size \in Nat /\ disk'[f].time \in 0..MaxClock
    <3>1. f \in DOMAIN disk => disk[f].size \in Nat  OBVIOUS
    <3>2. /\ DOMAIN disk' = DOMAIN disk \cup {f} /\ disk'[f].time = now
          /\ disk'[f].size = k + IF f \in DOMAIN disk THEN disk[f].size ELSE 0
          /\ \A g \in DOMAIN disk \ {f} : disk'[g] = disk[g]
      BY <1>8, OtherWritten DEF Exists
    <3>3. disk'[f].size \in Nat  BY <3>1, <3>2
    <3>4. f \in Names /\ f \notin Own  BY ForeignNames
    <3> QED  BY <3>2, <3>3, <3>4
  <2> QED  BY <1>8, <2>1 DEF OtherWrites, limits, thread, task, pruner
<1>9. CASE UNCHANGED vars
  BY <1>9 DEF vars, limits, thread, task, pruner, history
<1> QED  BY <1>1, <1>2, <1>3, <1>4, <1>5, <1>6, <1>7, <1>8, <1>9 DEF Next
------------------------------------------------------------------------------
(* The invariant *)

\* What a step may do to the files, what was written of them, and the prune task.
LEMMA Threads ==
    ASSUME [Next]_vars
    PROVE  /\ UNCHANGED limits
           /\ \/ UNCHANGED <<disk, active, pruner, history>>
              \/ (Open \/ OpenSeventeen) /\ UNCHANGED <<now, pruner, kept, vanished, foreign>>
              \/ (\E k \in 1..MaxWrite : Write(k)) /\ UNCHANGED <<now, pruner, kept, vanished, foreign>>
              \/ Roll
              \/ PruneStep
              \/ (\E f \in DOMAIN disk : Vanish(f)) /\ UNCHANGED <<now, active, pruner>>
              \/ /\ \E f \in Foreign, k \in 0..MaxOther : OtherWrites(f, k)
                 /\ UNCHANGED <<now, active, pruner, kept, vanished>>
<1>1. CASE StartStep
  BY <1>1 DEF StartStep
<1>2. CASE StorageStep
  BY <1>2 DEF StorageStep, ChooseName, OpenTaken, history
<1>3. CASE Roll
  BY <1>3 DEF Roll, AtWork
<1>4. CASE PruneStep
  BY <1>4 DEF PruneStep
<1>5. CASE Tick
  BY <1>5 DEF Tick, thread
<1>6. CASE OtherMakes
  BY <1>6 DEF OtherMakes, thread
<1>7. ASSUME NEW f \in DOMAIN disk, Vanish(f)
      PROVE  Vanish(f) /\ UNCHANGED <<limits, now, active, pruner>>
  BY <1>7 DEF Vanish, thread
<1>8. ASSUME NEW f \in Foreign, NEW k \in 0..MaxOther, OtherWrites(f, k)
      PROVE  OtherWrites(f, k) /\ UNCHANGED <<limits, now, active, pruner, kept, vanished>>
  BY <1>8 DEF OtherWrites, thread
<1>9. CASE UNCHANGED vars
  BY <1>9 DEF vars, thread
<1> QED  BY <1>1, <1>2, <1>3, <1>4, <1>5, <1>6, <1>7, <1>8, <1>9 DEF Next

\* The same, as long as nobody else removes files.
LEMMA Steps ==
    ASSUME TypeOK, [Next]_vars, vanished' = 0
    PROVE  /\ vanished = 0
           /\ \/ UNCHANGED <<disk, active, pruner>>
              \/ (Open \/ OpenSeventeen) /\ UNCHANGED <<now, pruner>>
              \/ (\E k \in 1..MaxWrite : Write(k)) /\ UNCHANGED <<now, pruner>>
              \/ Roll
              \/ PruneStep
              \/ /\ \E f \in Foreign, k \in 0..MaxOther : OtherWrites(f, k)
                 /\ UNCHANGED <<now, active, pruner>>
<1>1. ASSUME NEW f, Vanish(f) PROVE FALSE
  BY <1>1 DEF Vanish, TypeOK
<1>2. Roll => vanished' = vanished  BY DEF Roll, AtWork, history
<1>3. PruneStep => vanished' = vanished  BY DEF PruneStep
<1>4. UNCHANGED history => vanished' = vanished  BY DEF history
<1> QED  BY <1>1, <1>2, <1>3, <1>4, Threads

\* The same, as long as nobody else removes or writes files.
LEMMA StepsAlone ==
    ASSUME TypeOK, [Next]_vars, Alone'
    PROVE  /\ Alone
           /\ \/ UNCHANGED <<disk, active, pruner>>
              \/ (Open \/ OpenSeventeen) /\ UNCHANGED <<now, pruner>>
              \/ (\E k \in 1..MaxWrite : Write(k)) /\ UNCHANGED <<now, pruner>>
              \/ Roll
              \/ PruneStep
<1>0. vanished' = 0 /\ ~foreign'  BY DEF Alone
<1>1. ASSUME NEW f, NEW k, OtherWrites(f, k) PROVE FALSE
  BY <1>0, <1>1 DEF OtherWrites
<1>2. ASSUME NEW f, Vanish(f) PROVE FALSE
  BY <1>0, <1>2 DEF Vanish, TypeOK
<1>3. Roll => foreign' = foreign  BY DEF Roll, AtWork, history
<1>4. PruneStep => foreign' = foreign  BY DEF PruneStep
<1>5. UNCHANGED history => foreign' = foreign  BY DEF history
<1>6. ~foreign
  BY <1>0, <1>1, <1>2, <1>3, <1>4, <1>5, Threads
<1>7. vanished = 0  BY <1>0, Steps
<1> QED  BY <1>0, <1>1, <1>6, <1>7, Steps DEF Alone

\* What a step of the prune task leaves of the files.
LEMMA PruneFrame ==
    ASSUME PruneStep
    PROVE  /\ UNCHANGED <<now, wpc, name, active, vanished, foreign>>
           /\ \/ UNCHANGED disk
              \/ Remove /\ DOMAIN disk' = DOMAIN disk \ {cur}
                 /\ \A f \in DOMAIN disk \ {cur} : disk'[f] = disk[f]
<1>1. UNCHANGED <<now, wpc, name, active, vanished, foreign>>  BY DEF PruneStep, thread
<1>2. CASE Remove
  BY <1>1, <1>2, Dropped DEF Remove
<1>3. CASE ~Remove
  <2>1. UNCHANGED disk
    BY <1>3 DEF PruneStep, ReadClock, ScanSize, ScanTime, ScanEnd, Subtract, PruneEnd
  <2> QED  BY <1>1, <2>1
<1> QED  BY <1>2, <1>3

\* Names grow with the clock.
LEMMA NamingStep ==
    ASSUME TypeOK, Naming, [Next]_vars
    PROVE  Naming'
<1> USE DEF Naming
<1>1. CASE StartStep
  BY <1>1 DEF StartStep, TestDirectory, MakeDirectory, MakeFails, GotoW
<1>2. CASE StorageStep
  <2>1. CASE ChooseName
    BY <1>2, <2>1 DEF StorageStep, ChooseName, GotoW, Plain, TypeOK
  <2>2. CASE Open
    BY <1>2, <2>2 DEF StorageStep, Open, GotoW
  <2>3. CASE OpenSeventeen
    BY <1>2, <2>3, Created DEF StorageStep, OpenSeventeen, GotoW, Numbered, TypeOK
  <2>4. CASE OpenTaken
    BY <1>2, <2>4 DEF StorageStep, OpenTaken, GotoW
  <2>5. ASSUME NEW k \in 1..MaxWrite, Write(k) PROVE Naming'
    BY <1>2, <2>5 DEF StorageStep, Write, GotoW
  <2> QED  BY <1>2, <2>1, <2>2, <2>3, <2>4, <2>5 DEF StorageStep
<1>3. CASE Roll
  BY <1>3 DEF Roll, AtWork, GotoW
<1>4. CASE PruneStep
  BY <1>4, PruneFrame
<1>5. CASE Tick
  BY <1>5 DEF Tick, thread, TypeOK
<1>6. CASE OtherMakes
  BY <1>6 DEF OtherMakes, thread
<1>7. ASSUME NEW f \in DOMAIN disk, Vanish(f) PROVE Naming'
  BY <1>7, Dropped DEF Vanish, thread
<1>8. ASSUME NEW f \in Foreign, NEW k \in 0..MaxOther, OtherWrites(f, k) PROVE Naming'
  <2>1. DOMAIN disk' \cap Own = DOMAIN disk \cap Own  BY <1>8, OtherWritten, ForeignNames
  <2> QED  BY <1>8, <2>1 DEF OtherWrites, thread
<1>9. CASE UNCHANGED vars
  BY <1>9 DEF vars, thread
<1> QED  BY <1>1, <1>2, <1>3, <1>4, <1>5, <1>6, <1>7, <1>8, <1>9 DEF Next

\* A file gets its time from the clock; only another process dates its files anew.
LEMMA DatingStep ==
    ASSUME TypeOK, Dating, [Next]_vars
    PROVE  Dating'
<1> USE DEF Dating
<1>0. now' \in Nat /\ now <= now' /\ now \in Nat
  <2>1. now' \in {now, now + 1}
    BY DEF Next, vars, StartStep, StorageStep, Roll, AtWork, PruneStep, Tick, OtherMakes, Vanish, OtherWrites
  <2> QED  BY <2>1 DEF TypeOK
<1>1. ASSUME UNCHANGED <<disk, foreign>> PROVE Dating'
  BY <1>0, <1>1 DEF TypeOK
<1>2. CASE (Open \/ OpenSeventeen) /\ UNCHANGED <<now, foreign>>
  <2>1. Create /\ name \notin Foreign
    BY <1>2, ForeignNames DEF Open, OpenSeventeen, TypeOK
  <2> QED  BY <1>0, <1>2, <2>1, Created
<1>3. ASSUME NEW k \in 1..MaxWrite, Write(k), UNCHANGED <<now, foreign>> PROVE Dating'
  <2>1. active \notin Foreign  BY ForeignNames DEF TypeOK
  <2> QED  BY <1>0, <1>3, <2>1, Written DEF Exists
<1>4. CASE Roll
  BY <1>1, <1>4 DEF Roll, AtWork, history
<1>5. CASE PruneStep
  BY <1>0, <1>5, PruneFrame
<1>6. ASSUME NEW f \in DOMAIN disk, Vanish(f), UNCHANGED now PROVE Dating'
  <2>1. foreign' = foreign /\ disk' = Drop(f)  BY <1>6 DEF Vanish
  <2>2. \A g \in DOMAIN disk' : g \in DOMAIN disk /\ disk'[g] = disk[g]  BY <2>1, Dropped
  <2> QED  BY <1>6, <2>1, <2>2
<1>7. ASSUME NEW f \in Foreign, NEW k \in 0..MaxOther, OtherWrites(f, k), UNCHANGED now PROVE Dating'
  <2>1. foreign'  BY <1>7 DEF OtherWrites
  <2> QED  BY <1>0, <1>7, <2>1, OtherWritten
<1>8. UNCHANGED <<disk, active, pruner, history>> => UNCHANGED <<disk, foreign>>
  BY DEF history
<1> QED  BY <1>1, <1>2, <1>3, <1>4, <1>5, <1>6, <1>7, <1>8, Threads

\* The file that is opened is named and made last; the one that is written is the
\* youngest by the time of the write.
LEMMA YoungestStep ==
    ASSUME TypeOK, TypeOK', Naming, Dating, Dating', Youngest, [Next]_vars, Alone'
    PROVE  Youngest'
<1> USE DEF Youngest, Exists
<1>0. /\ now \in Nat \ {0} /\ active \in Own /\ name \in Own /\ ~foreign /\ ~foreign'
      /\ \A f \in Names : f \notin Own => f \in Foreign
  BY StepsAlone DEF TypeOK, Alone, Names
<1>1. CASE UNCHANGED <<disk, active, pruner>>
  BY <1>1
<1>2. CASE Open /\ UNCHANGED <<now, pruner>>
  <2>1. Create /\ active' = name /\ \A f \in DOMAIN disk \cap Own : f[2] <= name[2]
    BY <1>2 DEF Open, GotoW, Naming
  <2>2. \A f \in DOMAIN disk : f \notin Own => disk[f].time = 0
    BY <1>0 DEF Dating, TypeOK
  <2>3. \A f \in DOMAIN disk : disk[f].time <= now  BY DEF Dating
  <2> QED  BY <1>0, <2>1, <2>2, <2>3, Created
<1>3. CASE OpenSeventeen /\ UNCHANGED <<now, pruner>>
  <2>1. active = NoName /\ active' = NoName /\ name # NoName
    BY <1>3 DEF OpenSeventeen, GotoW, Naming, NoName
  <2> QED  BY <1>3, <2>1, Created, Unnamed DEF OpenSeventeen
<1>4. ASSUME NEW k \in 1..MaxWrite, Write(k), UNCHANGED <<now, pruner>> PROVE Youngest'
  <2>1. active' = active  BY <1>4 DEF Write
  <2>2. \A f \in DOMAIN disk : /\ disk[f].time <= now
                               /\ f \notin Own => disk[f].time = 0
    BY <1>0 DEF Dating, TypeOK
  <2> QED  BY <1>0, <1>4, <2>1, <2>2, Written
<1>5. CASE Roll
  BY <1>5, Unnamed DEF Roll, AtWork
<1>6. CASE PruneStep
  BY <1>6, PruneFrame
<1> QED  BY <1>1, <1>2, <1>3, <1>4, <1>5, <1>6, StepsAlone

\* An iterator yields a name once, whoever changes the directory meanwhile.
LEMMA ScanningStep ==
    ASSUME TypeOK, Scanning, [Next]_vars
    PROVE  Scanning'
<1> USE DEF Scanning, Listed
<1>1. CASE UNCHANGED pruner
  BY <1>1 DEF pruner, task
<1>2. CASE Roll
  <2>1. UNCHANGED <<listed, unseen, seen, cur>>  BY <1>2 DEF Roll, AtWork, task
  <2>2. CASE pruning
    BY <1>2, <2>1, <2>2 DEF Roll, AtWork
  <2>3. CASE ~pruning
    <3>1. ppc \in {"idle", "ended"} /\ ppc' = "clock" /\ pruning' = TRUE
      BY <1>2, <2>3 DEF Roll, AtWork, TypeOK
    <3> QED  BY <2>1, <3>1
  <2> QED  BY <2>2, <2>3
<1>3. CASE PruneStep
  <2>1. CASE ReadClock
    BY <2>1 DEF ReadClock, GotoP
  <2>2. ASSUME NEW f \in unseen \cup DOMAIN disk, ScanSize(f) PROVE Scanning'
    <3>1. f \notin seen /\ f \in unseen' \cup seen'  BY <2>2 DEF ScanSize
    <3>2. cur = NoName /\ Listed \subseteq seen  BY <2>2 DEF ScanSize, GotoP
    <3>3. Exists(f) => f # NoName  BY Unnamed DEF Exists
    <3>4. /\ listed' = listed /\ pruning' = pruning /\ pruning
          /\ ppc' = IF Exists(f) THEN "time" ELSE "scan"
          /\ cur' = IF Exists(f) THEN f ELSE NoName
          /\ unseen' = unseen \ {f} /\ seen' = seen \cup {f}
      BY <2>2 DEF ScanSize, GotoP
    <3> QED  BY <3>1, <3>2, <3>3, <3>4
  <2>3. CASE ScanTime
    BY <2>3 DEF ScanTime, GotoP
  <2>4. CASE ScanEnd
    BY <2>4 DEF ScanEnd, GotoP
  <2>5. ASSUME NEW x \in listed, Subtract(x) PROVE Scanning'
    BY <2>5 DEF Subtract, GotoP
  <2>6. CASE Remove
    BY <2>6 DEF Remove, GotoP
  <2>7. CASE PruneEnd
    BY <2>7 DEF PruneEnd, GotoP
  <2> QED  BY <1>3, <2>1, <2>2, <2>3, <2>4, <2>5, <2>6, <2>7 DEF PruneStep
<1> QED  BY <1>1, <1>2, <1>3, Threads

\* Only the prune task takes files away, and none that it will come back to.
LEMMA ListingStep ==
    ASSUME TypeOK, Scanning, Listing, [Next]_vars, vanished' = 0
    PROVE  Listing'
<1> USE DEF Listing, Exists
<1>1. CASE UNCHANGED <<disk, active, pruner>>
  BY <1>1 DEF pruner, task
<1>2. CASE Create /\ UNCHANGED pruner
  BY <1>2, Created DEF pruner, task
<1>3. ASSUME NEW k \in 1..MaxWrite, Write(k), UNCHANGED pruner PROVE Listing'
  BY <1>3, Written DEF pruner, task
<1>4. CASE Roll
  BY <1>4 DEF Roll, AtWork, task
<1>5. CASE PruneStep
  <2>1. CASE ReadClock
    BY <2>1 DEF ReadClock, GotoP
  <2>2. ASSUME NEW f \in unseen \cup DOMAIN disk, ScanSize(f) PROVE Listing'
    BY <2>2 DEF ScanSize, GotoP
  <2>3. CASE ScanTime
    BY <2>3 DEF ScanTime, GotoP
  <2>4. CASE ScanEnd
    BY <2>4 DEF ScanEnd, GotoP
  <2>5. ASSUME NEW x \in listed, Subtract(x) PROVE Listing'
    BY <2>5 DEF Subtract, GotoP
  <2>6. CASE Remove
    BY <2>6, Dropped DEF Remove, GotoP, Scanning
  <2>7. CASE PruneEnd
    BY <2>7 DEF PruneEnd, GotoP
  <2> QED  BY <1>5, <2>1, <2>2, <2>3, <2>4, <2>5, <2>6, <2>7 DEF PruneStep
<1>6. ASSUME NEW f, NEW k, OtherWrites(f, k), UNCHANGED pruner PROVE Listing'
  BY <1>6, OtherWritten DEF pruner, task
<1> QED  BY <1>1, <1>2, <1>3, <1>4, <1>5, <1>6, Steps DEF Open, OpenSeventeen

\* A key was read when its file was no younger than now; one that has gone meanwhile
\* can only come back as young as the moment.
LEMMA DatedStep ==
    ASSUME TypeOK, TypeOK', Dating, Scanning, Dated, InOrder, [Next]_vars
    PROVE  Dated'
<1> USE DEF Dated, Exists
<1>0. /\ now \in 0..MaxClock /\ now' \in 0..MaxClock /\ now <= now'
      /\ \A x \in listed : x[1] \in Int
      /\ \A f \in DOMAIN disk : disk[f].time \in 0..now
  <2>1. now' \in {now, now + 1}
    BY DEF Next, vars, StartStep, StorageStep, Roll, AtWork, PruneStep, Tick, OtherMakes, Vanish, OtherWrites
  <2> QED  BY <2>1 DEF TypeOK, Dating
\* The step puts no file into the directory, or as young as can be.
<1>1. ASSUME UNCHANGED timenow, listed' \subseteq listed,
             \A f \in DOMAIN disk' :
                \/ f \in DOMAIN disk /\ disk'[f].time = disk[f].time
                \/ disk'[f].time = now
      PROVE  Dated'
  <2>1. \A t : Age(t)' = Age(t)  BY <1>1 DEF Age
  <2>2. Age(now) \in Int /\ Age(now') \in Int /\ Age(now) <= Age(now')
    BY <1>0, AgeGrows DEF InOrder
  <2>3. Age(now)' = Age(now')  BY <1>1 DEF Age
  <2> SUFFICES ASSUME NEW x \in listed
               PROVE  x[1] <= Age(now') /\ (x[2] \in DOMAIN disk' => x[1] <= Key(x[2])')
    BY <1>1, <2>3
  <2>4. x[1] \in Int /\ x[1] <= Age(now)  BY <1>0
  <2>5. ASSUME x[2] \in DOMAIN disk' PROVE x[1] <= Key(x[2])'
    <3>1. Key(x[2])' = Age(disk'[x[2]].time)  BY <1>1, <2>5 DEF Key, Age
    <3>2. CASE disk'[x[2]].time = now
      BY <2>4, <3>1, <3>2
    <3>3. CASE x[2] \in DOMAIN disk /\ disk'[x[2]].time = disk[x[2]].time
      BY <3>1, <3>3 DEF Key
    <3> QED  BY <1>1, <2>5, <3>2, <3>3
  <2> QED  BY <2>2, <2>4, <2>5
<1>2. CASE UNCHANGED <<disk, active, pruner, history>>
  BY <1>1, <1>2 DEF pruner, task
<1>3. CASE (Open \/ OpenSeventeen) /\ UNCHANGED pruner
  BY <1>1, <1>3, Created DEF Open, OpenSeventeen, pruner, task
<1>4. ASSUME NEW k \in 1..MaxWrite, Write(k), UNCHANGED pruner PROVE Dated'
  BY <1>1, <1>4, Written DEF pruner, task
<1>5. CASE Roll
  BY <1>1, <1>5 DEF Roll, AtWork, task
<1>6. ASSUME NEW f \in DOMAIN disk, Vanish(f), UNCHANGED pruner PROVE Dated'
  BY <1>1, <1>6, Dropped DEF Vanish, pruner, task
<1>7. ASSUME NEW f \in Foreign, NEW k \in 0..MaxOther, OtherWrites(f, k), UNCHANGED pruner PROVE Dated'
  BY <1>1, <1>7, OtherWritten DEF pruner, task
<1>8. CASE PruneStep
  <2>1. CASE ReadClock \/ PruneEnd
    BY <2>1 DEF ReadClock, PruneEnd
  <2>2. CASE ScanEnd \/ (\E f \in unseen \cup DOMAIN disk : ScanSize(f))
             \/ (\E x \in listed : Subtract(x))
    <3>1. UNCHANGED <<disk, timenow>> /\ listed' \subseteq listed
      BY <2>2 DEF ScanEnd, ScanSize, Subtract
    <3> QED  BY <1>1, <3>1
  <2>3. CASE Remove
    <3>1. UNCHANGED <<timenow, listed>>  BY <2>3 DEF Remove
    <3> QED  BY <1>1, <1>8, <3>1, PruneFrame
  <2>4. CASE ScanTime
    <3>1. UNCHANGED <<disk, timenow>> /\ listed' = listed \cup {Entry(cur)} /\ now' = now
      BY <1>8, <2>4, PruneFrame DEF ScanTime, Entry
    <3>2. Entry(cur)[1] = Key(cur) /\ Entry(cur)[2] = cur  BY DEF Entry
    <3>3. Key(cur) <= Age(now) /\ Key(cur) \in Int
      <4>1. now \in 0..MaxClock /\ -Word <= Age(now)  BY <1>0 DEF Age, TypeOK
      <4>2. CASE cur \in DOMAIN disk
        <5>1. disk[cur].time \in 0..MaxClock /\ disk[cur].time <= now  BY <1>0, <4>2
        <5>2. Key(cur) = Age(disk[cur].time)  BY <4>2 DEF Key
        <5> QED  BY <4>1, <5>1, <5>2, AgeGrows DEF InOrder
      <4>3. CASE cur \notin DOMAIN disk
        BY <4>1, <4>3 DEF Key
      <4> QED  BY <4>2, <4>3
    <3>4. \A f : Key(f)' = Key(f) /\ Age(now)' = Age(now)  BY <3>1 DEF Key, Age
    <3> QED  BY <3>1, <3>2, <3>3, <3>4
  <2> QED  BY <1>8, <2>1, <2>2, <2>3, <2>4 DEF PruneStep
<1> QED  BY <1>2, <1>3, <1>4, <1>5, <1>6, <1>7, <1>8, Threads

\* The entries keep their ranks: a file gets younger only by a write, and a younger
\* one may stand anywhere in the list but before those that are older.
LEMMA RankedStep ==
    ASSUME TypeOK, TypeOK', Naming, Dating, Youngest, Scanning, Listing, Ranked, InOrder,
           [Next]_vars, Alone'
    PROVE  Ranked'
<1> USE DEF Exists
<1>0. \A x \in listed : x \in Int \X Names /\ x[2] \in DOMAIN disk
  BY DEF Listing, TypeOK
<1>1. CASE UNCHANGED <<disk, active, pruner>>
  BY <1>1 DEF pruner, task, Ranked, Entry, Key, Age
<1>2. CASE (Open \/ OpenSeventeen) /\ UNCHANGED <<now, pruner>>
  <2>1. listed' = listed /\ timenow' = timenow  BY <1>2 DEF pruner, task
  <2>2. Create /\ active' \in {name, active}  BY <1>2 DEF Open, OpenSeventeen
  <2>3. \A f \in DOMAIN disk : disk'[f] = disk[f] /\ f # name /\ Key(f)' = Key(f)
    BY <2>1, <2>2, Created DEF Key, Age
  <2>4. active = NoName
    BY <1>2 DEF Open, OpenSeventeen, GotoW, Naming
  <2>5. ASSUME NEW x \in listed PROVE x[2] # active /\ x[2] # active'
    BY <1>0, <2>2, <2>3, <2>4, <2>5, Unnamed
  <2>6. ASSUME NEW x \in listed PROVE disk[x[2]].time <= now
    BY <1>0, <2>6 DEF Dating
  <2>7. DOMAIN disk' = DOMAIN disk \cup {name} /\ disk'[name].time = now
    BY <2>2, Created
  <2> QED  BY <1>0, <2>1, <2>3, <2>5, <2>6, <2>7 DEF Ranked, Entry
<1>3. ASSUME NEW k \in 1..MaxWrite, Write(k), UNCHANGED <<now, pruner>> PROVE Ranked'
  <2>1. listed' = listed /\ timenow' = timenow /\ active' = active
    BY <1>3 DEF pruner, task, Write
  <2>2. /\ DOMAIN disk' = DOMAIN disk
        /\ Exists(active) => disk'[active].time = now
        /\ \A f \in DOMAIN disk \ {active} : disk'[f] = disk[f] /\ Entry(f)' = Entry(f)
    BY <1>3, <2>1, Written DEF Entry, Key, Age
  <2>3. \A x \in listed : disk[x[2]].time <= now
    BY <1>0 DEF Dating
  <2>6. ASSUME NEW x \in listed, IsPlain(x[2]), NEW f \in DOMAIN disk \ {x[2]}
        PROVE  \/ Precedes(Entry(f)', x)
               \/ x[2] # active /\ disk'[x[2]].time <= disk'[f].time
    <3>1. CASE x[2] = active
      BY <2>2, <2>6, <3>1 DEF Ranked
    <3>2. CASE x[2] # active /\ f = active
      BY <1>0, <2>2, <2>3, <2>6, <3>2
    <3>3. CASE x[2] # active /\ f # active
      BY <1>0, <2>2, <2>6, <3>3 DEF Ranked
    <3> QED  BY <3>1, <3>2, <3>3
  <2> QED  BY <2>1, <2>2, <2>6 DEF Ranked
<1>4. CASE Roll
  <2>1. UNCHANGED <<disk, timenow, listed>> /\ active' = NoName  BY <1>4 DEF Roll, AtWork, task
  <2>2. \A f : Entry(f)' = Entry(f)  BY <2>1 DEF Entry, Key, Age
  <2>3. \A x \in listed : x[2] # NoName  BY <1>0, Unnamed
  <2> QED  BY <2>1, <2>2, <2>3 DEF Ranked
<1>5. CASE PruneStep
  <2>1. active' = active  BY <1>5, PruneFrame
  <2>2. CASE ReadClock \/ PruneEnd
    BY <2>2 DEF ReadClock, PruneEnd, Ranked
  <2>3. CASE ScanEnd \/ (\E f \in unseen \cup DOMAIN disk : ScanSize(f))
             \/ (\E x \in listed : Subtract(x))
    <3>1. UNCHANGED <<disk, timenow>> /\ listed' \subseteq listed
      BY <2>3 DEF ScanEnd, ScanSize, Subtract
    <3>2. \A f : Entry(f)' = Entry(f)  BY <3>1 DEF Entry, Key, Age
    <3> QED  BY <2>1, <3>1, <3>2 DEF Ranked
  <2>4. CASE ScanTime
    <3>1. /\ UNCHANGED <<disk, timenow>> /\ listed' = listed \cup {Entry(cur)}
          /\ cur \in DOMAIN disk
      BY <2>4 DEF ScanTime, GotoP, Listing, Entry
    <3>2. \A f : Entry(f)' = Entry(f)  BY <3>1 DEF Entry, Key, Age
    <3>3. ASSUME IsPlain(cur), NEW f \in DOMAIN disk \ {cur}
          PROVE  \/ Precedes(Entry(f), Entry(cur))
                 \/ cur # active /\ disk[cur].time <= disk[f].time
      <4>1. /\ disk[f].time \in 0..MaxClock /\ disk[cur].time \in 0..MaxClock
            /\ Key(f) = Age(disk[f].time) /\ Key(cur) = Age(disk[cur].time)
        BY <3>1, <3>3 DEF TypeOK, Key
      <4>2. CASE disk[f].time < disk[cur].time
        BY <4>1, <4>2, AgeGrows DEF Precedes, Entry, InOrder
      <4>3. CASE disk[cur].time <= disk[f].time /\ cur # active
        BY <4>3
      <4>4. CASE disk[cur].time <= disk[f].time /\ cur = active
        <5>1. f \in Own /\ disk[f].time = disk[cur].time /\ f[2] <= cur[2]
          BY <3>1, <3>3, <4>1, <4>4 DEF Youngest
        <5>2. cur \in Own  BY <4>4 DEF TypeOK
        <5>3. Before(f, cur)
          BY <3>3, <5>1, <5>2 DEF Before, IsPlain, Own
        <5> QED  BY <4>1, <5>1, <5>3 DEF Precedes, Entry
      <4> QED  BY <4>1, <4>2, <4>3, <4>4
    <3>4. Entry(cur)[2] = cur  BY DEF Entry
    <3> QED  BY <2>1, <3>1, <3>2, <3>3, <3>4 DEF Ranked
  <2>5. CASE Remove
    <3>1. UNCHANGED <<timenow, listed>>  BY <2>5 DEF Remove
    <3>2. CASE UNCHANGED disk
      <4>1. \A f : Entry(f)' = Entry(f)  BY <3>1, <3>2 DEF Entry, Key, Age
      <4> QED  BY <2>1, <3>1, <3>2, <4>1 DEF Ranked
    <3>3. CASE /\ DOMAIN disk' = DOMAIN disk \ {cur}
               /\ \A f \in DOMAIN disk \ {cur} : disk'[f] = disk[f]
      <4>1. \A f \in DOMAIN disk' : Entry(f)' = Entry(f)  BY <3>1, <3>3 DEF Entry, Key, Age
      <4>2. \A x \in listed : x[2] \in DOMAIN disk'  BY <1>0, <3>3 DEF Scanning
      <4> QED  BY <2>1, <3>1, <3>3, <4>1, <4>2 DEF Ranked
    <3> QED  BY <1>5, <3>2, <3>3, PruneFrame
  <2> QED  BY <1>5, <2>2, <2>3, <2>4, <2>5 DEF PruneStep
<1> QED  BY <1>1, <1>2, <1>3, <1>4, <1>5, StepsAlone

\* What is first on the list of a process that is alone is no younger than the others,
\* and not the file that is being written unless that is all there is.
LEMMA FirstIsOldest ==
    ASSUME TypeOK, Scanning, Listing, Dated, Ranked,
           NEW x \in listed, First(x), IsPlain(x[2]), NEW y \in listed \ {x}
    PROVE  x[2] # active /\ disk[x[2]].time <= disk[y[2]].time
<1>1. Precedes(x, y)  BY DEF First
<1>2. y[2] \in DOMAIN disk \ {x[2]}  BY DEF Listing, Scanning, Exists
<1>3. x \in Int \X Names /\ y \in Int \X Names /\ y[1] <= Key(y[2]) /\ Key(y[2]) \in Int
  BY <1>2, KeyType DEF Dated, TypeOK, Exists
<1>4. ~Precedes(Entry(y[2]), x)
  <2>1. Precedes(Entry(y[2]), x) => Precedes(y, x)
    BY <1>3 DEF Precedes, Entry
  <2> QED  BY <1>1, <1>3, <2>1, PrecedesOnce
<1> QED  BY <1>2, <1>4 DEF Ranked

\* What is first on any list, and was not written since it got there, is no younger than
\* the others.
LEMMA FreshIsOldest ==
    ASSUME TypeOK, Dated, InOrder,
           NEW x \in listed, First(x), Exists(x[2]), Fresh(x), NEW y \in listed, Exists(y[2])
    PROVE  disk[x[2]].time <= disk[y[2]].time
<1>1. x[1] <= y[1]
  <2>1. x[1] \in Int /\ y[1] \in Int  BY DEF TypeOK
  <2> QED  BY <2>1 DEF First, Precedes
<1>2. y[1] <= Key(y[2]) /\ x[1] = Key(x[2])  BY DEF Dated, Fresh
<1>3. x[1] \in Int /\ y[1] \in Int /\ Key(y[2]) \in Int  BY KeyType DEF TypeOK
<1>4. Key(x[2]) <= Key(y[2])  BY <1>1, <1>2, <1>3
<1>5. /\ disk[x[2]].time \in 0..MaxClock /\ disk[y[2]].time \in 0..MaxClock
      /\ Key(x[2]) = Age(disk[x[2]].time) /\ Key(y[2]) = Age(disk[y[2]].time)
  BY DEF TypeOK, Exists, Key
<1> QED  BY <1>4, <1>5, AgeGrows DEF InOrder
------------------------------------------------------------------------------
(* What files add up to *)

\* No file gets longer than the limit and a block.
LEMMA FittingStep ==
    ASSUME TypeOK, Naming, Fitting, [Next]_vars
    PROVE  Fitting'
<1> USE DEF Fitting, Exists
<1>0. active \in Own /\ name \in Own  BY DEF TypeOK
<1>1. CASE StartStep
  BY <1>1, Unnamed DEF StartStep, TestDirectory, MakeDirectory, MakeFails, GotoW, limits
<1>2. CASE StorageStep
  <2>0. UNCHANGED <<maxFile, maxStorage>>  BY <1>2 DEF StorageStep, limits
  <2>1. CASE ChooseName
    BY <2>0, <2>1 DEF ChooseName, GotoW
  <2>2. CASE Open
    BY <1>0, <2>0, <2>2, Created DEF Open, GotoW, TypeOK
  <2>3. CASE OpenSeventeen
    <3>1. active \notin DOMAIN disk' /\ wpc' = "open" /\ active' = active
      BY <2>3, Created, Unnamed DEF OpenSeventeen, GotoW, Naming, NoName, TypeOK
    <3> QED  BY <1>0, <2>0, <2>3, <3>1, Created DEF OpenSeventeen, TypeOK
  <2>4. CASE OpenTaken
    BY <2>0, <2>4 DEF OpenTaken, GotoW
  <2>5. ASSUME NEW k \in 1..MaxWrite, Write(k) PROVE Fitting'
    <3>1. /\ wpc = "write" /\ active' = active /\ fileSize' = fileSize + k
          /\ wpc' = IF fileSize + k >= maxFile THEN "roll" ELSE "write"
      BY <2>5 DEF Write, GotoW, Full
    <3>2. Exists(active) => disk'[active].size <= fileSize' /\ disk'[active].size < maxFile + MaxWrite
      BY <1>0, <2>5, <3>1, Written DEF TypeOK
    <3> QED  BY <1>0, <2>0, <2>5, <3>1, <3>2, Written DEF TypeOK, Full
  <2> QED  BY <1>2, <2>1, <2>2, <2>3, <2>4, <2>5 DEF StorageStep
<1>3. CASE Roll
  BY <1>3, Unnamed DEF Roll, AtWork, GotoW, limits
<1>4. CASE PruneStep
  <2>1. UNCHANGED <<maxFile, wpc, fileSize, active>>  BY <1>4 DEF PruneStep, limits, thread
  <2> QED  BY <1>4, <2>1, PruneFrame
<1>5. CASE Tick
  BY <1>5 DEF Tick, limits, thread
<1>6. CASE OtherMakes
  BY <1>6 DEF OtherMakes, limits, thread
<1>7. ASSUME NEW f \in DOMAIN disk, Vanish(f) PROVE Fitting'
  BY <1>7, Dropped DEF Vanish, limits, thread
<1>8. ASSUME NEW f \in Foreign, NEW k \in 0..MaxOther, OtherWrites(f, k) PROVE Fitting'
  <2>1. f \notin Own /\ f # active  BY <1>0, ForeignNames
  <2>2. UNCHANGED <<maxFile, wpc, fileSize, active>>  BY <1>8 DEF OtherWrites, limits, thread
  <2>3. /\ DOMAIN disk' = DOMAIN disk \cup {f} /\ disk'[f].size <= MaxOther
        /\ \A g \in DOMAIN disk \ {f} : disk'[g] = disk[g]
    BY <1>8, OtherWritten
  <2> QED  BY <2>1, <2>2, <2>3
<1>9. CASE UNCHANGED vars
  BY <1>9 DEF vars, limits, thread
<1> QED  BY <1>1, <1>2, <1>3, <1>4, <1>5, <1>6, <1>7, <1>8, <1>9 DEF Next

Longest == maxFile + MaxWrite + MaxOther

\* The directory is one that the lemmas on sizes speak of: no file exceeds a bound.
LEMMA IsDirectory == TypeOK /\ Fitting => Longest \in Nat /\ Directory(disk, Longest)
<1> SUFFICES ASSUME TypeOK, Fitting PROVE Longest \in Nat /\ Directory(disk, Longest)
  OBVIOUS
<1>1. maxFile \in Nat /\ Longest \in Nat  BY DEF TypeOK, Longest
<1>2. ASSUME NEW f \in DOMAIN disk PROVE disk[f].size \in 0..Longest
  <2>1. disk[f].size \in Nat  BY DEF TypeOK
  <2>2. disk[f].size < maxFile + MaxWrite \/ disk[f].size <= MaxOther  BY DEF Fitting
  <2> QED  BY <1>1, <2>1, <2>2 DEF Longest
<1> QED  BY <1>1, <1>2 DEF TypeOK, Directory

\* All files there are have names.
LEMMA TotalIs == TypeOK => Total = Size(disk, Names)
<1> SUFFICES ASSUME TypeOK PROVE Total = Size(disk, Names)
  OBVIOUS
<1>1. DOMAIN disk \cap DOMAIN disk = Names \cap DOMAIN disk  BY DEF TypeOK
<1> QED  BY <1>1, SizeSame DEF Total

\* Sizes before and after a step are numbers, and the total is that of all names.
LEMMA Totals ==
    ASSUME TypeOK, TypeOK', Fitting, [Next]_vars, Fitting'
    PROVE  /\ Longest \in Nat /\ Directory(disk, Longest) /\ Directory(disk', Longest)
           /\ \A S : Size(disk, S) \in Nat /\ Size(disk', S) \in Nat
           /\ Total = Size(disk, Names) /\ Total' = Size(disk', Names)
<1>1. Longest \in Nat /\ Directory(disk, Longest)  BY IsDirectory
<1>2. Directory(disk', Longest)
  <2>1. maxFile' = maxFile /\ maxFile \in Nat /\ DOMAIN disk' \subseteq Names
    BY Threads DEF TypeOK, limits
  <2>2. ASSUME NEW f \in DOMAIN disk' PROVE disk'[f].size \in 0..Longest
    <3>1. disk'[f].size \in Nat  BY DEF TypeOK
    <3>2. disk'[f].size < maxFile + MaxWrite \/ disk'[f].size <= MaxOther  BY <2>1 DEF Fitting
    <3> QED  BY <2>1, <3>1, <3>2 DEF Longest
  <2> QED  BY <2>1, <2>2 DEF Directory
<1>3. Total' = Size(disk', Names)
  <2>1. DOMAIN disk' \cap DOMAIN disk' = Names \cap DOMAIN disk'  BY DEF TypeOK
  <2> QED  BY <2>1, SizeSame DEF Total
<1> QED  BY <1>1, <1>2, <1>3, SizeType, TotalIs

\* What the storage thread and other processes do to sizes: k bytes are written or g
\* files are removed.
Change(k, g) ==
    /\ written' = written + k /\ since' = since + k /\ kept' = kept
    /\ vanished' = vanished + g
    /\ written' <= Budget \/ written' = written
    /\ vanished' <= Vanishing \/ vanished' = vanished
    /\ \A S : Size(disk', S) <= Size(disk, S) + k
    /\ \A S \in SUBSET Names : Cardinality(S \ DOMAIN disk') <= Cardinality(S \ DOMAIN disk) + g
    /\ g = 0 => DOMAIN disk \subseteq DOMAIN disk' /\ \A S : Size(disk, S) <= Size(disk', S)

\* What anybody but the prune task does makes files grow by k bytes at most, or one
\* vanish (g), and leaves the task and its sum alone.
LEMMA Others ==
    ASSUME TypeOK, TypeOK', Fitting, Fitting', [Next]_vars, ~PruneStep
    PROVE  \E k \in Nat, g \in {0, 1} : Change(k, g)
<1>0. /\ Longest \in Nat /\ Directory(disk, Longest) /\ Directory(disk', Longest)
      /\ \A S : Size(disk, S) \in Nat /\ Size(disk', S) \in Nat
  BY Totals
<1>1. written \in Nat /\ since \in Nat /\ kept \in Nat /\ vanished \in Nat  BY DEF TypeOK
<1>2. ASSUME UNCHANGED <<disk, written, since, kept, vanished>>
      PROVE  Change(0, 0)
  <2>1. /\ DOMAIN disk' = DOMAIN disk
        /\ \A S \in SUBSET Names : Cardinality(S \ DOMAIN disk) \in Nat
    BY <1>2, Count
  <2>2. \A S : Size(disk', S) = Size(disk, S)
    BY <1>2
  <2> QED  BY <1>0, <1>1, <1>2, <2>1, <2>2 DEF Change
\* A file is made, or gets longer.
<1>3. ASSUME NEW f, NEW k \in Nat, DOMAIN disk' = DOMAIN disk \cup {f},
             disk'[f].size = k + IF f \in DOMAIN disk THEN disk[f].size ELSE 0,
             \A g \in DOMAIN disk \ {f} : disk'[g] = disk[g],
             written' = written + k, since' = since + k, UNCHANGED <<kept, vanished>>,
             written' <= Budget \/ written' = written
      PROVE  Change(k, 0)
  <2>1. \A S : Size(disk, S) <= Size(disk', S) /\ Size(disk', S) <= Size(disk, S) + k
    <3> HIDE DEF Size
    <3> QED  BY <1>0, <1>3, SizePut
  <2>2. DOMAIN disk \subseteq DOMAIN disk'  BY <1>3
  <2>3. ASSUME NEW S \in SUBSET Names
        PROVE  Cardinality(S \ DOMAIN disk') <= Cardinality(S \ DOMAIN disk) + 0
    <3>1. S \ DOMAIN disk' \subseteq S \ DOMAIN disk  BY <2>2
    <3>2. PICK c \in Nat : c = Cardinality(S \ DOMAIN disk)  BY Count
    <3>3. PICK e \in Nat : e = Cardinality(S \ DOMAIN disk')  BY Count
    <3>4. e <= c  BY <3>1, <3>2, <3>3, Count
    <3> QED  BY <3>2, <3>3, <3>4
  <2>5. vanished' = vanished + 0 /\ vanished' = vanished  BY <1>1, <1>3
  <2> QED  BY <1>3, <2>1, <2>2, <2>3, <2>5 DEF Change
<1>4. ASSUME NEW k \in 1..MaxWrite, Write(k), UNCHANGED <<kept, vanished>>
      PROVE  Change(k, 0)
  <2>1. /\ written' = written + k /\ since' = since + k /\ written' <= Budget
    BY <1>4 DEF Write
  <2>2. CASE active \in DOMAIN disk
    <3>1. /\ DOMAIN disk' = DOMAIN disk \cup {active}
          /\ disk'[active].size = disk[active].size + k
          /\ \A f \in DOMAIN disk \ {active} : disk'[f] = disk[f]
      BY <1>4, <2>2, Written DEF Exists
    <3>2. disk[active].size \in Nat  BY <2>2 DEF TypeOK
    <3>3. disk'[active].size = k + IF active \in DOMAIN disk THEN disk[active].size ELSE 0
      BY <2>2, <3>1, <3>2
    <3> QED  BY <1>3, <1>4, <2>1, <3>1, <3>3
  <2>3. CASE active \notin DOMAIN disk
    <3>1. disk' = disk  BY <1>4, <2>3 DEF Write, Exists
    <3>2. /\ \A S : Size(disk', S) = Size(disk, S)
          /\ \A S \in SUBSET Names : Cardinality(S \ DOMAIN disk) \in Nat
      BY <3>1, Count
    <3> QED  BY <1>0, <1>1, <1>4, <2>1, <3>1, <3>2 DEF Change
  <2> QED  BY <2>2, <2>3
<1>5. ASSUME NEW f \in DOMAIN disk, Vanish(f)
      PROVE  Change(0, 1)
  <2>1. /\ written' = written /\ since' = since /\ kept' = kept /\ vanished' = vanished + 1
        /\ vanished' <= Vanishing
    BY <1>1, <1>5 DEF Vanish
  <2>2. /\ DOMAIN disk' = DOMAIN disk \ {f} /\ \A g \in DOMAIN disk \ {f} : disk'[g] = disk[g]
    BY <1>5, Dropped DEF Vanish
  <2>3. ASSUME NEW S PROVE Size(disk', S) <= Size(disk, S)
    <3>1. Size(disk', S) = Size(disk, S \ {f})  BY <1>5, SizeDropped DEF Vanish, Drop
    <3>2. Size(disk, S \ {f}) <= Size(disk, S)
      <4>1. (S \ {f}) \cap DOMAIN disk \subseteq S  OBVIOUS
      <4> QED  BY <1>0, <4>1, SizePart, Zenon
    <3> QED  BY <3>1, <3>2
  <2>4. ASSUME NEW S \in SUBSET Names
        PROVE  Cardinality(S \ DOMAIN disk') <= Cardinality(S \ DOMAIN disk) + 1
    <3>1. S \ DOMAIN disk' \subseteq (S \ DOMAIN disk) \cup {f}  BY <2>2
    <3> QED  BY <3>1, Count
  <2>5. \A S : Size(disk', S) <= Size(disk, S) + 0
    BY <1>0, <2>3
  <2>6. written' = written + 0 /\ since' = since + 0  BY <1>1, <2>1
  <2> QED  BY <2>1, <2>4, <2>5, <2>6 DEF Change
<1>6. CASE Roll
  BY <1>2, <1>6 DEF Roll, AtWork, history
<1>7. CASE UNCHANGED <<disk, active, pruner, history>>
  BY <1>2, <1>7 DEF history
<1>8. CASE (Open \/ OpenSeventeen) /\ UNCHANGED <<now, pruner, kept, vanished, foreign>>
  <2>1. Create /\ UNCHANGED <<written, since, kept, vanished>>
    BY <1>8 DEF Open, OpenSeventeen
  <2>2. /\ DOMAIN disk' = DOMAIN disk \cup {name}
        /\ disk'[name].size = 0 + IF name \in DOMAIN disk THEN disk[name].size ELSE 0
        /\ \A g \in DOMAIN disk \ {name} : disk'[g] = disk[g]
    BY <2>1, Created DEF Exists
  <2>3. written' = written + 0 /\ since' = since + 0  BY <1>1, <2>1
  <2>4. Change(0, 0)  BY <1>3, <2>1, <2>2, <2>3
  <2> QED  BY <2>4
<1>9. CASE /\ \E k \in 1..MaxWrite : Write(k)
           /\ UNCHANGED <<now, pruner, kept, vanished, foreign>>
  BY <1>4, <1>9
<1>10. CASE (\E f \in DOMAIN disk : Vanish(f)) /\ UNCHANGED <<now, active, pruner>>
  BY <1>5, <1>10
<1>11. CASE /\ \E f \in Foreign, k \in 0..MaxOther : OtherWrites(f, k)
            /\ UNCHANGED <<now, active, pruner, kept, vanished>>
  <2>1. PICK f \in Foreign, k \in 0..MaxOther : OtherWrites(f, k)  BY <1>11
  <2>2. /\ DOMAIN disk' = DOMAIN disk \cup {f}
        /\ disk'[f].size = k + IF f \in DOMAIN disk THEN disk[f].size ELSE 0
        /\ \A g \in DOMAIN disk \ {f} : disk'[g] = disk[g]
    BY <2>1, OtherWritten DEF Exists
  <2>3. written' = written + k /\ since' = since + k /\ written' <= Budget
    BY <2>1 DEF OtherWrites
  <2>4. Change(k, 0)  BY <1>3, <1>11, <2>2, <2>3
  <2> QED  BY <2>4
<1> QED  BY <1>6, <1>7, <1>8, <1>9, <1>10, <1>11, Threads

\* The prune task only takes files away, or fails to.
LEMMA PruneSizes ==
    ASSUME TypeOK, TypeOK', Fitting, [Next]_vars, Fitting', PruneStep
    PROVE  /\ \A S : Size(disk', S) <= Size(disk, S)
           /\ ~Remove => disk' = disk
           /\ Remove => \/ kept' = kept /\ \A S : Size(disk', S) = Size(disk, S \ {cur})
                        \/ disk' = disk /\ cur \in DOMAIN disk /\ kept' = kept + disk[cur].size
           /\ ReadClock => since' = 0 /\ kept' = 0
           /\ ~ReadClock => since' = since
           /\ ~ReadClock /\ ~Remove => kept' = kept
           /\ UNCHANGED <<written, vanished, maxFile, maxStorage>>
<1>1. UNCHANGED <<written, vanished, maxFile, maxStorage>>
  BY DEF PruneStep, limits
<1>2. /\ ReadClock => since' = 0 /\ kept' = 0
      /\ ~ReadClock => since' = since
      /\ ~ReadClock /\ ~Remove => kept' = kept
  BY DEF PruneStep, ReadClock, ScanSize, ScanTime, ScanEnd, Subtract, Remove, PruneEnd
<1>3. ~Remove => disk' = disk
  BY DEF PruneStep, ReadClock, ScanSize, ScanTime, ScanEnd, Subtract, PruneEnd
<1>4. ASSUME disk' = Drop(cur), NEW S PROVE Size(disk', S) = Size(disk, S \ {cur})
  BY <1>4, SizeDropped DEF Drop
<1>5. Remove => \/ kept' = kept /\ disk' = Drop(cur)
                \/ disk' = disk /\ cur \in DOMAIN disk /\ kept' = kept + disk[cur].size
  BY DEF Remove, Exists, SizeOf
<1>6. ASSUME NEW S PROVE Size(disk', S) <= Size(disk, S)
  <2>1. CASE disk' = Drop(cur)
    <3>1. Size(disk', S) = Size(disk, S \ {cur})  BY <1>4, <2>1
    <3>2. (S \ {cur}) \cap DOMAIN disk \subseteq S  OBVIOUS
    <3>3. Size(disk, S \ {cur}) <= Size(disk, S)
      BY <3>2, Totals, SizePart, Zenon
    <3> QED  BY <3>1, <3>3
  <2>2. CASE disk' = disk
    <3>1. Size(disk', S) = Size(disk, S) /\ Size(disk, S) \in Nat  BY <2>2, Totals
    <3> QED  BY <3>1
  <2> QED  BY <1>3, <1>5, <2>1, <2>2
<1> QED  BY <1>1, <1>2, <1>3, <1>4, <1>5, <1>6

\* While it runs on, other threads leave what it knows alone.
LEMMA RunsOn ==
    ASSUME TypeOK, Scanning, [Next]_vars, ~PruneStep, ppc' # "clock"
    PROVE  UNCHANGED pruner
<1>1. CASE Roll
  BY <1>1 DEF Roll, AtWork, pruner
<1> QED  BY <1>1, Threads

\* What the list and the file on its way off it name.
Named == Listed \cup {cur}

\* What is written is counted at the same moment, and a file that cannot be removed was on
\* the list.
LEMMA SpentStep ==
    ASSUME TypeOK, TypeOK', Fitting, Fitting', Scanning, Spent, [Next]_vars
    PROVE  Spent'
<1>0. /\ \A S : Size(disk, S) \in Nat /\ Size(disk', S) \in Nat
      /\ Total = Size(disk, Names) /\ Total' = Size(disk', Names)
      /\ written \in Nat /\ since \in Nat /\ kept \in Nat /\ vanished \in Nat
      /\ Longest \in Nat /\ Directory(disk, Longest) /\ Directory(disk', Longest)
  BY Totals DEF TypeOK
<1>1. Total \in Nat /\ Total' \in Nat  BY <1>0
<1>2. Size(disk', Named') <= Total'
  <2>1. Named' \cap DOMAIN disk' \subseteq Names  BY DEF TypeOK
  <2>2. Size(disk', Named') <= Size(disk', Names)  BY <1>0, <2>1, SizePart, Zenon
  <2> QED  BY <1>0, <2>2, Zenon
<1>3. /\ Total <= written /\ since <= written /\ written <= Budget /\ vanished <= Vanishing
      /\ kept + Size(disk, Named) <= written
      /\ ppc \in {"scan", "time"} => kept = 0
  BY DEF Spent, Named
<1>4. CASE ~PruneStep
  <2>1. PICK k \in Nat, g \in {0, 1} : Change(k, g)  BY <1>4, Others
  <2>2. UNCHANGED <<listed, cur>> /\ ppc' \in {ppc, "clock"}
    <3>1. CASE UNCHANGED pruner
      BY <3>1 DEF pruner, task
    <3>2. CASE Roll
      BY <3>2 DEF Roll, AtWork, task
    <3> QED  BY <1>4, <3>1, <3>2, Threads
  <2>3. Named' = Named  BY <2>2 DEF Named, Listed
  <2>4. /\ Total' <= Total + k /\ Size(disk', Named) <= Size(disk, Named) + k
        /\ written' = written + k /\ since' = since + k /\ kept' = kept
        /\ written' <= Budget \/ written' = written
        /\ vanished' <= Vanishing \/ vanished' = vanished
    BY <1>0, <2>1 DEF Change
  <2>5. PICK a \in Nat, b \in Nat : a = Size(disk, Named) /\ b = Size(disk', Named')
    BY <1>0
  <2>6. b <= a + k /\ kept + a <= written  BY <1>3, <2>3, <2>4, <2>5
  <2> HIDE DEF Total, Named
  <2>7. kept' + b <= written'  BY <1>0, <2>4, <2>6
  <2>8. /\ Total' <= written' /\ since' <= written' /\ written' <= Budget /\ vanished' <= Vanishing
    BY <1>0, <1>1, <1>3, <2>4
  <2>9. ppc' \in {"scan", "time"} => kept' = 0  BY <1>3, <2>2, <2>4
  <2> QED  BY <2>5, <2>7, <2>8, <2>9 DEF Spent, Named
<1>5. CASE PruneStep
  <2>1. /\ Total' <= Total /\ UNCHANGED <<written, vanished>> /\ since' \in {since, 0}
    BY <1>0, <1>5, PruneSizes
  <2>2. /\ Total' <= written' /\ since' <= written' /\ written' <= Budget /\ vanished' <= Vanishing
    <3> HIDE DEF Total
    <3> QED  BY <1>0, <1>1, <1>3, <2>1
  <2>3. PICK b \in Nat : b = Size(disk', Named')  BY <1>0
  <2>4. b <= written'
    <3>1. PICK t \in Nat, w \in Nat : t = Total' /\ w = written'  BY <1>0, <1>1, <2>1
    <3>2. b <= t /\ t <= w  BY <1>2, <2>2, <2>3, <3>1
    <3> QED  BY <3>1, <3>2
  <2>5. CASE kept' = 0
    BY <2>2, <2>3, <2>4, <2>5 DEF Spent, Named
  <2>6. CASE kept' # 0 /\ ~Remove
    <3>1. disk' = disk /\ kept' = kept /\ ~ReadClock  BY <1>5, <2>6, PruneSizes
    <3>2. ppc \notin {"scan", "time"}  BY <1>3, <2>6, <3>1
    <3>3. Named' \subseteq Named /\ ppc' \notin {"scan", "time"}
      <4>1. ASSUME NEW x \in listed, Subtract(x) PROVE Named' \subseteq Named /\ ppc' = "remove"
        BY <4>1 DEF Subtract, GotoP, Named, Listed
      <4>2. ASSUME PruneEnd PROVE Named' \subseteq Named /\ ppc' = "ended"
        BY <4>2 DEF PruneEnd, GotoP, Named, Listed
      <4> QED  BY <1>5, <2>6, <3>1, <3>2, <4>1, <4>2 DEF PruneStep, ScanSize, ScanTime, ScanEnd, GotoP
    <3>4. Size(disk, Named') <= Size(disk, Named)
      <4>1. Named' \cap DOMAIN disk \subseteq Named  BY <3>3
      <4> QED  BY <1>0, <4>1, SizePart, Zenon
    <3>5. PICK a \in Nat : a = Size(disk, Named)  BY <1>0
    <3>6. b <= a /\ kept + a <= written  BY <1>3, <2>3, <3>1, <3>4, <3>5
    <3>7. kept' + b <= written'  BY <1>0, <2>1, <3>1, <3>6
    <3> QED  BY <2>2, <2>3, <3>3, <3>7 DEF Spent, Named
  <2>7. CASE Remove
    <3>1. /\ ppc = "remove" /\ ppc' = "delete" /\ listed' = listed /\ cur' = NoName
          /\ cur \notin Listed
      BY <2>7 DEF Remove, GotoP, Scanning, Listed
    <3>2. Named' \cap DOMAIN disk \subseteq Listed
      BY <3>1, Unnamed DEF Named, Listed
    <3>3. Size(disk, Named') <= Size(disk, Listed)
      BY <1>0, <3>2, SizePart, Zenon
    <3>4. PICK a \in Nat, e \in Nat : a = Size(disk, Named) /\ e = Size(disk, Listed)
      BY <1>0
    <3>5. e <= a
      <4>1. Listed \cap DOMAIN disk \subseteq Named  BY DEF Named
      <4>2. Size(disk, Listed) <= Size(disk, Named)  BY <1>0, <4>1, SizePart, Zenon
      <4> QED  BY <3>4, <4>2
    <3>6. kept + a <= written  BY <1>3, <3>4
    <3>7. CASE kept' = kept /\ \A S : Size(disk', S) = Size(disk, S \ {cur})
      <4>1. Size(disk', Named') <= Size(disk, Named')
        <5>1. (Named' \ {cur}) \cap DOMAIN disk \subseteq Named'  OBVIOUS
        <5>2. Size(disk, Named' \ {cur}) <= Size(disk, Named')  BY <1>0, <5>1, SizePart, Zenon
        <5> QED  BY <3>7, <5>2
      <4>2. PICK n \in Nat : n = Size(disk, Named')  BY <1>0
      <4>3. b <= n /\ n <= e  BY <2>3, <3>3, <3>4, <4>1, <4>2
      <4>4. kept' + b <= written'  BY <1>0, <2>1, <3>5, <3>6, <3>7, <4>3
      <4> QED  BY <2>2, <2>3, <3>1, <4>4 DEF Spent, Named
    <3>8. CASE disk' = disk /\ cur \in DOMAIN disk /\ kept' = kept + disk[cur].size
      <4>1. PICK h \in Nat : h = disk[cur].size  BY <3>8 DEF TypeOK
      <4>2. a = e + h
        <5>1. Size(disk, Listed \cup {cur}) = Size(disk, Listed) + disk[cur].size
          BY <1>0, <3>1, <3>8, SizeWith, Zenon
        <5> QED  BY <3>4, <4>1, <5>1 DEF Named
      <4>3. b <= e  BY <2>3, <3>3, <3>4, <3>8
      <4>4. kept' + b <= written'  BY <1>0, <2>1, <3>6, <3>8, <4>1, <4>2, <4>3
      <4> QED  BY <2>2, <2>3, <3>1, <4>4 DEF Spent, Named
    <3> QED  BY <1>5, <2>7, <3>7, <3>8, PruneSizes
  <2> QED  BY <2>5, <2>6, <2>7
<1> QED  BY <1>4, <1>5

\* The file whose size was read gets onto the list.
LEMMA ScanTimeLists ==
    ASSUME ScanTime
    PROVE  Listed' = Listed \cup {cur}
<1> DEFINE e == <<Key(cur), cur>>
<1>1. listed' = listed \cup {e} /\ e[2] = cur  BY DEF ScanTime
<1> HIDE DEF e
<1> QED  BY <1>1 DEF Listed

\* What the scan knows of.
Known == unseen \cup Listed \cup {cur}

\* What the scan knows of is listed or removed in the end, the rest was made since.
LEMMA MissedStep ==
    ASSUME TypeOK, TypeOK', Fitting, Fitting', Scanning, Missed, [Next]_vars
    PROVE  Missed'
<1>0. /\ \A S : Size(disk, S) \in Nat /\ Size(disk', S) \in Nat
      /\ Longest \in Nat /\ Directory(disk, Longest)
      /\ since \in Nat /\ kept \in Nat
  BY Totals DEF TypeOK
<1> SUFFICES ASSUME Running' PROVE Size(disk', Names \ Known') <= since' + kept'
  BY DEF Missed, Known
<1>1. CASE ~PruneStep
  <2>1. UNCHANGED pruner  BY <1>1, RunsOn DEF Running
  <2>2. Known' = Known /\ Running
    BY <2>1 DEF Known, Listed, Running, pruner, task
  <2>3. PICK k \in Nat, g \in {0, 1} : Change(k, g)  BY <1>1, Others
  <2>4. Size(disk, Names \ Known) <= since + kept  BY <2>2 DEF Missed, Known
  <2>5. Size(disk', Names \ Known) <= Size(disk, Names \ Known) + k
        /\ since' = since + k /\ kept' = kept
    BY <2>3 DEF Change
  <2> HIDE DEF Known
  <2> QED  BY <1>0, <2>2, <2>4, <2>5
<1>2. CASE PruneStep
  <2>1. CASE ReadClock
    <3>1. disk' = disk /\ since' = 0 /\ kept' = 0 /\ unseen' = DOMAIN disk  BY <2>1 DEF ReadClock
    <3>2. (Names \ Known') \cap DOMAIN disk = {}  BY <3>1 DEF Known
    <3>3. Size(disk, Names \ Known') = 0  BY <3>2, SizeNone
    <3> QED  BY <3>1, <3>3
  <2>2. CASE Remove
    <3>1. since' = since /\ unseen' = unseen /\ listed' = listed /\ Running /\ ppc = "remove"
      BY <2>2 DEF Remove, Running, GotoP
    <3>2. (Names \ Known') \cap DOMAIN disk \subseteq (Names \ Known) \cup {cur}
      BY <3>1 DEF Known, Listed
    <3>3. ((Names \ Known') \ {cur}) \cap DOMAIN disk \subseteq Names \ Known
      BY <3>2
    <3>4. Size(disk, Names \ Known) <= since + kept  BY <3>1 DEF Missed, Known
    <3>5. cur \notin Names \ Known  BY DEF Known
    <3> HIDE DEF Known
    <3>6. CASE kept' = kept /\ \A S : Size(disk', S) = Size(disk, S \ {cur})
      <4>1. Size(disk', Names \ Known') = Size(disk, (Names \ Known') \ {cur})
        BY <3>6
      <4>2. Size(disk, (Names \ Known') \ {cur}) <= Size(disk, Names \ Known)
        BY <1>0, <3>3, SizePart, Zenon
      <4> QED  BY <1>0, <3>1, <3>4, <3>6, <4>1, <4>2
    <3>7. CASE disk' = disk /\ cur \in DOMAIN disk /\ kept' = kept + disk[cur].size
      <4>1. disk[cur].size \in Nat  BY <3>7 DEF TypeOK
      <4>2. Size(disk, Names \ Known') <= Size(disk, (Names \ Known) \cup {cur})
        BY <1>0, <3>2, SizePart, Zenon
      <4>3. Size(disk, (Names \ Known) \cup {cur}) = Size(disk, Names \ Known) + disk[cur].size
        BY <1>0, <3>5, <3>7, SizeWith, Zenon
      <4> QED  BY <1>0, <3>1, <3>4, <3>7, <4>1, <4>2, <4>3
    <3> QED  BY <1>2, <2>2, <3>6, <3>7, PruneSizes
  <2>3. CASE ~ReadClock /\ ~Remove
    <3>1. disk' = disk /\ kept' = kept  BY <1>2, <2>3, PruneSizes
    <3>2. since' = since /\ Running
      BY <1>2, <2>3 DEF PruneStep, ScanSize, ScanTime, ScanEnd, Subtract, PruneEnd, GotoP, Running
    <3>3. (Names \ Known') \cap DOMAIN disk \subseteq Names \ Known
      <4>0. NoName \notin DOMAIN disk /\ \A f \in DOMAIN disk : f # NoName  BY Unnamed
      <4>1. ASSUME NEW f \in unseen \cup DOMAIN disk, ScanSize(f)
            PROVE  Known \cap DOMAIN disk \subseteq Known'
        BY <4>0, <4>1 DEF ScanSize, GotoP, Known, Listed, Scanning, Exists
      <4>2. ASSUME ScanTime PROVE Known \cap DOMAIN disk \subseteq Known'
        BY <4>2, ScanTimeLists DEF ScanTime, Known
      <4>3. ASSUME ScanEnd PROVE Known \cap DOMAIN disk \subseteq Known'
        BY <4>3 DEF ScanEnd, Scanned, Known, Listed
      <4>4. ASSUME NEW x \in listed, Subtract(x) PROVE Known \cap DOMAIN disk \subseteq Known'
        BY <4>0, <4>4 DEF Subtract, GotoP, Known, Listed, Scanning
      <4>5. ~PruneEnd  BY DEF PruneEnd, GotoP, Running
      <4> QED  BY <1>2, <2>3, <4>1, <4>2, <4>3, <4>4, <4>5 DEF PruneStep, Known
    <3>4. Size(disk, Names \ Known') <= Size(disk, Names \ Known)
      BY <1>0, <3>3, SizePart, Zenon
    <3>5. Size(disk, Names \ Known) <= since + kept  BY <3>2 DEF Missed, Known
    <3> HIDE DEF Known
    <3> QED  BY <1>0, <3>1, <3>2, <3>4, <3>5
  <2> QED  BY <2>1, <2>2, <2>3
<1> QED  BY <1>1, <1>2
------------------------------------------------------------------------------
(* The sum *)

\* The two sides of what Summed says of a sum n: n is not much too small, nor too large.
Enough(n)  ==
    Size(disk, Counted) + Cardinality(unseen \ DOMAIN disk) <= n + since + kept + vanished
NotMore(n) ==
    n + Size(disk, Unread) + Cardinality((Listed \cup Reading) \ DOMAIN disk) <= written + vanished

\* What was written, counted twice, and what vanished are fewer than a word, so a sum that is neither
\* too small nor too large is the unsigned one, or that one less a word.
LEMMA SumsAgain ==
    ASSUME TypeOK, TypeOK', Fitting', Fitting, Spent', [Next]_vars,
           2 * Budget + Vanishing < Word,
           NEW u \in {uAll, uAll - Word}, NEW s \in Int, uAll' = Wrap(uAll + s),
           NEW n \in Int, n = u + s, Enough(n)', NotMore(n)'
    PROVE  Summed'
<1>0. \A S : Size(disk', S) \in Nat  BY Totals
<1>1. /\ Cardinality(unseen' \ DOMAIN disk') \in Nat
      /\ Cardinality((Listed' \cup Reading') \ DOMAIN disk') \in Nat
  <2>1. unseen' \ DOMAIN disk' \in SUBSET Names /\ (Listed' \cup Reading') \ DOMAIN disk' \in SUBSET Names
    BY DEF TypeOK, Listed, Reading
  <2> QED  BY <2>1, Count
<1>2. /\ written' \in Nat /\ since' \in Nat /\ kept' \in Nat /\ vanished' \in Nat
      /\ uAll \in 0..(Word - 1)
      /\ written' <= Budget /\ since' <= Budget /\ vanished' <= Vanishing
  BY DEF TypeOK, Spent
<1>3. /\ Size(disk', Counted') + Cardinality(unseen' \ DOMAIN disk') <= n + since' + kept' + vanished'
      /\ n + Size(disk', Unread') + Cardinality((Listed' \cup Reading') \ DOMAIN disk')
            <= written' + vanished'
  BY DEF Enough, NotMore
<1>4. PICK a \in Nat, b \in Nat, c \in Nat, e \in Nat :
        /\ a = Size(disk', Counted') /\ b = Size(disk', Unread')
        /\ c = Cardinality(unseen' \ DOMAIN disk')
        /\ e = Cardinality((Listed' \cup Reading') \ DOMAIN disk')
  BY <1>0, <1>1
<1>5. PICK w \in Nat, q \in Nat, h \in Nat, v \in Nat :
        w = written' /\ q = since' /\ h = kept' /\ v = vanished'
  BY <1>2
<1>6. a + c <= n + q + h + v /\ n + b + e <= w + v
  BY <1>3, <1>4, <1>5
<1>7. -Word <= n /\ n < Word
  <2>1. w <= Budget /\ q <= Budget /\ v <= Vanishing  BY <1>2, <1>5
  <2>2. h <= w
    <3>1. PICK z \in Nat : z = Size(disk', Listed' \cup {cur'})  BY <1>0
    <3>2. h + z <= w  BY <1>5, <3>1 DEF Spent
    <3> QED  BY <3>2
  <2> QED  BY <1>6, <2>1, <2>2
<1>8. n \in {uAll', uAll' - Word}
  BY <1>2, <1>7, WrapAdds
<1> QED  BY <1>3, <1>8 DEF Summed

\* The sum does not change: what it stands for may.
LEMMA SumKept ==
    ASSUME TypeOK, NEW u \in {uAll, uAll - Word}, uAll' = uAll, Enough(u)', NotMore(u)'
    PROVE  Summed'
BY DEF Enough, NotMore, Summed

\* Every step keeps the sum between its bounds, whether it counts a size, takes one off,
\* finds a file gone, or changes the directory under the scan.
LEMMA SummedStep ==
    ASSUME TypeOK, TypeOK', Fitting, Fitting', Spent', Spent, Scanning, Scanning', Summed,
           [Next]_vars, 2 * Budget + Vanishing < Word
    PROVE  Summed'
<1>0. /\ Longest \in Nat /\ Directory(disk, Longest) /\ Directory(disk', Longest)
      /\ \A S : Size(disk, S) \in Nat /\ Size(disk', S) \in Nat
      /\ written \in Nat /\ since \in Nat /\ kept \in Nat /\ vanished \in Nat
      /\ uAll \in Int /\ Word \in Int
  BY Totals DEF TypeOK
<1>1. \A S \in SUBSET Names : Cardinality(S \ DOMAIN disk) \in Nat /\ Cardinality(S \ DOMAIN disk') \in Nat
  BY Count
<1>2. /\ Listed \cup Reading \in SUBSET Names /\ unseen \in SUBSET Names /\ Counted \in SUBSET Names
      /\ (Listed \cup Reading)' \in SUBSET Names /\ unseen' \in SUBSET Names
      /\ Listed \in SUBSET Names
  BY DEF TypeOK, Listed, Reading, Counted
<1> SUFFICES ASSUME Running' PROVE Summed'
  BY DEF Summed
<1>3. CASE ReadClock /\ PruneStep
  <2>1. /\ ppc' = "scan" /\ uAll' = 0 /\ listed' = {} /\ unseen' = DOMAIN disk
        /\ since' = 0 /\ kept' = 0
        /\ disk' = disk /\ seen' = {} /\ UNCHANGED <<written, vanished>>
    BY <1>3 DEF ReadClock, PruneStep, GotoP
  <2>2. Size(disk, Counted') = 0
    <3>1. Counted' \cap DOMAIN disk = {}  BY <2>1 DEF Counted
    <3> QED  BY <3>1, SizeNone
  <2>3. Cardinality(unseen' \ DOMAIN disk) = 0 /\ Cardinality((Listed \cup Reading)' \ DOMAIN disk) = 0
    <3>1. unseen' \ DOMAIN disk = {} /\ (Listed \cup Reading)' \ DOMAIN disk = {}
      BY <2>1 DEF Listed, Reading
    <3> QED  BY <3>1, FS_EmptySet
  <2>4. Size(disk, Unread') <= written
    <3>1. Size(disk, Unread') = Total  BY <2>1, TotalIs DEF Unread
    <3> QED  BY <3>1 DEF Spent
  <2>5. 0 \in {uAll', uAll' - Word}  BY <2>1
  <2>6. Enough(0)' /\ NotMore(0)'
    BY <1>0, <2>1, <2>2, <2>3, <2>4 DEF Enough, NotMore
  <2> QED  BY <2>5, <2>6 DEF Summed, Enough, NotMore
<1>4. CASE ~PruneStep \/ ~ReadClock
  <2>1. Running
    <3>1. CASE PruneStep
      BY <1>4, <3>1 DEF PruneStep, ScanSize, ScanTime, ScanEnd, Subtract, Remove, PruneEnd, GotoP, Running
    <3>2. CASE ~PruneStep
      BY <3>2, RunsOn DEF Running, pruner
    <3> QED  BY <3>1, <3>2
  <2>2. PICK u \in {uAll, uAll - Word} : Enough(u) /\ NotMore(u)
    BY <2>1 DEF Summed, Enough, NotMore
  <2> DEFINE C == Cardinality(unseen \ DOMAIN disk)
             G == Cardinality((Listed \cup Reading) \ DOMAIN disk)
  <2>3. /\ u \in Int /\ C \in Nat /\ G \in Nat
        /\ Size(disk, Counted) + C <= u + since + kept + vanished
        /\ u + Size(disk, Unread) + G <= written + vanished
    <3>1. C \in Nat /\ G \in Nat  BY <1>1, <1>2
    <3>2. u \in Int  BY <1>0
    <3> QED  BY <2>2, <3>1, <3>2 DEF Enough, NotMore
  \* The step keeps the sum.
  <2>4. ASSUME uAll' = uAll, NEW k \in Nat, NEW g \in Nat, NEW h \in Nat,
               Size(disk', Counted') + Cardinality(unseen' \ DOMAIN disk')
                    <= Size(disk, Counted) + C + k + g + h,
               Size(disk', Unread') + Cardinality((Listed \cup Reading)' \ DOMAIN disk')
                    <= Size(disk, Unread) + G + k + g,
               written' = written + k, since' = since + k, kept' = kept + h, vanished' = vanished + g
        PROVE  Summed'
    <3> DEFINE C1 == Cardinality(unseen' \ DOMAIN disk')
               G1 == Cardinality((Listed \cup Reading)' \ DOMAIN disk')
    <3>1. C1 \in Nat /\ G1 \in Nat  BY <1>1, <1>2
    <3>2. /\ Size(disk', Counted') + C1 <= Size(disk, Counted) + C + k + g + h
          /\ Size(disk', Unread') + G1 <= Size(disk, Unread) + G + k + g
      BY <2>4
    <3>3. /\ Size(disk', Counted') + C1 <= u + since' + kept' + vanished'
          /\ u + Size(disk', Unread') + G1 <= written' + vanished'
      <4> HIDE DEF C, G, C1, G1
      <4> QED  BY <1>0, <2>3, <2>4, <3>1, <3>2
    <3>4. Enough(u)' /\ NotMore(u)'  BY <3>3 DEF Enough, NotMore
    <3> QED  BY <2>4, <3>4, SumKept
  \* The step adds s to the sum.
  <2>5. ASSUME NEW s \in Int, uAll' = Wrap(uAll + s),
               Size(disk', Counted') + Cardinality(unseen' \ DOMAIN disk') <= Size(disk, Counted) + C + s,
               Size(disk', Unread') + Cardinality((Listed \cup Reading)' \ DOMAIN disk') + s
                    <= Size(disk, Unread) + G,
               written' = written, since' = since, kept' = kept, vanished' = vanished
        PROVE  Summed'
    <3> DEFINE C1 == Cardinality(unseen' \ DOMAIN disk')
               G1 == Cardinality((Listed \cup Reading)' \ DOMAIN disk')
    <3>1. C1 \in Nat /\ G1 \in Nat  BY <1>1, <1>2
    <3>2. /\ Size(disk', Counted') + C1 <= Size(disk, Counted) + C + s
          /\ Size(disk', Unread') + G1 + s <= Size(disk, Unread) + G
      BY <2>5
    <3>3. /\ Size(disk', Counted') + C1 <= (u + s) + since' + kept' + vanished'
          /\ (u + s) + Size(disk', Unread') + G1 <= written' + vanished'
      <4> HIDE DEF C, G, C1, G1
      <4> QED  BY <1>0, <2>3, <2>5, <3>1, <3>2
    <3>4. PICK n \in Int : n = u + s  BY <2>3
    <3>5. Enough(n)' /\ NotMore(n)'  BY <3>3, <3>4 DEF Enough, NotMore
    <3> QED  BY <2>5, <3>4, <3>5, SumsAgain
  <2>6. CASE ~PruneStep
    <3>1. PICK k \in Nat, g \in {0, 1} : Change(k, g)  BY <2>6, Others
    <3>2. UNCHANGED pruner  BY <2>6, RunsOn DEF Running
    <3>3. /\ uAll' = uAll /\ Counted' = Counted /\ unseen' = unseen /\ Unread' = Unread
          /\ (Listed \cup Reading)' = Listed \cup Reading
      BY <3>2 DEF pruner, task, Counted, Unread, Listed, Reading
    <3>4. /\ Size(disk', Counted) <= Size(disk, Counted) + k
          /\ Size(disk', Unread) <= Size(disk, Unread) + k
          /\ Cardinality(unseen \ DOMAIN disk') <= C + g
          /\ Cardinality((Listed \cup Reading) \ DOMAIN disk') <= G + g
          /\ written' = written + k /\ since' = since + k /\ kept' = kept /\ vanished' = vanished + g
      BY <1>2, <3>1 DEF Change
    <3> DEFINE C1 == Cardinality(unseen \ DOMAIN disk')
               G1 == Cardinality((Listed \cup Reading) \ DOMAIN disk')
    <3>5. C1 \in Nat /\ G1 \in Nat  BY <1>1, <1>2
    <3>6. /\ Size(disk', Counted) + C1 <= Size(disk, Counted) + C + k + g + 0
          /\ Size(disk', Unread) + G1 <= Size(disk, Unread) + G + k + g
      <4>1. /\ Size(disk', Counted) <= Size(disk, Counted) + k
            /\ Size(disk', Unread) <= Size(disk, Unread) + k
            /\ C1 <= C + g /\ G1 <= G + g
        BY <3>4
      <4> HIDE DEF C, G, C1, G1
      <4> QED  BY <1>0, <2>3, <3>5, <4>1
    <3>7. kept' = kept + 0  BY <1>0, <3>4
    <3> QED  BY <2>4, <3>3, <3>4, <3>6, <3>7
  <2>7. CASE PruneStep /\ Remove
    <3>1. UNCHANGED <<written, vanished, since, uAll, unseen, listed>>
      BY <2>7 DEF PruneStep, Remove
    <3>2. ppc = "remove" /\ ppc' = "delete" /\ Reading = {} /\ Reading' = {} /\ unseen = {}
          /\ Unread = {} /\ Unread' = {} /\ Counted = (Names \ unseen) \ {cur} /\ Counted' = Names \ unseen
      BY <2>7 DEF Remove, GotoP, Reading, Unread, Counted, Scanning
    <3>3. PICK c \in Nat, e \in Nat : c = Size(disk, Counted) /\ e = Size(disk, Unread)
      BY <1>0
    <3>4. PICK h \in Nat : Size(disk', Counted') <= c + h /\ kept' = kept + h
      <4>1. CASE kept' = kept /\ \A S : Size(disk', S) = Size(disk, S \ {cur})
        <5>1. Size(disk', Counted') = c  BY <3>2, <3>3, <4>1
        <5> QED  BY <1>0, <4>1, <5>1
      <4>2. CASE disk' = disk /\ cur \in DOMAIN disk /\ kept' = kept + disk[cur].size
        <5>1. Counted' = Counted \cup {cur} /\ cur \notin Counted  BY <3>2, <4>2 DEF TypeOK
        <5>2. Size(disk, Counted \cup {cur}) = Size(disk, Counted) + disk[cur].size
          BY <1>0, <4>2, <5>1, SizeWith, Zenon
        <5>3. disk[cur].size \in Nat  BY <4>2 DEF TypeOK
        <5>4. Size(disk', Counted') = c + disk[cur].size  BY <3>3, <4>2, <5>1, <5>2
        <5> QED  BY <4>2, <5>3, <5>4
      <4> QED  BY <2>7, <4>1, <4>2, PruneSizes
    <3>5. Size(disk', Unread') = 0  BY <3>2, SizeNone
    <3>6. /\ unseen' = {} /\ (Listed \cup Reading)' \ DOMAIN disk' \subseteq (Listed \cup Reading) \ DOMAIN disk
      <4>1. DOMAIN disk \ {cur} \subseteq DOMAIN disk'  BY <2>7, PruneFrame
      <4> QED  BY <3>1, <3>2, <4>1 DEF Scanning, Listed
    <3>7. /\ Cardinality(unseen' \ DOMAIN disk') = 0
          /\ Cardinality((Listed \cup Reading)' \ DOMAIN disk') <= G
      <4>1. unseen' \ DOMAIN disk' = {}  BY <3>6
      <4>2. Cardinality(unseen' \ DOMAIN disk') = 0  BY <4>1, FS_EmptySet
      <4>3. Cardinality((Listed \cup Reading)' \ DOMAIN disk') <= G
        BY <1>2, <3>6, Count
      <4> QED  BY <4>2, <4>3
    <3>8. /\ Size(disk', Counted') + Cardinality(unseen' \ DOMAIN disk') <= Size(disk, Counted) + C + 0 + 0 + h
          /\ Size(disk', Unread') + Cardinality((Listed \cup Reading)' \ DOMAIN disk')
                <= Size(disk, Unread) + G + 0 + 0
      <4>1. PICK f \in Nat : f = Cardinality((Listed \cup Reading)' \ DOMAIN disk')  BY <1>1, <1>2
      <4>2. PICK d \in Nat : d = Size(disk', Counted')  BY <1>0
      <4>3. d <= c + h  BY <3>4, <4>2
      <4>4. f <= G  BY <3>7, <4>1
      <4> HIDE DEF C, G
      <4>5. d + 0 <= c + C + 0 + 0 + h /\ 0 + f <= e + G + 0 + 0  BY <2>3, <4>3, <4>4
      <4> QED  BY <3>3, <3>5, <3>7, <4>1, <4>2, <4>5
    <3>9. written' = written + 0 /\ since' = since + 0 /\ vanished' = vanished + 0
      BY <1>0, <3>1
    <3> QED  BY <2>4, <3>1, <3>4, <3>8, <3>9
  <2>8. CASE PruneStep /\ ~Remove
    <3>0. disk' = disk /\ UNCHANGED <<written, vanished, kept>> /\ kept' = kept + 0
      <4>1. disk' = disk /\ UNCHANGED <<written, vanished, kept>>  BY <1>4, <2>8, PruneSizes
      <4> QED  BY <1>0, <4>1
    <3>1. CASE ScanTime
      <4>1. /\ ppc = "time" /\ ppc' = "scan" /\ UNCHANGED <<uAll, unseen, seen, since>>
        BY <3>1 DEF ScanTime, GotoP
      <4>2. Counted' = Counted /\ Unread' = Unread  BY <4>1 DEF Counted, Unread
      <4>3. (Listed \cup Reading)' = Listed \cup Reading
        BY <3>1, <4>1, ScanTimeLists DEF Reading
      <4> HIDE DEF C, G
      <4>4. /\ Size(disk', Counted') = Size(disk, Counted) /\ Size(disk', Unread') = Size(disk, Unread)
            /\ Cardinality(unseen' \ DOMAIN disk') = C
            /\ Cardinality((Listed \cup Reading)' \ DOMAIN disk') = G
        BY <3>0, <4>1, <4>2, <4>3, Zenon DEF C, G
      <4>5. Size(disk, Counted) \in Nat /\ Size(disk, Unread) \in Nat  BY <1>0
      <4>6. written' = written + 0 /\ since' = since + 0 /\ vanished' = vanished + 0
        BY <1>0, <3>0, <4>1
      <4>7. /\ Size(disk', Counted') + Cardinality(unseen' \ DOMAIN disk') <= Size(disk, Counted) + C + 0 + 0 + 0
            /\ Size(disk', Unread') + Cardinality((Listed \cup Reading)' \ DOMAIN disk')
                  <= Size(disk, Unread) + G + 0 + 0
        BY <2>3, <4>4, <4>5
      <4> QED  BY <2>4, <3>0, <4>1, <4>6, <4>7
    <3>2. CASE ScanEnd
      <4>1. /\ ppc = "scan" /\ ppc' = "delete" /\ unseen' = {} /\ unseen \cap DOMAIN disk = {}
            /\ UNCHANGED <<uAll, listed, cur, since>>
        BY <3>2 DEF ScanEnd, Scanned, GotoP
      <4>2. Size(disk', Counted') = Size(disk, Counted)
        <5>1. Counted' \cap DOMAIN disk = Counted \cap DOMAIN disk  BY <4>1 DEF Counted
        <5> QED  BY <3>0, <5>1, SizeSame
      <4>3. Size(disk', Unread') = 0  BY <4>1, SizeNone DEF Unread
      <4>4. (Listed \cup Reading)' \ DOMAIN disk' = (Listed \cup Reading) \ DOMAIN disk
        BY <3>0, <4>1 DEF Listed, Reading
      <4>5. Cardinality(unseen' \ DOMAIN disk') = 0
        <5>1. unseen' \ DOMAIN disk' = {}  BY <4>1
        <5> QED  BY <5>1, FS_EmptySet
      <4>6. Cardinality((Listed \cup Reading)' \ DOMAIN disk') = G
        BY <4>4
      <4>7. Size(disk, Counted) \in Nat /\ Size(disk, Unread) \in Nat  BY <1>0
      <4>8. written' = written + 0 /\ since' = since + 0 /\ vanished' = vanished + 0
        BY <1>0, <3>0, <4>1
      <4> HIDE DEF C, G
      <4>9. /\ Size(disk', Counted') + Cardinality(unseen' \ DOMAIN disk') <= Size(disk, Counted) + C + 0 + 0 + 0
            /\ Size(disk', Unread') + Cardinality((Listed \cup Reading)' \ DOMAIN disk')
                  <= Size(disk, Unread) + G + 0 + 0
        BY <2>3, <4>2, <4>3, <4>5, <4>6, <4>7
      <4> QED  BY <2>4, <3>0, <4>1, <4>8, <4>9
    <3>3. ASSUME NEW f \in unseen \cup DOMAIN disk, ScanSize(f), f \in DOMAIN disk PROVE Summed'
      <4>1. /\ ppc = "scan" /\ ppc' = "time" /\ cur' = f /\ listed' = listed /\ since' = since
            /\ unseen' = unseen \ {f} /\ seen' = seen \cup {f} /\ f \notin seen
            /\ uAll' = Wrap(uAll + disk[f].size)
        BY <3>3 DEF ScanSize, GotoP, Exists, SizeOf, Scanning
      <4>2. f \in Names /\ disk[f].size \in Nat  BY <3>3 DEF TypeOK
      <4>3. Size(disk', Counted') <= Size(disk, Counted) + disk[f].size
        <5>1. Size(disk, Counted \ {f}) \in Nat /\ Size(disk, Counted) \in Nat  BY <1>0
        <5>2. Counted' = (Counted \ {f}) \cup {f}  BY <4>1, <4>2 DEF Counted
        <5>3. Size(disk, (Counted \ {f}) \cup {f}) = Size(disk, Counted \ {f}) + disk[f].size
          <6>1. f \notin Counted \ {f}  OBVIOUS
          <6> QED  BY <1>0, <3>3, <6>1, SizeWith, Zenon
        <5>4. Size(disk, Counted \ {f}) <= Size(disk, Counted)
          <6>1. (Counted \ {f}) \cap DOMAIN disk \subseteq Counted  OBVIOUS
          <6> QED  BY <1>0, <6>1, SizePart, Zenon
        <5>5. Size(disk', Counted') = Size(disk, Counted \ {f}) + disk[f].size
          BY <3>0, <5>2, <5>3, Zenon
        <5> QED  BY <4>2, <5>1, <5>4, <5>5
      <4>4. Size(disk, Unread) = Size(disk', Unread') + disk[f].size
        <5>1. Unread = Unread' \cup {f} /\ f \notin Unread'
          BY <4>1, <4>2 DEF Unread
        <5>2. Size(disk, Unread' \cup {f}) = Size(disk, Unread') + disk[f].size
          BY <1>0, <3>3, <5>1, SizeWith, Zenon
        <5> QED  BY <3>0, <5>1, <5>2, Zenon
      <4>5. Cardinality(unseen' \ DOMAIN disk') = C
        <5>1. unseen' \ DOMAIN disk' = unseen \ DOMAIN disk  BY <3>0, <3>3, <4>1
        <5> QED  BY <5>1
      <4>6. Cardinality((Listed \cup Reading)' \ DOMAIN disk') = G
        <5>1. (Listed \cup Reading)' \ DOMAIN disk' = (Listed \cup Reading) \ DOMAIN disk
          BY <3>0, <3>3, <4>1 DEF Listed, Reading
        <5> QED  BY <5>1
      <4>7. Size(disk, Counted) \in Nat /\ Size(disk', Counted') \in Nat /\ Size(disk', Unread') \in Nat
        BY <1>0
      <4> HIDE DEF C, G
      <4>8. /\ Size(disk', Counted') + Cardinality(unseen' \ DOMAIN disk') <= Size(disk, Counted) + C + disk[f].size
            /\ Size(disk', Unread') + Cardinality((Listed \cup Reading)' \ DOMAIN disk') + disk[f].size
                <= Size(disk, Unread) + G
        BY <2>3, <4>2, <4>3, <4>4, <4>5, <4>6, <4>7
      <4>9. PICK s \in Int : s = disk[f].size  BY <4>2
      <4> QED  BY <2>5, <3>0, <4>1, <4>8, <4>9
    <3>4. ASSUME NEW f \in unseen \cup DOMAIN disk, ScanSize(f), f \notin DOMAIN disk PROVE Summed'
      <4>1. /\ ppc = "scan" /\ ppc' = "scan" /\ listed' = listed /\ since' = since
            /\ unseen' = unseen \ {f} /\ seen' = seen \cup {f} /\ f \in unseen
            /\ uAll' = Wrap(uAll + -1)
        BY <3>4 DEF ScanSize, GotoP, Exists, SizeOf
      <4>2. Size(disk', Counted') = Size(disk, Counted)
        <5>1. Counted' \cap DOMAIN disk = Counted \cap DOMAIN disk
          BY <3>4, <4>1 DEF Counted
        <5> QED  BY <3>0, <5>1, SizeSame
      <4>3. Size(disk', Unread') = Size(disk, Unread)
        <5>1. Unread' \cap DOMAIN disk = Unread \cap DOMAIN disk
          BY <3>4, <4>1 DEF Unread
        <5> QED  BY <3>0, <5>1, SizeSame
      <4>4. Cardinality(unseen' \ DOMAIN disk') + 1 <= C
        <5>1. /\ unseen' \ DOMAIN disk' \in SUBSET Names /\ unseen \ DOMAIN disk \in SUBSET Names
              /\ f \notin unseen' \ DOMAIN disk' /\ (unseen' \ DOMAIN disk') \cup {f} \subseteq unseen \ DOMAIN disk
          BY <1>2, <3>0, <3>4, <4>1
        <5> QED  BY <5>1, Count
      <4>5. Cardinality((Listed \cup Reading)' \ DOMAIN disk') = G
        <5>1. (Listed \cup Reading)' \ DOMAIN disk' = (Listed \cup Reading) \ DOMAIN disk
          BY <3>0, <4>1 DEF Listed, Reading
        <5> QED  BY <5>1
      <4>6. /\ Size(disk, Counted) \in Nat /\ Size(disk, Unread) \in Nat
            /\ Cardinality(unseen' \ DOMAIN disk') \in Nat
        BY <1>0, <1>1, <1>2
      <4> HIDE DEF C, G
      <4>7. /\ Size(disk', Counted') + Cardinality(unseen' \ DOMAIN disk') <= Size(disk, Counted) + C + -1
            /\ Size(disk', Unread') + Cardinality((Listed \cup Reading)' \ DOMAIN disk') + -1
                <= Size(disk, Unread) + G
        BY <2>3, <4>2, <4>3, <4>4, <4>5, <4>6
      <4> QED  BY <2>5, <3>0, <4>1, <4>7
    <3>5. ASSUME NEW x \in listed, Subtract(x), x[2] \in DOMAIN disk PROVE Summed'
      <4> DEFINE f == x[2]
      <4>1. /\ ppc = "delete" /\ ppc' = "remove" /\ cur' = f /\ cur = NoName /\ since' = since
            /\ listed' = listed \ {x} /\ UNCHANGED <<unseen, seen>>
            /\ uAll' = Wrap(uAll - disk[f].size)
        BY <3>5 DEF Subtract, Rest, GotoP, Exists, SizeOf, Scanning
      <4>2. f \in Names /\ disk[f].size \in Nat /\ unseen = {}  BY <3>5, <4>1 DEF TypeOK, Scanning
      <4>3. Size(disk, Counted) = Size(disk', Counted') + disk[f].size
        <5>1. Counted = Counted' \cup {f} /\ f \notin Counted'
          BY <4>1, <4>2 DEF Counted
        <5>2. Size(disk, Counted' \cup {f}) = Size(disk, Counted') + disk[f].size
          BY <1>0, <3>5, <5>1, SizeWith, Zenon
        <5> QED  BY <3>0, <5>1, <5>2, Zenon
      <4>4. Size(disk', Unread') = 0  BY <4>1, SizeNone DEF Unread
      <4>5. Cardinality(unseen' \ DOMAIN disk') = C  BY <3>0, <4>1
      <4>6. Cardinality((Listed \cup Reading)' \ DOMAIN disk') <= G
        <5>1. (Listed \cup Reading)' \ DOMAIN disk' \subseteq (Listed \cup Reading) \ DOMAIN disk
          BY <3>0, <4>1 DEF Listed, Reading
        <5> QED  BY <1>2, <5>1, Count
      <4>7. /\ Size(disk', Counted') \in Nat /\ Size(disk, Unread) \in Nat
            /\ Cardinality((Listed \cup Reading)' \ DOMAIN disk') \in Nat
        BY <1>0, <1>1, <1>2
      <4>8. PICK s \in Int : s = -disk[f].size  BY <4>2
      <4> HIDE DEF C, G, f
      <4>9. /\ Size(disk', Counted') + Cardinality(unseen' \ DOMAIN disk') <= Size(disk, Counted) + C + s
            /\ Size(disk', Unread') + Cardinality((Listed \cup Reading)' \ DOMAIN disk') + s
                <= Size(disk, Unread) + G
        BY <2>3, <4>2, <4>3, <4>4, <4>5, <4>6, <4>7, <4>8
      <4>10. uAll - disk[f].size = uAll + s  BY <1>0, <4>2, <4>8
      <4> QED  BY <2>5, <3>0, <4>1, <4>9, <4>10
    <3>6. ASSUME NEW x \in listed, Subtract(x), x[2] \notin DOMAIN disk PROVE Summed'
      <4> DEFINE f == x[2]
      <4>1. /\ ppc = "delete" /\ ppc' = "remove" /\ cur' = f /\ cur = NoName /\ since' = since
            /\ listed' = listed \ {x} /\ UNCHANGED <<unseen, seen>>
            /\ uAll' = Wrap(uAll - -1)
        BY <3>6 DEF Subtract, Rest, GotoP, Exists, SizeOf, Scanning
      <4>2. f \in Names /\ f \in Listed /\ f \notin Listed'  BY <4>1 DEF TypeOK, Scanning, Listed
      <4>3. Size(disk', Counted') = Size(disk, Counted)
        <5>1. Counted' \cap DOMAIN disk = Counted \cap DOMAIN disk
          BY <3>6, <4>1 DEF Counted
        <5> QED  BY <3>0, <5>1, SizeSame
      <4>4. Size(disk', Unread') = 0  BY <4>1, SizeNone DEF Unread
      <4>5. Cardinality(unseen' \ DOMAIN disk') = C  BY <3>0, <4>1
      <4>6. Cardinality((Listed \cup Reading)' \ DOMAIN disk') + 1 <= G
        <5>0. Reading = {} /\ Reading' = {} /\ Listed' \subseteq Listed
          BY <4>1 DEF Reading, Listed
        <5>1. /\ (Listed \cup Reading)' \ DOMAIN disk' \in SUBSET Names
              /\ (Listed \cup Reading) \ DOMAIN disk \in SUBSET Names
              /\ f \notin (Listed \cup Reading)' \ DOMAIN disk'
              /\ ((Listed \cup Reading)' \ DOMAIN disk') \cup {f} \subseteq (Listed \cup Reading) \ DOMAIN disk
          BY <1>2, <3>0, <3>6, <4>2, <5>0
        <5> HIDE DEF f
        <5> QED  BY <5>1, Count
      <4>7. /\ Size(disk', Counted') \in Nat /\ Size(disk, Unread) \in Nat
            /\ Cardinality((Listed \cup Reading)' \ DOMAIN disk') \in Nat
        BY <1>0, <1>1, <1>2
      <4> HIDE DEF C, G, f
      <4>8. /\ Size(disk', Counted') + Cardinality(unseen' \ DOMAIN disk') <= Size(disk, Counted) + C + 1
            /\ Size(disk', Unread') + Cardinality((Listed \cup Reading)' \ DOMAIN disk') + 1
                <= Size(disk, Unread) + G
        BY <2>3, <4>3, <4>4, <4>5, <4>6, <4>7
      <4>9. uAll - -1 = uAll + 1  BY <1>0
      <4> QED  BY <2>5, <3>0, <4>1, <4>8, <4>9
    <3>7. ~PruneEnd  BY DEF PruneEnd, GotoP, Running
    <3> QED  BY <1>4, <2>8, <3>1, <3>2, <3>3, <3>4, <3>5, <3>6, <3>7 DEF PruneStep
  <2> QED  BY <2>6, <2>7, <2>8
<1> QED  BY <1>3, <1>4, RunsOn
------------------------------------------------------------------------------
(* What the sum says *)

\* A prune ends when the sum, which is not much too small, is within the limit, or
\* when it knows of no more files.
LEMMA ReachedStep ==
    ASSUME TypeOK, TypeOK', Fitting, Fitting', Scanning, Summed, Missed, LimitReached, [Next]_vars
    PROVE  LimitReached'
<1>0. /\ \A S : Size(disk, S) \in Nat /\ Size(disk', S) \in Nat
      /\ Total = Size(disk, Names) /\ Total' = Size(disk', Names)
      /\ maxStorage \in Nat /\ since \in Nat /\ kept \in Nat /\ vanished \in Nat /\ uAll \in Nat /\ Word \in Nat
      /\ maxStorage' = maxStorage
  BY Totals, Threads DEF TypeOK, limits
<1> SUFFICES ASSUME ppc' = "ended" PROVE Total' <= maxStorage' + since' + kept' + vanished'
  BY DEF LimitReached
<1>1. CASE ~PruneStep
  <2>1. PICK k \in Nat, g \in {0, 1} : Change(k, g)  BY <1>1, Others
  <2>2. ppc = "ended"  BY <1>1, RunsOn DEF pruner
  <2>3. Total <= maxStorage + since + kept + vanished  BY <2>2 DEF LimitReached
  <2>4. /\ Size(disk', Names) <= Size(disk, Names) + k
        /\ since' = since + k /\ kept' = kept /\ vanished' = vanished + g
    BY <2>1 DEF Change
  <2> QED  BY <1>0, <2>3, <2>4
<1>2. CASE PruneStep
  <2>1. PruneEnd
    BY <1>2 DEF PruneStep, ReadClock, ScanSize, ScanTime, ScanEnd, Subtract, Remove, GotoP
  <2>2. /\ disk' = disk /\ UNCHANGED <<since, kept, vanished>> /\ ppc = "delete"
        /\ uAll <= maxStorage \/ listed = {}
    BY <1>2, <2>1 DEF PruneStep, PruneEnd, GotoP
  <2>3. unseen = {} /\ cur = NoName /\ Running  BY <2>2 DEF Scanning, Running
  <2>4. CASE uAll <= maxStorage
    <3>1. PICK u \in {uAll, uAll - Word} :
            Size(disk, Counted) + Cardinality(unseen \ DOMAIN disk) <= u + since + kept + vanished
      BY <2>3 DEF Summed
    <3>2. Counted = Names  BY <2>2, <2>3 DEF Counted
    <3>3. Cardinality(unseen \ DOMAIN disk) \in Nat
      <4>1. unseen \ DOMAIN disk \in SUBSET Names  BY DEF TypeOK
      <4> QED  BY <4>1, Count
    <3>4. u \in Int /\ u <= uAll  BY <1>0
    <3>5. Size(disk, Names) <= uAll + since + kept + vanished
      BY <1>0, <3>1, <3>2, <3>3, <3>4
    <3> QED  BY <1>0, <2>2, <2>4, <3>5
  <2>5. CASE listed = {}
    <3>1. Size(disk, Names \ Known) <= since + kept  BY <2>3 DEF Missed, Known
    <3>2. (Names \ Known) \cap DOMAIN disk = Names \cap DOMAIN disk
      BY <2>3, <2>5, Unnamed DEF Known, Listed
    <3>3. Size(disk, Names \ Known) = Size(disk, Names)  BY <3>2, SizeSame
    <3> QED  BY <1>0, <2>2, <3>1, <3>3
  <2> QED  BY <2>2, <2>4, <2>5
<1> QED  BY <1>1, <1>2

\* Files of a list only grow, and none that is taken off the sum is longer than the
\* limit that the sum exceeds: it does not wrap.
LEMMA ExactStep ==
    ASSUME TypeOK, TypeOK', Fitting, Fitting', Spent, Scanning, Scanning', Listing, Exact,
           [Next]_vars, vanished' = 0, Roomy, Budget < Word
    PROVE  Exact'
<1>0. /\ Longest \in Nat /\ Directory(disk, Longest)
      /\ \A S : Size(disk, S) \in Nat /\ Size(disk', S) \in Nat
      /\ Total = Size(disk, Names) /\ Total' = Size(disk', Names)
      /\ maxStorage \in Nat /\ maxFile \in Nat /\ uAll \in Nat /\ written \in Nat
      /\ maxStorage' = maxStorage
  BY Totals, Threads DEF TypeOK, limits
<1>1. /\ \A f \in Listed \cup Reading : f \in DOMAIN disk
      /\ \A f \in DOMAIN disk : f \in Names /\ disk[f].size \in Nat /\ disk[f].size <= maxStorage
  <2>1. ASSUME NEW f \in DOMAIN disk
        PROVE  f \in Names /\ disk[f].size \in Nat /\ disk[f].size <= maxStorage
    <3>1. /\ f \in Names /\ disk[f].size \in Nat
          /\ disk[f].size < maxFile + MaxWrite \/ disk[f].size <= MaxOther
      BY DEF TypeOK, Fitting
    <3> QED  BY <1>0, <3>1 DEF Roomy
  <2>2. \A f \in Listed \cup Reading : f \in DOMAIN disk
    BY DEF Listing, Listed, Reading, Exists
  <2> QED  BY <2>1, <2>2
<1> SUFFICES ASSUME Running'
             PROVE  /\ uAll' <= Size(disk', (Listed \cup Reading)')
                    /\ ppc' = "remove" => Total' > maxStorage
  <2>1. ppc' = "remove" => Running'  BY DEF Running
  <2> QED  BY <1>0, <2>1 DEF Exact
<1>2. CASE ~PruneStep
  <2>1. UNCHANGED pruner  BY <1>2, RunsOn DEF Running
  <2>2. /\ ppc' = ppc /\ uAll' = uAll /\ (Listed \cup Reading)' = Listed \cup Reading /\ Running
    BY <2>1 DEF pruner, task, Listed, Reading, Running
  <2>3. PICK k \in Nat, g \in {0, 1} : Change(k, g)  BY <1>2, Others
  <2>4. \A S : Size(disk, S) <= Size(disk', S)
    <3>1. vanished \in Nat /\ vanished' = vanished + g  BY <2>3 DEF Change, TypeOK
    <3>2. g = 0  BY <3>1
    <3> QED  BY <2>3, <3>2 DEF Change
  <2>5. Size(disk, Listed \cup Reading) <= Size(disk', Listed \cup Reading) /\ Total <= Total'
    BY <1>0, <2>4
  <2>6. uAll <= Size(disk, Listed \cup Reading) /\ (ppc = "remove" => Total > maxStorage)
    BY <2>2 DEF Exact
  <2> HIDE DEF Total
  <2>7. uAll' <= Size(disk', (Listed \cup Reading)')
    <3>1. uAll <= Size(disk', Listed \cup Reading)  BY <1>0, <2>5, <2>6
    <3> QED  BY <2>2, <3>1, Zenon
  <2>8. ppc' = "remove" => Total' > maxStorage
    <3>1. Total \in Nat /\ Total' \in Nat  BY <1>0
    <3>2. Total > maxStorage => Total' > maxStorage  BY <1>0, <2>5, <3>1
    <3> QED  BY <2>2, <2>6, <3>2
  <2> QED  BY <2>7, <2>8
<1>3. CASE ReadClock
  BY <1>0, <1>3 DEF ReadClock, GotoP
<1>4. CASE PruneStep /\ ~ReadClock
  <2>1. Running
    BY <1>4 DEF PruneStep, ScanSize, ScanTime, ScanEnd, Subtract, Remove, PruneEnd, GotoP, Running
  <2>2. uAll <= Size(disk, Listed \cup Reading)  BY <2>1 DEF Exact
  <2>3. ~Remove => disk' = disk  BY <1>4, PruneSizes
  <2>4. ASSUME NEW f \in unseen \cup DOMAIN disk, ScanSize(f)
        PROVE  uAll' <= Size(disk', (Listed \cup Reading)') /\ ppc' # "remove"
    <3>0. f \in DOMAIN disk  BY <2>4 DEF ScanSize, GotoP, Listing
    <3>1. f \in DOMAIN disk /\ disk[f].size \in Nat /\ f \in Names  BY <1>1, <3>0
    <3>2. /\ ppc = "scan" /\ ppc' = "time" /\ cur' = f /\ listed' = listed /\ disk' = disk
          /\ uAll' = Wrap(uAll + disk[f].size) /\ f \notin seen
      BY <2>4, <3>1 DEF ScanSize, GotoP, Exists, SizeOf, Scanning
    <3>3. Reading = {} /\ (Listed \cup Reading)' = Listed \cup {f} /\ f \notin Listed
      BY <3>2 DEF Reading, Listed, Scanning
    <3>4. Listed \cup Reading = Listed  BY <3>3
    <3>5. Size(disk, Listed \cup {f}) = Size(disk, Listed) + disk[f].size
      BY <1>0, <3>1, <3>3, SizeWith, Zenon
    <3>6. Size(disk, Listed \cup {f}) <= Total
      <4>1. (Listed \cup {f}) \cap DOMAIN disk \subseteq Names  BY <1>1
      <4>2. Size(disk, Listed \cup {f}) <= Size(disk, Names)  BY <1>0, <4>1, SizePart, Zenon
      <4> QED  BY <1>0, <4>2, Zenon
    <3>7. uAll <= Size(disk, Listed)  BY <2>2, <3>4, Zenon
    <3>8. PICK a \in Nat, z \in Nat, t \in Nat, w \in Nat :
            a = Size(disk, Listed) /\ z = disk[f].size /\ t = Total /\ w = written
      BY <1>0, <3>1
    <3>9. uAll <= a /\ a + z <= t /\ t <= w /\ w <= Budget
      BY <3>5, <3>6, <3>7, <3>8 DEF Spent
    <3>10. uAll + z \in 0..(Word - 1)  BY <1>0, <3>9
    <3>11. uAll' = uAll + z  BY <3>2, <3>8, <3>10, WrapKeeps
    <3>12. Size(disk', (Listed \cup Reading)') = a + z  BY <3>2, <3>3, <3>5, <3>8, Zenon
    <3> QED  BY <1>0, <3>2, <3>9, <3>11, <3>12
  <2>5. CASE ScanTime
    <3>1. /\ ppc = "time" /\ ppc' = "scan" /\ UNCHANGED <<disk, uAll>>
      BY <2>5 DEF ScanTime, GotoP
    <3>2. (Listed \cup Reading)' = Listed \cup Reading
      BY <2>5, <3>1, ScanTimeLists DEF Reading
    <3> QED  BY <2>2, <3>1, <3>2
  <2>6. CASE ScanEnd
    <3>1. /\ ppc = "scan" /\ ppc' = "delete" /\ UNCHANGED <<disk, uAll, listed>>
      BY <2>6 DEF ScanEnd, GotoP
    <3>2. (Listed \cup Reading)' = Listed \cup Reading
      BY <3>1 DEF Reading, Listed
    <3> QED  BY <2>2, <3>1, <3>2
  <2>7. ASSUME NEW x \in listed, Subtract(x)
        PROVE  uAll' <= Size(disk', (Listed \cup Reading)') /\ Total' > maxStorage
    <3> DEFINE f == x[2]
    <3>1. f \in Listed /\ f \in DOMAIN disk /\ disk[f].size \in Nat /\ disk[f].size <= maxStorage
      BY <1>1 DEF Listed
    <3>2. /\ ppc = "delete" /\ ppc' = "remove" /\ listed' = listed \ {x} /\ disk' = disk
          /\ uAll' = Wrap(uAll - disk[f].size) /\ uAll > maxStorage
      BY <2>7, <3>1 DEF Subtract, Rest, GotoP, Exists, SizeOf
    <3>3. /\ Reading = {} /\ Reading' = {}
          /\ f \notin Listed' /\ Listed = Listed' \cup {f}
      BY <3>2 DEF Reading, Listed, Scanning
    <3> HIDE DEF f
    <3>4. Listed \cup Reading = Listed /\ (Listed \cup Reading)' = Listed'  BY <3>3
    <3>5. Size(disk, Listed) = Size(disk, Listed') + disk[f].size
      <4>1. Size(disk, Listed' \cup {f}) = Size(disk, Listed') + disk[f].size
        BY <1>0, <3>1, <3>3, SizeWith, Zenon
      <4> QED  BY <3>3, <4>1, Zenon
    <3>6. Size(disk, Listed) <= Total
      <4>1. Listed \cap DOMAIN disk \subseteq Names  BY <1>1
      <4>2. Size(disk, Listed) <= Size(disk, Names)  BY <1>0, <4>1, SizePart, Zenon
      <4> QED  BY <1>0, <4>2, Zenon
    <3>7. uAll <= Size(disk, Listed)  BY <2>2, <3>4, Zenon
    <3>8. PICK a \in Nat, z \in Nat, t \in Nat, m \in Nat :
            a = Size(disk, Listed') /\ z = disk[f].size /\ t = Total /\ m = maxStorage
      BY <1>0, <3>1
    <3>9. uAll <= a + z /\ a + z <= t /\ z <= m /\ m < uAll
      BY <3>1, <3>2, <3>5, <3>6, <3>7, <3>8
    <3>10. uAll - z \in 0..(Word - 1)
      <4>1. uAll \in 0..(Word - 1)  BY DEF TypeOK
      <4> QED  BY <3>9, <4>1
    <3>11. uAll' = uAll - z  BY <3>2, <3>8, <3>10, WrapKeeps
    <3>12. Size(disk', (Listed \cup Reading)') = a  BY <3>2, <3>4, <3>8, Zenon
    <3>13. Total' = t  BY <3>2, <3>8 DEF Total
    <3> QED  BY <1>0, <3>8, <3>9, <3>11, <3>12, <3>13
  <2>8. CASE Remove
    <3>1. /\ ppc = "remove" /\ ppc' = "delete" /\ UNCHANGED <<uAll, listed>>
      BY <2>8 DEF Remove, GotoP
    <3>2. (Listed \cup Reading)' = Listed /\ Listed \cup Reading = Listed /\ cur \notin Listed
      BY <3>1 DEF Reading, Listed, Scanning
    <3>3. Size(disk', Listed) = Size(disk, Listed \ {cur}) \/ disk' = disk
      BY <1>4, <2>8, PruneSizes
    <3>4. Listed \ {cur} = Listed  BY <3>2
    <3>5. Size(disk', Listed) = Size(disk, Listed)  BY <3>3, <3>4, Zenon
    <3>6. Size(disk', (Listed \cup Reading)') = Size(disk, Listed \cup Reading)
      BY <3>2, <3>5, Zenon
    <3> QED  BY <2>2, <3>1, <3>6
  <2>9. ~PruneEnd  BY DEF PruneEnd, GotoP, Running
  <2> QED  BY <1>4, <2>4, <2>5, <2>6, <2>7, <2>8, <2>9 DEF PruneStep, ScanTime, ScanEnd, GotoP
<1> QED  BY <1>2, <1>3, <1>4

\* The file that is being written is first on the list only when it is all there is
\* of it, and then the sum is not over the limit.
LEMMA KeepingStep ==
    ASSUME TypeOK, TypeOK', Naming, Fitting, Scanning, Listing, Dated, Ranked, Exact, Keeping,
           [Next]_vars, Alone', Roomy
    PROVE  Keeping'
<1> USE DEF Keeping, Exists
<1>0. (ppc = "remove" => cur \in DOMAIN disk) /\ active \in Own  BY DEF Listing, TypeOK
<1>1. CASE UNCHANGED <<disk, active, pruner>>
  BY <1>1 DEF pruner, task
<1>2. CASE (Open \/ OpenSeventeen) /\ UNCHANGED <<now, pruner>>
  <2>1. ppc' = ppc /\ cur' = cur  BY <1>2 DEF pruner, task
  <2>2. Create /\ active' \in {name, active}  BY <1>2 DEF Open, OpenSeventeen
  <2>3. name \notin DOMAIN disk /\ DOMAIN disk' = DOMAIN disk \cup {name}
    BY <2>2, Created
  <2> QED  BY <1>0, <2>1, <2>2, <2>3 DEF IsPlain
<1>3. ASSUME NEW k \in 1..MaxWrite, Write(k), UNCHANGED <<now, pruner>> PROVE Keeping'
  <2>1. ppc' = ppc /\ cur' = cur /\ active' = active
    BY <1>3 DEF pruner, task, Write
  <2> QED  BY <1>3, <2>1, Written DEF IsPlain
<1>4. CASE Roll
  <2>1. active' = NoName /\ ~IsPlain(NoName)  BY <1>4 DEF Roll, AtWork, IsPlain, NoName
  <2> QED  BY <2>1 DEF IsPlain
<1>5. CASE PruneStep
  <2>0. active' = active  BY <1>5, PruneFrame
  <2>1. ASSUME NEW x \in listed, Subtract(x) PROVE Keeping'
    <3>1. /\ ppc = "delete" /\ cur' = x[2] /\ disk' = disk /\ First(x) /\ uAll > maxStorage
      BY <2>1 DEF Subtract, GotoP
    <3> SUFFICES ASSUME IsPlain(x[2]), x[2] = active PROVE FALSE
      BY <2>0, <3>1 DEF IsPlain
    <3>2. listed = {x}  BY <3>1, FirstIsOldest
    <3>3. Listed \cup Reading = {active}  BY <3>1, <3>2 DEF Listed, Reading
    <3>4. active \in DOMAIN disk  BY <2>1 DEF Listing
    <3>5. Size(disk, {active}) = disk[active].size  BY <3>4, IsDirectory, SizeOne, Zenon
    <3>6. uAll <= disk[active].size
      <4>1. uAll <= Size(disk, Listed \cup Reading)  BY <3>1 DEF Exact, Running
      <4> QED  BY <3>3, <3>5, <4>1, Zenon
    <3>7. disk[active].size \in Nat /\ disk[active].size < maxFile + MaxWrite
      BY <1>0, <3>4 DEF TypeOK, Fitting
    <3>8. maxStorage \in Nat /\ maxFile \in Nat /\ uAll \in Nat  BY DEF TypeOK
    <3> QED  BY <3>1, <3>6, <3>7, <3>8 DEF Roomy
  <2>2. CASE Remove
    <3>1. ppc = "remove" /\ ppc' = "delete" /\ DOMAIN disk \ {cur} \subseteq DOMAIN disk'
      BY <1>5, <2>2, PruneFrame DEF Remove, GotoP
    <3> QED  BY <2>0, <3>1 DEF IsPlain
  <2>3. CASE ~Remove /\ ~(\E x \in listed : Subtract(x))
    <3>1. ppc' # "remove" /\ disk' = disk
      BY <1>5, <2>3 DEF PruneStep, ReadClock, ScanSize, ScanTime, ScanEnd, PruneEnd, GotoP
    <3> QED  BY <2>0, <3>1 DEF IsPlain
  <2> QED  BY <2>1, <2>2, <2>3
<1> QED  BY <1>1, <1>2, <1>3, <1>4, <1>5, StepsAlone
------------------------------------------------------------------------------
(* All of it together *)

\* The parts of the invariant hold before Start, whatever files there are.
LEMMA InvInit == Init => StorageInv
<1> SUFFICES ASSUME Init PROVE StorageInv
  OBVIOUS
<1>1. TypeOK  BY TypeInit
<1>2. /\ listed = {} /\ seen = {} /\ unseen = {} /\ pruning = FALSE
      /\ ppc = "idle" /\ cur = NoName /\ wpc = "start" /\ active = NoName
      /\ written = Total /\ written <= Budget /\ since = 0 /\ kept = 0 /\ vanished = 0
      /\ foreign = FALSE /\ now = 1
  BY DEF Init
<1>3. /\ DOMAIN disk \subseteq Foreign
      /\ \A f \in DOMAIN disk : disk[f].size \in 0..MaxOther /\ disk[f].time \in Dates
  BY DEF Init
<1>4. ~Exists(active)  BY <1>1, <1>2, Unnamed DEF Exists
<1>5. Naming /\ Youngest  BY <1>2, <1>4 DEF Naming, Youngest
<1>6. Scanning /\ Listing  BY <1>2 DEF Scanning, Listing, Listed
<1>7. Dated /\ Ranked  BY <1>2 DEF Dated, Ranked
<1>8. Fitting
  <2>1. ASSUME NEW f \in DOMAIN disk PROVE f \notin Own /\ disk[f].size <= MaxOther
    BY <1>3, ForeignNames
  <2> QED  BY <1>2, <1>4, <2>1 DEF Fitting
<1>9. Spent
  <2>1. Total = Size(disk, Names) /\ Longest \in Nat /\ Directory(disk, Longest)
    BY <1>1, <1>8, TotalIs, IsDirectory
  <2>2. Size(disk, Listed \cup {cur}) <= Size(disk, Names)
    <3>1. (Listed \cup {cur}) \cap DOMAIN disk \subseteq Names  BY <1>1 DEF TypeOK
    <3> QED  BY <2>1, <3>1, SizePart, Zenon
  <2>3. PICK a \in Nat, t \in Nat : a = Size(disk, Listed \cup {cur}) /\ t = Total
    BY <2>1, SizeType
  <2>4. a <= t  BY <2>1, <2>2, <2>3
  <2>5. kept + a <= written /\ since <= written /\ Total <= written  BY <1>2, <2>3, <2>4
  <2> QED  BY <1>2, <2>3, <2>5 DEF Spent
<1>10. InOrder => Dating
  <2>1. ASSUME Dates \subseteq {0}, NEW f \in DOMAIN disk PROVE disk[f].time = 0
    BY <1>3, <2>1
  <2> QED  BY <1>2, <2>1 DEF InOrder, Dating
<1>11. Summed /\ Missed /\ LimitReached /\ Exact
  BY <1>2 DEF Summed, Missed, LimitReached, Exact, Running
<1>12. Keeping  BY <1>2 DEF Keeping, IsPlain, NoName
<1> QED  BY <1>1, <1>5, <1>6, <1>7, <1>8, <1>9, <1>10, <1>11, <1>12, Zenon DEF StorageInv

\* No step of the two threads or of another process breaks the invariant.
LEMMA InvStep == StorageInv /\ [Next]_vars => StorageInv'
<1> SUFFICES ASSUME StorageInv, [Next]_vars PROVE StorageInv'
  OBVIOUS
<1>1. TypeOK /\ Naming /\ Fitting /\ Spent /\ Scanning /\ Missed
  BY DEF StorageInv
<1>2. TypeOK' /\ Naming' /\ Scanning'
  BY <1>1, TypeStep, NamingStep, ScanningStep
<1>3. Fitting'  BY <1>1, FittingStep
<1>4. Spent' /\ Missed'  BY <1>1, <1>2, <1>3, SpentStep, MissedStep
<1>5. ASSUME 2 * Budget + Vanishing < Word PROVE Summed' /\ LimitReached'
  <2>1. Summed /\ LimitReached  BY <1>5 DEF StorageInv
  <2> QED  BY <1>1, <1>2, <1>3, <1>4, <1>5, <2>1, SummedStep, ReachedStep
<1>6. ASSUME vanished' = 0 PROVE Listing'
  <2>1. Listing  BY <1>1, <1>6, Steps DEF StorageInv
  <2> QED  BY <1>1, <1>6, <2>1, ListingStep
<1>7. Roomy' => Roomy  BY Threads DEF Roomy, limits
<1>8. ASSUME vanished' = 0, Roomy', Budget < Word PROVE Exact'
  <2>1. Listing /\ Exact  BY <1>1, <1>7, <1>8, Steps DEF StorageInv
  <2> QED  BY <1>1, <1>2, <1>3, <1>7, <1>8, <2>1, ExactStep
<1>9. ASSUME InOrder PROVE Dating' /\ Dated'
  <2>1. Dating /\ Dated  BY <1>9 DEF StorageInv
  <2> QED  BY <1>1, <1>2, <1>9, <2>1, DatingStep, DatedStep
<1>10. ASSUME InOrder, Alone' PROVE Youngest' /\ Ranked'
  <2>1. Alone /\ vanished = 0  BY <1>1, <1>10, StepsAlone DEF Alone
  <2>2. Dating /\ Youngest /\ Listing /\ Ranked  BY <1>10, <2>1 DEF StorageInv
  <2> QED  BY <1>1, <1>2, <1>9, <1>10, <2>2, YoungestStep, RankedStep
<1>11. ASSUME InOrder, Alone', Roomy', Budget < Word PROVE Keeping'
  <2>1. Alone /\ vanished = 0  BY <1>1, <1>11, StepsAlone DEF Alone
  <2>2. Listing /\ Dated /\ Ranked /\ Exact /\ Keeping  BY <1>7, <1>11, <2>1 DEF StorageInv
  <2> QED  BY <1>1, <1>2, <1>7, <1>11, <2>2, KeepingStep
<1> QED
  BY <1>2, <1>3, <1>4, <1>5, <1>6, <1>8, <1>9, <1>10, <1>11, Zenon DEF StorageInv
------------------------------------------------------------------------------
(* Theorems *)

\* The list, the names and the sum stay consistent, whatever the threads and other
\* processes do to the files: StorageInv says under which conditions each part holds.
THEOREM StorageInvariantHolds == Spec => []StorageInv
<1> QED  BY InvInit, InvStep, PTL DEF Spec

\* Every variable keeps its type: the unsigned sum stays within its word, no file
\* of this process gets a time after the clock or a name after its time.
THEOREM StorageTypeOK == Spec => []TypeOK
<1>1. StorageInv => TypeOK  BY DEF StorageInv
<1> QED  BY <1>1, StorageInvariantHolds, PTL

\* As long as fewer bytes are written and fewer files vanish than an unsigned number
\* can count, a prune that has ended left no more than the limit, what was written
\* since its scan began, the files that it could not remove, and one byte for every file
\* that vanished: whoever wrote, rolled, created and removed between any two steps.
THEOREM StorageLimitReached ==
    ASSUME 2 * Budget + Vanishing < Word
    PROVE  Spec => []LimitReached
<1>1. StorageInv => LimitReached  BY DEF StorageInv
<1> QED  BY <1>1, StorageInvariantHolds, PTL

\* As long as the bytes written fit into an unsigned number, nobody else removes files
\* and the limit is roomy, nothing is removed from a directory that is within the limit:
\* a sum of sizes that were read at different times never exceeds what is there, and
\* never wraps, although other processes write.
THEOREM StorageRemovesOnlyOverLimit ==
    ASSUME Budget < Word
    PROVE  Spec => RemovesOnlyOverLimit
<1>1. StorageInv /\ [Next]_vars =>
        [Remove /\ vanished = 0 /\ Roomy => Total > maxStorage]_vars
  <2> SUFFICES ASSUME StorageInv, Remove, vanished = 0, Roomy
               PROVE  Total > maxStorage
    OBVIOUS
  <2>1. Exact /\ ppc = "remove"  BY DEF StorageInv, Remove, GotoP
  <2> QED  BY <2>1 DEF Exact
<1> QED  BY <1>1, StorageInvariantHolds, PTL DEF Spec, RemovesOnlyOverLimit

\* With a file clock whose epoch is ahead, and no file dated ahead, what is removed is no
\* younger than anything left on the list, although the files change behind the list. A
\* file that was itself written since it was listed is left out where others remove or
\* write files, and where its name is numbered.
THEOREM StorageOldestGoFirst ==
    ASSUME InOrder
    PROVE  Spec => OldestGoFirst
<1>1. StorageInv =>
        \A x \in listed :
            Subtract(x) /\ Exists(x[2]) /\ (Fresh(x) \/ (Alone /\ IsPlain(x[2]))) =>
                \A y \in listed : Exists(y[2]) => disk[x[2]].time <= disk[y[2]].time
  <2> SUFFICES ASSUME StorageInv, NEW x \in listed, Subtract(x), Exists(x[2]),
                      Fresh(x) \/ (Alone /\ IsPlain(x[2])),
                      NEW y \in listed, Exists(y[2])
               PROVE  disk[x[2]].time <= disk[y[2]].time
    OBVIOUS
  <2>1. First(x)  BY DEF Subtract
  <2>2. TypeOK /\ Scanning /\ Dated  BY DEF StorageInv
  <2>3. CASE Fresh(x)
    BY <2>1, <2>2, <2>3, FreshIsOldest
  <2>4. CASE Alone /\ IsPlain(x[2])
    <3>1. Listing /\ Ranked  BY <2>4 DEF StorageInv, Alone
    <3>2. CASE y = x
      <4>1. disk[x[2]].time \in Nat  BY <2>2 DEF TypeOK, Exists
      <4> QED  BY <3>2, <4>1
    <3>3. CASE y # x
      BY <2>1, <2>2, <2>4, <3>1, <3>3, FirstIsOldest
    <3> QED  BY <3>2, <3>3
  <2> QED  BY <2>3, <2>4
<1> QED  BY <1>1, StorageInvariantHolds, PTL DEF Spec, OldestGoFirst

\* With such a clock and such files, and as long as nobody else removes or writes files,
\* the file being written stays in the directory unless its name is numbered: it is last
\* on any list it is on, and once it is the only one left the sum is within a roomy limit.
THEOREM StorageActiveOnDisk ==
    ASSUME InOrder, Budget < Word
    PROVE  Spec => []ActiveOnDisk
<1>1. StorageInv => ActiveOnDisk  BY DEF StorageInv, Keeping, ActiveOnDisk
<1> QED  BY <1>1, StorageInvariantHolds, PTL

\* A full file starts a prune exactly when none is at work: the storage thread and the
\* task go through their files and prunes as PruneCycle says.
THEOREM StoragePrunesInTurn == Spec => PrunesInTurn
<1> DEFINE cvars == <<Current, Task, FALSE>>
<1>1. Init => cycle!CycleInit  BY DEF Init, cycle!CycleInit, Current, Task
<1>2. StorageInv /\ [Next]_vars => [cycle!CycleNext]_cvars
  <2> SUFFICES ASSUME StorageInv, [Next]_vars PROVE [cycle!CycleNext]_cvars
    OBVIOUS
  <2> USE DEF cycle!CycleNext, cycle!GotoC, Current, Task
  <2>0. TypeOK /\ (pruning <=> ppc \notin {"idle", "ended"})
    BY DEF StorageInv, Scanning
  <2>1. CASE StartStep
    BY <2>1 DEF StartStep, TestDirectory, MakeDirectory, MakeFails, GotoW, pruner
  <2>2. CASE StorageStep
    <3> USE <2>2 DEF StorageStep, GotoW, pruner
    <3>1. CASE ChooseName  BY <3>1 DEF ChooseName
    <3>2. CASE Open  BY <3>2 DEF Open, cycle!Open
    <3>3. CASE OpenSeventeen  BY <3>3 DEF OpenSeventeen
    <3>4. CASE OpenTaken  BY <3>4 DEF OpenTaken
    <3>5. ASSUME NEW k \in 1..MaxWrite, Write(k) PROVE [cycle!CycleNext]_cvars
      BY <3>5 DEF Write, Full, cycle!Fill
    <3> QED  BY <3>1, <3>2, <3>3, <3>4, <3>5
  <2>3. CASE Roll
    BY <2>0, <2>3 DEF Roll, AtWork, GotoW, TypeOK, cycle!AtWork, cycle!RollAndPrune,
       cycle!RollOnly
  <2>4. CASE PruneStep
    <3>1. UNCHANGED Current  BY <2>4 DEF PruneStep, thread
    <3>2. CASE PruneEnd
      BY <3>1, <3>2 DEF PruneEnd, GotoP, cycle!PruneEnds, cycle!AtWork
    <3>3. CASE ReadClock  BY <3>1, <3>3 DEF ReadClock, GotoP, cycle!PruneBegins
    <3>4. CASE ~PruneEnd /\ ~ReadClock
      BY <2>4, <3>1, <3>4 DEF PruneStep, ScanTime, ScanEnd, Remove, ScanSize, Subtract,
         GotoP
    <3> QED  BY <3>2, <3>3, <3>4
  <2>5. CASE UNCHANGED <<thread, pruner>>
    BY <2>5 DEF thread, pruner
  <2> QED
    BY <2>1, <2>2, <2>3, <2>4, <2>5 DEF Next, Tick, OtherMakes, Vanish, OtherWrites, vars
<1> QED  BY <1>1, <1>2, StorageInvariantHolds, PTL DEF Spec, PrunesInTurn, cycle!CycleSpec
==============================================================================
