------------------------ MODULE LogFileWriter_proof ------------------------
(***************************************************************************)
(* Proofs about the file writer, for any number of threads that log, any   *)
(* sizes of the buffer, of the files and of the messages.                  *)
(***************************************************************************)
EXTENDS WriterInvariant, TLAPS

USE WriterAssumption DEF WriterAssumption

------------------------------------------------------------------------------
(* Types *)

\* Every variable starts with a value of its type.
LEMMA TypeInit == Init => TypeOK
<1> SUFFICES ASSUME Init PROVE TypeOK
  OBVIOUS
<1>1. /\ acc \in Nat /\ out \in Nat /\ loss \in Nat /\ fileSize \in Nat /\ lossMsg \in Nat
      /\ offered \in Nat /\ refused \in Nat /\ flushTo \in Nat
      /\ stored \in Nat /\ reported \in Nat /\ dropped \in Nat
  BY DEF Init, data!QueueInit
<1>2. ppc \in [Producers -> {"idle", "put", "size", "flag", "lock", "set", "lost"}]
  BY DEF Init
<1>3. msg \in [Producers -> [n : 0..MaxLen, urgent : BOOLEAN]]
  BY DEF Init
<1>4. old \in [Users -> SUBSET {"FLUSH", "EOF"}]
  BY DEF Init
<1>5. /\ flags \subseteq {"FLUSH", "EOF"} /\ lock \in {"free", "storage"} \cup Users
      /\ wpc \in {"outer", "none"} /\ blk \in Nat \X Nat /\ prune = "none" /\ spc = "running"
  BY DEF Init, NoBlock
<1>6. /\ logging \in BOOLEAN /\ eof \in BOOLEAN /\ pruning \in BOOLEAN /\ threw \in BOOLEAN
      /\ failed \in BOOLEAN /\ sawEmpty \in BOOLEAN
  BY DEF Init
<1> QED  BY <1>1, <1>2, <1>3, <1>4, <1>5, <1>6 DEF TypeOK

\* Every step keeps the types; Buffered makes what Peek returns natural numbers.
LEMMA TypeStep ==
    ASSUME TypeOK, Buffered, [Next]_vars
    PROVE  TypeOK'
<1> USE DEF TypeOK, Users
<1>1. ASSUME NEW p \in Producers, NEW n \in 1..MaxLen, NEW u \in BOOLEAN,
             BeginWrite(p, n, u)
      PROVE  TypeOK'
  BY <1>1 DEF BeginWrite, GotoP, queue, shared, producer, file, pruner, owner, asked,
     done
<1>2. ASSUME NEW p \in Producers, Accept(p), ProducerFrame PROVE TypeOK'
  BY <1>2 DEF Accept, data!Put, data!HasRoom, GotoP, ProducerFrame, queue, shared,
     producer, file, pruner, owner, asked, done
<1>3. ASSUME NEW p \in Producers, Refuse(p), ProducerFrame PROVE TypeOK'
  BY <1>3 DEF Refuse, GotoP, ProducerFrame, queue, shared, producer, file, pruner,
     owner, asked, done
<1>4. ASSUME NEW p \in Producers, CountLoss(p), ProducerFrame PROVE TypeOK'
  BY <1>4 DEF CountLoss, GotoP, ProducerFrame, queue, shared, producer, file, pruner,
     owner, asked, done
<1>5. ASSUME NEW p \in Producers, CheckSize(p), ProducerFrame PROVE TypeOK'
  BY <1>5 DEF CheckSize, GotoP, ProducerFrame, queue, shared, producer, file, pruner,
     owner, asked, done
<1>6. ASSUME NEW p \in Producers, CheckFlag(p), ProducerFrame PROVE TypeOK'
  BY <1>6 DEF CheckFlag, GotoP, ProducerFrame, queue, shared, producer, file, pruner,
     owner, asked, done
<1>7. ASSUME NEW p \in Producers, LockAndLoad(p), ProducerFrame PROVE TypeOK'
  BY <1>7 DEF LockAndLoad, Acquire, GotoP, ProducerFrame, queue, shared, producer, file,
     pruner, owner, asked, done
<1>8. ASSUME NEW p \in Producers, SetFlush(p), ProducerFrame PROVE TypeOK'
  BY <1>8 DEF SetFlush, Notify, GotoP, ProducerFrame, queue, shared, producer, file,
     pruner, owner, asked, done
<1>9. ASSUME Outer, StorageFrame PROVE TypeOK'
  BY <1>9 DEF Outer, Moves, GotoW, StorageFrame, queue, shared, producer, file, pruner,
     owner, asked, done
<1>10. ASSUME OpenFile, StorageFrame PROVE TypeOK'
  BY <1>10 DEF OpenFile, GotoW, StorageFrame, queue, shared, producer, file, pruner,
     owner, asked, done
<1>11. ASSUME OpenFails, StorageFrame PROVE TypeOK'
  BY <1>11 DEF OpenFails, GotoW, StorageFrame, queue, shared, producer, file, pruner,
     owner, asked, done
<1>12. ASSUME Inner, StorageFrame PROVE TypeOK'
  BY <1>12 DEF Inner, Moves, GotoW, StorageFrame, queue, shared, producer, file, pruner,
     owner, asked, done
<1>13. ASSUME TestEmpty, StorageFrame PROVE TypeOK'
  BY <1>13 DEF TestEmpty, Moves, GotoW, StorageFrame, queue, shared, producer, file,
     pruner, owner, asked, done
<1>14. ASSUME EnterWait, StorageFrame PROVE TypeOK'
  BY <1>14 DEF EnterWait, GotoW, StorageFrame, queue, shared, producer, file, pruner,
     owner, asked, done
<1>15. ASSUME Sleep, StorageFrame PROVE TypeOK'
  BY <1>15 DEF Sleep, GotoW, StorageFrame, queue, shared, producer, file, pruner, owner,
     asked, done
<1>16. ASSUME TimeOut PROVE TypeOK'
  BY <1>16 DEF TimeOut, Moves, GotoW, StorageFrame, queue, shared, producer, file,
     pruner, owner, asked, done
<1>17. ASSUME Peek, StorageFrame PROVE TypeOK'
  BY <1>17 DEF Peek, ToEnd, data!Held, GotoW, StorageFrame, Buffered, queue, shared,
     producer, file, pruner, owner, asked, done
<1>18. ASSUME FailSlice0, StorageFrame PROVE TypeOK'
  BY <1>18 DEF FailSlice0, Fails, NoBlock, GotoW, StorageFrame, queue, shared, producer,
     file, pruner, owner, asked, done
<1>19. ASSUME FailSlice1, StorageFrame PROVE TypeOK'
  BY <1>19 DEF FailSlice1, Fails, FirstSlice, GotoW, StorageFrame, queue, shared,
     producer, file, pruner, owner, asked, done
<1>20. ASSUME Readed, StorageFrame PROVE TypeOK'
  BY <1>20 DEF Readed, data!Take, data!Held, NoBlock, GotoW, StorageFrame, queue,
     shared, producer, file, pruner, owner, asked, done
<1>21. ASSUME TestLoss, StorageFrame PROVE TypeOK'
  BY <1>21 DEF TestLoss, Moves, GotoW, StorageFrame, queue, shared, producer, file,
     pruner, owner, asked, done
<1>22. ASSUME TakeLoss, StorageFrame PROVE TypeOK'
  BY <1>22 DEF TakeLoss, GotoW, StorageFrame, queue, shared, producer, file,
     pruner, owner, asked, done
<1>23. ASSUME WriteLoss, StorageFrame PROVE TypeOK'
  BY <1>23 DEF WriteLoss, GotoW, StorageFrame, queue, shared, producer, file, pruner,
     owner, asked, done
<1>24. ASSUME FailLoss, StorageFrame PROVE TypeOK'
  BY <1>24 DEF FailLoss, Fails, GotoW, StorageFrame, queue, shared, producer, file,
     pruner, owner, asked, done
<1>25. ASSUME CheckEof, StorageFrame PROVE TypeOK'
  BY <1>25 DEF CheckEof, GotoW, StorageFrame, queue, shared, producer, file, pruner,
     owner, asked, done
<1>26. ASSUME ClearFlags, StorageFrame PROVE TypeOK'
  BY <1>26 DEF ClearFlags, NoFlags, GotoW, StorageFrame, queue, shared, producer, file,
     pruner, owner, asked, done
<1>27. ASSUME Roll, StorageFrame PROVE TypeOK'
  <2>1. UNCHANGED <<acc, out, loss, flags, logging, lock, ppc, msg, old, eof, blk,
          fileSize, lossMsg, threw, spc, sawEmpty, offered, refused, flushTo, stored,
          reported, dropped, failed>>
    BY <1>27 DEF Roll, GotoW, StorageFrame, queue, shared, producer, file, pruner, owner,
       asked, done
  <2>2. wpc' = "close" /\ prune' \in {"none", "running", "ended"} /\ pruning' \in
        BOOLEAN
    BY <1>27 DEF Roll, GotoW, StorageFrame, queue, shared, producer, file, pruner, owner,
       asked, done
  <2> QED  BY <2>1, <2>2
<1>28. ASSUME Close, StorageFrame PROVE TypeOK'
  BY <1>28 DEF Close, Moves, GotoW, StorageFrame, queue, shared, producer, file, pruner,
     owner, asked, done
<1>29. ASSUME Finish, StorageFrame PROVE TypeOK'
  <2>1. UNCHANGED <<acc, out, loss, flags, logging, lock, ppc, msg, old, eof, blk,
          fileSize, lossMsg, prune, threw, spc, sawEmpty, offered, refused, flushTo,
          stored, reported, dropped, failed>>
    BY <1>29 DEF Finish, StorageFrame, queue, shared, producer, file, pruner, owner,
       asked, done
  <2>2. (wpc' = "join" \/ wpc' = "exit") /\ pruning' \in BOOLEAN
    BY <1>29 DEF Finish, GotoW
  <2>3. CASE wpc' = "join"
    BY <2>1, <2>2, <2>3
  <2>4. CASE wpc' = "exit"
    BY <2>1, <2>2, <2>4
  <2> QED  BY <2>2, <2>3, <2>4
<1>30. ASSUME JoinPrune, StorageFrame PROVE TypeOK'
  BY <1>30 DEF JoinPrune, Moves, GotoW, StorageFrame, queue, shared, producer, file,
     pruner, owner, asked, done
<1>31. ASSUME Exit, StorageFrame PROVE TypeOK'
  <2>1. UNCHANGED <<acc, out, loss, flags, lock, ppc, msg, old, eof, blk, fileSize,
          lossMsg, pruning, prune, threw, spc, sawEmpty, offered, refused, flushTo,
          stored, reported, dropped, failed>>
    BY <1>31 DEF Exit, GotoW, StorageFrame, queue, shared, producer, file, pruner, owner,
       asked, done
  <2>2. wpc' = "end" /\ logging' \in BOOLEAN
    BY <1>31 DEF Exit, GotoW, StorageFrame, queue, shared, producer, file, pruner, owner,
       asked, done
  <2> QED  BY <2>1, <2>2
<1>32. ASSUME NEW k \in 1..blk[1], WriteSlice0(k), StorageFrame PROVE TypeOK'
  BY <1>32 DEF WriteSlice0, GotoW, StorageFrame, queue, shared, producer, file, pruner,
     owner, asked, done
<1>33. ASSUME NEW k \in 1..blk[2], WriteSlice1(k), StorageFrame PROVE TypeOK'
  BY <1>33 DEF WriteSlice1, GotoW, StorageFrame, queue, shared, producer, file, pruner,
     owner, asked, done
<1>34. ASSUME PruneEnds PROVE TypeOK'
  <2>1. UNCHANGED <<acc, out, loss, flags, logging, lock, ppc, msg, old, wpc, eof, blk,
          fileSize, lossMsg, spc, sawEmpty, offered, refused, flushTo, stored, reported,
          dropped, failed>>
    BY <1>34 DEF PruneEnds, ResetPruning, queue, shared, producer, file, pruner, owner,
       asked, done
  <2>2. prune' = "ended" /\ pruning' \in BOOLEAN /\ threw' \in BOOLEAN
    BY <1>34 DEF PruneEnds, ResetPruning, queue, shared, producer, file, pruner, owner,
       asked, done
  <2> QED  BY <2>1, <2>2
<1>35. ASSUME StopEmpty, OwnerFrame PROVE TypeOK'
  <2>1. UNCHANGED <<acc, out, loss, flags, lock, ppc, msg, old, wpc, eof, blk, fileSize,
          lossMsg, pruning, prune, threw, offered, refused, flushTo, stored, reported,
          dropped, failed>>
    BY <1>35 DEF StopEmpty, Quiet, GotoS, OwnerFrame, queue, shared, producer, file,
       pruner, owner, asked, done
  <2>2. spc' = "notify" /\ logging' \in BOOLEAN /\ sawEmpty' \in BOOLEAN
    BY <1>35 DEF StopEmpty, Quiet, GotoS, OwnerFrame, queue, shared, producer, file,
       pruner, owner, asked, done
  <2> QED  BY <2>1, <2>2
<1>36. ASSUME StopBuffered, OwnerFrame PROVE TypeOK'
  BY <1>36 DEF StopBuffered, Quiet, GotoS, OwnerFrame, queue, shared, producer, file,
     pruner, owner, asked, done
<1>37. ASSUME StopLock, OwnerFrame PROVE TypeOK'
  BY <1>37 DEF StopLock, Acquire, GotoS, OwnerFrame, queue, shared, producer, file,
     pruner, owner, asked, done
<1>38. ASSUME SetEof, OwnerFrame PROVE TypeOK'
  BY <1>38 DEF SetEof, GotoS, OwnerFrame, queue, shared, producer, file, pruner, owner,
     asked, done
<1>39. ASSUME StopNotify, OwnerFrame PROVE TypeOK'
  BY <1>39 DEF StopNotify, Notify, GotoS, OwnerFrame, queue, shared, producer, file,
     pruner, owner, asked, done
<1>40. ASSUME StopReturn, OwnerFrame PROVE TypeOK'
  BY <1>40 DEF StopReturn, Quiet, GotoS, OwnerFrame, queue, shared, producer, file,
     pruner, owner, asked, done
<1>41. ASSUME UNCHANGED vars PROVE TypeOK'
  BY <1>41 DEF vars, queue, shared, producer, file, pruner, owner, asked, done
<1> QED
  BY <1>1, <1>2, <1>3, <1>4, <1>5, <1>6, <1>7, <1>8, <1>9, <1>10, <1>11, <1>12, <1>13,
     <1>14, <1>15, <1>16, <1>17, <1>18, <1>19, <1>20, <1>21, <1>22, <1>23, <1>24, <1>25, <1>26,
     <1>27, <1>28, <1>29, <1>30, <1>31, <1>32, <1>33, <1>34, <1>35, <1>36, <1>37, <1>38,
     <1>39, <1>40, <1>41
     DEF Next, WriteStep, StorageStep, BeginStop, StopStep
------------------------------------------------------------------------------
(* Which actions change which part of the state *)

\* Each part of the invariant speaks of a few variables.  This is what a step keeps
\* that is none of the few actions which change them.
QueueKept == UNCHANGED <<acc, out>>

BlockKept ==
    /\ UNCHANGED <<acc, out, stored, blk>>
    /\ wpc' = wpc \/ (/\ wpc \notin {"write0", "write1", "readed"}
                      /\ wpc' \notin {"write0", "write1", "readed"})

LossKept ==
    /\ UNCHANGED <<loss, lossMsg, refused, reported, dropped>>
    /\ wpc' = wpc \/ (wpc # "report" /\ wpc' # "report")

LockKept ==
    /\ UNCHANGED <<lock, flags>>
    /\ \A p \in Producers : ppc'[p] = "set" => ppc[p] = "set"
    /\ spc' = "set" => spc = "set"
    /\ spc = "notify" => spc' = "notify"
    /\ wpc' \in {"sleep", "blocked"} => wpc' = wpc

NotFull == {"inner", "test", "wait", "sleep", "blocked", "peek", "write0", "write1", "readed"}

FileKept ==
    /\ UNCHANGED fileSize
    /\ wpc' \in NotFull => wpc \in NotFull
    /\ wpc' \in {"loss", "take", "report"} => wpc \in {"loss", "take", "report"}

PruneKept ==
    /\ UNCHANGED pruner
    /\ wpc' \in {"exit", "end"} => wpc \in {"exit", "end"}
    /\ wpc \in {"join", "exit", "end"} => wpc' \in {"join", "exit", "end"}
    /\ \/ Current' = Current
       \/ Current = "none" /\ Current' = "open"
       \/ Current = "open" /\ Current' \in {"none", "full"}

StopKept ==
    /\ UNCHANGED sawEmpty
    /\ spc' = "running" => spc = "running"
    /\ \A p \in Producers : ppc[p] = "idle" => ppc'[p] = "idle"

QueueFrame ==
    \/ QueueKept
    \/ \E p \in Producers : Accept(p) /\ ProducerFrame
    \/ Readed /\ StorageFrame

BlockFrame ==
    \/ BlockKept
    \/ \E p \in Producers : Accept(p) /\ ProducerFrame
    \/ Peek /\ StorageFrame
    \/ FailSlice0 /\ StorageFrame
    \/ FailSlice1 /\ StorageFrame
    \/ Readed /\ StorageFrame
    \/ \E k \in 1..blk[1] : WriteSlice0(k) /\ StorageFrame
    \/ \E k \in 1..blk[2] : WriteSlice1(k) /\ StorageFrame

LossFrame ==
    \/ LossKept
    \/ \E p \in Producers : CountLoss(p) /\ ProducerFrame
    \/ TakeLoss /\ StorageFrame
    \/ WriteLoss /\ StorageFrame
    \/ FailLoss /\ StorageFrame

LockFrame ==
    \/ LockKept
    \/ \E p \in Producers : LockAndLoad(p) /\ ProducerFrame
    \/ \E p \in Producers : SetFlush(p) /\ ProducerFrame
    \/ EnterWait /\ StorageFrame
    \/ Sleep /\ StorageFrame
    \/ ClearFlags /\ StorageFrame
    \/ StopLock /\ OwnerFrame
    \/ SetEof /\ OwnerFrame
    \/ StopNotify /\ OwnerFrame

FileFrame ==
    \/ FileKept
    \/ OpenFile /\ StorageFrame
    \/ Readed /\ StorageFrame
    \/ WriteLoss /\ StorageFrame
    \/ ClearFlags /\ StorageFrame

PruneFrame ==
    \/ PruneKept
    \/ Roll /\ StorageFrame
    \/ Finish /\ StorageFrame
    \/ JoinPrune /\ StorageFrame
    \/ PruneEnds

StopFrame ==
    \/ StopKept
    \/ \E p \in Producers, n \in 1..MaxLen, u \in BOOLEAN : BeginWrite(p, n, u)
    \/ StopEmpty /\ OwnerFrame

\* Which actions can disturb which part of the invariant: all others leave its
\* variables alone.
LEMMA Frames ==
    ASSUME TypeOK, [Next]_vars
    PROVE  QueueFrame /\ BlockFrame /\ LossFrame /\ LockFrame
           /\ FileFrame /\ PruneFrame /\ StopFrame
<1>1. ASSUME NEW p \in Producers, NEW n \in 1..MaxLen, NEW u \in BOOLEAN,
             BeginWrite(p, n, u)
      PROVE  QueueKept /\ BlockKept /\ LossKept /\ LockKept /\ FileKept /\ PruneKept
  BY <1>1 DEF BeginWrite, GotoP, QueueKept, BlockKept, LossKept, LockKept, FileKept,
     PruneKept, Current, NotFull, TypeOK, queue, shared, producer, file, pruner, owner,
     asked, done
<1>2. ASSUME NEW p \in Producers, Accept(p), ProducerFrame
      PROVE  LossKept /\ LockKept /\ FileKept /\ PruneKept /\ StopKept
  BY <1>2 DEF Accept, data!Put, data!HasRoom, GotoP, ProducerFrame, LossKept,
     LockKept, FileKept, PruneKept, Current, StopKept, NotFull, TypeOK, queue, shared,
     producer, file, pruner, owner, asked, done
<1>3. ASSUME NEW p \in Producers, Refuse(p), ProducerFrame
      PROVE  QueueKept /\ BlockKept /\ LossKept /\ LockKept /\ FileKept /\ PruneKept /\ StopKept
  BY <1>3 DEF Refuse, GotoP, ProducerFrame, QueueKept, BlockKept, LossKept, LockKept,
     FileKept, PruneKept, Current, StopKept, NotFull, TypeOK, queue, shared, producer,
     file, pruner, owner, asked, done
<1>4. ASSUME NEW p \in Producers, CountLoss(p), ProducerFrame
      PROVE  QueueKept /\ BlockKept /\ LockKept /\ FileKept /\ PruneKept /\ StopKept
  BY <1>4 DEF CountLoss, GotoP, ProducerFrame, QueueKept, BlockKept, LockKept,
     FileKept, PruneKept, Current, StopKept, NotFull, TypeOK, queue, shared, producer,
     file, pruner, owner, asked, done
<1>5. ASSUME NEW p \in Producers, CheckSize(p), ProducerFrame
      PROVE  QueueKept /\ BlockKept /\ LossKept /\ LockKept /\ FileKept /\ PruneKept /\ StopKept
  BY <1>5 DEF CheckSize, GotoP, ProducerFrame, QueueKept, BlockKept, LossKept,
     LockKept, FileKept, PruneKept, Current, StopKept, NotFull, TypeOK, queue, shared,
     producer, file, pruner, owner, asked, done
<1>6. ASSUME NEW p \in Producers, CheckFlag(p), ProducerFrame
      PROVE  QueueKept /\ BlockKept /\ LossKept /\ LockKept /\ FileKept /\ PruneKept /\ StopKept
  BY <1>6 DEF CheckFlag, GotoP, ProducerFrame, QueueKept, BlockKept, LossKept,
     LockKept, FileKept, PruneKept, Current, StopKept, NotFull, TypeOK, queue, shared,
     producer, file, pruner, owner, asked, done
<1>7. ASSUME NEW p \in Producers, LockAndLoad(p), ProducerFrame
      PROVE  QueueKept /\ BlockKept /\ LossKept /\ FileKept /\ PruneKept /\ StopKept
  BY <1>7 DEF LockAndLoad, Acquire, GotoP, ProducerFrame, QueueKept, BlockKept,
     LossKept, FileKept, PruneKept, Current, StopKept, NotFull, TypeOK, queue, shared,
     producer, file, pruner, owner, asked, done
<1>8. ASSUME NEW p \in Producers, SetFlush(p), ProducerFrame
      PROVE  QueueKept /\ BlockKept /\ LossKept /\ FileKept /\ PruneKept /\ StopKept
  BY <1>8 DEF SetFlush, Notify, GotoP, ProducerFrame, QueueKept, BlockKept, LossKept,
     FileKept, PruneKept, Current, StopKept, NotFull, TypeOK, queue, shared, producer,
     file, pruner, owner, asked, done
<1>9. ASSUME Outer, StorageFrame
      PROVE  QueueKept /\ BlockKept /\ LossKept /\ LockKept /\ FileKept /\ PruneKept /\ StopKept
  BY <1>9 DEF Outer, Moves, GotoW, StorageFrame, QueueKept, BlockKept, LossKept,
     LockKept, FileKept, PruneKept, Current, StopKept, NotFull, queue, shared, producer,
     file, pruner, owner, asked, done
<1>10. ASSUME OpenFile, StorageFrame
      PROVE  QueueKept /\ BlockKept /\ LossKept /\ LockKept /\ PruneKept /\ StopKept
  BY <1>10 DEF OpenFile, GotoW, StorageFrame, QueueKept, BlockKept, LossKept,
     LockKept, PruneKept, Current, StopKept, queue, shared, producer, file, pruner,
     owner, asked, done
<1>11. ASSUME OpenFails, StorageFrame
      PROVE  QueueKept /\ BlockKept /\ LossKept /\ LockKept /\ FileKept /\ PruneKept /\ StopKept
  BY <1>11 DEF OpenFails, GotoW, StorageFrame, QueueKept, BlockKept, LossKept,
     LockKept, FileKept, PruneKept, Current, StopKept, NotFull, queue, shared, producer,
     file, pruner, owner, asked, done
<1>12. ASSUME Inner, StorageFrame
      PROVE  QueueKept /\ BlockKept /\ LossKept /\ LockKept /\ FileKept /\ PruneKept /\ StopKept
  BY <1>12 DEF Inner, Moves, GotoW, StorageFrame, QueueKept, BlockKept, LossKept,
     LockKept, FileKept, PruneKept, Current, StopKept, NotFull, queue, shared, producer,
     file, pruner, owner, asked, done
<1>13. ASSUME TestEmpty, StorageFrame
      PROVE  QueueKept /\ BlockKept /\ LossKept /\ LockKept /\ FileKept /\ PruneKept /\ StopKept
  BY <1>13 DEF TestEmpty, Moves, GotoW, StorageFrame, QueueKept, BlockKept, LossKept,
     LockKept, FileKept, PruneKept, Current, StopKept, NotFull, queue, shared, producer,
     file, pruner, owner, asked, done
<1>14. ASSUME EnterWait, StorageFrame
      PROVE  QueueKept /\ BlockKept /\ LossKept /\ FileKept /\ PruneKept /\ StopKept
  BY <1>14 DEF EnterWait, GotoW, StorageFrame, QueueKept, BlockKept, LossKept,
     FileKept, PruneKept, Current, StopKept, NotFull, queue, shared, producer, file,
     pruner, owner, asked, done
<1>15. ASSUME Sleep, StorageFrame
      PROVE  QueueKept /\ BlockKept /\ LossKept /\ FileKept /\ PruneKept /\ StopKept
  BY <1>15 DEF Sleep, GotoW, StorageFrame, QueueKept, BlockKept, LossKept, FileKept,
     PruneKept, Current, StopKept, NotFull, queue, shared, producer, file, pruner,
     owner, asked, done
<1>16. ASSUME TimeOut
      PROVE  QueueKept /\ BlockKept /\ LossKept /\ LockKept /\ FileKept /\ PruneKept /\ StopKept
  BY <1>16 DEF TimeOut, Moves, GotoW, StorageFrame, QueueKept, BlockKept, LossKept,
     LockKept, FileKept, PruneKept, Current, StopKept, NotFull, queue, shared, producer,
     file, pruner, owner, asked, done
<1>17. ASSUME Peek, StorageFrame
      PROVE  QueueKept /\ LossKept /\ LockKept /\ FileKept /\ PruneKept /\ StopKept
  BY <1>17 DEF Peek, ToEnd, data!Held, GotoW, StorageFrame, QueueKept, LossKept,
     LockKept, FileKept, PruneKept, Current, StopKept, NotFull, queue, shared, producer,
     file, pruner, owner, asked, done
<1>18. ASSUME FailSlice0, StorageFrame
      PROVE  QueueKept /\ LossKept /\ LockKept /\ FileKept /\ PruneKept /\ StopKept
  BY <1>18 DEF FailSlice0, Fails, NoBlock, GotoW, StorageFrame, QueueKept, LossKept,
     LockKept, FileKept, PruneKept, Current, StopKept, NotFull, queue, shared, producer,
     file, pruner, owner, asked, done
<1>19. ASSUME FailSlice1, StorageFrame
      PROVE  QueueKept /\ LossKept /\ LockKept /\ FileKept /\ PruneKept /\ StopKept
  BY <1>19 DEF FailSlice1, Fails, FirstSlice, GotoW, StorageFrame, QueueKept,
     LossKept, LockKept, FileKept, PruneKept, Current, StopKept, NotFull, queue, shared,
     producer, file, pruner, owner, asked, done
<1>20. ASSUME Readed, StorageFrame PROVE LossKept /\ LockKept /\ PruneKept /\ StopKept
  BY <1>20 DEF Readed, data!Take, data!Held, NoBlock, GotoW, StorageFrame, LossKept,
     LockKept, PruneKept, Current, StopKept, queue, shared, producer, file, pruner,
     owner, asked, done
<1>21. ASSUME TestLoss, StorageFrame
      PROVE  QueueKept /\ BlockKept /\ LossKept /\ LockKept /\ FileKept /\ PruneKept /\ StopKept
  BY <1>21 DEF TestLoss, Moves, GotoW, StorageFrame, QueueKept, BlockKept, LossKept,
     LockKept, FileKept, PruneKept, Current, StopKept, NotFull, queue, shared, producer,
     file, pruner, owner, asked, done
<1>22. ASSUME TakeLoss, StorageFrame
      PROVE  QueueKept /\ BlockKept /\ LockKept /\ FileKept /\ PruneKept /\ StopKept
  BY <1>22 DEF TakeLoss, GotoW, StorageFrame, QueueKept, BlockKept,
     LockKept, FileKept, PruneKept, Current, StopKept, NotFull, queue, shared, producer,
     file, pruner, owner, asked, done
<1>23. ASSUME WriteLoss, StorageFrame
      PROVE  QueueKept /\ BlockKept /\ LockKept /\ PruneKept /\ StopKept
  BY <1>23 DEF WriteLoss, GotoW, StorageFrame, QueueKept, BlockKept, LockKept,
     PruneKept, Current, StopKept, queue, shared, producer, file, pruner, owner, asked,
     done
<1>24. ASSUME FailLoss, StorageFrame
      PROVE  QueueKept /\ BlockKept /\ LockKept /\ FileKept /\ PruneKept /\ StopKept
  BY <1>24 DEF FailLoss, Fails, GotoW, StorageFrame, QueueKept, BlockKept, LockKept,
     FileKept, PruneKept, Current, StopKept, NotFull, queue, shared, producer, file,
     pruner, owner, asked, done
<1>25. ASSUME CheckEof, StorageFrame
      PROVE  QueueKept /\ BlockKept /\ LossKept /\ LockKept /\ FileKept /\ PruneKept /\ StopKept
  BY <1>25 DEF CheckEof, GotoW, StorageFrame, QueueKept, BlockKept, LossKept,
     LockKept, FileKept, PruneKept, Current, StopKept, NotFull, queue, shared, producer,
     file, pruner, owner, asked, done
<1>26. ASSUME ClearFlags, StorageFrame
      PROVE  QueueKept /\ BlockKept /\ LossKept /\ PruneKept /\ StopKept
  BY <1>26 DEF ClearFlags, NoFlags, GotoW, StorageFrame, QueueKept, BlockKept,
     LossKept, PruneKept, Current, StopKept, queue, shared, producer, file, pruner,
     owner, asked, done
<1>27. ASSUME Roll, StorageFrame
      PROVE  QueueKept /\ BlockKept /\ LossKept /\ LockKept /\ FileKept /\ StopKept
  BY <1>27 DEF Roll, GotoW, StorageFrame, QueueKept, BlockKept, LossKept, LockKept,
     FileKept, StopKept, NotFull, queue, shared, producer, file, pruner, owner, asked,
     done
<1>28. ASSUME Close, StorageFrame
      PROVE  QueueKept /\ BlockKept /\ LossKept /\ LockKept /\ FileKept /\ PruneKept /\ StopKept
  BY <1>28 DEF Close, Moves, GotoW, StorageFrame, QueueKept, BlockKept, LossKept,
     LockKept, FileKept, PruneKept, Current, StopKept, NotFull, queue, shared, producer,
     file, pruner, owner, asked, done
<1>29. ASSUME Finish, StorageFrame
      PROVE  QueueKept /\ BlockKept /\ LossKept /\ LockKept /\ FileKept /\ StopKept
  BY <1>29 DEF Finish, GotoW, StorageFrame, QueueKept, BlockKept, LossKept, LockKept,
     FileKept, StopKept, NotFull, queue, shared, producer, file, pruner, owner, asked,
     done
<1>30. ASSUME JoinPrune, StorageFrame
      PROVE  QueueKept /\ BlockKept /\ LossKept /\ LockKept /\ FileKept /\ StopKept
  BY <1>30 DEF JoinPrune, Moves, GotoW, StorageFrame, QueueKept, BlockKept, LossKept,
     LockKept, FileKept, StopKept, NotFull, queue, shared, producer, file, pruner,
     owner, asked, done
<1>31. ASSUME Exit, StorageFrame
      PROVE  QueueKept /\ BlockKept /\ LossKept /\ LockKept /\ FileKept /\ PruneKept /\ StopKept
  BY <1>31 DEF Exit, GotoW, StorageFrame, QueueKept, BlockKept, LossKept, LockKept,
     FileKept, PruneKept, Current, StopKept, NotFull, queue, shared, producer, file,
     pruner, owner, asked, done
<1>32. ASSUME NEW k \in 1..blk[1], WriteSlice0(k), StorageFrame
      PROVE  QueueKept /\ LossKept /\ LockKept /\ FileKept /\ PruneKept /\ StopKept
  BY <1>32 DEF WriteSlice0, GotoW, StorageFrame, QueueKept, LossKept, LockKept,
     FileKept, PruneKept, Current, StopKept, NotFull, queue, shared, producer, file,
     pruner, owner, asked, done
<1>33. ASSUME NEW k \in 1..blk[2], WriteSlice1(k), StorageFrame
      PROVE  QueueKept /\ LossKept /\ LockKept /\ FileKept /\ PruneKept /\ StopKept
  BY <1>33 DEF WriteSlice1, GotoW, StorageFrame, QueueKept, LossKept, LockKept,
     FileKept, PruneKept, Current, StopKept, NotFull, queue, shared, producer, file,
     pruner, owner, asked, done
<1>34. ASSUME PruneEnds
      PROVE  QueueKept /\ BlockKept /\ LossKept /\ LockKept /\ FileKept /\ StopKept
  BY <1>34 DEF PruneEnds, ResetPruning, QueueKept, BlockKept, LossKept, LockKept,
     FileKept, StopKept, NotFull, queue, shared, producer, file, pruner, owner, asked,
     done
<1>35. ASSUME StopEmpty, OwnerFrame
      PROVE  QueueKept /\ BlockKept /\ LossKept /\ LockKept /\ FileKept /\ PruneKept
  BY <1>35 DEF StopEmpty, Quiet, GotoS, OwnerFrame, QueueKept, BlockKept, LossKept,
     LockKept, FileKept, PruneKept, Current, NotFull, queue, shared, producer, file,
     pruner, owner, asked, done
<1>36. ASSUME StopBuffered, OwnerFrame
      PROVE  QueueKept /\ BlockKept /\ LossKept /\ LockKept /\ FileKept /\ PruneKept /\ StopKept
  BY <1>36 DEF StopBuffered, Quiet, GotoS, OwnerFrame, QueueKept, BlockKept, LossKept,
     LockKept, FileKept, PruneKept, Current, StopKept, NotFull, queue, shared, producer,
     file, pruner, owner, asked, done
<1>37. ASSUME StopLock, OwnerFrame
      PROVE  QueueKept /\ BlockKept /\ LossKept /\ FileKept /\ PruneKept /\ StopKept
  BY <1>37 DEF StopLock, Acquire, GotoS, OwnerFrame, QueueKept, BlockKept, LossKept,
     FileKept, PruneKept, Current, StopKept, NotFull, queue, shared, producer, file,
     pruner, owner, asked, done
<1>38. ASSUME SetEof, OwnerFrame
      PROVE  QueueKept /\ BlockKept /\ LossKept /\ FileKept /\ PruneKept /\ StopKept
  BY <1>38 DEF SetEof, GotoS, OwnerFrame, QueueKept, BlockKept, LossKept, FileKept,
     PruneKept, Current, StopKept, NotFull, queue, shared, producer, file, pruner,
     owner, asked, done
<1>39. ASSUME StopNotify, OwnerFrame
      PROVE  QueueKept /\ BlockKept /\ LossKept /\ FileKept /\ PruneKept /\ StopKept
  BY <1>39 DEF StopNotify, Notify, GotoS, OwnerFrame, QueueKept, BlockKept, LossKept,
     FileKept, PruneKept, Current, StopKept, NotFull, queue, shared, producer, file,
     pruner, owner, asked, done
<1>40. ASSUME StopReturn, OwnerFrame
      PROVE  QueueKept /\ BlockKept /\ LossKept /\ LockKept /\ FileKept /\ PruneKept /\ StopKept
  BY <1>40 DEF StopReturn, Quiet, GotoS, OwnerFrame, QueueKept, BlockKept, LossKept,
     LockKept, FileKept, PruneKept, Current, StopKept, NotFull, queue, shared, producer,
     file, pruner, owner, asked, done
<1>41. ASSUME UNCHANGED vars PROVE QueueKept /\ BlockKept /\ LossKept /\ LockKept /\ FileKept /\ PruneKept /\ StopKept
  BY <1>41 DEF vars, QueueKept, BlockKept, LossKept, LockKept, FileKept, PruneKept,
     Current, StopKept, NotFull, queue, shared, producer, file, pruner, owner, asked,
     done
<1>42. QueueFrame
  BY <1>1, <1>2, <1>3, <1>4, <1>5, <1>6, <1>7, <1>8, <1>9, <1>10, <1>11, <1>12, <1>13,
     <1>14, <1>15, <1>16, <1>17, <1>18, <1>19, <1>20, <1>21, <1>22, <1>23, <1>24, <1>25, <1>26,
     <1>27, <1>28, <1>29, <1>30, <1>31, <1>32, <1>33, <1>34, <1>35, <1>36, <1>37, <1>38,
     <1>39, <1>40, <1>41
     DEF QueueFrame, Next, WriteStep, StorageStep, BeginStop, StopStep
<1>43. BlockFrame
  BY <1>1, <1>2, <1>3, <1>4, <1>5, <1>6, <1>7, <1>8, <1>9, <1>10, <1>11, <1>12, <1>13,
     <1>14, <1>15, <1>16, <1>17, <1>18, <1>19, <1>20, <1>21, <1>22, <1>23, <1>24, <1>25, <1>26,
     <1>27, <1>28, <1>29, <1>30, <1>31, <1>32, <1>33, <1>34, <1>35, <1>36, <1>37, <1>38,
     <1>39, <1>40, <1>41
     DEF BlockFrame, Next, WriteStep, StorageStep, BeginStop, StopStep
<1>44. LossFrame
  BY <1>1, <1>2, <1>3, <1>4, <1>5, <1>6, <1>7, <1>8, <1>9, <1>10, <1>11, <1>12, <1>13,
     <1>14, <1>15, <1>16, <1>17, <1>18, <1>19, <1>20, <1>21, <1>22, <1>23, <1>24, <1>25, <1>26,
     <1>27, <1>28, <1>29, <1>30, <1>31, <1>32, <1>33, <1>34, <1>35, <1>36, <1>37, <1>38,
     <1>39, <1>40, <1>41
     DEF LossFrame, Next, WriteStep, StorageStep, BeginStop, StopStep
<1>45. LockFrame
  BY <1>1, <1>2, <1>3, <1>4, <1>5, <1>6, <1>7, <1>8, <1>9, <1>10, <1>11, <1>12, <1>13,
     <1>14, <1>15, <1>16, <1>17, <1>18, <1>19, <1>20, <1>21, <1>22, <1>23, <1>24, <1>25, <1>26,
     <1>27, <1>28, <1>29, <1>30, <1>31, <1>32, <1>33, <1>34, <1>35, <1>36, <1>37, <1>38,
     <1>39, <1>40, <1>41
     DEF LockFrame, Next, WriteStep, StorageStep, BeginStop, StopStep
<1>46. FileFrame
  BY <1>1, <1>2, <1>3, <1>4, <1>5, <1>6, <1>7, <1>8, <1>9, <1>10, <1>11, <1>12, <1>13,
     <1>14, <1>15, <1>16, <1>17, <1>18, <1>19, <1>20, <1>21, <1>22, <1>23, <1>24, <1>25, <1>26,
     <1>27, <1>28, <1>29, <1>30, <1>31, <1>32, <1>33, <1>34, <1>35, <1>36, <1>37, <1>38,
     <1>39, <1>40, <1>41
     DEF FileFrame, Next, WriteStep, StorageStep, BeginStop, StopStep
<1>47. PruneFrame
  BY <1>1, <1>2, <1>3, <1>4, <1>5, <1>6, <1>7, <1>8, <1>9, <1>10, <1>11, <1>12, <1>13,
     <1>14, <1>15, <1>16, <1>17, <1>18, <1>19, <1>20, <1>21, <1>22, <1>23, <1>24, <1>25, <1>26,
     <1>27, <1>28, <1>29, <1>30, <1>31, <1>32, <1>33, <1>34, <1>35, <1>36, <1>37, <1>38,
     <1>39, <1>40, <1>41
     DEF PruneFrame, Next, WriteStep, StorageStep, BeginStop, StopStep
<1>48. StopFrame
  BY <1>1, <1>2, <1>3, <1>4, <1>5, <1>6, <1>7, <1>8, <1>9, <1>10, <1>11, <1>12, <1>13,
     <1>14, <1>15, <1>16, <1>17, <1>18, <1>19, <1>20, <1>21, <1>22, <1>23, <1>24, <1>25, <1>26,
     <1>27, <1>28, <1>29, <1>30, <1>31, <1>32, <1>33, <1>34, <1>35, <1>36, <1>37, <1>38,
     <1>39, <1>40, <1>41
     DEF StopFrame, Next, WriteStep, StorageStep, BeginStop, StopStep
<1> QED
  BY <1>42, <1>43, <1>44, <1>45, <1>46, <1>47, <1>48
------------------------------------------------------------------------------
(* The parts of the invariant *)

\* A message enters only if there is room, and no more is taken than is there.
LEMMA BufferedStep ==
    ASSUME TypeOK, Buffered, [Next]_vars
    PROVE  Buffered'
<1> USE DEF Buffered, data!Held
<1>1. ASSUME NEW p \in Producers, Accept(p), ProducerFrame PROVE Buffered'
  BY <1>1 DEF Accept, data!Put, data!HasRoom, TypeOK, ProducerFrame
<1>2. CASE Readed  BY <1>2 DEF Readed, data!Take, TypeOK
<1>3. CASE QueueKept  BY <1>3 DEF QueueKept
<1> QED  BY <1>1, <1>2, <1>3, Frames DEF QueueFrame

\* Whatever the two writes and the short writes do, the storage thread gives
\* back exactly what it stored, and what it stores is still in the buffer.
LEMMA BlockStep ==
    ASSUME TypeOK, Buffered, BlockInBuffer, StoredOnce, [Next]_vars
    PROVE  BlockInBuffer' /\ StoredOnce'
<1> USE DEF BlockInBuffer, StoredOnce, data!Held
<1>1. /\ acc \in Nat /\ out \in Nat /\ stored \in Nat
      /\ blk = <<blk[1], blk[2]>> /\ blk[1] \in Nat /\ blk[2] \in Nat
      /\ 0 <= acc - out
  BY DEF TypeOK, Buffered
<1>2. ASSUME NEW p \in Producers, Accept(p), ProducerFrame PROVE BlockInBuffer' /\ StoredOnce'
  <2>1. /\ wpc' = wpc /\ out' = out /\ stored' = stored /\ blk' = blk
        /\ acc' = acc + msg[p].n
    BY <1>2 DEF Accept, ProducerFrame, data!Put, file, done
  <2>2. msg[p].n \in Nat  BY DEF TypeOK
  <2> QED  BY <1>1, <2>1, <2>2
<1>3. CASE Peek
  BY <1>1, <1>3 DEF Peek, ToEnd, GotoW, queue, done
<1>4. ASSUME NEW k \in 1..blk[1], WriteSlice0(k) PROVE BlockInBuffer' /\ StoredOnce'
  BY <1>1, <1>4 DEF WriteSlice0, GotoW, queue
<1>5. ASSUME NEW k \in 1..blk[2], WriteSlice1(k) PROVE BlockInBuffer' /\ StoredOnce'
  BY <1>1, <1>5 DEF WriteSlice1, GotoW, queue
<1>6. CASE FailSlice0
  BY <1>1, <1>6 DEF FailSlice0, Fails, GotoW, queue
<1>7. CASE FailSlice1
  BY <1>1, <1>7 DEF FailSlice1, Fails, FirstSlice, GotoW, queue
<1>8. CASE Readed
  BY <1>1, <1>8 DEF Readed, GotoW, data!Take, done
<1>9. CASE BlockKept  BY <1>9 DEF BlockKept
<1> QED
  BY <1>2, <1>3, <1>4, <1>5, <1>6, <1>7, <1>8, <1>9, Frames DEF BlockFrame

\* A refused message is in exactly one place, whoever moves it.
LEMMA LossStep ==
    ASSUME TypeOK, LossInLine, LossAccounted, [Next]_vars
    PROVE  LossInLine' /\ LossAccounted'
<1> USE DEF LossInLine, LossAccounted
<1>1. /\ loss \in Nat /\ lossMsg \in Nat /\ refused \in Nat
      /\ reported \in Nat /\ dropped \in Nat
  BY DEF TypeOK
<1>2. ASSUME NEW p \in Producers, CountLoss(p), ProducerFrame
      PROVE  LossInLine' /\ LossAccounted'
  BY <1>1, <1>2 DEF CountLoss, ProducerFrame, file, done
<1>3. CASE TakeLoss /\ StorageFrame
  BY <1>1, <1>3 DEF TakeLoss, StorageFrame, GotoW, asked, done
<1>4. CASE WriteLoss /\ StorageFrame
  BY <1>1, <1>4 DEF WriteLoss, StorageFrame, GotoW, shared, asked
<1>5. CASE FailLoss /\ StorageFrame
  BY <1>1, <1>5 DEF FailLoss, Fails, StorageFrame, GotoW, shared, asked
<1>6. CASE LossKept  BY <1>6 DEF LossKept
<1> QED
  BY <1>2, <1>3, <1>4, <1>5, <1>6, Frames DEF LossFrame

\* The mutex keeps the storage thread from sleeping on a flag.
LEMMA LockStep ==
    ASSUME TypeOK, Locking, SleepIsSafe, [Next]_vars
    PROVE  Locking' /\ SleepIsSafe'
<1> USE DEF Locking, SleepIsSafe
<1>1. "free" \notin Users /\ "storage" \notin Users /\ "owner" \notin Producers
  BY DEF Users
<1>2. ASSUME NEW p \in Producers, LockAndLoad(p), ProducerFrame PROVE Locking' /\ SleepIsSafe'
  BY <1>1, <1>2 DEF LockAndLoad, Acquire, ProducerFrame, GotoP, TypeOK, owner, Users
<1>3. ASSUME NEW p \in Producers, SetFlush(p), ProducerFrame PROVE Locking' /\ SleepIsSafe'
  BY <1>1, <1>3 DEF SetFlush, ProducerFrame, GotoP, Notify, TypeOK, owner, Users
<1>4. CASE EnterWait /\ StorageFrame
  BY <1>1, <1>4 DEF EnterWait, StorageFrame, GotoW, producer, owner, Users
<1>5. CASE Sleep /\ StorageFrame
  BY <1>1, <1>5 DEF Sleep, StorageFrame, GotoW, producer, owner, Users
<1>6. CASE ClearFlags /\ StorageFrame
  BY <1>6 DEF ClearFlags, StorageFrame, NoFlags, GotoW, producer, owner
<1>7. CASE StopLock /\ OwnerFrame
  BY <1>1, <1>7 DEF StopLock, Acquire, OwnerFrame, GotoS, Users
<1>8. CASE SetEof /\ OwnerFrame
  BY <1>1, <1>8 DEF SetEof, OwnerFrame, GotoS, Users
<1>9. CASE StopNotify /\ OwnerFrame
  BY <1>9 DEF StopNotify, OwnerFrame, GotoS, Notify, shared
<1>10. CASE LockKept  BY <1>10 DEF LockKept
<1> QED
  BY <1>2, <1>3, <1>4, <1>5, <1>6, <1>7, <1>8, <1>9, <1>10, Frames DEF LockFrame

\* A block goes to a file that is not full.
LEMMA FileStep ==
    ASSUME TypeOK, Buffered, BlockInBuffer, FileGrowth, FileBounded, [Next]_vars
    PROVE  FileGrowth' /\ FileBounded'
<1> USE DEF FileGrowth, FileBounded
<1>1. fileSize \in Nat /\ blk[1] \in Nat /\ blk[2] \in Nat  BY DEF TypeOK
<1>2. CASE OpenFile  BY <1>1, <1>2 DEF OpenFile, GotoW
<1>3. CASE Readed
  <2>1. /\ wpc = "readed" /\ wpc' \in {"loss", "close"} /\ fileSize < MaxLogFileSize
        /\ blk[1] + blk[2] <= Cap
    BY <1>1, <1>3 DEF Readed, GotoW, BlockInBuffer, Buffered, data!Held, TypeOK
  <2>2. fileSize' = fileSize \/ fileSize' = fileSize + blk[1] + blk[2]
    BY <1>3 DEF Readed
  <2> QED  BY <1>1, <2>1, <2>2
<1>4. CASE WriteLoss  BY <1>1, <1>4 DEF WriteLoss, GotoW
<1>5. CASE ClearFlags  BY <1>1, <1>5 DEF ClearFlags, Full, GotoW, file
<1>6. CASE FileKept  BY <1>6 DEF FileKept, NotFull
<1> QED
  BY <1>2, <1>3, <1>4, <1>5, <1>6, Frames DEF FileFrame

\* LoopWrite waits for the prune task before its locals go, and bPruning follows
\* the task up to then.
LEMMA PruneStep ==
    ASSUME TypeOK, PruneJoined, PruneAtWork, LastThrew, [Next]_vars
    PROVE  PruneJoined' /\ PruneAtWork' /\ LastThrew'
<1> USE DEF PruneJoined, PruneAtWork, LastThrew
<1>1. CASE Roll  BY <1>1 DEF Roll, GotoW, TypeOK
<1>2. CASE Finish  BY <1>2 DEF Finish, Valid, GotoW
<1>3. CASE JoinPrune  BY <1>3 DEF JoinPrune, Moves, GotoW, pruner
<1>4. CASE PruneEnds  BY <1>4 DEF PruneEnds, ResetPruning, TypeOK
<1>5. CASE PruneKept  BY <1>5 DEF PruneKept, pruner
<1> QED  BY <1>1, <1>2, <1>3, <1>4, <1>5, Frames DEF PruneFrame

\* After Stop has found the buffer empty nobody fills it.
LEMMA StopStepKeeps ==
    ASSUME TypeOK, EmptyStop, [Next]_vars
    PROVE  EmptyStop'
<1> USE DEF EmptyStop, data!Held
<1>1. ASSUME NEW p \in Producers, NEW n \in 1..MaxLen, NEW u \in BOOLEAN, BeginWrite(p, n, u)
      PROVE  EmptyStop'
  BY <1>1 DEF BeginWrite, owner
<1>2. CASE StopEmpty /\ OwnerFrame
  BY <1>2 DEF StopEmpty, OwnerFrame, Empty, Quiet, GotoS, queue
<1>3. CASE StopKept
  <2>1. ASSUME NEW p \in Producers, Accept(p), sawEmpty PROVE FALSE
    BY <2>1 DEF Accept, GotoP
  <2>2. CASE Readed
    BY <1>3, <2>2 DEF StopKept, Readed, data!Take, TypeOK
  <2>3. CASE QueueKept
    BY <1>3, <2>3 DEF StopKept, QueueKept
  <2>4. CASE ~sawEmpty  BY <1>3, <2>4 DEF StopKept
  <2> QED  BY <2>1, <2>2, <2>3, <2>4, Frames DEF QueueFrame
<1> QED  BY <1>1, <1>2, <1>3, Frames DEF StopFrame
------------------------------------------------------------------------------
(* The invariant, and what follows from it *)

\* The parts of the invariant hold before any thread has moved.
LEMMA WriterInvInit == Init => WriterInv
<1> SUFFICES ASSUME Init PROVE WriterInv
  OBVIOUS
<1>1. TypeOK  BY TypeInit
<1>2. Buffered /\ BlockInBuffer /\ StoredOnce
  BY DEF Init, data!QueueInit, Buffered, BlockInBuffer, StoredOnce, data!Held
<1>3. LossInLine /\ LossAccounted  BY DEF Init, LossInLine, LossAccounted
<1>4. Locking /\ SleepIsSafe  BY DEF Init, Locking, SleepIsSafe
<1>5. FileGrowth /\ FileBounded  BY DEF Init, FileGrowth, FileBounded
<1>6. PruneJoined /\ PruneAtWork /\ LastThrew /\ EmptyStop
  BY DEF Init, PruneJoined, PruneAtWork, LastThrew, EmptyStop
<1> QED  BY <1>1, <1>2, <1>3, <1>4, <1>5, <1>6 DEF WriterInv

\* No step of any thread breaks the invariant: one lemma for each part.
LEMMA WriterInvStep == WriterInv /\ [Next]_vars => WriterInv'
BY TypeStep, BufferedStep, BlockStep, LossStep, LockStep, FileStep, PruneStep, StopStepKeeps
   DEF WriterInv

\* The file writer stays in its invariant.
THEOREM WriterInvariantHolds == Spec => []WriterInv
<1> QED  BY WriterInvInit, WriterInvStep, PTL DEF Spec

\* Every variable of the file writer keeps its type: no counter goes below zero,
\* and the slices that Peek returns are not negative.
THEOREM WriterTypeOK == Spec => []TypeOK
<1>1. WriterInv => TypeOK  BY DEF WriterInv
<1> QED  BY <1>1, WriterInvariantHolds, PTL

\* What is given back to the buffer is what was written to the files.
THEOREM WriterStoredOnce == Spec => []StoredOnce
<1>1. WriterInv => StoredOnce  BY DEF WriterInv
<1> QED  BY <1>1, WriterInvariantHolds, PTL

\* Every refused message is accounted for.
THEOREM WriterLossAccounted == Spec => []LossAccounted
<1>1. WriterInv => LossAccounted  BY DEF WriterInv
<1> QED  BY <1>1, WriterInvariantHolds, PTL

\* The storage thread never sleeps on a flag that nobody will tell it of.
THEOREM WriterSleepIsSafe == Spec => []SleepIsSafe
<1>1. WriterInv => SleepIsSafe  BY DEF WriterInv
<1> QED  BY <1>1, WriterInvariantHolds, PTL

\* The size of a log file is bounded.
THEOREM WriterFileBounded == Spec => []FileBounded
<1>1. WriterInv => FileBounded  BY DEF WriterInv
<1> QED  BY <1>1, WriterInvariantHolds, PTL

\* The prune task never outlives the locals of LoopWrite that it refers to.
THEOREM WriterPruneJoined == Spec => []PruneJoined
<1>1. WriterInv => PruneJoined  BY DEF WriterInv
<1> QED  BY <1>1, WriterInvariantHolds, PTL

\* As long as no prune threw, bPruning says whether a prune is at work.
THEOREM WriterPruneAtWork == Spec => []PruneAtWork
<1>1. WriterInv => PruneAtWork  BY DEF WriterInv
<1> QED  BY <1>1, WriterInvariantHolds, PTL

\* A Stop that found the buffer empty loses nothing.
THEOREM WriterEmptyStopKeepsAll == Spec => []EmptyStopKeepsAll
<1>1. WriterInv => EmptyStopKeepsAll
  <2> SUFFICES ASSUME WriterInv, sawEmpty PROVE stored = acc
    BY DEF EmptyStopKeepsAll
  <2>1. /\ acc \in Nat /\ out \in Nat /\ blk[1] \in Nat /\ blk[2] \in Nat /\ acc - out = 0
    BY DEF WriterInv, TypeOK, EmptyStop, data!Held
  <2>2. wpc \in {"write0", "write1", "readed"} => blk[1] = 0 /\ blk[2] = 0
    BY <2>1 DEF WriterInv, BlockInBuffer, data!Held
  <2> QED  BY <2>1, <2>2 DEF WriterInv, StoredOnce
<1> QED  BY <1>1, WriterInvariantHolds, PTL

\* The file writer keeps to the contract of the buffer: whatever the threads do, no
\* message enters that has no room, and the storage thread gives back no byte that
\* is not there, in whatever pieces write() took the block. The block being written is
\* in the buffer until all of it was: the guard of Readed never stops the thread.
THEOREM WriterUsesQueue == Spec => data!QueueSpec /\ []BlockInBuffer
<1>1. Init => data!QueueInit  BY DEF Init
<1>2. WriterInv /\ [Next]_vars => [data!QueueNext]_<<acc, out>>
  <2> SUFFICES ASSUME WriterInv, [Next]_vars PROVE [data!QueueNext]_<<acc, out>>
    OBVIOUS
  <2>0. TypeOK /\ Buffered /\ BlockInBuffer  BY DEF WriterInv
  <2>1. CASE QueueKept
    BY <2>1 DEF QueueKept
  <2>2. ASSUME NEW p \in Producers, Accept(p), ProducerFrame
        PROVE  [data!QueueNext]_<<acc, out>>
    <3>1. data!Put(msg[p].n) /\ msg[p].n \in Nat  BY <2>0, <2>2 DEF Accept, TypeOK
    <3>2. CASE msg[p].n = 0
      BY <2>0, <3>1, <3>2 DEF data!Put, TypeOK
    <3>3. CASE msg[p].n # 0
      <4>1. msg[p].n \in 1..Cap
        BY <2>0, <3>1, <3>3 DEF data!Put, data!HasRoom, data!Held, Buffered, TypeOK
      <4> QED  BY <3>1, <4>1 DEF data!QueueNext
    <3> QED  BY <3>2, <3>3
  <2>3. ASSUME Readed PROVE [data!QueueNext]_<<acc, out>>
    <3> DEFINE k == blk[1] + blk[2]
    <3>1. data!Take(k) /\ k \in Nat  BY <2>0, <2>3 DEF Readed, TypeOK
    <3>2. CASE k = 0
      BY <2>0, <3>1, <3>2 DEF data!Take, TypeOK
    <3>3. CASE k # 0
      <4>1. k \in 1..Cap
        BY <2>0, <3>1, <3>3 DEF data!Take, data!Held, Buffered, TypeOK
      <4> HIDE DEF k
      <4> QED  BY <3>1, <4>1 DEF data!QueueNext
    <3> QED  BY <3>2, <3>3
  <2> QED  BY <2>0, <2>1, <2>2, <2>3, Frames DEF QueueFrame
<1>3. WriterInv => BlockInBuffer  BY DEF WriterInv
<1> QED  BY <1>1, <1>2, <1>3, WriterInvariantHolds, PTL DEF Spec, data!QueueSpec

\* Whatever ends a file, a full one starts a prune exactly when none is at work and none
\* threw; the thread never waits for a prune before its end, and then it does. What the
\* code remembers in bPruning never parts from this.
THEOREM WriterPrunesInTurn == Spec => PrunesInTurn
<1> DEFINE cvars == <<Current, prune, threw>>
<1>1. Init => cycle!CycleInit  BY DEF Init, cycle!CycleInit, Current
<1>2. WriterInv /\ [Next]_vars => [cycle!CycleNext]_cvars
  <2> SUFFICES ASSUME WriterInv, [Next]_vars PROVE [cycle!CycleNext]_cvars
    OBVIOUS
  <2> USE DEF cycle!CycleNext, cycle!GotoC
  <2>0. TypeOK /\ PruneJoined /\ PruneAtWork /\ LastThrew  BY DEF WriterInv
  <2>1. CASE PruneKept
    BY <2>1 DEF PruneKept, pruner, cycle!Open, cycle!Shut, cycle!Fill
  <2>2. CASE Roll
    BY <2>0, <2>2 DEF Roll, GotoW, Current, PruneAtWork, LastThrew, TypeOK,
       cycle!RollAndPrune, cycle!RollOnly, cycle!AtWork
  <2>3. CASE Finish
    BY <2>3 DEF Finish, Valid, GotoW, Current, cycle!Leave, cycle!AtWork
  <2>4. CASE JoinPrune
    BY <2>4 DEF JoinPrune, Moves, GotoW, Current, pruner, cycle!Leave, cycle!AtWork
  <2>5. CASE PruneEnds
    BY <2>5 DEF PruneEnds, ResetPruning, Current, cycle!PruneEnds,
       cycle!AtWork
  <2> QED  BY <2>0, <2>1, <2>2, <2>3, <2>4, <2>5, Frames DEF PruneFrame
<1> QED  BY <1>1, <1>2, WriterInvariantHolds, PTL DEF Spec, PrunesInTurn, cycle!CycleSpec
==============================================================================
