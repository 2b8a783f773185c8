------------------------ MODULE MultiWriteRingBuffer ------------------------
(***************************************************************************)
(* The ring of bytes between the threads that log and the storage thread   *)
(* (src/buffer).  Any number of threads call Write; one thread calls Peek  *)
(* and Readed.  There is one action per access to a shared atomic, which   *)
(* are sequentially consistent, and one per byte that memcpy stores.       *)
(*                                                                         *)
(* A byte is modelled by its position in the stream of reserved bytes, so  *)
(* slot i of an intact ring holds the number of the byte that belongs      *)
(* there: a byte lost, torn, repeated or out of order shows as a wrong     *)
(* number.  A message is its length.                                       *)
(***************************************************************************)
EXTENDS Integers, FiniteSets

CONSTANTS
    Writers,    \* the threads that call Write
    Cap,        \* m_szCapOfBytes
    MaxLen,     \* the longest message offered; a longer one than Cap is
                \* refused on entry and changes nothing
    Budget      \* bound of the model: the bytes offered over a behaviour

ASSUME RingAssumption ==
    /\ Cap \in Nat \ {0}
    /\ MaxLen \in 1..Cap
    /\ Budget \in Nat

VARIABLES
    buf, beginIndex, writeableIndex, endIndex, dataOfBytes,   \* the members
    pc, len, idx, copied,         \* of each writer: szBytes, uWriteableIndex
    rpc, blk, rel,                \* of the reader: bytes peeked, given back
    offered, reserved, published, released, at, overrun       \* history

atomics == <<beginIndex, writeableIndex, endIndex, dataOfBytes>>
writer  == <<pc, len, idx, copied>>
reader  == <<rpc, blk, rel>>
history == <<offered, reserved, published, released, at, overrun>>
vars    == <<buf, atomics, writer, reader, history>>

Slots == 0..(Cap - 1)
NoByte == -1            \* m_pData is not initialised

Init ==
    /\ buf = [i \in Slots |-> NoByte]
    /\ beginIndex = 0 /\ writeableIndex = 0 /\ endIndex = 0 /\ dataOfBytes = 0
    /\ pc = [w \in Writers |-> "idle"]
    /\ len = [w \in Writers |-> 0]
    /\ idx = [w \in Writers |-> 0]
    /\ copied = [w \in Writers |-> 0]
    /\ rpc = "idle" /\ blk = 0 /\ rel = 0
    /\ offered = 0 /\ reserved = 0 /\ published = 0 /\ released = 0
    /\ at = [w \in Writers |-> 0]
    /\ overrun = FALSE
------------------------------------------------------------------------------
\* Mutant of NoRoom: the room is compared with one byte less than is written.
NoRoomByOne(n) == dataOfBytes <= Cap /\ Cap - dataOfBytes < n - 1

\* (m_szCapOfBytes - m_uDataOfBytes) < szBytes in unsigned arithmetic: once
\* more bytes are counted than the ring holds, the difference wraps to a huge
\* number and every message seems to fit.
NoRoom(n) == dataOfBytes <= Cap /\ Cap - dataOfBytes < n

\* Mutant of Advance: > where the code says >=.
AdvanceLate(i, n) == IF i + n > Cap THEN (i + n) % Cap ELSE i + n

\* The index n bytes further, wrapped by the while loop on m_szCapOfBytes.
Advance(i, n) == (i + n) % Cap

Goto(w, from, to) == pc[w] = from /\ pc' = [pc EXCEPT ![w] = to]

\* Write is entered and the message seems to fit.  (A message that does not
\* fit, and an empty one, return at once and change nothing.)
BeginWrite(w, n) ==
    /\ ~NoRoom(n)
    /\ offered + n <= Budget
    /\ Goto(w, "idle", "load")
    /\ len' = [len EXCEPT ![w] = n]
    /\ offered' = offered + n
    /\ UNCHANGED <<buf, atomics, idx, copied, reader, reserved, published,
                   released, at, overrun>>

LoadIndex(w) ==
    /\ Goto(w, "load", "cas")
    /\ idx' = [idx EXCEPT ![w] = writeableIndex]
    /\ UNCHANGED <<buf, atomics, len, copied, reader, history>>

\* Mutant of Unraced: a plain store where the code compares and exchanges.
UnracedAlways(w) == TRUE

Unraced(w) == writeableIndex = idx[w]

\* The compare_exchange succeeds: the bytes from writeableIndex on are ours.
Reserve(w) ==
    /\ Goto(w, "cas", "copy") /\ Unraced(w)
    /\ writeableIndex' = Advance(idx[w], len[w])
    /\ copied' = [copied EXCEPT ![w] = 0]
    /\ at' = [at EXCEPT ![w] = reserved]
    /\ reserved' = reserved + len[w]
    /\ overrun' = (overrun \/ reserved + len[w] - released > Cap)
    /\ UNCHANGED <<buf, beginIndex, endIndex, dataOfBytes, len, idx, reader,
                   offered, published, released>>

\* Mutant of Reread: the index that was read stays as it was.
RereadOld(w) == idx[w]

Reread(w) == writeableIndex

\* It fails, and leaves the current index in uWriteableIndex.
LoseRace(w) ==
    /\ Goto(w, "cas", "recheck")
    /\ writeableIndex # idx[w]
    /\ idx' = [idx EXCEPT ![w] = Reread(w)]
    /\ UNCHANGED <<buf, atomics, len, copied, reader, history>>

\* After a lost race the room is checked again: retry or return false.
Recheck(w) ==
    /\ Goto(w, "recheck", IF NoRoom(len[w]) THEN "idle" ELSE "cas")
    /\ UNCHANGED <<buf, atomics, len, idx, copied, reader, history>>

\* Mutant of Source: pData is not advanced between the two pieces.
SourceAgain(w) == IF idx[w] + copied[w] < Cap THEN copied[w] ELSE Advance(idx[w], copied[w])

Source(w) == copied[w]

\* memcpy, in one piece or in two around the end of the ring.
CopyByte(w) ==
    /\ Goto(w, "copy", IF copied[w] + 1 = len[w] THEN "wait" ELSE "copy")
    /\ buf' = [buf EXCEPT ![Advance(idx[w], copied[w])] = at[w] + Source(w)]
    /\ copied' = [copied EXCEPT ![w] = @ + 1]
    /\ UNCHANGED <<atomics, len, idx, reader, history>>

\* Mutant of Turn: nobody waits for the earlier reservations.
TurnAtOnce(w) == TRUE

Turn(w) == endIndex = idx[w]

\* The spin loop ends when every earlier reservation has been published.
SeeTurn(w) ==
    /\ Goto(w, "wait", "publish") /\ Turn(w)
    /\ UNCHANGED <<buf, atomics, len, idx, copied, reader, history>>

\* Mutant of End: m_uEndIndex moves to the writer's own start.
EndStart(w) == idx[w]

End(w) == Advance(idx[w], len[w])

Publish(w) ==
    /\ Goto(w, "publish", "add")
    /\ endIndex' = End(w)
    /\ published' = published + len[w]
    /\ UNCHANGED <<buf, beginIndex, writeableIndex, dataOfBytes, len, idx,
                   copied, reader, offered, reserved, released, at, overrun>>

AddData(w) ==
    /\ Goto(w, "add", "idle")
    /\ dataOfBytes' = dataOfBytes + len[w]
    /\ UNCHANGED <<buf, beginIndex, writeableIndex, endIndex, len, idx, copied,
                   reader, history>>
------------------------------------------------------------------------------
\* The reader peeks when the ring is not Empty().  Only it stores beginIndex,
\* so the two loads of Peek are one step.  It then writes slots out at leisure.
Peek ==
    /\ rpc = "idle" /\ dataOfBytes > 0
    /\ rpc' = "hold"
    /\ blk' = dataOfBytes
    /\ UNCHANGED <<buf, atomics, writer, rel, history>>

\* Mutant of Left: the counter is reset where the code subtracts.
LeftNone(k) == 0

Left(k) == dataOfBytes - k

\* Readed gives back the first k bytes of the block: all of it, or what a
\* short write took.  The counter goes down first, beginIndex moves next.
Release(k) ==
    /\ rpc = "hold" /\ k <= dataOfBytes
    /\ rpc' = "move"
    /\ rel' = k
    /\ dataOfBytes' = Left(k)
    /\ released' = released + k
    /\ UNCHANGED <<buf, beginIndex, writeableIndex, endIndex, writer, blk,
                   offered, reserved, published, at, overrun>>

MoveBegin ==
    /\ rpc = "move"
    /\ rpc' = "idle"
    /\ beginIndex' = Advance(beginIndex, rel)
    /\ UNCHANGED <<buf, writeableIndex, endIndex, dataOfBytes, writer, blk, rel,
                   history>>

\* The steps inside one call of Write.
WriteStep(w) ==
    \/ LoadIndex(w) \/ Reserve(w) \/ LoseRace(w) \/ Recheck(w)
    \/ CopyByte(w) \/ SeeTurn(w) \/ Publish(w) \/ AddData(w)

Next ==
    \/ \E w \in Writers, n \in 1..MaxLen : BeginWrite(w, n)
    \/ \E w \in Writers : WriteStep(w)
    \/ Peek
    \/ \E k \in 1..blk : Release(k)
    \/ MoveBegin

Spec == Init /\ [][Next]_vars

\* A thread inside Write keeps running.
FairSpec == Spec /\ \A w \in Writers : WF_vars(WriteStep(w))
------------------------------------------------------------------------------
\* A reservation that is not yet published.
Pending(w) == pc[w] \in {"copy", "wait", "publish"}

TypeOK ==
    /\ buf \in [Slots -> Int]
    /\ {beginIndex, writeableIndex, endIndex} \subseteq Slots
    /\ {dataOfBytes, blk, rel, offered, reserved, published, released} \subseteq Nat
    /\ pc \in [Writers -> {"idle", "load", "cas", "recheck", "copy", "wait",
                           "publish", "add"}]
    /\ len \in [Writers -> 0..MaxLen]
    /\ idx \in [Writers -> Slots]
    /\ copied \in [Writers -> Nat]
    /\ at \in [Writers -> Nat]
    /\ rpc \in {"idle", "hold", "move"}
    /\ overrun \in BOOLEAN

\* The block handed out by Peek holds the next bytes of the stream, complete
\* and in order, for as long as the reader works on it: no writer touches it.
\* Peek and Readed hold no lock; only the order of the stores in Write does it.
BlockIntact ==
    ~overrun /\ rpc = "hold" =>
        \A k \in 0..(blk - 1) : buf[Advance(beginIndex, k)] = released + k

\* Two writers never copy into the same slot, and none into a byte that the
\* reader still holds: without a lock, a CAS on one index keeps them apart.
NoDataRace ==
    ~overrun => \A w, v \in Writers : pc[w] = "copy" =>
        LET slot == Advance(idx[w], copied[w])
        IN  /\ \A k \in 0..(dataOfBytes - 1) : slot # Advance(released, k)
            /\ w # v /\ pc[v] = "copy" => slot # Advance(idx[v], copied[v])

\* The spin loop on m_uEndIndex lets the threads through in the order of
\* their reservations, one at a time, and there is always one whose turn it is.
TurnExists ==
    ~overrun /\ (\E w \in Writers : Pending(w)) =>
        \E w \in Writers : Pending(w) /\ idx[w] = endIndex /\
            \A v \in Writers \ {w} : Pending(v) => idx[v] # endIndex

\* No other thread has called Write so far.
Only(w) == \A v \in Writers \ {w} : len[v] = 0

\* Until a second thread calls Write no more is ever reserved than the ring has room
\* for: the room that the one thread saw on entry can only grow while it is inside.
LoneWriterFits == (\E w \in Writers : Only(w)) => ~overrun

\* Until the first over-reservation each change of the ring is a step of the
\* byte queue: a whole message is accepted or the oldest bytes are taken.
Queue == INSTANCE ByteQueue WITH acc <- released + dataOfBytes, out <- released
ActsAsQueue == Queue!QueueInit /\ [][overrun' \/ Queue!QueueNext]_<<released + dataOfBytes, released>>

\* A call of Write returns, unless the ring has been over-reserved: the two
\* loops of Write, one on a lost race and one on the turn, come to an end.
WriteReturns == \A w \in Writers : pc[w] # "idle" ~> (pc[w] = "idle" \/ overrun)

\* For one writer there is no exemption: the ring implements the byte queue.
ImplementsQueue == Queue!QueueSpec

\* What the name of the class promises of several writers: the bytes that
\* Write accepted come out of Peek complete and in order, with no exemption.
AcceptedBytesSurvive ==
    rpc = "hold" => \A k \in 0..(blk - 1) : buf[Advance(beginIndex, k)] = released + k
==============================================================================
