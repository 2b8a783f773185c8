------------------------------ MODULE ByteQueue ------------------------------
(***************************************************************************)
(* What the log buffer promises its clients: a bounded first-in first-out  *)
(* queue of bytes.  A byte is known by its position in the stream of       *)
(* accepted bytes, so two counters say everything: the bytes 0..acc-1 have *)
(* been accepted, the bytes 0..out-1 have been taken by the reader, and    *)
(* out..acc-1 are in the buffer.                                           *)
(*                                                                         *)
(* MultiWriteRingBuffer implements this contract for one writer, and for   *)
(* several writers up to the first over-reservation; LogFileWriter is      *)
(* written against it.                                                     *)
(***************************************************************************)
EXTENDS Naturals

CONSTANT Cap            \* m_szCapOfBytes

VARIABLES acc, out

QueueInit == acc = 0 /\ out = 0

Held == acc - out       \* Bytes()

HasRoom(n) == Held + n <= Cap

\* Write(): the whole message enters the queue.  A message that does not fit
\* is refused and leaves no trace, so a refusal is a stuttering step here.
Put(n) == HasRoom(n) /\ acc' = acc + n /\ UNCHANGED out

\* Readed(): the reader gives back the k oldest bytes.
Take(k) == k <= Held /\ out' = out + k /\ UNCHANGED acc

QueueNext == \E n \in 1..Cap : Put(n) \/ Take(n)

QueueSpec == QueueInit /\ [][QueueNext]_<<acc, out>>
==============================================================================
