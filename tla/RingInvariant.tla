---------------------------- MODULE RingInvariant ----------------------------
(***************************************************************************)
(* Why the ring works until it is over-reserved: the invariant that every  *)
(* step of MultiWriteRingBuffer preserves, in four parts.  TLC checks it   *)
(* (RingMany.cfg); MultiWriteRingBuffer_proof proves it.                   *)
(***************************************************************************)
EXTENDS MultiWriteRingBuffer

\* A reservation that is not yet counted by m_uDataOfBytes.
Active(w) == pc[w] \in {"copy", "wait", "publish", "add"}

\* The positions of the message of w in the stream of bytes.
Bytes(w) == at[w] .. (at[w] + len[w] - 1)

\* Published, and not yet counted by m_uDataOfBytes.
Uncounted == UNION {Bytes(w) : w \in {v \in Writers : pc[v] = "add"}}

\* The reservations follow one another in the stream, without overlap, and
\* m_uWriteableIndex is where the stream of reservations ends.
Reservations ==
    /\ writeableIndex = reserved % Cap
    /\ \A w \in Writers : pc[w] # "idle" => len[w] \in 1..MaxLen
    /\ \A w \in Writers : Active(w) =>
        /\ at[w] + len[w] <= reserved
        /\ idx[w] = at[w] % Cap
        /\ IF pc[w] = "copy" THEN copied[w] < len[w] ELSE copied[w] = len[w]
    /\ \A w, v \in Writers : w # v /\ Active(w) /\ Active(v) =>
        at[w] + len[w] <= at[v] \/ at[v] + len[v] <= at[w]

\* m_uBeginIndex follows the bytes given back, and a block is in the ring.
Reading ==
    /\ (IF rpc = "move" THEN Advance(beginIndex, rel) ELSE beginIndex) = released % Cap
    /\ rpc = "hold" => blk <= dataOfBytes

\* The published bytes are a prefix of the reserved ones, the counted bytes are
\* the published ones except for those of the threads about to count, and all
\* of what is reserved fits into the ring.
Window ==
    /\ Cardinality(Uncounted) = published - released - dataOfBytes
    /\ published <= reserved
    /\ reserved <= released + Cap
    /\ endIndex = published % Cap

\* The unpublished reservations tile the bytes from published to reserved; the
\* one whose turn it is starts at published.
Turns ==
    /\ \A w \in Writers : Pending(w) => published <= at[w]
    /\ \A w \in Writers : pc[w] = "publish" => at[w] = published
    /\ \A w \in Writers : pc[w] = "add" => at[w] + len[w] <= published
    /\ \A p \in published..(reserved - 1) :
        \E w \in Writers : Pending(w) /\ p \in Bytes(w)

\* Every slot that has been written holds its byte.
Contents ==
    /\ \A p \in released..(published - 1) : buf[p % Cap] = p
    /\ \A w \in Writers : Pending(w) =>
        \A i \in 0..(copied[w] - 1) : buf[(at[w] + i) % Cap] = at[w] + i

\* The ring between two steps of whatever threads: while no more bytes are
\* reserved than it holds, the reservations are a window that moves along the
\* stream, and the block, the publishing order and the bytes follow from that.
RingInv ==
    /\ TypeOK /\ Reservations /\ Reading
    /\ ~overrun => Window /\ Turns /\ Contents

\* What else holds of a writer as long as it is the only one: it loses no race, and the
\* room it saw on entry is still there when it reserves.
LoneWriter ==
    \A w \in Writers : Only(w) =>
        /\ ~overrun
        /\ \A v \in Writers \ {w} : pc[v] = "idle"
        /\ pc[w] # "recheck"
        /\ pc[w] = "cas" => idx[w] = writeableIndex
        /\ pc[w] \in {"load", "cas"} => dataOfBytes + len[w] <= Cap
        /\ reserved = released + dataOfBytes + (IF Active(w) THEN len[w] ELSE 0)
==============================================================================
