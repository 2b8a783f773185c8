--------------------- MODULE MultiWriteRingBuffer_proof ---------------------
(***************************************************************************)
(* Proofs about the ring, for any number of writers, any capacity and      *)
(* messages of any length the capacity admits.                             *)
(***************************************************************************)
EXTENDS RingInvariant, FiniteSetTheorems, TLAPS

USE RingAssumption DEF RingAssumption, Unraced, Reread, Source, Turn, End, Left
------------------------------------------------------------------------------
(* Arithmetic of the indexes *)

\* Division with remainder by the capacity.
LEMMA ModDef ==
    \A a \in Nat : a \div Cap \in Nat /\ a = Cap * (a \div Cap) + (a % Cap)
OBVIOUS

\* Quotient and remainder are unique.
LEMMA DivUnique ==
    \A q, s \in Int : \A r, t \in Slots : Cap * q + r = Cap * s + t => r = t
<1> USE DEF Slots
<1> SUFFICES ASSUME NEW q \in Int, NEW s \in Int, NEW r \in Slots, NEW t \in Slots,
                    Cap * q + r = Cap * s + t
             PROVE  r = t
  OBVIOUS
<1>1. Cap * (q - s) = t - r  OBVIOUS
<1>2. ~ (q - s >= 1)
  <2> SUFFICES ASSUME q - s >= 1 PROVE FALSE  OBVIOUS
  <2>1. Cap * (q - s) >= Cap  OBVIOUS
  <2> QED  BY <2>1, <1>1
<1>3. ~ (s - q >= 1)
  <2> SUFFICES ASSUME s - q >= 1 PROVE FALSE  OBVIOUS
  <2>1. Cap * (s - q) >= Cap  OBVIOUS
  <2>2. Cap * (s - q) = r - t  OBVIOUS
  <2> QED  BY <2>1, <2>2
<1> QED  BY <1>1, <1>2, <1>3

\* Two bytes of the stream less than one capacity apart have different slots.
LEMMA SlotsApart ==
    ASSUME NEW a \in Nat, NEW b \in Nat, a <= b, b < a + Cap, a % Cap = b % Cap
    PROVE  a = b
<1> DEFINE qa == a \div Cap
           qb == b \div Cap
<1>1. qa \in Nat /\ qb \in Nat /\ a = Cap * qa + (a % Cap) /\ b = Cap * qb + (b % Cap)
  BY ModDef
<1>2. b - a \in Slots /\ 0 \in Slots  BY DEF Slots
<1>3. a % Cap \in Int  OBVIOUS
<1> HIDE DEF qa, qb
<1>4. Cap * qb + 0 = Cap * qa + (b - a)  BY <1>1, <1>3
<1>5. qa \in Int /\ qb \in Int  BY <1>1
<1>6. 0 = b - a  BY <1>2, <1>4, <1>5, DivUnique
<1> QED  BY <1>6

\* The same, for two bytes of one window.
LEMMA WindowSlots ==
    ASSUME NEW lo \in Nat, NEW a \in lo..(lo + Cap - 1), NEW b \in lo..(lo + Cap - 1),
           a % Cap = b % Cap
    PROVE  a = b
<1>1. a \in Nat /\ b \in Nat /\ a < b + Cap /\ b < a + Cap  OBVIOUS
<1>2. CASE a <= b  BY <1>1, <1>2, SlotsApart
<1>3. CASE b <= a  BY <1>1, <1>3, SlotsApart
<1> QED  BY <1>1, <1>2, <1>3

\* Advancing the slot of a byte gives the slot of a later byte.
LEMMA AdvanceMod ==
    ASSUME NEW a \in Nat, NEW n \in Nat
    PROVE  Advance(a % Cap, n) = (a + n) % Cap
<1> DEFINE r == a % Cap
           q == a \div Cap
           s == (r + n) \div Cap
           t == (a + n) \div Cap
<1>1. r \in Nat /\ q \in Nat /\ a = Cap * q + r  BY ModDef
<1>2. r + n \in Nat /\ a + n \in Nat  BY <1>1
<1>3. s \in Nat /\ r + n = Cap * s + ((r + n) % Cap)  BY <1>2, ModDef
<1>4. t \in Nat /\ a + n = Cap * t + ((a + n) % Cap)  BY <1>2, ModDef
<1>5. (r + n) % Cap \in Slots /\ (a + n) % Cap \in Slots  BY <1>2 DEF Slots
<1> HIDE DEF r, q, s, t
<1>6. Cap * (q + s) + ((r + n) % Cap) = Cap * t + ((a + n) % Cap)
  <2>1. Cap * (q + s) = Cap * q + Cap * s  BY <1>1, <1>3
  <2>2. (r + n) % Cap \in Int /\ (a + n) % Cap \in Int  BY <1>5 DEF Slots
  <2> QED  BY <2>1, <2>2, <1>1, <1>3, <1>4
<1>7. (r + n) % Cap = (a + n) % Cap
  <2>1. q + s \in Int /\ t \in Int  BY <1>1, <1>3, <1>4
  <2> QED  BY <1>6, <1>5, <2>1, DivUnique
<1> QED  BY <1>7 DEF r, Advance

\* An index that Advance computes lies in the ring.
LEMMA AdvanceInSlots == \A i, n \in Nat : Advance(i, n) \in Slots
BY DEF Advance, Slots
------------------------------------------------------------------------------
(* Types *)

\* Every variable starts with a value of its type.
LEMMA TypeInit == Init => TypeOK
<1> SUFFICES ASSUME Init PROVE TypeOK
  OBVIOUS
<1>1. 0 \in Slots  BY DEF Slots
<1>2. buf \in [Slots -> Int]  BY DEF Init, NoByte
<1>3. pc \in [Writers -> {"idle", "load", "cas", "recheck", "copy", "wait",
                          "publish", "add"}]
  BY DEF Init
<1>4. len \in [Writers -> 0..MaxLen] /\ idx \in [Writers -> Slots]
  BY <1>1 DEF Init
<1>5. copied \in [Writers -> Nat] /\ at \in [Writers -> Nat]
  BY DEF Init
<1>6. {beginIndex, writeableIndex, endIndex} \subseteq Slots  BY <1>1 DEF Init
<1>7. {dataOfBytes, blk, rel, offered, reserved, published, released} \subseteq Nat
  BY DEF Init
<1>8. rpc \in {"idle", "hold", "move"} /\ overrun \in BOOLEAN  BY DEF Init
<1> QED  BY <1>2, <1>3, <1>4, <1>5, <1>6, <1>7, <1>8 DEF TypeOK

\* Every step keeps the types: the indexes stay within the ring.
LEMMA TypeStep == TypeOK /\ [Next]_vars => TypeOK'
<1> SUFFICES ASSUME TypeOK, [Next]_vars PROVE TypeOK'
  OBVIOUS
<1> USE DEF TypeOK
<1>1. ASSUME NEW w \in Writers, NEW n \in 1..MaxLen, BeginWrite(w, n) PROVE TypeOK'
  BY <1>1 DEF BeginWrite, Goto, atomics, reader
<1>2. ASSUME NEW w \in Writers, WriteStep(w) PROVE TypeOK'
  <2>1. CASE LoadIndex(w)  BY <2>1 DEF LoadIndex, Goto, atomics, reader, history
  <2>2. CASE Reserve(w)
    <3>1. idx[w] \in Nat /\ len[w] \in Nat  BY DEF Slots
    <3>2. Advance(idx[w], len[w]) \in Slots  BY <3>1, AdvanceInSlots
    <3> QED  BY <2>2, <3>1, <3>2 DEF Reserve, Goto, reader
  <2>3. CASE LoseRace(w)  BY <2>3 DEF LoseRace, Goto, atomics, reader, history
  <2>4. CASE Recheck(w)  BY <2>4 DEF Recheck, Goto, atomics, reader, history
  <2>5. CASE CopyByte(w)
    <3>1. at[w] + copied[w] \in Int /\ copied[w] + 1 \in Nat  OBVIOUS
    <3>2. buf' \in [Slots -> Int]  BY <2>5, <3>1 DEF CopyByte
    <3>3. copied' \in [Writers -> Nat]  BY <2>5, <3>1 DEF CopyByte
    <3>4. pc' \in [Writers -> {"idle", "load", "cas", "recheck", "copy", "wait",
                               "publish", "add"}]
      BY <2>5 DEF CopyByte, Goto
    <3> QED  BY <2>5, <3>2, <3>3, <3>4 DEF CopyByte, atomics, reader, history
  <2>6. CASE SeeTurn(w)  BY <2>6 DEF SeeTurn, Goto, atomics, reader, history
  <2>7. CASE Publish(w)
    <3>1. idx[w] \in Nat /\ len[w] \in Nat  BY DEF Slots
    <3>2. Advance(idx[w], len[w]) \in Slots  BY <3>1, AdvanceInSlots
    <3> QED  BY <2>7, <3>1, <3>2 DEF Publish, Goto, reader
  <2>8. CASE AddData(w)  BY <2>8 DEF AddData, Goto, reader, history
  <2> QED  BY <1>2, <2>1, <2>2, <2>3, <2>4, <2>5, <2>6, <2>7, <2>8 DEF WriteStep
<1>3. CASE Peek  BY <1>3 DEF Peek, atomics, writer, history
<1>4. ASSUME NEW k \in 1..blk, Release(k) PROVE TypeOK'
  BY <1>4 DEF Release, writer
<1>5. CASE MoveBegin
  <2>1. Advance(beginIndex, rel) \in Slots  BY SMTT(60), AdvanceInSlots DEF Slots
  <2> QED  BY <1>5, <2>1 DEF MoveBegin, writer, history
<1>6. CASE UNCHANGED vars
  BY <1>6 DEF vars, atomics, writer, reader, history
<1> QED  BY <1>1, <1>2, <1>3, <1>4, <1>5, <1>6 DEF Next

\* Every variable of the ring keeps its type: the indexes stay in the ring and
\* the counter of bytes never goes below zero.
THEOREM RingTypeOK == Spec => []TypeOK
<1> QED  BY TypeInit, TypeStep, PTL DEF Spec
------------------------------------------------------------------------------
(* Reservations and the reader: true of every behaviour *)

\* The compare-exchange gives every writer an interval of its own.
LEMMA ReservationsStep ==
    ASSUME TypeOK, Reservations, [Next]_vars
    PROVE  Reservations'
<1> USE DEF Active
<1>1. ASSUME NEW w \in Writers, NEW n \in 1..MaxLen, BeginWrite(w, n) PROVE Reservations'
  BY <1>1 DEF BeginWrite, Goto, atomics, reader, TypeOK, Reservations
<1>2. ASSUME NEW w \in Writers, LoadIndex(w) PROVE Reservations'
  BY <1>2 DEF LoadIndex, Goto, atomics, reader, history, TypeOK, Reservations
<1>3. ASSUME NEW w \in Writers, Reserve(w) PROVE Reservations'
  <2> USE <1>3
  <2>1. reserved \in Nat /\ len[w] \in 1..MaxLen /\ len[w] \in Nat
    BY DEF Reserve, Goto, TypeOK, Reservations
  <2>2. writeableIndex' = reserved' % Cap
    BY ZenonT(60), <2>1, AdvanceMod DEF Reserve, Reservations
  <2>3. /\ pc' = [pc EXCEPT ![w] = "copy"] /\ pc[w] = "cas"
        /\ at' = [at EXCEPT ![w] = reserved] /\ copied' = [copied EXCEPT ![w] = 0]
        /\ reserved' = reserved + len[w] /\ len' = len /\ idx' = idx
        /\ idx[w] = reserved % Cap
    BY DEF Reserve, Goto, Reservations
  <2>4. \A v \in Writers : Active(v) => at[v] + len[v] <= reserved
    BY DEF Reservations
  <2>5. \A v \in Writers : v # w => pc'[v] = pc[v] /\ at'[v] = at[v] /\ copied'[v] = copied[v]
    BY <2>3 DEF TypeOK
  <2>6. pc'[w] = "copy" /\ at'[w] = reserved /\ copied'[w] = 0
    BY <2>3 DEF TypeOK
  <2>7. \A v \in Writers : pc'[v] # "idle" => len'[v] \in 1..MaxLen
    BY <2>1, <2>3, <2>5 DEF Reservations
  <2>8. ASSUME NEW v \in Writers, Active(v)'
        PROVE  /\ at'[v] + len'[v] <= reserved'
               /\ idx'[v] = at'[v] % Cap
               /\ IF pc'[v] = "copy" THEN copied'[v] < len'[v] ELSE copied'[v] = len'[v]
    <3>1. CASE v = w  BY <3>1, <2>1, <2>3, <2>6
    <3>2. CASE v # w
      <4>1. at[v] \in Nat /\ len[v] \in Nat  BY DEF TypeOK
      <4> QED  BY <3>2, <4>1, <2>1, <2>3, <2>5, <2>8 DEF Reservations
    <3> QED  BY <3>1, <3>2
  <2>9. ASSUME NEW u \in Writers, NEW v \in Writers, u # v, Active(u)', Active(v)'
        PROVE  at'[u] + len'[u] <= at'[v] \/ at'[v] + len'[v] <= at'[u]
    BY <2>9, <2>3, <2>4, <2>5, <2>6 DEF Reservations
  <2> QED  BY <2>2, <2>7, <2>8, <2>9 DEF Reservations
<1>4. ASSUME NEW w \in Writers, LoseRace(w) PROVE Reservations'
  BY <1>4 DEF LoseRace, Goto, atomics, reader, history, TypeOK, Reservations
<1>5. ASSUME NEW w \in Writers, Recheck(w) PROVE Reservations'
  BY <1>5 DEF Recheck, Goto, atomics, reader, history, TypeOK, Reservations
<1>6. ASSUME NEW w \in Writers, CopyByte(w) PROVE Reservations'
  BY <1>6 DEF CopyByte, Goto, atomics, reader, history, TypeOK, Reservations
<1>7. ASSUME NEW w \in Writers, SeeTurn(w) PROVE Reservations'
  BY <1>7 DEF SeeTurn, Goto, atomics, reader, history, TypeOK, Reservations
<1>8. ASSUME NEW w \in Writers, Publish(w) PROVE Reservations'
  BY <1>8 DEF Publish, Goto, reader, TypeOK, Reservations
<1>9. ASSUME NEW w \in Writers, AddData(w) PROVE Reservations'
  BY <1>9 DEF AddData, Goto, reader, history, TypeOK, Reservations
<1>10. CASE Peek  BY <1>10 DEF Peek, atomics, writer, history, Reservations
<1>11. ASSUME NEW k \in 1..blk, Release(k) PROVE Reservations'
  BY <1>11 DEF Release, writer, Reservations
<1>12. CASE MoveBegin  BY <1>12 DEF MoveBegin, writer, history, Reservations
<1>13. CASE UNCHANGED vars
  BY <1>13 DEF vars, atomics, writer, history, Reservations
<1> QED
  BY <1>1, <1>2, <1>3, <1>4, <1>5, <1>6, <1>7, <1>8, <1>9, <1>10, <1>11, <1>12, <1>13
     DEF Next, WriteStep

\* The reader's index and its place in the stream move together.
LEMMA ReadingStep ==
    ASSUME TypeOK, Reading, [Next]_vars
    PROVE  Reading'
<1>1. ASSUME NEW w \in Writers, NEW n \in 1..MaxLen, BeginWrite(w, n) PROVE Reading'
  BY <1>1 DEF BeginWrite, atomics, reader, Reading
<1>2. ASSUME NEW w \in Writers, WriteStep(w), ~AddData(w) PROVE Reading'
  BY <1>2 DEF WriteStep, LoadIndex, Reserve, LoseRace, Recheck, CopyByte, SeeTurn,
              Publish, atomics, reader, history, Reading
<1>3. ASSUME NEW w \in Writers, AddData(w) PROVE Reading'
  <2>1. dataOfBytes' >= dataOfBytes /\ blk \in Nat /\ dataOfBytes \in Nat
    BY <1>3 DEF AddData, TypeOK
  <2> QED  BY <1>3, <2>1 DEF AddData, reader, history, Reading
<1>4. CASE Peek  BY <1>4 DEF Peek, atomics, history, Reading, TypeOK
<1>5. ASSUME NEW k \in 1..blk, Release(k) PROVE Reading'
  <2>1. released \in Nat /\ k \in Nat /\ beginIndex = released % Cap
    BY <1>5 DEF TypeOK, Reading, Release
  <2>2. Advance(beginIndex, k) = (released + k) % Cap  BY <2>1, AdvanceMod
  <2> QED  BY <1>5, <2>2 DEF Release, Reading, Advance
<1>6. CASE MoveBegin
  BY <1>6 DEF MoveBegin, history, Reading
<1>7. CASE UNCHANGED vars
  BY <1>7 DEF vars, atomics, reader, history, Reading, Advance
<1> QED
  BY <1>1, <1>2, <1>3, <1>4, <1>5, <1>6, <1>7 DEF Next
------------------------------------------------------------------------------
(* The window of reservations: true until the ring is over-reserved *)

\* The positions of a message of n bytes.
LEMMA IntervalSize ==
    ASSUME NEW a \in Nat, NEW n \in Nat
    PROVE  IsFiniteSet(a..(a + n - 1)) /\ Cardinality(a..(a + n - 1)) = n
<1> DEFINE b == a + n - 1
<1>1. a \in Int /\ b \in Int  OBVIOUS
<1> HIDE DEF b
<1>2. IsFiniteSet(a..b) /\ Cardinality(a..b) = IF a > b THEN 0 ELSE b - a + 1
  BY <1>1, FS_Interval
<1> QED  BY <1>2 DEF b

\* What is published and not counted is a finite set of positions, and the
\* message of a thread about to count is part of it.
LEMMA UncountedFinite ==
    ASSUME TypeOK, Reservations, Window, Turns
    PROVE  /\ IsFiniteSet(Uncounted)
           /\ Uncounted \subseteq 0..(published - 1)
           /\ \A w \in Writers : pc[w] = "add" => len[w] <= Cardinality(Uncounted)
           /\ released + dataOfBytes <= published
<1>1. Uncounted \subseteq 0..(published - 1)
  BY DEF Uncounted, Bytes, Turns, TypeOK
<1>2. published \in Nat /\ released \in Nat /\ dataOfBytes \in Nat  BY DEF TypeOK
<1>3. IsFiniteSet(0..(published - 1))
  BY <1>2, FS_Interval
<1>4. IsFiniteSet(Uncounted)
  BY <1>1, <1>3, FS_Subset
<1>5. ASSUME NEW w \in Writers, pc[w] = "add"
      PROVE  len[w] <= Cardinality(Uncounted)
  <2>1. Bytes(w) \subseteq Uncounted  BY <1>5 DEF Uncounted
  <2>2. Cardinality(Bytes(w)) <= Cardinality(Uncounted)  BY <2>1, <1>4, FS_Subset
  <2>3. at[w] \in Nat /\ len[w] \in Nat  BY DEF TypeOK
  <2>4. Cardinality(Bytes(w)) = len[w]  BY <2>3, IntervalSize DEF Bytes
  <2> QED  BY <2>2, <2>4
<1>6. Cardinality(Uncounted) \in Nat  BY <1>4, FS_CardinalityType
<1> QED  BY <1>1, <1>2, <1>4, <1>5, <1>6 DEF Window

\* Uncounted changes only when a thread publishes or counts.
LEMMA UncountedSame ==
    ASSUME \A v \in Writers : /\ pc'[v] = "add" <=> pc[v] = "add"
                              /\ pc[v] = "add" => at'[v] = at[v] /\ len'[v] = len[v]
    PROVE  Uncounted' = Uncounted
BY DEF Uncounted, Bytes

\* Line 68 publishes bytes that are not counted yet ...
LEMMA UncountedPublish ==
    ASSUME TypeOK, Reservations, Window, Turns, NEW w \in Writers, Publish(w)
    PROVE  Cardinality(Uncounted') = Cardinality(Uncounted) + len[w]
<1>1. /\ pc[w] = "publish" /\ pc' = [pc EXCEPT ![w] = "add"]
      /\ at' = at /\ len' = len
  BY DEF Publish, Goto, history
<1>2. Uncounted' = Uncounted \cup Bytes(w)
  <2>1. \A v \in Writers : pc'[v] = "add" <=> pc[v] = "add" \/ v = w
    BY <1>1 DEF TypeOK
  <2> QED  BY <1>1, <2>1 DEF Uncounted, Bytes
<1>3. at[w] \in Nat /\ len[w] \in Nat /\ at[w] = published
  BY <1>1 DEF TypeOK, Turns
<1>4. /\ IsFiniteSet(Bytes(w)) /\ Cardinality(Bytes(w)) = len[w]
  BY <1>3, IntervalSize DEF Bytes
<1>5. IsFiniteSet(Uncounted) /\ Uncounted \subseteq 0..(published - 1)
  BY UncountedFinite
<1>6. Uncounted \cap Bytes(w) = {}
  BY <1>3, <1>5 DEF Bytes
<1>7. Cardinality(Uncounted \cap Bytes(w)) = 0
  BY <1>6, FS_EmptySet
<1>8. Cardinality(Uncounted \cup Bytes(w))
        = Cardinality(Uncounted) + Cardinality(Bytes(w)) - Cardinality(Uncounted \cap Bytes(w))
  BY <1>4, <1>5, FS_Union
<1>9. Cardinality(Uncounted) \in Nat  BY <1>5, FS_CardinalityType
<1> QED  BY <1>2, <1>3, <1>4, <1>7, <1>8, <1>9

\* ... and line 69 counts them, whichever writers are in between as well.
LEMMA UncountedAdd ==
    ASSUME TypeOK, Reservations, Window, Turns, NEW w \in Writers, AddData(w)
    PROVE  Cardinality(Uncounted') = Cardinality(Uncounted) - len[w]
<1>1. /\ pc[w] = "add" /\ pc' = [pc EXCEPT ![w] = "idle"]
      /\ at' = at /\ len' = len
  BY DEF AddData, Goto, history
<1>2. \A v \in Writers : pc'[v] = "add" <=> pc[v] = "add" /\ v # w
  BY <1>1 DEF TypeOK
<1>3. Bytes(w) \subseteq Uncounted  BY <1>1 DEF Uncounted
<1>4. ASSUME NEW v \in Writers, v # w, pc[v] = "add"
      PROVE  Bytes(v) \cap Bytes(w) = {}
  <2>1. at[v] + len[v] <= at[w] \/ at[w] + len[w] <= at[v]
    BY <1>1, <1>4 DEF Reservations, Active
  <2> QED  BY <2>1 DEF Bytes, TypeOK
<1>5. Uncounted' = Uncounted \ Bytes(w)
  <2>1. Uncounted' = UNION {Bytes(v) : v \in {u \in Writers : pc[u] = "add" /\ u # w}}
    BY <1>1, <1>2 DEF Uncounted, Bytes
  <2>2. Uncounted = UNION {Bytes(v) : v \in {u \in Writers : pc[u] = "add"}}
    BY DEF Uncounted
  <2> HIDE DEF Bytes, Uncounted
  <2> QED  BY <1>1, <1>4, <2>1, <2>2
<1>6. at[w] \in Nat /\ len[w] \in Nat  BY DEF TypeOK
<1>7. Cardinality(Bytes(w)) = len[w]  BY <1>6, IntervalSize DEF Bytes
<1>8. IsFiniteSet(Uncounted)  BY UncountedFinite
<1>9. Uncounted \cap Bytes(w) = Bytes(w)  BY <1>3
<1>10. Cardinality(Uncounted \ Bytes(w)) = Cardinality(Uncounted) - Cardinality(Uncounted \cap Bytes(w))
  BY <1>8, FS_Difference
<1> QED  BY <1>5, <1>7, <1>9, <1>10

\* Released, published and reserved bytes keep their order and the capacity.
LEMMA WindowStep ==
    ASSUME TypeOK, Reservations, Window, Turns, [Next]_vars, ~overrun'
    PROVE  Window'
<1>1. /\ {reserved, published, released, dataOfBytes, blk} \subseteq Nat
      /\ \A w \in Writers : at[w] \in Nat /\ len[w] \in Nat
  BY DEF TypeOK
<1>2. Cardinality(Uncounted) \in Nat  BY UncountedFinite, FS_CardinalityType
<1>3. ASSUME NEW w \in Writers, NEW n \in 1..MaxLen, BeginWrite(w, n) PROVE Window'
  <2>1. Uncounted' = Uncounted
    BY <1>3, UncountedSame DEF BeginWrite, Goto, TypeOK
  <2> QED  BY <1>3, <2>1 DEF BeginWrite, atomics, Window
<1>4. ASSUME NEW w \in Writers, LoadIndex(w) \/ LoseRace(w) \/ Recheck(w) \/ CopyByte(w) \/ SeeTurn(w)
      PROVE Window'
  <2>1. /\ pc[w] # "add" /\ pc'[w] # "add" /\ at' = at /\ len' = len
        /\ \A v \in Writers : v # w => pc'[v] = pc[v]
    BY <1>4 DEF LoadIndex, LoseRace, Recheck, CopyByte, SeeTurn, Goto, history, TypeOK
  <2>2. Uncounted' = Uncounted  BY <2>1, UncountedSame
  <2> QED
    BY <1>4, <2>2 DEF LoadIndex, LoseRace, Recheck, CopyByte, SeeTurn, atomics, history, Window
<1>5. ASSUME NEW w \in Writers, Reserve(w) PROVE Window'
  <2>1. Uncounted' = Uncounted
    BY <1>5, UncountedSame DEF Reserve, Goto, TypeOK
  <2>2. ~ (reserved + len[w] - released > Cap)  BY <1>5 DEF Reserve
  <2>3. /\ reserved' = reserved + len[w] /\ released' = released
        /\ published' = published /\ endIndex' = endIndex /\ dataOfBytes' = dataOfBytes
    BY <1>5 DEF Reserve
  <2>4. len[w] \in Nat  BY <1>1
  <2> QED  BY <1>1, <2>1, <2>2, <2>3, <2>4 DEF Window
<1>6. ASSUME NEW w \in Writers, Publish(w) PROVE Window'
  <2>1. Cardinality(Uncounted') = Cardinality(Uncounted) + len[w]
    BY <1>6, UncountedPublish
  <2>2. pc[w] = "publish" /\ at[w] = published /\ idx[w] = at[w] % Cap /\ at[w] + len[w] <= reserved
    BY <1>6 DEF Publish, Goto, Turns, Reservations, Active
  <2>3. endIndex' = (published + len[w]) % Cap
    BY <1>1, <1>6, <2>2, AdvanceMod DEF Publish
  <2> QED  BY <1>1, <1>2, <1>6, <2>1, <2>2, <2>3 DEF Publish, Window
<1>7. ASSUME NEW w \in Writers, AddData(w) PROVE Window'
  <2>1. Cardinality(Uncounted') = Cardinality(Uncounted) - len[w]
    BY <1>7, UncountedAdd
  <2>2. /\ dataOfBytes' = dataOfBytes + len[w] /\ published' = published
        /\ released' = released /\ reserved' = reserved /\ endIndex' = endIndex
    BY <1>7 DEF AddData, history
  <2>3. len[w] \in Nat  BY <1>1
  <2>4. Cardinality(Uncounted') = published' - released' - dataOfBytes'
    BY <1>1, <1>2, <2>1, <2>2, <2>3 DEF Window
  <2> QED  BY <2>2, <2>4 DEF Window
<1>8. CASE Peek
  <2>1. Uncounted' = Uncounted  BY <1>8, UncountedSame DEF Peek, writer, history
  <2> QED  BY <1>8, <2>1 DEF Peek, atomics, history, Window
<1>9. ASSUME NEW k \in 1..blk, Release(k) PROVE Window'
  <2>1. Uncounted' = Uncounted  BY <1>9, UncountedSame DEF Release, writer
  <2>2. k \in Nat  BY <1>1
  <2> QED  BY <1>1, <1>9, <2>1, <2>2 DEF Release, Window
<1>10. CASE MoveBegin
  <2>1. Uncounted' = Uncounted  BY <1>10, UncountedSame DEF MoveBegin, writer, history
  <2> QED  BY <1>10, <2>1 DEF MoveBegin, history, Window
<1>11. CASE UNCHANGED vars
  <2>1. Uncounted' = Uncounted  BY <1>11, UncountedSame DEF vars, writer, history
  <2> QED  BY <1>11, <2>1 DEF vars, atomics, history, Window
<1> QED
  BY <1>3, <1>4, <1>5, <1>6, <1>7, <1>8, <1>9, <1>10, <1>11 DEF Next, WriteStep

\* The intervals of the unpublished writers keep tiling what is reserved.
LEMMA TurnsStep ==
    ASSUME TypeOK, Reservations, Window, Turns, [Next]_vars
    PROVE  Turns'
<1> USE DEF Pending, Bytes
<1>1. /\ {reserved, published, released, dataOfBytes, blk} \subseteq Nat
      /\ \A w \in Writers : at[w] \in Nat /\ len[w] \in Nat
  BY DEF TypeOK
\* A step that neither reserves nor publishes, and after which the same
\* threads are waiting and counting, leaves the turns as they are.
<1>2. ASSUME published' = published, reserved' = reserved,
             \A v \in Writers : /\ Pending(v)' <=> Pending(v)
                                /\ pc'[v] = "publish" => pc[v] = "publish"
                                /\ pc'[v] = "add" => pc[v] = "add"
                                /\ pc'[v] # "idle" /\ pc[v] # "idle" => len'[v] = len[v]
                                /\ at'[v] = at[v]
      PROVE  Turns'
  BY <1>2 DEF Turns
<1>3. ASSUME NEW w \in Writers, NEW n \in 1..MaxLen, BeginWrite(w, n) PROVE Turns'
  BY <1>2, <1>3 DEF BeginWrite, Goto, TypeOK
<1>4. ASSUME NEW w \in Writers, LoadIndex(w) \/ LoseRace(w) \/ Recheck(w) \/ CopyByte(w) \/ AddData(w)
      PROVE  Turns'
  BY <1>2, <1>4 DEF LoadIndex, LoseRace, Recheck, CopyByte, AddData, Goto, history, TypeOK
<1>5. ASSUME NEW w \in Writers, Reserve(w) PROVE Turns'
  <2>1. /\ pc[w] = "cas" /\ pc'[w] = "copy" /\ at'[w] = reserved
        /\ \A v \in Writers : v # w => pc'[v] = pc[v] /\ at'[v] = at[v]
        /\ len' = len /\ published' = published /\ reserved' = reserved + len[w]
    BY <1>5 DEF Reserve, Goto, TypeOK
  <2>2. published <= reserved  BY DEF Window
  <2>3. ASSUME NEW p \in published'..(reserved' - 1)
        PROVE  \E v \in Writers : Pending(v)' /\ p \in Bytes(v)'
    <3>1. CASE p >= reserved
      BY <1>1, <2>1, <3>1
    <3>2. CASE p < reserved
      <4>1. p \in published..(reserved - 1)  BY <1>1, <2>1, <3>2
      <4>2. PICK v \in Writers : Pending(v) /\ p \in Bytes(v)  BY <4>1 DEF Turns
      <4>3. v # w  BY <2>1, <4>2
      <4> QED  BY <2>1, <4>2, <4>3
    <3> QED  BY <1>1, <2>1, <3>1, <3>2
  <2> QED  BY <1>1, <2>1, <2>2, <2>3 DEF Turns
<1>6. ASSUME NEW w \in Writers, SeeTurn(w) PROVE Turns'
  <2>1. /\ pc[w] = "wait" /\ pc'[w] = "publish" /\ endIndex = idx[w]
        /\ \A v \in Writers : v # w => pc'[v] = pc[v]
        /\ len' = len /\ at' = at /\ published' = published /\ reserved' = reserved
    BY <1>6 DEF SeeTurn, Goto, history, TypeOK
  <2>2. idx[w] = at[w] % Cap /\ at[w] + len[w] <= reserved /\ len[w] >= 1
    BY <2>1 DEF Reservations, Active
  <2>3. published <= at[w]  BY <2>1 DEF Turns
  <2>4. released <= published  BY <1>1, UncountedFinite
  <2>5. at[w] < published + Cap  BY <1>1, <2>2, <2>4 DEF Window
  <2>6. at[w] = published
    BY <1>1, <2>1, <2>2, <2>3, <2>5, SlotsApart DEF Window
  <2> QED  BY <2>1, <2>6 DEF Turns
<1>7. ASSUME NEW w \in Writers, Publish(w) PROVE Turns'
  <2>1. /\ pc[w] = "publish" /\ pc'[w] = "add"
        /\ \A v \in Writers : v # w => pc'[v] = pc[v]
        /\ len' = len /\ at' = at /\ published' = published + len[w] /\ reserved' = reserved
    BY <1>7 DEF Publish, Goto, TypeOK
  <2>2. at[w] = published /\ len[w] >= 1  BY <2>1 DEF Turns, Reservations
  <2>3. ASSUME NEW v \in Writers, v # w, Pending(v)
        PROVE  at[v] >= published + len[w]
    <3>1. published <= at[v] /\ len[v] >= 1  BY <2>3 DEF Turns, Reservations
    <3>2. at[w] + len[w] <= at[v] \/ at[v] + len[v] <= at[w]
      BY <2>1, <2>3 DEF Reservations, Active
    <3> QED  BY <1>1, <2>2, <3>1, <3>2
  <2>4. \A v \in Writers : Pending(v)' => published' <= at'[v]
    BY <2>1, <2>3
  <2>5. \A v \in Writers : pc'[v] = "publish" => at'[v] = published'
    <3>1. ASSUME NEW v \in Writers, v # w, pc[v] = "publish" PROVE FALSE
      <4>1. at[v] = published  BY <3>1 DEF Turns
      <4>2. at[v] >= published + len[w]  BY <2>3, <3>1
      <4> QED  BY <1>1, <2>2, <4>1, <4>2
    <3> QED  BY <2>1, <3>1
  <2>6. \A v \in Writers : pc'[v] = "add" => at'[v] + len'[v] <= published'
    <3>1. ASSUME NEW v \in Writers, v # w, pc[v] = "add" PROVE at[v] + len[v] <= published + len[w]
      BY <1>1, <3>1 DEF Turns
    <3> QED  BY <1>1, <2>1, <2>2, <3>1
  <2>7. ASSUME NEW p \in published'..(reserved' - 1)
        PROVE  \E v \in Writers : Pending(v)' /\ p \in Bytes(v)'
    <3>1. p \in published..(reserved - 1) /\ p >= published + len[w]
      BY <1>1, <2>1
    <3>2. PICK v \in Writers : Pending(v) /\ p \in Bytes(v)  BY <3>1 DEF Turns
    <3>3. v # w  BY <1>1, <2>2, <3>1, <3>2
    <3> QED  BY <2>1, <3>2, <3>3
  <2> QED  BY <2>4, <2>5, <2>6, <2>7 DEF Turns
<1>8. CASE Peek  BY <1>2, <1>8 DEF Peek, writer, history
<1>9. ASSUME NEW k \in 1..blk, Release(k) PROVE Turns'
  BY <1>2, <1>9 DEF Release, writer
<1>10. CASE MoveBegin  BY <1>2, <1>10 DEF MoveBegin, writer, history
<1>11. CASE UNCHANGED vars  BY <1>2, <1>11 DEF vars, writer, history
<1> QED
  BY <1>3, <1>4, <1>5, <1>6, <1>7, <1>8, <1>9, <1>10, <1>11 DEF Next, WriteStep

\* No copy hits a slot of the window that is somebody else's.
LEMMA ContentsStep ==
    ASSUME TypeOK, Reservations, Window, Turns, Contents, [Next]_vars, ~overrun'
    PROVE  Contents'
<1> USE DEF Pending
<1>1. /\ {reserved, published, released, dataOfBytes, blk} \subseteq Nat
      /\ \A w \in Writers : at[w] \in Nat /\ len[w] \in Nat /\ copied[w] \in Nat
  BY DEF TypeOK
\* A step that copies nothing and publishes nothing keeps the contents.
<1>2. ASSUME published' = published, released' \in Nat, released' >= released, buf' = buf,
             \A v \in Writers : /\ Pending(v)' => Pending(v)
                                /\ Pending(v) => at'[v] = at[v] /\ copied'[v] = copied[v]
      PROVE  Contents'
  <2>1. \A p \in released'..(published' - 1) : p \in released..(published - 1)
    BY <1>1, <1>2
  <2> QED  BY <1>2, <2>1 DEF Contents
<1>3. ASSUME NEW w \in Writers, NEW n \in 1..MaxLen, BeginWrite(w, n) PROVE Contents'
  BY <1>1, <1>2, <1>3 DEF BeginWrite, Goto, TypeOK
<1>4. ASSUME NEW w \in Writers, LoadIndex(w) \/ LoseRace(w) \/ Recheck(w) \/ SeeTurn(w) \/ AddData(w)
      PROVE  Contents'
  BY <1>1, <1>2, <1>4
     DEF LoadIndex, LoseRace, Recheck, SeeTurn, AddData, Goto, history, TypeOK
<1>5. ASSUME NEW w \in Writers, Reserve(w) PROVE Contents'
  <2>1. /\ pc'[w] = "copy" /\ copied'[w] = 0 /\ pc[w] = "cas"
        /\ \A v \in Writers : v # w =>
             pc'[v] = pc[v] /\ at'[v] = at[v] /\ copied'[v] = copied[v]
        /\ published' = published /\ released' = released /\ buf' = buf
    BY <1>5 DEF Reserve, Goto, TypeOK
  <2>2. ASSUME NEW v \in Writers, Pending(v)', NEW i \in 0..(copied'[v] - 1)
        PROVE  buf'[(at'[v] + i) % Cap] = at'[v] + i
    <3>1. v # w  BY <2>1, <2>2
    <3> QED  BY <2>1, <2>2, <3>1 DEF Contents
  <2> QED  BY <2>1, <2>2 DEF Contents
<1>6. ASSUME NEW w \in Writers, CopyByte(w) PROVE Contents'
  <2> DEFINE q == at[w] + copied[w]
  <2>1. /\ pc[w] = "copy" /\ pc'[w] \in {"copy", "wait"}
        /\ copied' = [copied EXCEPT ![w] = @ + 1]
        /\ buf' = [buf EXCEPT ![Advance(idx[w], copied[w])] = q]
        /\ \A v \in Writers : v # w => pc'[v] = pc[v] /\ copied'[v] = copied[v]
        /\ copied'[w] = copied[w] + 1
        /\ at' = at /\ published' = published /\ released' = released
    BY <1>6 DEF CopyByte, Goto, history, TypeOK
  <2>2. copied[w] < len[w] /\ at[w] + len[w] <= reserved /\ idx[w] = at[w] % Cap
    BY <2>1 DEF Reservations, Active
  <2>3. q \in Nat /\ published <= q /\ q < reserved
    BY <1>1, <2>1, <2>2 DEF Turns
  <2>4. released <= published  BY <1>1, UncountedFinite
  <2>5. reserved <= released + Cap  BY DEF Window
  <2>6. buf' = [buf EXCEPT ![q % Cap] = q]
    <3>1. at[w] \in Nat /\ copied[w] \in Nat  BY <1>1
    <3>2. Advance(idx[w], copied[w]) = q % Cap
      BY <2>2, <3>1, AdvanceMod
    <3> QED  BY <2>1, <3>2
  <2>7. q % Cap \in Slots  BY <2>3 DEF Slots
  <2>8. buf'[q % Cap] = q  BY <2>6, <2>7 DEF TypeOK
  <2> HIDE DEF q
  <2>9. \A p \in released..(reserved - 1) : p # q => buf'[p % Cap] = buf[p % Cap]
    <3> SUFFICES ASSUME NEW p \in released..(reserved - 1), p # q
                 PROVE  buf'[p % Cap] = buf[p % Cap]
      OBVIOUS
    <3>1. /\ p \in released..(released + Cap - 1)
          /\ q \in released..(released + Cap - 1)
      BY <1>1, <2>3, <2>4, <2>5
    <3>2. p % Cap # q % Cap  BY <1>1, <3>1, WindowSlots
    <3>3. p \in Nat  BY <1>1
    <3>4. p % Cap \in Slots  BY <3>3 DEF Slots
    <3> QED  BY <2>6, <3>2, <3>4 DEF TypeOK
  <2>10. \A p \in released'..(published' - 1) : buf'[p % Cap] = p
    <3> SUFFICES ASSUME NEW p \in released..(published - 1) PROVE buf'[p % Cap] = p
      BY <2>1
    <3>1. p \in released..(reserved - 1) /\ p # q
      BY <1>1, <2>3
    <3> QED  BY <2>9, <3>1 DEF Contents
  <2>11. ASSUME NEW v \in Writers, Pending(v)', NEW i \in 0..(copied'[v] - 1)
         PROVE  buf'[(at'[v] + i) % Cap] = at'[v] + i
    <3>1. Pending(v) /\ i \in Nat  BY <1>1, <2>1, <2>11
    <3>2. at[v] + i = q => buf'[(at'[v] + i) % Cap] = at'[v] + i
      BY <2>1, <2>8
    <3>3. CASE at[v] + i # q /\ i \in 0..(copied[v] - 1)
      <4>1. copied[v] <= len[v] /\ at[v] + len[v] <= reserved /\ published <= at[v]
        BY <1>1, <3>1 DEF Reservations, Active, Turns
      <4>2. at[v] + i \in released..(reserved - 1)
        BY <1>1, <2>4, <3>3, <4>1
      <4>3. buf[(at[v] + i) % Cap] = at[v] + i  BY <3>1, <3>3 DEF Contents
      <4> QED  BY <2>1, <2>9, <3>3, <4>2, <4>3
    <3>4. CASE i \notin 0..(copied[v] - 1)
      <4>1. v = w  BY <2>1, <2>11, <3>4
      <4>2. i = copied[w]  BY <1>1, <2>1, <2>11, <3>4, <4>1
      <4> QED  BY <3>2, <4>1, <4>2 DEF q
    <3> QED  BY <3>2, <3>3, <3>4
  <2> QED  BY <2>10, <2>11 DEF Contents
<1>7. ASSUME NEW w \in Writers, Publish(w) PROVE Contents'
  <2>1. /\ pc[w] = "publish" /\ pc'[w] = "add"
        /\ \A v \in Writers : v # w => pc'[v] = pc[v]
        /\ at' = at /\ copied' = copied /\ buf' = buf /\ released' = released
        /\ published' = published + len[w]
    BY <1>7 DEF Publish, Goto, TypeOK
  <2>2. at[w] = published /\ copied[w] = len[w]
    BY <2>1 DEF Turns, Reservations, Active
  <2>3. ASSUME NEW p \in released'..(published' - 1) PROVE buf'[p % Cap] = p
    <3>1. CASE p < published
      <4>1. p \in released..(published - 1)  BY <1>1, <2>1, <3>1
      <4> QED  BY <2>1, <4>1 DEF Contents
    <3>2. CASE p >= published
      <4>1. p - published \in 0..(copied[w] - 1)  BY <1>1, <2>1, <2>2, <3>2
      <4>2. buf[(at[w] + (p - published)) % Cap] = at[w] + (p - published)
        BY <2>1, <4>1 DEF Contents
      <4>3. at[w] + (p - published) = p  BY <1>1, <2>2, <2>1
      <4> QED  BY <2>1, <4>2, <4>3
    <3> QED  BY <1>1, <2>1, <3>1, <3>2
  <2> QED  BY <2>1, <2>3 DEF Contents
<1>8. CASE Peek  BY <1>1, <1>2, <1>8 DEF Peek, writer, history
<1>9. ASSUME NEW k \in 1..blk, Release(k) PROVE Contents'
  <2>1. released' = released + k /\ k \in Nat  BY <1>1, <1>9 DEF Release
  <2> QED  BY <1>1, <1>2, <1>9, <2>1 DEF Release, writer
<1>10. CASE MoveBegin  BY <1>1, <1>2, <1>10 DEF MoveBegin, writer, history
<1>11. CASE UNCHANGED vars  BY <1>1, <1>2, <1>11 DEF vars, writer, history
<1> QED
  BY <1>3, <1>4, <1>5, <1>6, <1>7, <1>8, <1>9, <1>10, <1>11 DEF Next, WriteStep
------------------------------------------------------------------------------
(* The invariant, and what follows from it *)

\* Over-reservation is never taken back.
LEMMA OverrunStays == TypeOK /\ [Next]_vars /\ ~overrun' => ~overrun
<1> SUFFICES ASSUME TypeOK, [Next]_vars, overrun PROVE overrun'
  BY DEF TypeOK
<1>1. ASSUME NEW w \in Writers, Reserve(w) PROVE overrun'
  BY <1>1 DEF Reserve
<1>2. ASSUME ~ \E w \in Writers : Reserve(w) PROVE overrun'
  BY <1>2 DEF Next, WriteStep, BeginWrite, LoadIndex, LoseRace, Recheck, CopyByte,
              SeeTurn, Publish, AddData, Peek, Release, MoveBegin, vars, history
<1> QED  BY <1>1, <1>2

\* The parts of the invariant hold for an empty ring.
LEMMA RingInvInit == Init => RingInv
<1> SUFFICES ASSUME Init PROVE RingInv
  OBVIOUS
<1>1. TypeOK  BY TypeInit
<1>2. 0 % Cap = 0  OBVIOUS
<1>3. Reservations  BY <1>2 DEF Init, Reservations, Active
<1>4. Reading  BY <1>2 DEF Init, Reading
<1>5. Uncounted = {}  BY DEF Init, Uncounted
<1>6. Cardinality(Uncounted) = 0  BY <1>5, FS_EmptySet
<1>7. Window  BY <1>2, <1>6 DEF Init, Window
<1>8. Turns  BY DEF Init, Turns, Pending
<1>9. Contents  BY DEF Init, Contents, Pending
<1> QED  BY <1>1, <1>3, <1>4, <1>7, <1>8, <1>9 DEF RingInv

\* No step of a writer or of the reader breaks the invariant.
LEMMA RingInvStep == RingInv /\ [Next]_vars => RingInv'
<1> SUFFICES ASSUME RingInv, [Next]_vars PROVE RingInv'
  OBVIOUS
<1>1. TypeOK'  BY TypeStep DEF RingInv
<1>2. Reservations'  BY ReservationsStep DEF RingInv
<1>3. Reading'  BY ReadingStep DEF RingInv
<1>4. ASSUME ~overrun' PROVE Window' /\ Turns' /\ Contents'
  <2>1. ~overrun  BY <1>4, OverrunStays DEF RingInv
  <2> QED  BY <1>4, <2>1, WindowStep, TurnsStep, ContentsStep DEF RingInv
<1> QED  BY <1>1, <1>2, <1>3, <1>4 DEF RingInv

\* The ring, run by any number of writers, stays in its invariant.
THEOREM RingInvariantHolds == Spec => []RingInv
<1> QED  BY RingInvInit, RingInvStep, PTL DEF Spec

\* The block that the reader holds is complete, in order and untouched, for any
\* number of writers, up to the first over-reservation.
THEOREM RingBlockIntact == Spec => []BlockIntact
<1>1. RingInv => BlockIntact
  <2> SUFFICES ASSUME RingInv, ~overrun, rpc = "hold", NEW k \in 0..(blk - 1)
               PROVE  buf[Advance(beginIndex, k)] = released + k
    BY DEF BlockIntact
  <2>1. /\ {blk, dataOfBytes, released, published} \subseteq Nat
        /\ Reading /\ Contents /\ k \in Nat
    BY DEF RingInv, TypeOK
  <2>2. released + dataOfBytes <= published
    BY UncountedFinite DEF RingInv
  <2>3. beginIndex = released % Cap /\ blk <= dataOfBytes
    BY <2>1 DEF Reading
  <2>4. Advance(beginIndex, k) = (released + k) % Cap
    BY <2>1, <2>3, AdvanceMod
  <2>5. released + k \in released..(published - 1)
    BY <2>1, <2>2, <2>3
  <2> QED  BY <2>1, <2>4, <2>5 DEF Contents
<1> QED  BY <1>1, RingInvariantHolds, PTL

\* No two threads ever touch one slot at the same time, for any number of
\* writers, up to the first over-reservation.
THEOREM RingNoDataRace == Spec => []NoDataRace
<1>1. RingInv => NoDataRace
  <2> SUFFICES ASSUME RingInv, ~overrun, NEW w \in Writers, NEW v \in Writers, pc[w] = "copy"
               PROVE  LET slot == Advance(idx[w], copied[w])
                      IN  /\ \A k \in 0..(dataOfBytes - 1) : slot # Advance(released, k)
                          /\ w # v /\ pc[v] = "copy" => slot # Advance(idx[v], copied[v])
    BY DEF NoDataRace
  <2>1. /\ {dataOfBytes, released, published, reserved} \subseteq Nat
        /\ \A u \in Writers : at[u] \in Nat /\ copied[u] \in Nat /\ len[u] \in Nat
        /\ Reservations /\ Window /\ Turns
    BY DEF RingInv, TypeOK
  <2>2. released + dataOfBytes <= published /\ reserved <= released + Cap
    BY UncountedFinite DEF RingInv, Window
  <2>3. ASSUME NEW u \in Writers, pc[u] = "copy"
        PROVE  /\ Advance(idx[u], copied[u]) = (at[u] + copied[u]) % Cap
               /\ at[u] + copied[u] \in published..(reserved - 1)
               /\ copied[u] < len[u]
    <3>1. /\ idx[u] = at[u] % Cap /\ at[u] + len[u] <= reserved /\ copied[u] < len[u]
          /\ published <= at[u]
      BY <2>1, <2>3 DEF Reservations, Active, Turns, Pending
    <3>2. at[u] \in Nat /\ copied[u] \in Nat  BY <2>1
    <3>3. Advance(idx[u], copied[u]) = (at[u] + copied[u]) % Cap
      BY <3>1, <3>2, AdvanceMod
    <3> QED  BY <2>1, <3>1, <3>2, <3>3
  <2> DEFINE q == at[w] + copied[w]
  <2>4. Advance(idx[w], copied[w]) = q % Cap /\ q \in published..(reserved - 1)
    BY <2>3
  <2>5. ASSUME NEW k \in 0..(dataOfBytes - 1) PROVE q % Cap # Advance(released, k)
    <3>1. Advance(released, k) = (released + k) % Cap  BY DEF Advance
    <3>2. /\ q \in released..(released + Cap - 1)
          /\ released + k \in released..(released + Cap - 1) /\ q # released + k
      BY <2>1, <2>2, <2>4
    <3> QED  BY <2>1, <3>1, <3>2, WindowSlots
  <2>6. ASSUME w # v, pc[v] = "copy" PROVE q % Cap # Advance(idx[v], copied[v])
    <3>1. /\ Advance(idx[v], copied[v]) = (at[v] + copied[v]) % Cap
          /\ at[v] + copied[v] \in published..(reserved - 1)
          /\ copied[v] < len[v] /\ copied[w] < len[w]
      BY <2>3, <2>6
    <3>2. at[w] + len[w] <= at[v] \/ at[v] + len[v] <= at[w]
      BY <2>1, <2>6 DEF Reservations, Active
    <3>3. at[v] + copied[v] # q  BY <2>1, <3>1, <3>2
    <3>4. /\ q \in released..(released + Cap - 1)
          /\ at[v] + copied[v] \in released..(released + Cap - 1)
      BY <2>1, <2>2, <2>4, <3>1
    <3> QED  BY <2>1, <3>1, <3>3, <3>4, WindowSlots
  <2> QED  BY <2>4, <2>5, <2>6
<1> QED  BY <1>1, RingInvariantHolds, PTL

\* Whenever some thread waits for its turn, it is the turn of exactly one: the
\* spin loops of Write do not wait on each other.
THEOREM RingTurnExists == Spec => []TurnExists
<1>1. RingInv => TurnExists
  <2> SUFFICES ASSUME RingInv, ~overrun, NEW u \in Writers, Pending(u)
               PROVE  \E w \in Writers : Pending(w) /\ idx[w] = endIndex /\
                          \A v \in Writers \ {w} : Pending(v) => idx[v] # endIndex
    BY DEF TurnExists
  <2>1. /\ {released, published, reserved, dataOfBytes} \subseteq Nat
        /\ \A w \in Writers : at[w] \in Nat /\ len[w] \in Nat
        /\ Reservations /\ Window /\ Turns
    BY DEF RingInv, TypeOK
  <2>2. ASSUME NEW w \in Writers, Pending(w)
        PROVE  /\ published <= at[w] /\ at[w] + len[w] <= reserved /\ len[w] >= 1
               /\ idx[w] = at[w] % Cap
    BY <2>1, <2>2 DEF Turns, Reservations, Active, Pending
  <2>3. published \in published..(reserved - 1)
    BY <2>1, <2>2
  <2>4. PICK w \in Writers : Pending(w) /\ published \in Bytes(w)
    BY <2>1, <2>3 DEF Turns
  <2>5. at[w] = published  BY <2>1, <2>2, <2>4 DEF Bytes
  <2>6. idx[w] = endIndex  BY <2>1, <2>2, <2>4, <2>5 DEF Window
  <2>7. ASSUME NEW v \in Writers, v # w, Pending(v), idx[v] = endIndex PROVE FALSE
    <3>1. at[v] % Cap = published % Cap  BY <2>1, <2>2, <2>7 DEF Window
    <3>2. reserved <= released + Cap /\ released <= published
      BY <2>1, UncountedFinite DEF RingInv, Window
    <3>3. published <= at[v] /\ at[v] < published + Cap
      BY <2>1, <2>2, <2>7, <3>2
    <3>4. at[v] = published  BY <2>1, <3>1, <3>3, SlotsApart
    <3>5. at[w] + len[w] <= at[v] \/ at[v] + len[v] <= at[w]
      BY <2>1, <2>4, <2>7 DEF Reservations, Active, Pending
    <3> QED  BY <2>1, <2>2, <2>4, <2>5, <2>7, <3>4, <3>5
  <2> QED  BY <2>4, <2>6, <2>7
<1> QED  BY <1>1, RingInvariantHolds, PTL
------------------------------------------------------------------------------
(* The ring implements the byte queue *)

\* A step of the ring is a step of the queue, or leaves the queue alone.
LEMMA QueueStep ==
    ASSUME RingInv, [Next]_vars, ~overrun'
    PROVE  [Queue!QueueNext]_<<released + dataOfBytes, released>>
<1>1. ~overrun  BY OverrunStays DEF RingInv
<1>2. /\ {released, published, reserved, dataOfBytes, blk} \subseteq Nat
      /\ \A w \in Writers : len[w] \in Nat
      /\ Reservations /\ Window
  BY <1>1 DEF RingInv, TypeOK
<1>3. /\ released + dataOfBytes <= published /\ reserved <= released + Cap
      /\ published <= reserved
  BY <1>1, UncountedFinite DEF RingInv, Window
<1>4. ASSUME NEW w \in Writers, AddData(w)
      PROVE  \E n \in 1..Cap : Queue!Put(n)
  <2>1. /\ pc[w] = "add" /\ dataOfBytes' = dataOfBytes + len[w] /\ released' = released
    BY <1>4 DEF AddData, Goto, history
  <2>2. len[w] \in 1..MaxLen  BY <1>2, <2>1 DEF Reservations
  <2>3. len[w] <= Cardinality(Uncounted)
    BY <1>1, <2>1, UncountedFinite DEF RingInv
  <2>4. Cardinality(Uncounted) = published - released - dataOfBytes
    BY <1>2 DEF Window
  <2>5. dataOfBytes + len[w] <= Cap
    BY <1>2, <1>3, <2>2, <2>3, <2>4
  <2>6. len[w] \in 1..Cap  BY <2>2
  <2>7. (released + dataOfBytes) - released = dataOfBytes  BY <1>2
  <2>8. released' + dataOfBytes' = (released + dataOfBytes) + len[w]
    BY <1>2, <2>1, <2>6
  <2>9. Queue!Put(len[w])
    BY <2>1, <2>5, <2>7, <2>8 DEF Queue!Put, Queue!HasRoom, Queue!Held
  <2> QED  BY <2>6, <2>9
<1>5. ASSUME NEW k \in 1..blk, Release(k)
      PROVE  \E n \in 1..Cap : Queue!Take(n)
  <2>1. /\ k <= dataOfBytes /\ dataOfBytes' = dataOfBytes - k /\ released' = released + k
        /\ k \in Nat /\ k >= 1
    BY <1>2, <1>5 DEF Release
  <2>2. k \in 1..Cap  BY <1>2, <1>3, <2>1
  <2>3. (released + dataOfBytes) - released = dataOfBytes  BY <1>2
  <2>4. released' + dataOfBytes' = released + dataOfBytes  BY <1>2, <2>1
  <2>5. Queue!Take(k)  BY <2>1, <2>3, <2>4 DEF Queue!Take, Queue!Held
  <2> QED  BY <2>2, <2>5
<1>6. ASSUME ~ \E w \in Writers : AddData(w), ~ \E k \in 1..blk : Release(k)
      PROVE  released' = released /\ dataOfBytes' = dataOfBytes
  BY <1>6 DEF Next, WriteStep, BeginWrite, LoadIndex, Reserve, LoseRace, Recheck, CopyByte,
              SeeTurn, Publish, Peek, MoveBegin, vars, atomics, history
<1> QED  BY <1>4, <1>5, <1>6 DEF Queue!QueueNext

\* An empty ring is an empty queue.
LEMMA QueueStart == Init => Queue!QueueInit
BY DEF Init, Queue!QueueInit

\* Up to the first over-reservation, any number of writers and the reader see
\* the byte queue that the file writer is written against.
THEOREM RingActsAsQueue == Spec => ActsAsQueue
<1>1. RingInv /\ [Next]_vars =>
        [overrun' \/ Queue!QueueNext]_<<released + dataOfBytes, released>>
  BY QueueStep
<1> QED  BY <1>1, QueueStart, RingInvariantHolds, PTL DEF Spec, ActsAsQueue
------------------------------------------------------------------------------
(* One writer *)

\* Nothing is reserved at the beginning.
LEMMA LoneWriterInit == Init => LoneWriter
BY DEF Init, LoneWriter, Only, Active

\* The length of a writer's message is set when it begins, and kept.
LEMMA LenStays ==
    ASSUME RingInv, [Next]_vars, NEW v \in Writers
    PROVE  len'[v] = len[v] \/ \E n \in 1..MaxLen : len'[v] = n
<1>1. ASSUME NEW w \in Writers, NEW n \in 1..MaxLen, BeginWrite(w, n)
      PROVE  len'[v] = len[v] \/ len'[v] = n
  BY <1>1 DEF BeginWrite, RingInv, TypeOK
<1>2. (\A w \in Writers, n \in 1..MaxLen : ~BeginWrite(w, n)) => len' = len
  BY DEF Next, WriteStep, LoadIndex, Reserve, LoseRace, Recheck, CopyByte, SeeTurn,
         Publish, AddData, Peek, Release, MoveBegin, writer, vars
<1> QED  BY <1>1, <1>2

\* A single writer's check of the room is still true when it reserves.
LEMMA LoneWriterStep ==
    ASSUME RingInv, LoneWriter, [Next]_vars
    PROVE  LoneWriter'
<1> SUFFICES ASSUME NEW w \in Writers, Only(w)'
             PROVE  /\ ~overrun'
                    /\ \A v \in Writers \ {w} : pc'[v] = "idle"
                    /\ pc'[w] # "recheck"
                    /\ pc'[w] = "cas" => idx'[w] = writeableIndex'
                    /\ pc'[w] \in {"load", "cas"} => dataOfBytes' + len'[w] <= Cap
                    /\ reserved' = released' + dataOfBytes' + (IF Active(w)' THEN len'[w] ELSE 0)
  BY DEF LoneWriter
<1>0. /\ Only(w) /\ \A v \in Writers \ {w} : pc[v] = "idle" /\ pc'[v] = "idle"
      /\ \/ \E n \in 1..MaxLen : BeginWrite(w, n)
         \/ WriteStep(w)
         \/ Peek \/ (\E k \in 1..blk : Release(k)) \/ MoveBegin
         \/ UNCHANGED vars
  <2>1. Only(w)
    <3> SUFFICES ASSUME NEW v \in Writers \ {w} PROVE len[v] = 0  BY DEF Only
    <3>1. len'[v] = 0  BY DEF Only
    <3>2. len'[v] = len[v] \/ \E n \in 1..MaxLen : len'[v] = n  BY LenStays
    <3> QED  BY <3>1, <3>2
  <2>2. \A v \in Writers \ {w} : pc[v] = "idle"  BY <2>1 DEF LoneWriter
  <2>3. \A v \in Writers \ {w} : ~WriteStep(v)
    BY <2>2 DEF WriteStep, LoadIndex, Reserve, LoseRace, Recheck, CopyByte, SeeTurn,
                Publish, AddData, Goto
  <2>4. \A v \in Writers \ {w}, n \in 1..MaxLen : ~BeginWrite(v, n)
    <3> SUFFICES ASSUME NEW v \in Writers \ {w}, NEW n \in 1..MaxLen, BeginWrite(v, n)
                 PROVE  FALSE
      OBVIOUS
    <3>1. len'[v] = n  BY DEF BeginWrite, RingInv, TypeOK
    <3> QED  BY <3>1 DEF Only
  <2>5. \/ \E n \in 1..MaxLen : BeginWrite(w, n)
        \/ WriteStep(w)
        \/ Peek \/ (\E k \in 1..blk : Release(k)) \/ MoveBegin
        \/ UNCHANGED vars
    BY <2>3, <2>4 DEF Next
  <2>6. \A v \in Writers \ {w} : pc'[v] = pc[v]
    BY <2>5 DEF BeginWrite, WriteStep, LoadIndex, Reserve, LoseRace, Recheck, CopyByte,
                SeeTurn, Publish, AddData, Peek, Release, MoveBegin, Goto, writer, vars,
                RingInv, TypeOK
  <2> QED  BY <2>1, <2>2, <2>5, <2>6
<1> SUFFICES /\ ~overrun'
             /\ pc'[w] # "recheck"
             /\ pc'[w] = "cas" => idx'[w] = writeableIndex'
             /\ pc'[w] \in {"load", "cas"} => dataOfBytes' + len'[w] <= Cap
             /\ reserved' = released' + dataOfBytes' + (IF Active(w)' THEN len'[w] ELSE 0)
  BY <1>0
<1> USE DEF Active
<1>1. /\ {released, published, reserved, dataOfBytes, blk} \subseteq Nat
      /\ len[w] \in Nat /\ ~overrun /\ pc[w] # "recheck"
      /\ pc[w] = "cas" => idx[w] = writeableIndex
      /\ pc[w] \in {"load", "cas"} => dataOfBytes + len[w] <= Cap
      /\ reserved = released + dataOfBytes + (IF Active(w) THEN len[w] ELSE 0)
      /\ reserved <= released + Cap
  BY <1>0 DEF RingInv, TypeOK, LoneWriter, Window
<1>2. ASSUME NEW n \in 1..MaxLen, BeginWrite(w, n)
      PROVE  /\ ~overrun' /\ pc'[w] = "load" /\ dataOfBytes' + len'[w] <= Cap
             /\ reserved' = released' + dataOfBytes'
  <2>1. /\ pc[w] = "idle" /\ pc'[w] = "load" /\ len'[w] = n /\ overrun' = overrun
        /\ dataOfBytes' = dataOfBytes /\ released' = released /\ reserved' = reserved
    BY <1>2 DEF BeginWrite, Goto, atomics, RingInv, TypeOK
  <2>2. ~ (dataOfBytes <= Cap /\ Cap - dataOfBytes < n)
    BY <1>2 DEF BeginWrite, NoRoom
  <2>3. dataOfBytes <= Cap  BY <1>1, <2>1
  <2> QED  BY <1>1, <2>1, <2>2, <2>3
<1>3. CASE LoadIndex(w)
  BY <1>1, <1>3 DEF LoadIndex, Goto, atomics, history, RingInv, TypeOK
<1>4. CASE Reserve(w)
  <2>1. /\ pc[w] = "cas" /\ pc'[w] = "copy" /\ len' = len /\ dataOfBytes' = dataOfBytes
        /\ released' = released /\ reserved' = reserved + len[w]
    BY <1>4 DEF Reserve, Goto, RingInv, TypeOK
  <2>2. reserved + len[w] - released <= Cap  BY <1>1, <2>1
  <2>3. ~ (reserved + len[w] - released > Cap)  BY <1>1, <2>2
  <2>4. ~overrun'  BY <1>1, <1>4, <2>3 DEF Reserve
  <2> QED  BY <1>1, <2>1, <2>4
<1>5. CASE LoseRace(w)  BY <1>1, <1>5 DEF LoseRace, Goto
<1>6. CASE Recheck(w)  BY <1>1, <1>6 DEF Recheck, Goto
<1>7. CASE CopyByte(w)
  BY <1>1, <1>7 DEF CopyByte, Goto, atomics, history, RingInv, TypeOK
<1>8. CASE SeeTurn(w)
  BY <1>1, <1>8 DEF SeeTurn, Goto, atomics, history, RingInv, TypeOK
<1>9. CASE Publish(w)
  BY <1>1, <1>9 DEF Publish, Goto, RingInv, TypeOK
<1>10. CASE AddData(w)
  BY <1>1, <1>10 DEF AddData, Goto, history, RingInv, TypeOK
<1>11. CASE Peek  BY <1>1, <1>11 DEF Peek, atomics, writer, history
<1>12. ASSUME NEW k \in 1..blk, Release(k)
       PROVE  /\ ~overrun' /\ pc' = pc /\ len' = len /\ idx' = idx
              /\ writeableIndex' = writeableIndex /\ dataOfBytes' <= dataOfBytes
              /\ dataOfBytes' \in Nat
              /\ released' + dataOfBytes' = released + dataOfBytes /\ reserved' = reserved
  BY <1>1, <1>12 DEF Release, writer
<1>13. CASE MoveBegin  BY <1>1, <1>13 DEF MoveBegin, writer, history
<1>14. CASE UNCHANGED vars  BY <1>1, <1>14 DEF vars, atomics, writer, history
<1>15. ASSUME NEW k \in 1..blk, Release(k)
       PROVE  /\ ~overrun' /\ pc'[w] # "recheck"
              /\ pc'[w] = "cas" => idx'[w] = writeableIndex'
              /\ pc'[w] \in {"load", "cas"} => dataOfBytes' + len'[w] <= Cap
              /\ reserved' = released' + dataOfBytes' + (IF Active(w)' THEN len'[w] ELSE 0)
  BY <1>1, <1>12, <1>15
<1>16. ASSUME NEW n \in 1..MaxLen, BeginWrite(w, n)
       PROVE  /\ ~overrun' /\ pc'[w] # "recheck"
              /\ pc'[w] = "cas" => idx'[w] = writeableIndex'
              /\ pc'[w] \in {"load", "cas"} => dataOfBytes' + len'[w] <= Cap
              /\ reserved' = released' + dataOfBytes' + (IF Active(w)' THEN len'[w] ELSE 0)
  <2>1. dataOfBytes' \in Nat /\ released' \in Nat
    BY <1>1, <1>16 DEF BeginWrite, atomics
  <2> QED  BY <1>2, <1>16, <2>1
<1> QED
  BY <1>0, <1>3, <1>4, <1>5, <1>6, <1>7, <1>8, <1>9, <1>10, <1>11, <1>13, <1>14, <1>15, <1>16
     DEF WriteStep

\* Until a second thread writes no more is ever reserved than the ring has room for.
THEOREM RingLoneWriterFits == Spec => []LoneWriterFits
<1>1. RingInv /\ LoneWriter /\ [Next]_vars => LoneWriter'
  BY LoneWriterStep
<1>2. LoneWriter => LoneWriterFits
  BY DEF LoneWriter, LoneWriterFits
<1> QED  BY <1>1, <1>2, LoneWriterInit, RingInvariantHolds, PTL DEF Spec

\* With one writer the ring implements the byte queue, without exemption.
THEOREM RingImplementsQueue ==
    ASSUME NEW w, Writers = {w}
    PROVE  Spec => ImplementsQueue
<1>1. LoneWriterFits => ~overrun
  BY DEF LoneWriterFits, Only
<1>2. RingInv /\ [Next]_vars /\ ~overrun' =>
        [Queue!QueueNext]_<<released + dataOfBytes, released>>
  BY QueueStep
<1> QED
  BY <1>1, <1>2, QueueStart, RingInvariantHolds, RingLoneWriterFits, PTL
     DEF Spec, ImplementsQueue, Queue!QueueSpec
==============================================================================
