------------------------- MODULE StorageSizes_proof -------------------------
(***************************************************************************)
(* Lemmas about the sizes of files in a directory, as LogStorage adds them *)
(* up, about what a change of one file does to the sum, and about unsigned *)
(* arithmetic.                                                             *)
(***************************************************************************)
EXTENDS StorageInvariant, FiniteSetTheorems, TLAPS

USE StorageAssumption DEF StorageAssumption

\* What a directory is: files with names, none longer than m.
Directory(d, m) ==
    /\ DOMAIN d \subseteq Names
    /\ \A f \in DOMAIN d : d[f].size \in 0..m
------------------------------------------------------------------------------
(* Sets of names *)

\* There are finitely many names, so sizes are numbers.
LEMMA NamesFinite == IsFiniteSet(Names)
<1>1. IsFiniteSet({0, 1})
  <2>1. IsFiniteSet({0})  BY FS_Singleton
  <2>2. IsFiniteSet({0} \cup {1})  BY <2>1, FS_AddElement
  <2>3. {0, 1} = {0} \cup {1}  OBVIOUS
  <2> QED  BY <2>2, <2>3
<1>2. IsFiniteSet(0..MaxClock)  BY FS_Interval
<1>3. IsFiniteSet(Own)  BY <1>1, <1>2, FS_Product DEF Own
<1> QED  BY <1>3, FS_Union DEF Names

\* How many names there are in a set, in one that is not larger, and in one that has
\* another one.
LEMMA Count ==
    ASSUME NEW S \in SUBSET Names, NEW T \in SUBSET Names
    PROVE  /\ Cardinality(S) \in Nat
           /\ S \subseteq T => Cardinality(S) <= Cardinality(T)
           /\ \A f : S \subseteq T \cup {f} => Cardinality(S) <= Cardinality(T) + 1
           /\ \A f : f \notin S /\ S \cup {f} \subseteq T => Cardinality(S) + 1 <= Cardinality(T)
<1>1. IsFiniteSet(S) /\ IsFiniteSet(T)
  BY NamesFinite, FS_Subset
<1>2. Cardinality(S) \in Nat /\ Cardinality(T) \in Nat
  BY <1>1, FS_CardinalityType
<1>3. S \subseteq T => Cardinality(S) <= Cardinality(T)
  BY <1>1, FS_Subset
<1>4. ASSUME NEW f, S \subseteq T \cup {f} PROVE Cardinality(S) <= Cardinality(T) + 1
  <2>1. IsFiniteSet(T \cup {f}) /\ Cardinality(T \cup {f}) <= Cardinality(T) + 1
    <3>1. /\ IsFiniteSet(T \cup {f})
          /\ Cardinality(T \cup {f}) = IF f \in T THEN Cardinality(T) ELSE Cardinality(T) + 1
      BY <1>1, FS_AddElement
    <3> QED  BY <1>2, <3>1
  <2>2. Cardinality(T \cup {f}) \in Nat  BY <2>1, FS_CardinalityType
  <2>3. Cardinality(S) <= Cardinality(T \cup {f})  BY <1>4, <2>1, FS_Subset
  <2> QED  BY <1>2, <2>1, <2>2, <2>3
<1>5. ASSUME NEW f, f \notin S, S \cup {f} \subseteq T PROVE Cardinality(S) + 1 <= Cardinality(T)
  <2>1. Cardinality(S \cup {f}) = Cardinality(S) + 1
    BY <1>1, <1>5, FS_AddElement
  <2>2. Cardinality(S \cup {f}) <= Cardinality(T)
    <3>1. S \cup {f} \in SUBSET T  BY <1>5
    <3> QED  BY <1>1, <3>1, FS_Subset
  <2> QED  BY <2>1, <2>2
<1> QED  BY <1>2, <1>3, <1>4, <1>5
------------------------------------------------------------------------------
(* Sizes *)

\* What the bytes of a set of files are.
LEMMA BytesAre ==
    ASSUME NEW d, NEW S
    PROVE  \A b : b \in Bytes(d, S) <=>
                    \E f \in S \cap DOMAIN d : \E i \in 1..d[f].size : b = <<f, i>>
<1>1. ASSUME NEW b \in Bytes(d, S)
      PROVE  \E f \in S \cap DOMAIN d : \E i \in 1..d[f].size : b = <<f, i>>
  <2>1. PICK f \in S \cap DOMAIN d : b \in {f} \X (1..d[f].size)
    BY DEF Bytes
  <2> QED  BY <2>1
<1>2. ASSUME NEW f \in S \cap DOMAIN d, NEW i \in 1..d[f].size
      PROVE  <<f, i>> \in Bytes(d, S)
  BY DEF Bytes
<1> QED  BY <1>1, <1>2

\* The size of a set of files is a number.
LEMMA SizeType ==
    ASSUME NEW d, NEW m \in Nat, Directory(d, m), NEW S
    PROVE  IsFiniteSet(Bytes(d, S)) /\ Size(d, S) \in Nat
<1>0. IsFiniteSet(1..m)  BY FS_Interval
<1>1. IsFiniteSet(Names \X (1..m))
  BY <1>0, NamesFinite, FS_Product
<1>2. ASSUME NEW b \in Bytes(d, S) PROVE b \in Names \X (1..m)
  <2>1. PICK f \in S \cap DOMAIN d : \E i \in 1..d[f].size : b = <<f, i>>
    BY <1>2, BytesAre
  <2> QED  BY <2>1 DEF Directory
<1>3. IsFiniteSet(Bytes(d, S))
  BY <1>1, <1>2, FS_Subset
<1> QED  BY <1>3, FS_CardinalityType DEF Size

\* Files that are not in the directory have no size.
LEMMA SizeSame ==
    ASSUME NEW d, NEW S, NEW T, S \cap DOMAIN d = T \cap DOMAIN d
    PROVE  Size(d, S) = Size(d, T)
BY DEF Size, Bytes

\* Names of no file have no size.
LEMMA SizeNone ==
    ASSUME NEW d, NEW S, S \cap DOMAIN d = {}
    PROVE  Size(d, S) = 0
<1>1. Bytes(d, S) = {}  BY DEF Bytes
<1> QED  BY <1>1, FS_EmptySet DEF Size

\* The size of a part, and of two parts without a common file.
LEMMA SizePart ==
    ASSUME NEW d, NEW m \in Nat, Directory(d, m), NEW S, NEW T, S \cap DOMAIN d \subseteq T
    PROVE  Size(d, S) <= Size(d, T)
<1>1. Bytes(d, S) \subseteq Bytes(d, T)  BY DEF Bytes
<1> QED  BY <1>1, SizeType, FS_Subset DEF Size

\* The sizes of disjoint sets of files add up.
LEMMA SizeUnion ==
    ASSUME NEW d, NEW m \in Nat, Directory(d, m), NEW S, NEW T, S \cap T = {}
    PROVE  Size(d, S \cup T) = Size(d, S) + Size(d, T)
<1>1. Bytes(d, S \cup T) = Bytes(d, S) \cup Bytes(d, T)
  BY DEF Bytes
<1>2. Bytes(d, S) \cap Bytes(d, T) = {}
  BY BytesAre
<1>3. IsFiniteSet(Bytes(d, S)) /\ IsFiniteSet(Bytes(d, T)) /\ Size(d, S) \in Nat /\ Size(d, T) \in Nat
  BY SizeType
<1>4. Cardinality(Bytes(d, S) \cap Bytes(d, T)) = 0
  BY <1>2, FS_EmptySet
<1>5. Cardinality(Bytes(d, S) \cup Bytes(d, T)) =
        Cardinality(Bytes(d, S)) + Cardinality(Bytes(d, T)) - Cardinality(Bytes(d, S) \cap Bytes(d, T))
  BY <1>3, FS_Union
<1>6. Size(d, S \cup T) = Size(d, S) + Size(d, T) - Cardinality(Bytes(d, S) \cap Bytes(d, T))
  BY <1>1, <1>5, Zenon DEF Size
<1> QED  BY <1>3, <1>4, <1>6

\* The size of one file is its size.
LEMMA SizeOne ==
    ASSUME NEW d, NEW m \in Nat, Directory(d, m), NEW f \in DOMAIN d
    PROVE  Size(d, {f}) = d[f].size
<1>1. Bytes(d, {f}) = {f} \X (1..d[f].size)
  BY DEF Bytes
<1>2. d[f].size \in Nat  BY DEF Directory
<1>3. IsFiniteSet({f}) /\ Cardinality({f}) = 1
  BY FS_Singleton
<1>4. IsFiniteSet(1..d[f].size) /\ Cardinality(1..d[f].size) = d[f].size
  <2>1. ASSUME NEW n \in Nat PROVE IsFiniteSet(1..n) /\ Cardinality(1..n) = n
    <3>1. /\ IsFiniteSet(1..n)
          /\ Cardinality(1..n) = IF 1 > n THEN 0 ELSE n - 1 + 1
      BY FS_Interval
    <3> QED  BY <3>1
  <2> QED  BY <1>2, <2>1
<1>5. Cardinality({f} \X (1..d[f].size)) = 1 * d[f].size
  <2>1. ASSUME NEW T, IsFiniteSet(T)
        PROVE  Cardinality({f} \X T) = Cardinality({f}) * Cardinality(T)
    BY <1>3, <2>1, FS_Product, Zenon
  <2>2. Cardinality({f} \X (1..d[f].size)) = Cardinality({f}) * Cardinality(1..d[f].size)
    BY <1>4, <2>1, Zenon
  <2> QED  BY <1>3, <1>4, <2>2, Zenon
<1>6. 1 * d[f].size = d[f].size  BY <1>2
<1> QED  BY <1>1, <1>5, <1>6, Zenon DEF Size

\* One file more.
LEMMA SizeWith ==
    ASSUME NEW d, NEW m \in Nat, Directory(d, m), NEW S, NEW f \in DOMAIN d, f \notin S
    PROVE  Size(d, S \cup {f}) = Size(d, S) + d[f].size
<1>1. Size(d, S \cup {f}) = Size(d, S) + Size(d, {f})
  BY SizeUnion
<1> QED  BY <1>1, SizeOne
------------------------------------------------------------------------------
(* What the two ways to change a directory do to sizes *)

\* A file that is made, or gets longer, with k bytes in either case, adds k at most to
\* any size.
LEMMA SizePut ==
    ASSUME NEW d, NEW m \in Nat, Directory(d, m), NEW e, NEW n \in Nat, Directory(e, n),
           NEW f, NEW k \in Nat, DOMAIN e = DOMAIN d \cup {f},
           e[f].size = k + IF f \in DOMAIN d THEN d[f].size ELSE 0,
           \A g \in DOMAIN d \ {f} : e[g] = d[g], NEW S
    PROVE  /\ Size(d, S) <= Size(e, S)
           /\ Size(e, S) <= Size(d, S) + k
<1>0. f \in DOMAIN e  OBVIOUS
<1>1. Size(e, S \ {f}) = Size(d, S \ {f})
  <2>1. ASSUME NEW b PROVE b \in Bytes(e, S \ {f}) <=> b \in Bytes(d, S \ {f})
    BY BytesAre
  <2>2. Bytes(e, S \ {f}) = Bytes(d, S \ {f})  BY <2>1
  <2> QED  BY <2>2 DEF Size
<1>2. CASE f \in S
  <2>1. (S \ {f}) \cup {f} = S /\ f \notin S \ {f}  BY <1>2
  <2>2. Size(d, S) = Size(d, S \ {f}) + IF f \in DOMAIN d THEN d[f].size ELSE 0
    <3>1. CASE f \in DOMAIN d
      <4>1. Size(d, (S \ {f}) \cup {f}) = Size(d, S \ {f}) + d[f].size
        BY <2>1, <3>1, SizeWith, Zenon
      <4> QED  BY <2>1, <3>1, <4>1, Zenon
    <3>2. CASE f \notin DOMAIN d
      <4>1. S \cap DOMAIN d = (S \ {f}) \cap DOMAIN d  BY <3>2
      <4>2. Size(d, S) = Size(d, S \ {f})  BY <4>1, SizeSame, Zenon
      <4>3. Size(d, S) \in Nat  BY SizeType
      <4> QED  BY <3>2, <4>2, <4>3
    <3> QED  BY <3>1, <3>2
  <2>3. Size(e, S) = Size(e, S \ {f}) + e[f].size
    <3>1. Size(e, (S \ {f}) \cup {f}) = Size(e, S \ {f}) + e[f].size
      BY <1>0, <2>1, SizeWith, Zenon
    <3> QED  BY <2>1, <3>1, Zenon
  <2>4. Size(d, S \ {f}) \in Nat  BY SizeType
  <2>5. f \in DOMAIN d => d[f].size \in Nat  BY DEF Directory
  <2> QED  BY <1>1, <2>2, <2>3, <2>4, <2>5
<1>3. CASE f \notin S
  <2>1. S \ {f} = S  BY <1>3
  <2>2. Size(e, S) = Size(d, S)  BY <1>1, <2>1, Zenon
  <2>3. Size(d, S) \in Nat  BY SizeType
  <2> QED  BY <2>2, <2>3
<1> QED  BY <1>2, <1>3

\* After a removal, sizes are those without the file.
LEMMA SizeDropped ==
    ASSUME NEW d, NEW f, NEW S
    PROVE  Size([g \in DOMAIN d \ {f} |-> d[g]], S) = Size(d, S \ {f})
<1> DEFINE e == [g \in DOMAIN d \ {f} |-> d[g]]
<1>0. DOMAIN e = DOMAIN d \ {f} /\ \A g \in DOMAIN d \ {f} : e[g] = d[g]
  OBVIOUS
<1> HIDE DEF e
<1>1. ASSUME NEW b PROVE b \in Bytes(e, S) <=> b \in Bytes(d, S \ {f})
  BY <1>0, BytesAre
<1>2. Bytes(e, S) = Bytes(d, S \ {f})  BY <1>1
<1> QED  BY <1>2 DEF Size, e
------------------------------------------------------------------------------
(* Unsigned arithmetic *)

\* As long as a sum stays within a word in either direction, adding to the unsigned
\* one is adding to it: it is the unsigned one, or that one less a word.
LEMMA WrapAdds ==
    ASSUME NEW a \in 0..(Word - 1), NEW u \in {a, a - Word}, NEW s \in Int,
           -Word <= u + s, u + s < Word
    PROVE  u + s \in {Wrap(a + s), Wrap(a + s) - Word}
<1> DEFINE n == a + s
<1>1. n \in -Word..(2 * Word - 1)
  OBVIOUS
<1>2. n \in 0..(Word - 1) => n % Word = n
  OBVIOUS
<1>3. n \in Word..(2 * Word - 1) => n % Word = n - Word
  OBVIOUS
<1>4. n \in -Word..(-1) => n % Word = n + Word
  OBVIOUS
<1> QED  BY <1>1, <1>2, <1>3, <1>4 DEF Wrap

\* A sum that needs no more than a word.
LEMMA WrapKeeps ==
    ASSUME NEW n \in 0..(Word - 1)
    PROVE  Wrap(n) = n
BY DEF Wrap
==============================================================================
