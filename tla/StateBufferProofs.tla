--------------------------- MODULE StateBufferProofs ---------------------------
(***************************************************************************)
(* Facts about buffers of states, days and ordered tables, for every       *)
(* sequence length and length of day, that the proofs about the components *)
(* rest on, and the induction over the naturals they use.                  *)
(***************************************************************************)
EXTENDS StateBuffer, Ordering, WellFoundedInduction, FiniteSetTheorems,
        SequenceTheorems, TLAPS

Below == OpToRel(<, Nat)

LEMMA LeastElement ==
    ASSUME NEW T \in SUBSET Nat, T # {}
    PROVE  \E x \in T : \A y \in T : x <= y
<1>1. IsWellFoundedOn(Below, Nat) /\ T \subseteq Nat
  BY NatLessThanWellFounded, Zenon DEF Below
<1>2. PICK x \in T : \A y \in T : ~ (<<y, x>> \in Below)
  BY <1>1, WFMin, Zenon
<1>3. \A y \in T : y < x => <<y, x>> \in Below
  BY <1>1 DEF Below, OpToRel
<1>4. \A y \in T : ~ (y < x)
  BY <1>2, <1>3
<1>5. \A y \in T : x <= y
  BY <1>4
<1> QED
  BY <1>5

(* What holds of 0, and of n + 1 when it holds of n, up to a bound, holds  *)
(* up to the bound.                                                        *)
LEMMA BoundedInduction ==
    ASSUME NEW N \in Nat, NEW S, 0 \in S,
           \A n \in 0 .. N : n \in S /\ n # N => n + 1 \in S
    PROVE  \A n \in 0 .. N : n \in S
<1> DEFINE T == {n \in 0 .. N : n \notin S}
<1> SUFFICES ASSUME T # {}
             PROVE  FALSE
  OBVIOUS
<1>1. T \in SUBSET Nat
  OBVIOUS
<1>2. PICK n \in T : \A m \in T : n <= m
  BY <1>1, LeastElement
<1>3. n \in 0 .. N /\ n # 0
  OBVIOUS
<1>4. n - 1 \in 0 .. N /\ n - 1 # N /\ n - 1 \notin T
  BY <1>2, <1>3
<1>5. (n - 1) + 1 \in S
  BY <1>4
<1> QED
  BY <1>3, <1>5

-----------------------------------------------------------------------------
(* Later slots are of later days. *)
LEMMA DayMonotone == \A a, b \in Slots : a <= b => DayOf(a) <= DayOf(b)
<1> SUFFICES ASSUME NEW a \in Slots, NEW b \in Slots, a <= b
             PROVE  DayOf(a) <= DayOf(b)
  OBVIOUS
<1>1. SlotsPerDay \in Nat /\ SlotsPerDay > 0
  BY BufferAssumption
<1> QED
  BY <1>1 DEF Slots, DayOf

LEMMA DayType == \A a \in Slots : DayOf(a) \in Int
BY BufferAssumption DEF Slots, DayOf

(* The windows between two of one day are of that day.                     *)
LEMMA SameDay ==
    ASSUME NEW a \in Slots, NEW b \in Slots, NEW s \in a .. b,
           DayOf(a) = DayOf(b)
    PROVE  s \in Slots /\ DayOf(s) = DayOf(a)
<1>1. s \in Slots /\ a <= s /\ s <= b
  BY DEF Slots
<1> QED
  BY <1>1, DayMonotone, DayType

-----------------------------------------------------------------------------
(* A slot that follows the newest, on its day, leaves the buffer whole.    *)
LEMMA PushedFacts ==
    ASSUME NEW buf \in Seq(Slots), NEW slot \in Slots,
           Len(buf) <= SequenceLength,
           Contiguous(buf),
           buf # <<>> => slot = Newest(buf) + 1 /\ DayOf(slot) = DayOf(Newest(buf))
    PROVE  /\ Pushed(buf, slot) \in Seq(Slots)
           /\ Len(Pushed(buf, slot)) =
                  IF Len(buf) < SequenceLength THEN Len(buf) + 1
                                               ELSE SequenceLength
           /\ Newest(Pushed(buf, slot)) = slot
           /\ Contiguous(Pushed(buf, slot))
<1> DEFINE grown == Append(buf, slot)
<1>1. /\ grown \in Seq(Slots) /\ Len(grown) = Len(buf) + 1
      /\ \A i \in 1 .. Len(buf) : grown[i] = buf[i]
      /\ grown[Len(buf) + 1] = slot
  OBVIOUS
<1>2. Contiguous(grown)
  <2> SUFFICES ASSUME NEW i \in 1 .. Len(grown) - 1
               PROVE  grown[i + 1] = grown[i] + 1
                      /\ DayOf(grown[i + 1]) = DayOf(grown[i])
    BY DEF Contiguous
  <2>1. CASE i < Len(buf)
    <3>1. grown[i] = buf[i] /\ grown[i + 1] = buf[i + 1]
      BY <1>1, <2>1
    <3> QED
      BY <3>1, <2>1 DEF Contiguous
  <2>2. CASE i = Len(buf)
    BY <1>1, <2>2 DEF Newest
  <2> QED
    BY <1>1, <2>1, <2>2
<1>3. CASE Len(buf) < SequenceLength
  BY <1>1, <1>2, <1>3, BufferAssumption DEF Pushed, Newest
<1>4. CASE Len(buf) = SequenceLength
  <2>1. Pushed(buf, slot) = Tail(grown)
    BY <1>1, <1>4, BufferAssumption DEF Pushed
  <2>2. /\ Tail(grown) \in Seq(Slots) /\ Len(Tail(grown)) = Len(buf)
        /\ \A i \in 1 .. Len(buf) : Tail(grown)[i] = grown[i + 1]
    BY <1>1, <1>4, BufferAssumption
  <2>3. Contiguous(Tail(grown))
    BY <1>1, <1>2, <2>2 DEF Contiguous
  <2> QED
    BY <2>1, <2>2, <2>3, <1>1, <1>4, BufferAssumption DEF Newest
<1> QED
  BY <1>3, <1>4, BufferAssumption

(* A well-formed batch is a run of slots: were there an index where it is  *)
(* not, the least one would follow an index where it is.                   *)
LEMMA ContiguousRun ==
    ASSUME NEW s \in Seq(Slots), Contiguous(s)
    PROVE  \A i \in 1 .. Len(s) : s[i] = s[1] + i - 1
<1> DEFINE T == {i \in 1 .. Len(s) : s[i] # s[1] + i - 1}
<1> SUFFICES ASSUME T # {}
             PROVE  FALSE
  OBVIOUS
<1>1. Len(s) \in Nat /\ \A i \in 1 .. Len(s) : s[i] \in Nat
  BY DEF Slots
<1>2. T \in SUBSET Nat
  BY <1>1
<1>3. \A i \in T : i \in 1 .. Len(s) /\ s[i] # s[1] + i - 1
  OBVIOUS
<1>4. \A i \in 1 .. Len(s) : i \notin T => s[i] = s[1] + i - 1
  OBVIOUS
<1> HIDE DEF T
<1>5. PICK i \in T : \A j \in T : i <= j
  BY <1>2, LeastElement
<1>6. i \in 1 .. Len(s) /\ i # 1
  BY <1>1, <1>3
<1>7. i - 1 \in 1 .. Len(s) - 1 /\ i - 1 \in 1 .. Len(s) /\ i - 1 \notin T
  BY <1>1, <1>2, <1>5, <1>6
<1>8. s[i] = s[i - 1] + 1
  <2>1. (i - 1) + 1 = i
    BY <1>6
  <2> QED
    BY <1>7, <2>1 DEF Contiguous
<1>9. s[i - 1] = s[1] + (i - 1) - 1
  BY <1>4, <1>7
<1> QED
  BY <1>1, <1>3, <1>6, <1>8, <1>9
-----------------------------------------------------------------------------
(* Ordered tables. *)

IsStrictOrder(S, order) ==
    /\ \A x \in S : <<x, x>> \notin order
    /\ \A x, y, z \in S :
           <<x, y>> \in order /\ <<y, z>> \in order => <<x, z>> \in order
    /\ \A x, y \in S : x = y \/ <<x, y>> \in order \/ <<y, x>> \in order

(* How many elements come before one tells each element from the others,   *)
(* and is one of 0 .. |S| - 1; so each of these numbers has its element.   *)
LEMMA ArrangedFacts ==
    ASSUME NEW S, IsFiniteSet(S), NEW order, IsStrictOrder(S, order)
    PROVE  /\ Cardinality(S) \in Nat
           /\ Arranged(S, order) \in [1 .. Cardinality(S) -> S]
           /\ \A i, j \in 1 .. Cardinality(S) : i < j =>
                  <<Arranged(S, order)[i], Arranged(S, order)[j]>> \in order
           /\ \A x \in S : \E i \in 1 .. Cardinality(S) :
                  Arranged(S, order)[i] = x
<1> DEFINE n == Cardinality(S)
           Pre(x) == {y \in S : <<y, x>> \in order}
           rank == [x \in S |-> Cardinality(Pre(x))]
<1>0. n \in Nat
  BY FS_CardinalityType
<1>1. ASSUME NEW x \in S
      PROVE  IsFiniteSet(Pre(x)) /\ rank[x] \in 0 .. n - 1
  <2>1. IsFiniteSet(S \ {x}) /\ Cardinality(S \ {x}) = n - 1
    BY FS_RemoveElement
  <2>2. Pre(x) \in SUBSET (S \ {x})
    BY DEF IsStrictOrder
  <2>3. IsFiniteSet(Pre(x)) /\ Cardinality(Pre(x)) <= n - 1
    BY <2>1, <2>2, FS_Subset, ZenonT(60)
  <2>4. Cardinality(Pre(x)) \in Nat
    BY <2>3, FS_CardinalityType
  <2> HIDE DEF Pre
  <2> QED
    BY <1>0, <2>3, <2>4
<1>2. ASSUME NEW x \in S, NEW y \in S, <<x, y>> \in order
      PROVE  rank[x] < rank[y]
  <2>1. Pre(x) \in SUBSET Pre(y) /\ x \in Pre(y) /\ x \notin Pre(x)
    BY <1>2 DEF IsStrictOrder
  <2>2. /\ Cardinality(Pre(x)) <= Cardinality(Pre(y))
        /\ Cardinality(Pre(x)) # Cardinality(Pre(y))
    BY <1>1, <2>1, FS_Subset
  <2>3. Cardinality(Pre(x)) \in Nat /\ Cardinality(Pre(y)) \in Nat
    BY <1>1, FS_CardinalityType
  <2> HIDE DEF Pre
  <2> QED
    BY <2>2, <2>3
<1>3. \A x \in S : rank[x] \in 0 .. n - 1
  BY <1>1
<1>4. \A x, y \in S : <<x, y>> \in order => rank[x] < rank[y]
  BY <1>2
<1>5. \A k \in 1 .. n : Arranged(S, order)[k] =
          CHOOSE x \in S : rank[x] = k - 1
  BY DEF Arranged
<1>6. rank \in [S -> 0 .. n - 1]
  BY <1>3
<1> HIDE DEF rank
<1>7. \A x, y \in S : rank[x] = rank[y] => x = y
  <2> SUFFICES ASSUME NEW x \in S, NEW y \in S, rank[x] = rank[y], x # y
               PROVE  FALSE
    OBVIOUS
  <2>1. <<x, y>> \in order \/ <<y, x>> \in order
    BY DEF IsStrictOrder
  <2>2. rank[x] < rank[y] \/ rank[y] < rank[x]
    BY <1>4, <2>1
  <2>3. rank[x] \in Int /\ rank[y] \in Int
    BY <1>0, <1>3
  <2> QED
    BY <2>2, <2>3
<1>8. rank \in Injection(S, 0 .. n - 1)
  BY <1>6, <1>7 DEF Injection, IsInjective
<1>9. IsFiniteSet(0 .. n - 1) /\ Cardinality(0 .. n - 1) = n
  BY <1>0, FS_Interval
<1>10. rank \in Surjection(S, 0 .. n - 1)
  BY <1>8, <1>9, FS_Injection
<1>11. \A k \in 1 .. n : \E x \in S : rank[x] = k - 1
  <2>1. \A k \in 1 .. n : k - 1 \in 0 .. n - 1
    BY <1>0
  <2> QED
    BY <1>10, <2>1 DEF Surjection
<1>12. \A k \in 1 .. n : /\ Arranged(S, order)[k] \in S
                         /\ rank[Arranged(S, order)[k]] = k - 1
  BY <1>5, <1>11
<1>13. Arranged(S, order) \in [1 .. n -> S]
  <2>1. Arranged(S, order) =
            [k \in 1 .. n |->
                CHOOSE x \in S : Cardinality({y \in S : <<y, x>> \in order}) = k - 1]
    BY DEF Arranged
  <2> QED
    BY <1>12, <2>1
<1>14. ASSUME NEW i \in 1 .. n, NEW j \in 1 .. n, i < j
       PROVE  <<Arranged(S, order)[i], Arranged(S, order)[j]>> \in order
  <2>1. rank[Arranged(S, order)[i]] < rank[Arranged(S, order)[j]]
    BY <1>0, <1>12, <1>14
  <2>2. ~ (rank[Arranged(S, order)[j]] < rank[Arranged(S, order)[i]])
    BY <1>0, <1>12, <1>14
  <2> QED
    BY <1>0, <1>4, <1>12, <1>14, <2>1, <2>2 DEF IsStrictOrder
<1>15. ASSUME NEW x \in S
       PROVE  \E i \in 1 .. n : Arranged(S, order)[i] = x
  <2>1. rank[x] + 1 \in 1 .. n /\ (rank[x] + 1) - 1 = rank[x]
    BY <1>0, <1>3
  <2>2. Arranged(S, order)[rank[x] + 1] = x
    BY <1>7, <1>12, <2>1
  <2> QED
    BY <2>1, <2>2
<1> QED
  BY <1>0, <1>13, <1>14, <1>15

(* There is one way to lay a set out in an order: at the first place where *)
(* two layouts differed, each would have the element of the other later.   *)
LEMMA ArrangedUnique ==
    ASSUME NEW S, NEW order, IsStrictOrder(S, order),
           NEW n \in Nat, NEW e \in [1 .. n -> S],
           \A i, j \in 1 .. n : i < j => <<e[i], e[j]>> \in order,
           \A x \in S : \E i \in 1 .. n : e[i] = x
    PROVE  /\ IsFiniteSet(S) /\ Cardinality(S) = n
           /\ Arranged(S, order) = e
<1> DEFINE a == Arranged(S, order)
<1>1. IsFiniteSet(S) /\ Cardinality(S) = n
  <2>1. \A i, j \in 1 .. n : e[i] = e[j] => i = j
    <3> SUFFICES ASSUME NEW i \in 1 .. n, NEW j \in 1 .. n, e[i] = e[j]
                 PROVE  ~ (i < j) /\ ~ (j < i)
      OBVIOUS
    <3>1. e[i] \in S /\ e[j] \in S
      OBVIOUS
    <3>2. <<e[i], e[j]>> \notin order /\ <<e[j], e[i]>> \notin order
      BY <3>1 DEF IsStrictOrder
    <3> QED
      BY <3>2
  <2>2. e \in Bijection(1 .. n, S)
    BY <2>1 DEF Bijection, Injection, IsInjective, Surjection
  <2>3. IsFiniteSet(1 .. n) /\ Cardinality(1 .. n) = n
    BY FS_Interval
  <2> QED
    BY <2>2, <2>3, FS_Bijection DEF ExistsBijection
<1>2. /\ a \in [1 .. n -> S]
      /\ \A i, j \in 1 .. n : i < j => <<a[i], a[j]>> \in order
      /\ \A x \in S : \E i \in 1 .. n : a[i] = x
  <2>0. IsFiniteSet(S)
    BY <1>1
  <2>1. a \in [1 .. Cardinality(S) -> S]
    BY <2>0, ArrangedFacts
  <2>2. \A i, j \in 1 .. Cardinality(S) : i < j => <<a[i], a[j]>> \in order
    BY <2>0, ArrangedFacts
  <2>3. \A x \in S : \E i \in 1 .. Cardinality(S) : a[i] = x
    BY <2>0, ArrangedFacts
  <2> HIDE DEF a
  <2> QED
    BY <1>1, <2>1, <2>2, <2>3
<1> HIDE DEF a
<1> DEFINE T == {k \in 1 .. n : a[k] # e[k]}
<1>3. ASSUME T # {}
      PROVE  FALSE
  <2>1. T \in SUBSET Nat
    OBVIOUS
  <2>2. PICK k \in T : \A m \in T : k <= m
    BY <1>3, <2>1, LeastElement
  <2>3. k \in 1 .. n /\ a[k] # e[k]
    OBVIOUS
  <2>4. \A m \in 1 .. n : m < k => a[m] = e[m]
    <3>1. \A m \in 1 .. n : m < k => m \notin T
      BY <2>1, <2>2, <2>3
    <3> QED
      BY <3>1
  <2> HIDE DEF T
  <2>5. PICK j \in 1 .. n : e[j] = a[k]
    BY <1>2, <2>3
  <2>6. PICK i \in 1 .. n : a[i] = e[k]
    BY <1>2, <2>3
  <2>7. k < j /\ k < i
    <3>1. ~ (j < k)
      BY <1>2, <2>3, <2>4, <2>5 DEF IsStrictOrder
    <3>2. ~ (i < k)
      BY <1>2, <2>3, <2>4, <2>6 DEF IsStrictOrder
    <3> QED
      BY <2>3, <2>5, <2>6, <3>1, <3>2
  <2>8. <<e[k], a[k]>> \in order /\ <<a[k], e[k]>> \in order
    BY <1>2, <2>3, <2>5, <2>6, <2>7
  <2>9. e[k] \in S /\ a[k] \in S
    BY <1>2, <2>3
  <2> QED
    BY <2>8, <2>9 DEF IsStrictOrder
<1>4. \A k \in 1 .. n : a[k] = e[k]
  BY <1>3
<1>5. a = e
  BY <1>2, <1>4
<1> QED
  BY <1>1, <1>5 DEF a

LEMMA LessThanOrders ==
    ASSUME NEW D \in SUBSET Int
    PROVE  /\ IsStrictOrder(D, LessThan(D))
           /\ \A i, j \in D : <<i, j>> \in LessThan(D) <=> i < j
<1>1. \A i, j \in D : <<i, j>> \in LessThan(D) <=> i < j
  BY DEF LessThan
<1> QED
  BY <1>1 DEF IsStrictOrder

(* The rows at some positions are read at these positions, each once, in   *)
(* ascending order.                                                        *)
LEMMA RowsAtFacts ==
    ASSUME NEW D \in SUBSET Int, IsFiniteSet(D)
    PROVE  /\ Cardinality(D) \in Nat
           /\ \E at \in [1 .. Cardinality(D) -> D] :
                  /\ \A i, j \in 1 .. Cardinality(D) : i < j => at[i] < at[j]
                  /\ \A x \in D : \E i \in 1 .. Cardinality(D) : at[i] = x
                  /\ \A rows : RowsAt(rows, D) =
                         [k \in 1 .. Cardinality(D) |-> rows[at[k]]]
<1> DEFINE at == Arranged(D, LessThan(D))
<1>1. /\ Cardinality(D) \in Nat
      /\ at \in [1 .. Cardinality(D) -> D]
      /\ \A i, j \in 1 .. Cardinality(D) : i < j => <<at[i], at[j]>> \in LessThan(D)
      /\ \A x \in D : \E i \in 1 .. Cardinality(D) : at[i] = x
  BY LessThanOrders, ArrangedFacts
<1>2. \A i, j \in 1 .. Cardinality(D) : i < j => at[i] < at[j]
  BY <1>1, LessThanOrders
<1>3. \A rows : RowsAt(rows, D) = [k \in 1 .. Cardinality(D) |-> rows[at[k]]]
  BY DEF RowsAt
<1> QED
  BY <1>1, <1>2, <1>3

LEMMA RowsAtUnique ==
    ASSUME NEW D \in SUBSET Int, NEW n \in Nat, NEW at \in [1 .. n -> D],
           \A i, j \in 1 .. n : i < j => at[i] < at[j],
           \A x \in D : \E i \in 1 .. n : at[i] = x
    PROVE  /\ IsFiniteSet(D) /\ Cardinality(D) = n
           /\ \A rows : RowsAt(rows, D) = [k \in 1 .. n |-> rows[at[k]]]
<1>1. \A i, j \in 1 .. n : i < j => <<at[i], at[j]>> \in LessThan(D)
  BY LessThanOrders
<1>0. IsStrictOrder(D, LessThan(D))
  BY LessThanOrders
<1>2. /\ IsFiniteSet(D) /\ Cardinality(D) = n
      /\ Arranged(D, LessThan(D)) = at
  BY <1>0, <1>1, ArrangedUnique, ZenonT(60)
<1>3. \A rows : RowsAt(rows, D) = [k \in 1 .. n |-> rows[at[k]]]
  BY <1>2 DEF RowsAt
<1> QED
  BY <1>2, <1>3

(* A row at the end of the table is the last of the rows selected, or is   *)
(* not among them.                                                         *)
LEMMA RowsAtKeeps ==
    ASSUME NEW T, NEW s \in Seq(T), NEW e \in T, NEW D \in SUBSET (1 .. Len(s))
    PROVE  /\ RowsAt(s, D) \in Seq(T) /\ Len(RowsAt(s, D)) = Cardinality(D)
           /\ RowsAt(Append(s, e), D) = RowsAt(s, D)
<1> DEFINE n == Cardinality(D)
           last == Len(s) + 1
           t == Append(s, e)
<1>0. D \in SUBSET Int /\ IsFiniteSet(D) /\ Len(s) \in Nat
  <2>0. Len(s) \in Nat /\ 1 \in Int /\ Len(s) \in Int
    OBVIOUS
  <2>1. IsFiniteSet(1 .. Len(s))
    BY <2>0, FS_Interval
  <2>2. IsFiniteSet(D)
    BY <2>1, FS_Subset
  <2>3. D \in SUBSET Int
    BY <2>0
  <2> QED
    BY <2>0, <2>2, <2>3
<1>1. n \in Nat
  BY <1>0, FS_CardinalityType
<1> HIDE DEF n
<1>2. PICK at \in [1 .. n -> D] :
          /\ \A i, j \in 1 .. n : i < j => at[i] < at[j]
          /\ \A x \in D : \E i \in 1 .. n : at[i] = x
          /\ \A rows : RowsAt(rows, D) = [k \in 1 .. n |-> rows[at[k]]]
  BY <1>0, RowsAtFacts DEF n
<1>3. \A k \in 1 .. n : at[k] \in 1 .. Len(s)
  OBVIOUS
<1>4. /\ t \in Seq(T) /\ Len(t) = last /\ t[last] = e
      /\ \A k \in 1 .. n : t[at[k]] = s[at[k]] /\ s[at[k]] \in T
  BY <1>3
<1>5. RowsAt(s, D) = [k \in 1 .. n |-> s[at[k]]]
      /\ RowsAt(t, D) = [k \in 1 .. n |-> t[at[k]]]
  BY <1>2
<1>6. RowsAt(s, D) \in Seq(T) /\ Len(RowsAt(s, D)) = n
  BY <1>1, <1>4, <1>5
<1>7. RowsAt(t, D) = RowsAt(s, D)
  BY <1>4, <1>5
<1> QED
  BY <1>6, <1>7 DEF n

LEMMA RowsAtAppend ==
    ASSUME NEW T, NEW s \in Seq(T), NEW e \in T, NEW D \in SUBSET (1 .. Len(s))
    PROVE  RowsAt(Append(s, e), D \cup {Len(s) + 1}) = Append(RowsAt(s, D), e)
<1> DEFINE n == Cardinality(D)
           last == Len(s) + 1
           t == Append(s, e)
<1>0. D \in SUBSET Int /\ IsFiniteSet(D) /\ Len(s) \in Nat
  <2>0. Len(s) \in Nat /\ 1 \in Int /\ Len(s) \in Int
    OBVIOUS
  <2>1. IsFiniteSet(1 .. Len(s))
    BY <2>0, FS_Interval
  <2>2. IsFiniteSet(D)
    BY <2>1, FS_Subset
  <2>3. D \in SUBSET Int
    BY <2>0
  <2> QED
    BY <2>0, <2>2, <2>3
<1>1. n \in Nat
  BY <1>0, FS_CardinalityType
<1> HIDE DEF n
<1>2. PICK at \in [1 .. n -> D] :
          /\ \A i, j \in 1 .. n : i < j => at[i] < at[j]
          /\ \A x \in D : \E i \in 1 .. n : at[i] = x
          /\ \A rows : RowsAt(rows, D) = [k \in 1 .. n |-> rows[at[k]]]
  BY <1>0, RowsAtFacts DEF n
<1>3. \A k \in 1 .. n : at[k] \in 1 .. Len(s)
  OBVIOUS
<1>4. /\ t \in Seq(T) /\ Len(t) = last /\ t[last] = e
      /\ \A k \in 1 .. n : t[at[k]] = s[at[k]] /\ s[at[k]] \in T
  BY <1>3
<1>5. RowsAt(s, D) = [k \in 1 .. n |-> s[at[k]]]
      /\ RowsAt(t, D) = [k \in 1 .. n |-> t[at[k]]]
  BY <1>2
<1>6. RowsAt(s, D) \in Seq(T) /\ Len(RowsAt(s, D)) = n
  BY <1>1, <1>4, <1>5
<1> DEFINE E == D \cup {last}
           to == [k \in 1 .. n + 1 |-> IF k = n + 1 THEN last ELSE at[k]]
<1>8. /\ E \in SUBSET Int /\ n + 1 \in Nat /\ to \in [1 .. n + 1 -> E]
      /\ \A i, j \in 1 .. n + 1 : i < j => to[i] < to[j]
      /\ \A x \in E : \E i \in 1 .. n + 1 : to[i] = x
  <2>0. last \in Int
    BY <1>0
  <2>1. E \in SUBSET Int /\ n + 1 \in Nat
    <3> HIDE DEF last
    <3> QED
      BY <1>0, <1>1, <2>0
  <2>2. \A k \in 1 .. n + 1 : k # n + 1 => k \in 1 .. n
    BY <1>1
  <2>3. to \in [1 .. n + 1 -> E]
    BY <2>2
  <2>4. \A i, j \in 1 .. n + 1 : i < j => to[i] < to[j]
    <3> SUFFICES ASSUME NEW i \in 1 .. n + 1, NEW j \in 1 .. n + 1, i < j
                 PROVE  to[i] < to[j]
      OBVIOUS
    <3>1. i \in 1 .. n /\ to[i] = at[i] /\ at[i] \in 1 .. Len(s)
      BY <1>1, <1>3
    <3>2. CASE j = n + 1
      BY <1>0, <3>1, <3>2
    <3>3. CASE j # n + 1
      BY <1>2, <2>2, <3>1, <3>3
    <3> QED
      BY <3>2, <3>3
  <2>5. ASSUME NEW x \in E
        PROVE  \E i \in 1 .. n + 1 : to[i] = x
    <3>1. CASE x = last
      <4>1. n + 1 \in 1 .. n + 1 /\ to[n + 1] = last
        BY <1>1
      <4> QED
        BY <3>1, <4>1
    <3>2. CASE x \in D
      <4>1. PICK i \in 1 .. n : at[i] = x
        BY <1>2, <3>2
      <4>2. i \in 1 .. n + 1 /\ i # n + 1
        BY <1>1
      <4> QED
        BY <4>1, <4>2
    <3> QED
      BY <3>1, <3>2
  <2> QED
    BY <2>1, <2>3, <2>4, <2>5
<1>9. RowsAt(t, E) = [k \in 1 .. n + 1 |-> t[to[k]]]
  <2> HIDE DEF E, to, t
  <2>1. \A rows : RowsAt(rows, E) = [k \in 1 .. n + 1 |-> rows[to[k]]]
    BY <1>8, RowsAtUnique
  <2> QED
    BY <2>1
<1>10. RowsAt(t, E) = Append(RowsAt(s, D), e)
  <2>1. \A k \in 1 .. n + 1 : t[to[k]] = IF k = n + 1 THEN e ELSE s[at[k]]
    <3> SUFFICES ASSUME NEW k \in 1 .. n + 1
                 PROVE  t[to[k]] = IF k = n + 1 THEN e ELSE s[at[k]]
      OBVIOUS
    <3>1. k # n + 1 => k \in 1 .. n
      BY <1>1
    <3> HIDE DEF t
    <3> QED
      BY <1>4, <3>1
  <2>2. /\ DOMAIN Append(RowsAt(s, D), e) = 1 .. n + 1
        /\ Append(RowsAt(s, D), e)[n + 1] = e
        /\ \A k \in 1 .. n : Append(RowsAt(s, D), e)[k] = RowsAt(s, D)[k]
    BY <1>1, <1>6
  <2>3. \A k \in 1 .. n + 1 : k # n + 1 => k \in 1 .. n
    BY <1>1
  <2>4. \A k \in 1 .. n + 1 : Append(RowsAt(s, D), e)[k] = t[to[k]]
    <3> HIDE DEF t, to
    <3> QED
      BY <1>5, <2>1, <2>2, <2>3
  <2>5. Append(RowsAt(s, D), e) = [k \in 1 .. n + 1 |-> Append(RowsAt(s, D), e)[k]]
    <3>1. Append(RowsAt(s, D), e) \in Seq(T)
      BY <1>6
    <3>2. Append(RowsAt(s, D), e)
              \in [1 .. Len(Append(RowsAt(s, D), e)) -> T]
      BY <3>1, LenProperties
    <3>3. DOMAIN Append(RowsAt(s, D), e) = 1 .. Len(Append(RowsAt(s, D), e))
      BY <3>1, LenProperties
    <3> QED
      BY <2>2, <3>2, <3>3
  <2> HIDE DEF t, to, E
  <2> QED
    BY <1>9, <2>4, <2>5
<1> QED
  BY <1>10

(* The stable sort: every position once, the keys in order, equal keys in  *)
(* the order they came in.                                                 *)
LEMMA StableOrderFacts ==
    ASSUME NEW keys \in Seq(Int)
    PROVE  /\ StableOrder(keys) \in [1 .. Len(keys) -> 1 .. Len(keys)]
           /\ \A x \in 1 .. Len(keys) :
                  \E i \in 1 .. Len(keys) : StableOrder(keys)[i] = x
           /\ \A i, j \in 1 .. Len(keys) : i < j =>
                  LET p == StableOrder(keys)[i]
                      q == StableOrder(keys)[j]
                  IN  keys[p] < keys[q] \/ (keys[p] = keys[q] /\ p < q)
<1> DEFINE S == 1 .. Len(keys)
           order == {pair \in S \X S :
                        \/ keys[pair[1]] < keys[pair[2]]
                        \/ keys[pair[1]] = keys[pair[2]] /\ pair[1] < pair[2]}
<1>0. /\ IsFiniteSet(S) /\ Cardinality(S) = Len(keys) /\ DOMAIN keys = S
      /\ \A i \in S : keys[i] \in Int
  <2>1. Len(keys) \in Nat /\ Len(keys) \in Int /\ 1 \in Int
    OBVIOUS
  <2>2. /\ IsFiniteSet(S)
        /\ Cardinality(S) = IF 1 > Len(keys) THEN 0 ELSE Len(keys) - 1 + 1
    BY <2>1, FS_Interval
  <2> QED
    BY <2>1, <2>2
<1>1. \A p, q \in S : <<p, q>> \in order <=>
          keys[p] < keys[q] \/ (keys[p] = keys[q] /\ p < q)
  OBVIOUS
<1>2. StableOrder(keys) = Arranged(S, order)
  BY <1>0 DEF StableOrder
<1>3. \A p \in S : p \in Int
  OBVIOUS
<1> HIDE DEF order, S
<1>4. IsStrictOrder(S, order)
  <2>1. \A x \in S : <<x, x>> \notin order
    BY <1>0, <1>1, <1>3
  <2>2. ASSUME NEW x \in S, NEW y \in S, NEW z \in S,
               <<x, y>> \in order, <<y, z>> \in order
        PROVE  <<x, z>> \in order
    <3>1. /\ keys[x] < keys[y] \/ (keys[x] = keys[y] /\ x < y)
          /\ keys[y] < keys[z] \/ (keys[y] = keys[z] /\ y < z)
      BY <1>1, <2>2
    <3>2. /\ x \in Int /\ y \in Int /\ z \in Int
          /\ keys[x] \in Int /\ keys[y] \in Int /\ keys[z] \in Int
      BY <1>0, <1>3
    <3> QED
      BY <1>1, <3>1, <3>2
  <2>3. ASSUME NEW x \in S, NEW y \in S, x # y
        PROVE  <<x, y>> \in order \/ <<y, x>> \in order
    <3>1. /\ x \in Int /\ y \in Int
          /\ keys[x] \in Int /\ keys[y] \in Int
      BY <1>0, <1>3
    <3> QED
      BY <1>1, <2>3, <3>1
  <2> QED
    BY <2>1, <2>2, <2>3 DEF IsStrictOrder
<1>5. /\ StableOrder(keys) \in [1 .. Len(keys) -> S]
      /\ \A i, j \in 1 .. Len(keys) : i < j =>
             <<StableOrder(keys)[i], StableOrder(keys)[j]>> \in order
      /\ \A x \in S : \E i \in 1 .. Len(keys) : StableOrder(keys)[i] = x
  <2>1. IsFiniteSet(S)
    BY <1>0
  <2>2. /\ Arranged(S, order) \in [1 .. Cardinality(S) -> S]
        /\ \A i, j \in 1 .. Cardinality(S) : i < j =>
               <<Arranged(S, order)[i], Arranged(S, order)[j]>> \in order
        /\ \A x \in S : \E i \in 1 .. Cardinality(S) : Arranged(S, order)[i] = x
    BY <1>4, <2>1, ArrangedFacts
  <2> QED
    BY <1>0, <1>2, <2>2
<1>6. \A i \in 1 .. Len(keys) : StableOrder(keys)[i] \in S
  BY <1>5
<1>7. \A i, j \in 1 .. Len(keys) : i < j =>
          LET p == StableOrder(keys)[i]
              q == StableOrder(keys)[j]
          IN  keys[p] < keys[q] \/ (keys[p] = keys[q] /\ p < q)
  BY <1>1, <1>5, <1>6
<1> QED
  BY <1>5, <1>7 DEF S

(* Sorted rearrangements of one sequence are equal: were u[k] below t[k],  *)
(* the first k of u would be among the first k - 1 of t.                   *)
LEMMA SortedNotBelow ==
    ASSUME NEW n \in Nat, NEW t \in [1 .. n -> Int], NEW u \in [1 .. n -> Int],
           NEW p \in [1 .. n -> 1 .. n],
           \A i, j \in 1 .. n : i < j => t[i] <= t[j],
           \A i, j \in 1 .. n : i < j => u[i] <= u[j],
           \A i, j \in 1 .. n : p[i] = p[j] => i = j,
           \A i \in 1 .. n : u[i] = t[p[i]]
    PROVE  \A k \in 1 .. n : t[k] <= u[k]
<1> SUFFICES ASSUME NEW k \in 1 .. n, u[k] < t[k]
             PROVE  FALSE
  OBVIOUS
<1>1. \A i \in 1 .. k : p[i] \in 1 .. k - 1
  <2> SUFFICES ASSUME NEW i \in 1 .. k
               PROVE  p[i] \in 1 .. k - 1
    OBVIOUS
  <2>1. i \in 1 .. n /\ u[i] <= u[k]
    OBVIOUS
  <2>2. p[i] \in 1 .. n /\ t[p[i]] < t[k]
    BY <2>1
  <2>3. ASSUME k <= p[i]
        PROVE  FALSE
    <3>1. k < p[i] \/ k = p[i]
      BY <2>2, <2>3
    <3>2. t[k] <= t[p[i]] /\ t[k] \in Int /\ t[p[i]] \in Int
      BY <2>2, <3>1, SMTT(30)
    <3> QED
      BY <2>2, <3>2
  <2> QED
    BY <2>2, <2>3
<1> DEFINE f == [i \in 1 .. k |-> p[i]]
<1>2. f \in [1 .. k -> 1 .. k - 1]
  BY <1>1
<1>3. /\ IsFiniteSet(1 .. k) /\ Cardinality(1 .. k) = k
      /\ IsFiniteSet(1 .. k - 1) /\ Cardinality(1 .. k - 1) = k - 1
  <2>1. k \in Int /\ k - 1 \in Int /\ 1 \in Int /\ k >= 1
    OBVIOUS
  <2>2. IsFiniteSet(1 .. k) /\ Cardinality(1 .. k) = k
    BY <2>1, FS_Interval
  <2>3. /\ IsFiniteSet(1 .. k - 1)
        /\ Cardinality(1 .. k - 1) = IF 1 > k - 1 THEN 0 ELSE (k - 1) - 1 + 1
    BY <2>1, FS_Interval
  <2> QED
    BY <2>1, <2>2, <2>3
<1>4. \A x, y \in 1 .. k : f[x] = f[y] => x = y
  <2>1. \A x \in 1 .. k : x \in 1 .. n /\ f[x] = p[x]
    OBVIOUS
  <2> QED
    BY <2>1
<1> HIDE DEF f
<1>5. f \in Injection(1 .. k, 1 .. k - 1)
  BY <1>2, <1>4 DEF Injection, IsInjective
<1>6. Cardinality(1 .. k) <= Cardinality(1 .. k - 1)
  BY <1>3, <1>5, FS_Injection
<1> QED
  BY <1>3, <1>6

SortedTimes(n, t) == \A i, j \in 1 .. n : i < j => t[i] <= t[j]

Permutes(n, p) ==
    /\ p \in [1 .. n -> 1 .. n]
    /\ \A i, j \in 1 .. n : p[i] = p[j] => i = j
    /\ \A x \in 1 .. n : \E i \in 1 .. n : p[i] = x

LEMMA SortedTwice ==
    ASSUME NEW n \in Nat, NEW t \in [1 .. n -> Int], NEW u \in [1 .. n -> Int],
           NEW p, SortedTimes(n, t), SortedTimes(n, u), Permutes(n, p),
           \A i \in 1 .. n : u[i] = t[p[i]]
    PROVE  u = t
<1> USE DEF SortedTimes, Permutes
<1>1. \A k \in 1 .. n : t[k] <= u[k]
  BY SortedNotBelow
<1> DEFINE q == [x \in 1 .. n |-> CHOOSE i \in 1 .. n : p[i] = x]
<1>2. \A x \in 1 .. n : q[x] \in 1 .. n /\ p[q[x]] = x
  OBVIOUS
<1>3. q \in [1 .. n -> 1 .. n]
  BY <1>2
<1> HIDE DEF q
<1>4. \A i, j \in 1 .. n : q[i] = q[j] => i = j
  <2> SUFFICES ASSUME NEW i \in 1 .. n, NEW j \in 1 .. n, q[i] = q[j]
               PROVE  i = j
    OBVIOUS
  <2>1. p[q[i]] = i /\ p[q[j]] = j
    BY <1>2
  <2> QED
    BY <2>1
<1>5. \A i \in 1 .. n : t[i] = u[q[i]]
  BY <1>2
<1>6. \A k \in 1 .. n : u[k] <= t[k]
  BY <1>3, <1>4, <1>5, SortedNotBelow, ZenonT(60)
<1>7. \A k \in 1 .. n : u[k] = t[k]
  BY <1>1, <1>6
<1> QED
  BY <1>7

==============================================================================
