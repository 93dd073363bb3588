-------------------------------- MODULE Ordering --------------------------------
(***************************************************************************)
(* Tables in order, as pandas keeps them: the elements of a finite set     *)
(* laid out by an order, the rows a mask selects, and the stable sort.     *)
(* An order is the set of its pairs.  Each operator is first-order, so     *)
(* that proofs can cite it.                                                *)
(***************************************************************************)
EXTENDS Integers, Sequences, FiniteSets

(* The elements of S, the k-th being the one that k - 1 others precede.    *)
Arranged(S, order) ==
    [k \in 1 .. Cardinality(S) |->
        CHOOSE x \in S : Cardinality({y \in S : <<y, x>> \in order}) = k - 1]

LessThan(S) == {pair \in S \X S : pair[1] < pair[2]}

(* The rows at some positions of a table, in the order of the table.       *)
RowsAt(rows, positions) ==
    LET order == Arranged(positions, LessThan(positions))
    IN  [k \in 1 .. Cardinality(positions) |-> rows[order[k]]]

(* The positions as a stable sort by the keys leaves them (mergesort).     *)
StableOrder(keys) ==
    Arranged(DOMAIN keys,
             {pair \in (DOMAIN keys) \X (DOMAIN keys) :
                 \/ keys[pair[1]] < keys[pair[2]]
                 \/ keys[pair[1]] = keys[pair[2]] /\ pair[1] < pair[2]})
==============================================================================
