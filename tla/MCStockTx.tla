------------------------------ MODULE MCStockTx ------------------------------
(* Order o1 wants both items, order o2 one unit of the first.              *)
EXTENDS StockTx, TLC

CONSTANTS i1, i2, o1, o2, w1, w2

Wanted == {<<o1, i1>>, <<o1, i2>>, <<o2, i1>>}
MCDemand == [o \in Orders |-> [i \in Items |-> IF <<o, i>> \in Wanted THEN 1 ELSE 0]]
MCRank == [i \in Items |-> IF i = i1 THEN 1 ELSE 2]
UpTo(n) == {[onHand |-> k, reserved |-> 0, status |-> "active"] : k \in 0..n}
OneUnit == UpTo(1)
TwoUnits == UpTo(2)
Symmetry == Permutations(Workers)
=============================================================================
