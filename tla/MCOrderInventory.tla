--------------------------- MODULE MCOrderInventory ---------------------------
(* Instances of OrderInventory for TLC *)
EXTENDS OrderInventory, TLC

\* One order of one line, one of two
OneLine == {<<"l1">>}
TwoLines == {<<"l1", "l2">>}

\* An order of two pieces, and one of two and one more, whose second line has
\* perhaps no SKU yet
Bound(q) == [sku |-> "s1", qty |-> q]
OnePlaced == {[l \in Lines |-> Bound(2)]}
TwoPlaced == {[l \in Lines |-> IF l = "l1" THEN Bound(2) ELSE second] :
                second \in {Bound(1), [sku |-> NoSku, qty |-> 1]}}

SouthFirst == <<"south", "main">>

Asks(owner, reason, pin) ==
  [owner |-> owner, reason |-> reason, neg |-> FALSE, pin |-> pin]

\* The request that creates an order, or two administrators who deduct it by
\* hand, one of them from a warehouse he has picked
ByHand == {Asks("ann", "manual_api", NoPin), Asks("bob", "manual_api", "south")}
CreateOnly == {Asks("ann", "order_created", NoPin)}

Two == [s \in Skus |-> 2]
One == [s \in Skus |-> 1]
Inbound == {[sku |-> "s1", wh |-> "south", qty |-> 1]}

Symmetry == Permutations(Callers)
===============================================================================
