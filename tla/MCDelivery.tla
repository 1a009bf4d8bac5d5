----------------------------- MODULE MCDelivery -----------------------------
(* Small instances of Delivery: two goroutines, two orders, three items.    *)
EXTENDS Delivery, TLC

CONSTANTS w1, w2, o1, o2, p1, p2, i1, i2, i3

\* An order of one item beside one of two, or one that is clamped to none.
AmountOneTwo  == o1 :> 1 @@ o2 :> 2
AmountOneNone == o1 :> 1 @@ o2 :> -1

\* parseOrderItem never sets Amount.
AmountUnset == [o \in Order |-> 0]

\* A second product matches o1 too.
Matching2 == {<<p1, o1>>, <<p1, o2>>, <<p2, o1>>}

\* The second batch of p1 overwrites the first; or one batch for each product.
BatchTwo == {[product |-> p1, items |-> <<i1>>], [product |-> p1, items |-> <<i2, i3>>]}
BatchPer == {[product |-> p1, items |-> <<i1, i2>>], [product |-> p2, items |-> <<i3>>]}

AssignedShared    == [w \in Worker |-> Order]
AssignedPartition == w1 :> {o1} @@ w2 :> {o2}

\* DeliverOrder for every order, for o1 alone, or for none.
FlowsBoth    == [o \in Order |-> Flow]
FlowsOne     == o1 :> Flow @@ o2 :> {"process"}
FlowsProcess == [o \in Order |-> {"process"}]

Symmetric == Permutations(Worker)

=============================================================================
