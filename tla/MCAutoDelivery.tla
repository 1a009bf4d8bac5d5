--------------------------- MODULE MCAutoDelivery ---------------------------
(* Small instances of AutoDelivery: two orders in chats of their own.        *)
EXTENDS AutoDelivery, TLC

CONSTANTS o1, o2, c1, c2, p1, i1, i2

TwoChats  == o1 :> c1 @@ o2 :> c2

\* The host asked FetchOrderPage for the amount of o1; o2 is as the orders
\* page leaves it.
Amounts == o1 :> 1 @@ o2 :> 0

\* o2 is for something the store does not sell.
OneMatch  == {<<p1, o1>>}

\* The second may replace the first, or be put on sale after a restart.
TwoBatches == {[product |-> p1, items |-> <<i1>>], [product |-> p1, items |-> <<i2>>]}

=============================================================================
