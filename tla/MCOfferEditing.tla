--------------------------- MODULE MCOfferEditing ---------------------------
(* Small instances of OfferEditing.                                         *)
EXTENDS OfferEditing, TLC

CONSTANTS w1, w2, o1, o2

FewPrices == 2 .. 3
\* One seller over the floor and one under it.
TwoRivals == {1, 3}

Symmetric == Permutations(Editor) \cup Permutations(Offer)

=============================================================================
