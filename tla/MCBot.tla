------------------------------- MODULE MCBot --------------------------------
(* Small instances of Bot: two orders, in one chat or in two.               *)
EXTENDS Bot, TLC

CONSTANTS o1, o2, c1, c2

OneChat  == o1 :> c1 @@ o2 :> c1
TwoChats == o1 :> c1 @@ o2 :> c2

=============================================================================
