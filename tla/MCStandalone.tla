---------------------------- MODULE MCStandalone ----------------------------
(* Small instances of Standalone.                                           *)
EXTENDS Standalone

CONSTANTS n1, n2

TwoPasses == <<[old |-> <<"{", "b">>, new |-> <<"B">>],
               [old |-> <<"{", "i">>, new |-> <<"I", "J", "K">>]>>

=============================================================================
