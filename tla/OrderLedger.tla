---------------------------- MODULE OrderLedger -----------------------------
(***************************************************************************)
(* What the delivery of orders promises, whatever goroutines, stores and   *)
(* restarts do underneath: an order is open, then claimed, then closed;    *)
(* a claim may be withdrawn only if nothing was handed over; goods are     *)
(* handed over once, never for an open order; closed is for ever.          *)
(* ProcessPaidOrder sends before it closes.  DeliverOrder closes before it *)
(* returns the goods, so an order the host may pass to it (Direct) can be  *)
(* closed and still without goods, for good if the process dies just then. *)
(***************************************************************************)
EXTENDS Naturals

CONSTANTS
  Order,
  Direct   \* the orders the host may pass to DeliverOrder

VARIABLES
  phase,   \* "open", "claimed" or "closed", for each order
  handed   \* how often the goods of each order were handed over

Init ==
  /\ phase = [o \in Order |-> "open"]
  /\ handed = [o \in Order |-> 0]

Claim(o) ==
  /\ phase[o] = "open"
  /\ phase' = [phase EXCEPT ![o] = "claimed"]
  /\ UNCHANGED handed

Withdraw(o) ==
  /\ phase[o] = "claimed"
  /\ handed[o] = 0
  /\ phase' = [phase EXCEPT ![o] = "open"]
  /\ UNCHANGED handed

\* Under the claim; or, by DeliverOrder, once the order is closed.
HandOver(o) ==
  /\ phase[o] = "claimed" \/ (o \in Direct /\ phase[o] = "closed")
  /\ handed[o] = 0
  /\ handed' = [handed EXCEPT ![o] = 1]
  /\ UNCHANGED phase

\* The claim becomes a delivered record.
Close(o) ==
  /\ phase[o] = "claimed"
  /\ o \in Direct \/ handed[o] = 1
  /\ phase' = [phase EXCEPT ![o] = "closed"]
  /\ UNCHANGED handed

Next == \E o \in Order : Claim(o) \/ Withdraw(o) \/ HandOver(o) \/ Close(o)

Spec == Init /\ [][Next]_<<phase, handed>>

=============================================================================
