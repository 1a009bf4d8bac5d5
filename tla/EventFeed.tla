----------------------------- MODULE EventFeed ------------------------------
(***************************************************************************)
(* What the bot promises its handler, whatever is fetched twice, answered  *)
(* out of order or cut by a crash: a batch of news is first remembered for *)
(* good, then handed out one by one; a crash may lose the rest of a batch, *)
(* but nothing remembered ever gets into a batch again.                    *)
(***************************************************************************)
EXTENDS Naturals, Sequences

CONSTANTS Order, Chat

VARIABLES
  known,   \* remembered: a set of orders, and the last message id of each chat
  batch,   \* remembered, and yet to be handed out
  told,    \* how often each order was handed out
  heard    \* the message ids of each chat that were handed out

Init ==
  /\ known = [orders |-> {}, msgs |-> [c \in Chat |-> 0]]
  /\ batch = <<>>
  /\ told = [o \in Order |-> 0]
  /\ heard = [c \in Chat |-> <<>>]

\* The event was not known before and is known now.
Remembered(e) ==
  IF e.kind = "order"
  THEN e.order \in known'.orders \ known.orders
  ELSE known.msgs[e.chat] < e.id /\ e.id <= known'.msgs[e.chat]

\* An order occurs once in a batch, the messages of a chat in their order.
Before(e, f) ==
  IF e.kind = "order"
  THEN f.kind = "order" => e.order # f.order
  ELSE f.kind = "message" /\ f.chat = e.chat => e.id < f.id

Remember ==
  /\ batch = <<>>
  /\ known.orders \subseteq known'.orders
  /\ \A c \in Chat : known.msgs[c] <= known'.msgs[c]
  /\ \A k \in DOMAIN batch' : Remembered(batch'[k])
  /\ \A j, k \in DOMAIN batch' : j < k => Before(batch'[j], batch'[k])
  /\ UNCHANGED <<told, heard>>

HandOut ==
  /\ batch # <<>>
  /\ batch' = Tail(batch)
  /\ LET e == Head(batch) IN
       \/ /\ e.kind = "order"
          /\ told' = [told EXCEPT ![e.order] = @ + 1]
          /\ UNCHANGED heard
       \/ /\ e.kind = "message"
          /\ heard' = [heard EXCEPT ![e.chat] = Append(@, e.id)]
          /\ UNCHANGED told
  /\ UNCHANGED known

Lose ==
  /\ batch # <<>>
  /\ batch' = <<>>
  /\ UNCHANGED <<known, told, heard>>

Next == Remember \/ HandOut \/ Lose

Spec == Init /\ [][Next]_<<known, batch, told, heard>>

=============================================================================
