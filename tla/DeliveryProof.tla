--------------------------- MODULE DeliveryProof ----------------------------
(***************************************************************************)
(* Theorems of Delivery, for every number of goroutines, orders, products  *)
(* and items.                                                              *)
(***************************************************************************)
EXTENDS Delivery, FiniteSetTheorems, TLAPS

-----------------------------------------------------------------------------
(* Operators.                                                               *)

\* A reservation takes exactly what was asked for when the stock suffices,
\* and both parts of the split are sequences of items (matchOrderLocked and
\* Deliver slice at the same index).
LEMMA SplitType ==
  ASSUME NEW s \in Seq(Item), NEW n \in Nat, n <= Len(s)
  PROVE  /\ SubSeq(s, 1, n) \in Seq(Item)
         /\ SubSeq(s, n + 1, Len(s)) \in Seq(Item)
  OBVIOUS

\* A negative or missing amount asks for nothing.
LEMMA RequestedType ==
  ASSUME NEW o \in Order
  PROVE  Requested(o) \in Nat
  BY ConstantsAssumption DEF Requested

\* The placeholder call has the type of a call.
LEMMA NoCallType == NoCall \in [flow : Flow, order : Order]
<1>1. PICK o \in Order : TRUE
  BY ConstantsAssumption
<1>2. [flow |-> "process", order |-> o] \in [flow : Flow, order : Order]
  BY DEF Flow
<1>3. QED
  BY <1>2 DEF NoCall

-----------------------------------------------------------------------------
(* Type correctness.                                                        *)

\* From the reservation to the end of the call a goroutine knows the product
\* its items came from: what is released goes back to a product, never to None.
\* Only ProcessPaidOrder sends, or takes back; only DeliverOrder returns items.
HoldsReservation ==
  \A w \in Worker :
    /\ pc[w] \in {"claim", "send", "release", "unclaim", "commit", "return"} =>
         reserved[w].product \in Product
    /\ pc[w] \in {"send", "release", "unclaim"} => call[w].flow = "process"
    /\ pc[w] = "return" => call[w].flow = "deliver"

\* A call in flight is one the host may make for its order.
FlowInUse == \A w \in Worker : pc[w] \in Phase => call[w].flow \in Flows[ord(w)]

TypeInv == TypeOK /\ HoldsReservation /\ FlowInUse

LEMMA InitType == Init => TypeInv
  BY ConstantsAssumption, NoCallType
  DEF Init, TypeInv, HoldsReservation, FlowInUse, TypeOK, NoRecord, Record, Status, Nothing,
      Reservation, Outcome, Phase

LEMMA ReserveType ==
  ASSUME TypeOK, NEW w \in Worker, Reserve(w)
  PROVE  TypeOK'
<1> USE DEF Goto
<1>o. ord(w) \in Order
  BY DEF TypeOK, ord
<1>1. CASE UNCHANGED <<stock, reserved>> /\ pc' \in [Worker -> Phase \cup Outcome]
  BY <1>1 DEF Reserve, TypeOK
<1>2. ASSUME NEW p \in Candidates(ord(w)), Len(stock[p]) >= Requested(ord(w)),
             reserved' = [reserved EXCEPT ![w] =
                            [product |-> p, items |-> Taken(p, Requested(ord(w)))]],
             stock' = [stock EXCEPT ![p] = Rest(p, Requested(ord(w)))],
             Goto(w, "claim")
      PROVE  TypeOK'
  <2>1. p \in Product
    BY <1>2 DEF Candidates, TypeOK
  <2>2. /\ Taken(p, Requested(ord(w))) \in Seq(Item)
        /\ Rest(p, Requested(ord(w))) \in Seq(Item)
    <3>1. stock[p] \in Seq(Item)
      BY <2>1 DEF TypeOK
    <3>2. Requested(ord(w)) <= Len(stock[p])
      BY <1>2, <1>o, <3>1, RequestedType
    <3>3. QED
      BY <1>o, <3>1, <3>2, SplitType, RequestedType DEF Taken, Rest
  <2>3. reserved' \in [Worker -> Reservation]
    BY <1>2, <2>1, <2>2 DEF TypeOK, Reservation
  <2>4. stock' \in [Product -> Seq(Item)]
    BY <1>2, <2>1, <2>2 DEF TypeOK
  <2>5. QED
    BY <1>2, <2>3, <2>4 DEF Reserve, TypeOK, Phase
<1>3. QED
  BY <1>1, <1>2 DEF Reserve, TypeOK, Phase, Outcome

LEMMA ClaimType ==
  ASSUME TypeOK, NEW w \in Worker, ClaimPending(w)
  PROVE  TypeOK'
<1>1. Claim(w) \in Record
  BY DEF TypeOK, Claim, Record, Status, Reservation
<1>2. ord(w) \in Order /\ AfterClaim(w) \in Phase
  BY DEF TypeOK, ord, AfterClaim, Phase
<1>3. Nothing \in Reservation
  BY DEF Nothing, Reservation
<1>4. /\ {"StoreError", "AlreadyDelivered"} \subseteq Outcome
      /\ UNCHANGED <<listed, stock, added, call, inbox>>
  BY DEF ClaimPending, Outcome
<1>5. CASE UNCHANGED records /\ \E x \in Outcome : Return(w, x)
  BY <1>3, <1>4, <1>5 DEF TypeOK, Return, Goto
<1>6. CASE records' = [records EXCEPT ![ord(w)] = Claim(w)]
           /\ Goto(w, AfterClaim(w)) /\ UNCHANGED reserved
  BY <1>1, <1>2, <1>4, <1>6 DEF TypeOK, Goto
<1>7. QED
  BY <1>4, <1>5, <1>6 DEF ClaimPending

LEMMA SendType ==
  ASSUME TypeOK, NEW w \in Worker, SendDeliveryMessage(w)
  PROVE  TypeOK'
<1>1. ord(w) \in Order /\ reserved[w].items \in Seq(Item)
  BY DEF TypeOK, ord, Reservation
<1>2. Hand(w) => inbox' \in [Order -> Seq(Seq(Item))]
  BY <1>1 DEF Hand, TypeOK
<1>3. QED
  BY <1>2 DEF SendDeliveryMessage, TypeOK, Goto, Phase, AfterRefusal

LEMMA ReleaseReservedType ==
  ASSUME TypeOK, HoldsReservation, NEW w \in Worker, ReleaseReserved(w)
  PROVE  TypeOK'
<1>p. reserved[w].product \in Product
  BY DEF ReleaseReserved, HoldsReservation
<1>1. Restored(w) \in Seq(Item)
  BY <1>p DEF TypeOK, Restored, Reservation
<1>2. QED
  BY <1>p, <1>1 DEF ReleaseReserved, TypeOK, Goto, Phase

LEMMA ReleasePendingType ==
  ASSUME TypeOK, NEW w \in Worker, ReleasePending(w)
  PROVE  TypeOK'
<1>1. ord(w) \in Order
  BY DEF TypeOK, ord
<1>2. Withdrawn(ord(w)) \in Record /\ Nothing \in Reservation
  BY <1>1 DEF TypeOK, Withdrawn, NoRecord, Record, Status, Nothing, Reservation
<1>3. QED
  BY <1>1, <1>2 DEF ReleasePending, TypeOK, Return, Goto, Outcome

LEMMA CommitType ==
  ASSUME TypeOK, NEW w \in Worker, CommitDelivered(w)
  PROVE  TypeOK'
<1>1. ord(w) \in Order /\ reserved[w].items \in Seq(Item)
  BY DEF TypeOK, ord, Reservation
<1>2. Completed(w) \in Record /\ Nothing \in Reservation
  BY <1>1 DEF Completed, Record, Status, Nothing, Reservation
<1>3. /\ records' \in [Order -> Record]
      /\ UNCHANGED <<listed, stock, added, call, inbox>>
  BY <1>1, <1>2 DEF CommitDelivered, TypeOK
<1>4. CASE \E x \in {"StoreError", "Ok"} : Return(w, x)
  BY <1>2, <1>3, <1>4 DEF TypeOK, Return, Goto, Outcome
<1>5. CASE Goto(w, "return") /\ UNCHANGED reserved
  BY <1>3, <1>5 DEF TypeOK, Goto, Phase
<1>6. QED
  BY <1>4, <1>5 DEF CommitDelivered

LEMMA ReturnType ==
  ASSUME TypeOK, NEW w \in Worker, ReturnItems(w)
  PROVE  TypeOK'
<1>1. ord(w) \in Order /\ reserved[w].items \in Seq(Item) /\ Nothing \in Reservation
  BY DEF TypeOK, ord, Reservation, Nothing
<1>2. inbox' \in [Order -> Seq(Seq(Item))]
  BY <1>1 DEF ReturnItems, Hand, TypeOK
<1>3. QED
  BY <1>1, <1>2 DEF ReturnItems, TypeOK, Return, Goto, Outcome

LEMMA StepHoldsReservation ==
  ASSUME TypeOK, HoldsReservation, NEW w \in Worker, Step(w)
  PROVE  HoldsReservation'
<1> USE DEF HoldsReservation, TypeOK, Goto, Return
<1>1. CASE ContainsOrder(w)
  BY <1>1 DEF ContainsOrder
<1>2. CASE Reserve(w)
  <2>1. ASSUME NEW p \in Product,
               reserved' = [reserved EXCEPT ![w] =
                              [product |-> p, items |-> Taken(p, Requested(ord(w)))]],
               pc' = [pc EXCEPT ![w] = "claim"], call' = call
        PROVE  HoldsReservation'
    BY <2>1
  <2>2. CASE UNCHANGED <<reserved, call>> /\ pc'[w] \in {"ProductNotFound", "NotEnoughItems"}
             /\ \A v \in Worker \ {w} : pc'[v] = pc[v]
    BY <2>2
  <2>3. Candidates(ord(w)) \subseteq Product
    BY DEF Candidates
  <2>4. QED
    BY <1>2, <2>1, <2>2, <2>3 DEF Reserve
<1>3. CASE ClaimPending(w)
  BY <1>3 DEF ClaimPending, AfterClaim
<1>4. CASE SendDeliveryMessage(w)
  BY <1>4 DEF SendDeliveryMessage, AfterRefusal
<1>5. CASE ReleaseReserved(w)
  BY <1>5 DEF ReleaseReserved
<1>6. CASE ReleasePending(w)
  BY <1>6 DEF ReleasePending
<1>7. CASE CommitDelivered(w)
  BY <1>7 DEF CommitDelivered
<1>8. CASE ReturnItems(w)
  BY <1>8 DEF ReturnItems
<1>9. QED
  BY <1>1, <1>2, <1>3, <1>4, <1>5, <1>6, <1>7, <1>8 DEF Step

LEMMA NextFlowInUse == TypeOK /\ FlowInUse /\ [Next]_vars => FlowInUse'
<1> SUFFICES ASSUME TypeOK, FlowInUse, [Next]_vars
             PROVE  FlowInUse'
  OBVIOUS
<1> USE DEF FlowInUse, ord
<1>1. ASSUME NEW b \in Batch, AddProduct(b)
      PROVE  FlowInUse'
  BY <1>1 DEF AddProduct
<1>2. ASSUME NEW w \in Worker, Call(w)
      PROVE  FlowInUse'
  <2>0. PICK o \in Assigned[w] :
          \E f \in Flows[o], step \in {"OrderNotPaid", "check"} :
            /\ call' = [call EXCEPT ![w] = [flow |-> f, order |-> o]]
            /\ pc' = [pc EXCEPT ![w] = step]
    BY <1>2 DEF Call, Goto
  <2>1. PICK f \in Flows[o], step \in {"OrderNotPaid", "check"} :
          /\ call' = [call EXCEPT ![w] = [flow |-> f, order |-> o]]
          /\ pc' = [pc EXCEPT ![w] = step]
    BY <2>0
  <2>2. call'[w].flow = f /\ call'[w].order = o
    BY <2>1 DEF TypeOK
  <2>3. \A v \in Worker \ {w} : call'[v] = call[v] /\ pc'[v] = pc[v]
    BY <2>1 DEF TypeOK
  <2>4. QED
    BY <2>1, <2>2, <2>3
<1>3. ASSUME NEW w \in Worker, Step(w)
      PROVE  FlowInUse'
  <2>1. pc[w] \in Phase /\ call' = call
    BY <1>3 DEF Step, ContainsOrder, Reserve, ClaimPending, SendDeliveryMessage,
       ReleaseReserved, ReleasePending, CommitDelivered, ReturnItems, Phase
  <2>2. \A v \in Worker \ {w} : pc'[v] = pc[v]
    BY <1>3 DEF Step, ContainsOrder, Reserve, ClaimPending, SendDeliveryMessage,
       ReleaseReserved, ReleasePending, CommitDelivered, ReturnItems, Return, Goto, TypeOK
  <2>3. QED
    BY <2>1, <2>2
<1>4. CASE Crash
  BY <1>4 DEF Crash, Phase
<1>5. CASE UNCHANGED vars
  BY <1>5 DEF vars
<1>6. QED
  BY <1>1, <1>2, <1>3, <1>4, <1>5 DEF Next

LEMMA NextType == TypeInv /\ [Next]_vars => TypeInv'
<1> SUFFICES ASSUME TypeOK, HoldsReservation, [Next]_vars
             PROVE  TypeOK' /\ HoldsReservation'
  BY NextFlowInUse DEF TypeInv
<1>1. ASSUME NEW b \in Batch, AddProduct(b)
      PROVE  TypeOK' /\ HoldsReservation'
  <2>1. b.product \in Product /\ b.items \in Seq(Item)
    BY ConstantsAssumption
  <2>2. QED
    BY <1>1, <2>1 DEF AddProduct, TypeOK, HoldsReservation
<1>2. ASSUME NEW w \in Worker, Call(w)
      PROVE  TypeOK' /\ HoldsReservation'
  <2>0. PICK o \in Assigned[w] :
          \E f \in Flows[o], step \in {"OrderNotPaid", "check"} :
            /\ call' = [call EXCEPT ![w] = [flow |-> f, order |-> o]]
            /\ pc' = [pc EXCEPT ![w] = step]
    BY <1>2 DEF Call, Goto
  <2>1. PICK f \in Flows[o], step \in {"OrderNotPaid", "check"} :
          /\ call' = [call EXCEPT ![w] = [flow |-> f, order |-> o]]
          /\ pc' = [pc EXCEPT ![w] = step]
    BY <2>0
  <2>2. [flow |-> f, order |-> o] \in [flow : Flow, order : Order]
    BY ConstantsAssumption
  <2>3. step \in Phase \cup Outcome
    BY DEF Phase, Outcome
  <2>4. QED
    BY <1>2, <2>1, <2>2, <2>3 DEF Call, TypeOK, HoldsReservation
<1>3. ASSUME NEW w \in Worker, Step(w)
      PROVE  TypeOK' /\ HoldsReservation'
  <2>1. CASE ContainsOrder(w)
    <3>1. PICK step \in {"StoreError", "reserve", "AlreadyDelivered"} :
            pc' = [pc EXCEPT ![w] = step]
      BY <2>1 DEF ContainsOrder, Goto
    <3>2. step \in Phase \cup Outcome
      BY DEF Phase, Outcome
    <3>3. QED
      BY <2>1, <3>1, <3>2, StepHoldsReservation DEF Step, ContainsOrder, TypeOK
  <2>2. QED
    BY <1>3, <2>1, StepHoldsReservation, ReserveType, ClaimType, SendType,
       ReleaseReservedType, ReleasePendingType, CommitType, ReturnType DEF Step
<1>4. CASE Crash
  BY <1>4, NoCallType DEF Crash, TypeOK, HoldsReservation, Surviving, NoRecord, Record,
     Status, Nothing, Reservation, Outcome
<1>5. CASE UNCHANGED vars
  BY <1>5 DEF vars, TypeOK, HoldsReservation
<1>6. QED
  BY <1>1, <1>2, <1>3, <1>4, <1>5 DEF Next

\* Every variable keeps its type, and a reservation its product, whatever the
\* goroutines, the faults and the restarts do.
THEOREM Typed == Spec => []TypeInv
  BY InitType, NextType, PTL DEF Spec

\* TypeOK holds in every reachable state of Delivery.
THEOREM TypeCorrect == Spec => []TypeOK
<1>1. TypeInv => TypeOK
  BY DEF TypeInv
<1>2. QED
  BY <1>1, Typed, PTL

-----------------------------------------------------------------------------
(* A claim belongs to one goroutine.                                        *)

\* A step of w leaves the calls and every other goroutine's locals alone, and
\* touches no record or inbox but those of its own order.
LEMMA Frame ==
  ASSUME TypeOK, NEW w \in Worker, Step(w)
  PROVE  /\ call' = call
         /\ \A v \in Worker \ {w} : pc'[v] = pc[v] /\ reserved'[v] = reserved[v]
         /\ \A o \in Order \ {ord(w)} : records'[o] = records[o] /\ inbox'[o] = inbox[o]
<1> USE DEF TypeOK, Goto, Return
<1>1. CASE ContainsOrder(w)
  BY <1>1 DEF ContainsOrder
<1>2. CASE Reserve(w)
  BY <1>2 DEF Reserve
<1>3. CASE ClaimPending(w)
  BY <1>3 DEF ClaimPending
<1>4. CASE SendDeliveryMessage(w)
  BY <1>4 DEF SendDeliveryMessage, Hand
<1>5. CASE ReleaseReserved(w)
  BY <1>5 DEF ReleaseReserved
<1>6. CASE ReleasePending(w)
  BY <1>6 DEF ReleasePending
<1>7. CASE CommitDelivered(w)
  BY <1>7 DEF CommitDelivered
<1>8. CASE ReturnItems(w)
  BY <1>8 DEF ReturnItems, Hand
<1>9. QED
  BY <1>1, <1>2, <1>3, <1>4, <1>5, <1>6, <1>7, <1>8 DEF Step

\* The three ways a step can bear on a claim: it makes one on a vacant order,
\* it works under its own, or it ends its own and changes no other record; the
\* return of the items, after the claim, changes no record at all.
LEMMA StepKinds ==
  ASSUME TypeOK, ClaimExclusive, NEW w \in Worker, Step(w)
  PROVE  \/ /\ Owns(w)' /\ ~Owns(w) /\ Vacant(ord(w))
            /\ records' = [records EXCEPT ![ord(w)] = Claim(w)]
            /\ reserved' = reserved /\ inbox' = inbox
         \/ Owns(w)' /\ Owns(w) /\ records' = records /\ reserved' = reserved
         \/ ~Owns(w)' /\ (~Owns(w) => records' = records /\ (pc[w] # "return" => inbox' = inbox))
<1> USE DEF TypeOK, Goto, Return, Owns
<1>1. CASE ContainsOrder(w)
  BY <1>1 DEF ContainsOrder
<1>2. CASE Reserve(w)
  BY <1>2 DEF Reserve
<1>3. CASE ClaimPending(w)
  BY <1>3 DEF ClaimPending, AfterClaim
<1>4. CASE SendDeliveryMessage(w)
  BY <1>4 DEF SendDeliveryMessage, AfterRefusal
<1>5. CASE ReleaseReserved(w)
  BY <1>5 DEF ReleaseReserved
<1>6. CASE ReleasePending(w)
  BY <1>6 DEF ReleasePending
<1>7. CASE CommitDelivered(w)
  BY <1>7 DEF CommitDelivered
<1>8. CASE ReturnItems(w)
  BY <1>8 DEF ReturnItems
<1>9. QED
  BY <1>1, <1>2, <1>3, <1>4, <1>5, <1>6, <1>7, <1>8 DEF Step

LEMMA OwnedIsPending ==
  ASSUME ClaimExclusive
  PROVE  \A v \in Worker : Owns(v) => records[ord(v)].status = "pending"
<1>1. \A v \in Worker : Owns(v) => records[ord(v)] = Claim(v)
  BY DEF ClaimExclusive
<1>2. \A v \in Worker : Claim(v).status = "pending"
  BY DEF Claim
<1>3. QED
  BY <1>1, <1>2

LEMMA StepExclusive ==
  ASSUME TypeOK, ClaimExclusive, NEW w \in Worker, Step(w)
  PROVE  ClaimExclusive'
<1>1. /\ \A v \in Worker : ord(v)' = ord(v) /\ ord(v) \in Order
      /\ \A v \in Worker \ {w} : (Owns(v)' <=> Owns(v)) /\ Claim(v)' = Claim(v)
      /\ \A o \in Order \ {ord(w)} : records'[o] = records[o]
  BY Frame DEF ord, Owns, Claim, TypeOK
<1>2. CASE /\ Owns(w)' /\ ~Owns(w) /\ Vacant(ord(w))
           /\ records' = [records EXCEPT ![ord(w)] = Claim(w)]
           /\ reserved' = reserved
  <2>1. \A v \in Worker : Owns(v) => ord(v) # ord(w)
    <3>1. records[ord(w)].status = "absent"
      BY <1>2 DEF Vacant
    <3>2. QED
      BY <3>1, OwnedIsPending
  <2>2. records'[ord(w)] = Claim(w)' /\ Claim(w)' = Claim(w)
    BY <1>1, <1>2 DEF TypeOK, Claim
  <2>3. QED
    BY <1>1, <2>1, <2>2 DEF ClaimExclusive
<1>3. CASE Owns(w)' /\ Owns(w) /\ records' = records /\ reserved' = reserved
  <2>1. Claim(w)' = Claim(w)
    BY <1>3 DEF Claim
  <2>2. QED
    BY <1>1, <1>3, <2>1 DEF ClaimExclusive
<1>4. CASE ~Owns(w)' /\ (~Owns(w) => records' = records)
  <2>1. ASSUME NEW v \in Worker \ {w}, Owns(v)
        PROVE  records'[ord(v)] = records[ord(v)]
    BY <1>1, <1>4, <2>1 DEF ClaimExclusive
  <2>2. QED
    BY <1>1, <1>4, <2>1 DEF ClaimExclusive
<1>5. QED
  BY <1>2, <1>3, <1>4, StepKinds

LEMMA NextExclusive == TypeInv /\ ClaimExclusive /\ [Next]_vars => ClaimExclusive'
<1> SUFFICES ASSUME TypeOK, ClaimExclusive, [Next]_vars
             PROVE  ClaimExclusive'
  BY DEF TypeInv
<1> USE DEF ClaimExclusive, Owns, Claim, ord
<1>1. ASSUME NEW b \in Batch, AddProduct(b)
      PROVE  ClaimExclusive'
  BY <1>1 DEF AddProduct
<1>2. ASSUME NEW w \in Worker, Call(w)
      PROVE  ClaimExclusive'
  <2>1. /\ ~Owns(w) /\ ~Owns(w)'
        /\ \A v \in Worker \ {w} : pc'[v] = pc[v] /\ call'[v] = call[v]
        /\ UNCHANGED <<records, reserved>>
    BY <1>2 DEF Call, Goto, TypeOK, Outcome
  <2>2. QED
    BY <2>1
<1>3. ASSUME NEW w \in Worker, Step(w)
      PROVE  ClaimExclusive'
  BY <1>3, StepExclusive
<1>4. CASE Crash
  BY <1>4 DEF Crash
<1>5. CASE UNCHANGED vars
  BY <1>5 DEF vars
<1>6. QED
  BY <1>1, <1>2, <1>3, <1>4, <1>5 DEF Next

\* No two goroutines are ever past ClaimPending for the same order, and the
\* claimed record stays pending with the items reserved: with any store, any
\* failure, any lost reply and any restart.
THEOREM ClaimIsExclusive == Spec => []ClaimExclusive
<1>1. Init => ClaimExclusive
  BY DEF Init, ClaimExclusive, Owns
<1>2. QED
  BY <1>1, NextExclusive, Typed, PTL DEF Spec

-----------------------------------------------------------------------------
(* A DeliverOrder between its commit and its return.                        *)

\* It is the only one to return this order's items, and the record lists them.
ReturnsAlone ==
  \A w \in Worker : pc[w] = "return" =>
    /\ records[ord(w)] = Completed(w)
    /\ \A v \in Worker \ {w} : pc[v] = "return" => ord(v) # ord(w)

LEMMA ReturnedIsDelivered ==
  ASSUME ReturnsAlone
  PROVE  \A v \in Worker : pc[v] = "return" => records[ord(v)].status = "delivered"
<1>1. \A v \in Worker : Completed(v).status = "delivered"
  BY DEF Completed
<1>2. QED
  BY <1>1 DEF ReturnsAlone

\* Those who work under a claim, or have just committed, work on different
\* orders.
LEMMA WorkApart ==
  ASSUME ClaimExclusive, ReturnsAlone, NEW v \in Worker, NEW w \in Worker, v # w,
         Owns(v) \/ pc[v] = "return", Owns(w) \/ pc[w] = "return"
  PROVE  ord(v) # ord(w)
  BY OwnedIsPending, ReturnedIsDelivered DEF ClaimExclusive, ReturnsAlone

LEMMA StepReturnsAlone ==
  ASSUME TypeOK, ClaimExclusive, ReturnsAlone, NEW w \in Worker, Step(w)
  PROVE  ReturnsAlone'
<1>1. /\ \A v \in Worker : ord(v)' = ord(v) /\ ord(v) \in Order
      /\ \A v \in Worker \ {w} : pc'[v] = pc[v] /\ Completed(v)' = Completed(v)
      /\ \A o \in Order \ {ord(w)} : records'[o] = records[o]
  BY Frame DEF ord, Completed, TypeOK
<1>2. ASSUME NEW v \in Worker \ {w}, pc[v] = "return"
      PROVE  records'[ord(v)] = Completed(v)'
  <2>1. CASE ord(v) # ord(w)
    BY <1>1, <1>2, <2>1 DEF ReturnsAlone
  <2>2. CASE ord(v) = ord(w)
    <3>1. ~Owns(w) /\ ~Vacant(ord(w))
      BY <1>2, <2>2, OwnedIsPending, ReturnedIsDelivered DEF Vacant
    <3>2. records' = records
      BY <3>1, StepKinds
    <3>3. QED
      BY <1>1, <1>2, <3>2 DEF ReturnsAlone
  <2>3. QED
    BY <2>1, <2>2
<1>3. ASSUME pc'[w] = "return"
      PROVE  /\ records'[ord(w)] = Completed(w)'
             /\ \A v \in Worker \ {w} : pc[v] = "return" => ord(v) # ord(w)
  <2>1. CommitDelivered(w)
    BY <1>3 DEF Step, ContainsOrder, Reserve, ClaimPending, AfterClaim, SendDeliveryMessage,
       AfterRefusal, ReleaseReserved, ReleasePending, ReturnItems, Return, Goto, TypeOK
  <2>2. records' = [records EXCEPT ![ord(w)] = Completed(w)] /\ reserved' = reserved
    BY <1>3, <2>1 DEF CommitDelivered, Return, Goto, TypeOK
  <2>3. records'[ord(w)] = Completed(w)'
    BY <1>1, <2>2 DEF TypeOK, Completed
  <2>4. Owns(w)
    BY <2>1 DEF CommitDelivered, Owns
  <2>5. QED
    BY <2>3, <2>4, WorkApart
<1>4. QED
  BY <1>1, <1>2, <1>3 DEF ReturnsAlone

LEMMA NextReturnsAlone ==
  TypeInv /\ ClaimExclusive /\ ReturnsAlone /\ [Next]_vars => ReturnsAlone'
<1> SUFFICES ASSUME TypeOK, ClaimExclusive, ReturnsAlone, [Next]_vars
             PROVE  ReturnsAlone'
  BY DEF TypeInv
<1> USE DEF ReturnsAlone, Completed, ord
<1>1. ASSUME NEW b \in Batch, AddProduct(b)
      PROVE  ReturnsAlone'
  BY <1>1 DEF AddProduct
<1>2. ASSUME NEW w \in Worker, Call(w)
      PROVE  ReturnsAlone'
  <2>1. /\ pc'[w] # "return" /\ UNCHANGED <<records, reserved>>
        /\ \A v \in Worker \ {w} : pc'[v] = pc[v] /\ call'[v] = call[v]
    BY <1>2 DEF Call, Goto, TypeOK
  <2>2. QED
    BY <2>1
<1>3. ASSUME NEW w \in Worker, Step(w)
      PROVE  ReturnsAlone'
  BY <1>3, StepReturnsAlone
<1>4. CASE Crash
  BY <1>4 DEF Crash
<1>5. CASE UNCHANGED vars
  BY <1>5 DEF vars
<1>6. QED
  BY <1>1, <1>2, <1>3, <1>4, <1>5 DEF Next

LEMMA ReturnIsAlone == Spec => []ReturnsAlone
<1>1. Init => ReturnsAlone
  BY DEF Init, ReturnsAlone
<1>2. QED
  BY <1>1, NextReturnsAlone, Typed, ClaimIsExclusive, PTL DEF Spec

-----------------------------------------------------------------------------
(* The buyer is served at most once.                                        *)

\* The goroutine has a claim, or has just committed, and has not yet handed
\* anything over.
Unserved(w) ==
  \/ pc[w] \in {"send", "release", "unclaim", "return"}
  \/ pc[w] = "commit" /\ call[w].flow = "deliver"

\* AtMostOnceDelivery is not inductive: it needs that whoever is about to hand
\* goods over, or to make an order available again, finds an empty inbox.
ServedOnce ==
  /\ AtMostOnceDelivery
  /\ \A o \in Order : Vacant(o) => inbox[o] = <<>>
  /\ \A w \in Worker : Unserved(w) => inbox[ord(w)] = <<>>

\* One more delivery to a buyer who had none.
LEMMA HandOnce ==
  ASSUME TypeOK, NEW w \in Worker, Hand(w), inbox[ord(w)] = <<>>
  PROVE  /\ inbox'[ord(w)] = <<reserved[w].items>>
         /\ Len(inbox'[ord(w)]) <= 1
         /\ \A o \in Order \ {ord(w)} : inbox'[o] = inbox[o]
<1>1. ord(w) \in Order /\ reserved[w].items \in Seq(Item)
  BY DEF TypeOK, ord, Reservation
<1>2. inbox' = [inbox EXCEPT ![ord(w)] = Append(<<>>, reserved[w].items)]
  BY DEF Hand
<1>3. QED
  BY <1>1, <1>2 DEF TypeOK

\* ServedOnce only has to be re-established for the order of the step and for
\* the goroutine that takes it.
LEMMA ServedLocally ==
  ASSUME TypeOK, ClaimExclusive, ReturnsAlone, ServedOnce, NEW w \in Worker, Step(w),
         Len(inbox'[ord(w)]) <= 1,
         Vacant(ord(w))' => inbox'[ord(w)] = <<>>,
         Unserved(w)' => inbox'[ord(w)] = <<>>,
         Owns(w) \/ pc[w] = "return" \/ inbox' = inbox
  PROVE  ServedOnce'
<1>1. \A v \in Worker : ord(v)' = ord(v) /\ ord(v) \in Order
  BY Frame DEF ord, TypeOK
<1>2. AtMostOnceDelivery'
  <2>1. ASSUME NEW o \in Order
        PROVE  Len(inbox'[o]) <= 1
    BY Frame DEF ServedOnce, AtMostOnceDelivery
  <2>2. QED
    BY <2>1 DEF AtMostOnceDelivery
<1>3. \A o \in Order : Vacant(o)' => inbox'[o] = <<>>
  BY <1>1, Frame DEF ServedOnce, Vacant
<1>4. ASSUME NEW v \in Worker \ {w}, Unserved(v)'
      PROVE  inbox'[ord(v)] = <<>>
  <2>1. Unserved(v) /\ (Owns(v) \/ pc[v] = "return")
    BY <1>4, Frame DEF Unserved, Owns
  <2>2. inbox[ord(v)] = <<>>
    BY <2>1 DEF ServedOnce
  <2>3. CASE Owns(w) \/ pc[w] = "return"
    <3>1. ord(v) # ord(w) /\ ord(v) \in Order
      BY <1>1, <2>1, <2>3, WorkApart
    <3>2. QED
      BY <2>2, <3>1, Frame
  <2>4. CASE inbox' = inbox
    BY <2>2, <2>4
  <2>5. QED
    BY <2>3, <2>4
<1>5. QED
  BY <1>1, <1>2, <1>3, <1>4 DEF ServedOnce

LEMMA StepServed ==
  ASSUME ~LostReplies, TypeOK, HoldsReservation, ClaimExclusive, ReturnsAlone, ServedOnce,
         NEW w \in Worker, Step(w)
  PROVE  ServedOnce'
<1>o. ord(w) \in Order /\ Len(inbox[ord(w)]) <= 1
  BY DEF TypeOK, ord, ServedOnce, AtMostOnceDelivery
<1>u. Unserved(w) => inbox[ord(w)] = <<>>
  BY DEF ServedOnce
<1>v. Vacant(ord(w)) => inbox[ord(w)] = <<>>
  BY <1>o DEF ServedOnce
<1>1. CASE ContainsOrder(w)
  BY <1>1, <1>o, <1>v, ServedLocally
  DEF ContainsOrder, Goto, TypeOK, Step, Unserved, Vacant, ord
<1>2. CASE Reserve(w)
  <2>1. ~Unserved(w)'
    BY <1>2 DEF Reserve, Unserved, Goto, TypeOK
  <2>2. Vacant(ord(w))' <=> Vacant(ord(w))
    BY <1>2 DEF Reserve, Vacant, ord
  <2>3. QED
    BY <1>2, <1>o, <1>v, <2>1, <2>2, ServedLocally DEF Reserve, Step
<1>3. CASE ClaimPending(w)
  <2>1. inbox' = inbox /\ (Unserved(w)' => Vacant(ord(w)))
    BY <1>3 DEF ClaimPending, Unserved, Return, Goto, TypeOK
  <2>2. Vacant(ord(w))' => Vacant(ord(w))
    <3>1. Claim(w).status # "absent" /\ ord(w)' = ord(w)
      BY <1>3 DEF Claim, ClaimPending, ord
    <3>2. QED
      BY <1>3, <1>o, <3>1 DEF ClaimPending, Vacant, TypeOK
  <2>3. QED
    BY <1>3, <1>o, <1>v, <2>1, <2>2, ServedLocally DEF Step
<1>4. CASE SendDeliveryMessage(w)
  <2>1. Owns(w) /\ Unserved(w) /\ records[ord(w)].status = "pending"
    BY <1>4, OwnedIsPending DEF SendDeliveryMessage, Owns, Unserved
  <2>2. ~Vacant(ord(w))'
    BY <1>4, <2>1 DEF SendDeliveryMessage, Vacant, ord
  <2>3. CASE Hand(w) /\ Goto(w, "commit")
    <3>1. Len(inbox'[ord(w)]) <= 1
      BY <1>u, <2>1, <2>3, HandOnce
    <3>2. ~Unserved(w)'
      BY <1>4, <2>3 DEF Unserved, Goto, TypeOK, SendDeliveryMessage, HoldsReservation
    <3>3. QED
      BY <1>4, <2>1, <2>2, <3>1, <3>2, ServedLocally DEF Step
  <2>4. CASE UNCHANGED inbox
    BY <1>4, <1>o, <1>u, <2>1, <2>2, <2>4, ServedLocally DEF Step
  <2>5. QED
    BY <1>4, <2>3, <2>4 DEF SendDeliveryMessage
<1>5. CASE ReleaseReserved(w)
  <2>1. inbox' = inbox /\ Unserved(w)
    BY <1>5 DEF ReleaseReserved, Unserved
  <2>2. QED
    BY <1>5, <1>o, <1>u, <2>1, ServedLocally DEF Step
<1>6. CASE ReleasePending(w)
  <2>1. inbox' = inbox /\ Unserved(w)
    BY <1>6 DEF ReleasePending, Unserved
  <2>2. QED
    BY <1>6, <1>o, <1>u, <2>1, ServedLocally DEF Step
<1>7. CASE CommitDelivered(w)
  <2>1. /\ Owns(w) /\ inbox' = inbox /\ records[ord(w)].status = "pending" /\ ord(w)' = ord(w)
        /\ Unserved(w)' => Unserved(w)
    BY <1>7, OwnedIsPending DEF CommitDelivered, Owns, Unserved, Return, Goto, TypeOK, ord
  <2>2. ~Vacant(ord(w))'
    <3>1. Completed(w).status # "absent"
      BY DEF Completed
    <3>2. QED
      BY <1>7, <1>o, <2>1, <3>1 DEF CommitDelivered, Vacant, TypeOK
  <2>3. QED
    BY <1>7, <1>o, <1>u, <2>1, <2>2, ServedLocally DEF Step
<1>8. CASE ReturnItems(w)
  <2>1. /\ pc[w] = "return" /\ Unserved(w) /\ ~Unserved(w)' /\ Hand(w)
        /\ UNCHANGED records /\ ord(w)' = ord(w)
    BY <1>8 DEF ReturnItems, Unserved, Return, Goto, TypeOK, ord
  <2>2. Len(inbox'[ord(w)]) <= 1
    BY <1>u, <2>1, HandOnce
  <2>3. ~Vacant(ord(w))'
    BY <2>1, ReturnedIsDelivered DEF Vacant
  <2>4. QED
    BY <1>8, <2>1, <2>2, <2>3, ServedLocally DEF Step
<1>9. QED
  BY <1>1, <1>2, <1>3, <1>4, <1>5, <1>6, <1>7, <1>8 DEF Step

\* Every step but those of a call keeps records and inboxes, and adds no
\* goroutine that works under a claim or returns items; only a crash ends one.
LEMMA OtherSteps ==
  ASSUME TypeOK, Crashes => Persistent, Next, \A w \in Worker : ~Step(w)
  PROVE  /\ \A o \in Order : records'[o] = records[o]
         /\ inbox' = inbox
         /\ \A w \in Worker : Owns(w)' \/ pc'[w] = "return" \/ (pc[w] = "return" /\ ~Crashes) =>
              pc'[w] = pc[w] /\ call'[w] = call[w] /\ reserved'[w] = reserved[w]
         /\ \A w \in Worker : pc'[w] = "Ok" => pc[w] = "Ok" /\ call'[w] = call[w]
<1>1. ASSUME NEW b \in Batch, AddProduct(b)
      PROVE  UNCHANGED <<records, inbox, pc, call, reserved>>
  BY <1>1 DEF AddProduct
<1>2. CASE \E b \in Batch : AddProduct(b)
  BY <1>1, <1>2
<1>3. ASSUME NEW w \in Worker, Call(w)
      PROVE  /\ UNCHANGED <<records, inbox, reserved>>
             /\ ~Owns(w)' /\ pc'[w] \notin {"Ok", "return"} /\ pc[w] # "return"
             /\ \A v \in Worker \ {w} : pc'[v] = pc[v] /\ call'[v] = call[v]
  BY <1>3 DEF Call, Goto, Owns, TypeOK, Outcome
<1>4. CASE \E w \in Worker : Call(w)
  BY <1>3, <1>4
<1>5. CASE Crash
  BY <1>5 DEF Crash, Surviving, Owns
<1>6. QED
  BY <1>2, <1>4, <1>5 DEF Next

LEMMA NextServed ==
  ASSUME ~LostReplies, Crashes => Persistent
  PROVE  TypeInv /\ ClaimExclusive /\ ReturnsAlone /\ ServedOnce /\ [Next]_vars => ServedOnce'
<1> SUFFICES ASSUME TypeOK, HoldsReservation, ClaimExclusive, ReturnsAlone, ServedOnce, [Next]_vars
             PROVE  ServedOnce'
  BY DEF TypeInv
<1>1. CASE \E w \in Worker : Step(w)
  BY <1>1, StepServed
<1>2. CASE Next /\ \A w \in Worker : ~Step(w)
  <2>1. AtMostOnceDelivery'
    BY <1>2, OtherSteps DEF ServedOnce, AtMostOnceDelivery
  <2>2. \A o \in Order : Vacant(o)' => inbox'[o] = <<>>
    BY <1>2, OtherSteps DEF ServedOnce, Vacant
  <2>3. ASSUME NEW w \in Worker, Unserved(w)'
        PROVE  inbox'[ord(w)'] = <<>>
    <3>1. Owns(w)' \/ pc'[w] = "return"
      BY <2>3 DEF Unserved, Owns
    <3>2. Unserved(w) /\ ord(w)' = ord(w)
      BY <1>2, <2>3, <3>1, OtherSteps DEF Unserved, ord
    <3>3. QED
      BY <1>2, <3>2, OtherSteps DEF ServedOnce
  <2>4. QED
    BY <2>1, <2>2, <2>3 DEF ServedOnce
<1>3. CASE UNCHANGED vars
  BY <1>3 DEF vars, ServedOnce, AtMostOnceDelivery, Vacant, Unserved, ord
<1>4. QED
  BY <1>1, <1>2, <1>3

\* When an error of SendMessage means that nothing arrived, and the records
\* survive a restart, no buyer is handed the goods of an order twice, however
\* many goroutines process it and whatever the store does.
THEOREM ServedAtMostOnce ==
  ASSUME ~LostReplies, Crashes => Persistent
  PROVE  Spec => []AtMostOnceDelivery
<1>1. Init => ServedOnce
  BY DEF Init, ServedOnce, AtMostOnceDelivery, Unserved
<1>2. ServedOnce => AtMostOnceDelivery
  BY DEF ServedOnce
<1>3. TypeInv /\ ClaimExclusive /\ ReturnsAlone /\ ServedOnce /\ [Next]_vars => ServedOnce'
  BY NextServed
<1>4. QED
  BY <1>1, <1>2, <1>3, Typed, ClaimIsExclusive, ReturnIsAlone, PTL DEF Spec

-----------------------------------------------------------------------------
(* Delivered is for ever.                                                   *)

LEMMA NextDurable ==
  ASSUME Crashes => Persistent
  PROVE  TypeInv /\ ClaimExclusive /\ [Next]_vars =>
           \A o \in Order : records[o].status = "delivered" => records'[o] = records[o]
<1> SUFFICES ASSUME TypeOK, ClaimExclusive, [Next]_vars,
                    NEW o \in Order, records[o].status = "delivered"
             PROVE  records'[o] = records[o]
  BY DEF TypeInv
<1>1. ASSUME NEW w \in Worker, Step(w)
      PROVE  records'[o] = records[o]
  <2>1. CASE o # ord(w)
    BY <1>1, <2>1, Frame
  <2>2. CASE o = ord(w)
    <3>1. ~Owns(w) /\ ~Vacant(ord(w))
      BY <2>2, OwnedIsPending DEF Vacant
    <3>2. records' = records
      BY <1>1, <3>1, StepKinds
    <3>3. QED
      BY <3>2
  <2>3. QED
    BY <2>1, <2>2
<1>2. CASE Next /\ \A w \in Worker : ~Step(w)
  BY <1>2, OtherSteps
<1>3. CASE UNCHANGED vars
  BY <1>3 DEF vars
<1>4. QED
  BY <1>1, <1>2, <1>3

\* A delivered record is never changed again, by any goroutine, failed call,
\* lost reply or restart, as long as the records survive a restart.
THEOREM DeliveredIsForever ==
  ASSUME Crashes => Persistent
  PROVE  Spec => RecordDurable
<1>1. TypeInv /\ ClaimExclusive /\ [Next]_vars =>
        [\A o \in Order : records[o].status = "delivered" => records'[o] = records[o]]_vars
  BY NextDurable
<1>2. QED
  BY <1>1, Typed, ClaimIsExclusive, PTL DEF Spec, RecordDurable

-----------------------------------------------------------------------------
(* What a record says is what the buyer got.                                *)

\* Before its commit, ProcessPaidOrder has sent the very items the commit will
\* record; RecordTruthful is not inductive without it.
SentBefore ==
  \A w \in Worker : pc[w] = "commit" /\ call[w].flow = "process" =>
    GotLast(ord(w), reserved[w].items)

\* The last element of a sequence that was appended to.
LEMMA LastOfAppend ==
  ASSUME NEW T, NEW s \in Seq(T), NEW e \in T
  PROVE  Append(s, e) # <<>> /\ Append(s, e)[Len(Append(s, e))] = e
  OBVIOUS

LEMMA HandLast ==
  ASSUME TypeOK, NEW w \in Worker, Hand(w)
  PROVE  /\ inbox'[ord(w)] # <<>>
         /\ inbox'[ord(w)][Len(inbox'[ord(w)])] = reserved[w].items
<1>1. ord(w) \in Order /\ reserved[w].items \in Seq(Item) /\ inbox[ord(w)] \in Seq(Seq(Item))
  BY DEF TypeOK, ord, Reservation
<1>2. inbox'[ord(w)] = Append(inbox[ord(w)], reserved[w].items)
  BY <1>1 DEF Hand, TypeOK
<1>3. /\ Append(inbox[ord(w)], reserved[w].items) # <<>>
      /\ Append(inbox[ord(w)], reserved[w].items)
           [Len(Append(inbox[ord(w)], reserved[w].items))] = reserved[w].items
  BY <1>1, LastOfAppend, Zenon
<1>4. QED
  BY <1>2, <1>3

LEMMA StepSentBefore ==
  ASSUME TypeOK, HoldsReservation, ClaimExclusive, ReturnsAlone, SentBefore,
         NEW w \in Worker, Step(w)
  PROVE  SentBefore'
<1>o. /\ \A v \in Worker : ord(v)' = ord(v) /\ ord(v) \in Order
      /\ \A v \in Worker : reserved[v].items \in Seq(Item)
  BY Frame DEF ord, TypeOK, Reservation
<1>1. ASSUME NEW v \in Worker, pc'[v] = "commit", call'[v].flow = "process"
      PROVE  GotLast(ord(v), reserved[v].items)'
  <2>1. CASE v # w
    <3>1. /\ pc[v] = "commit" /\ call[v].flow = "process" /\ reserved'[v] = reserved[v]
          /\ Owns(v)
      BY <1>1, <2>1, Frame DEF Owns
    <3>2. inbox'[ord(v)] = inbox[ord(v)]
      <4>1. CASE ord(v) # ord(w)
        BY <1>o, <4>1, Frame
      <4>2. CASE ord(v) = ord(w)
        <5>1. ~Owns(w) /\ ~Vacant(ord(w)) /\ pc[w] # "return"
          BY <2>1, <3>1, <4>2, OwnedIsPending, WorkApart DEF Vacant
        <5>2. ~Owns(w)'
          BY <5>1, StepKinds
        <5>3. QED
          BY <5>1, <5>2, StepKinds
      <4>3. QED
        BY <4>1, <4>2
    <3>3. QED
      BY <1>o, <3>1, <3>2 DEF SentBefore, GotLast
  <2>2. CASE v = w
    <3>1. SendDeliveryMessage(w)
      BY <1>1, <2>2 DEF Step, ContainsOrder, Reserve, ClaimPending, AfterClaim,
         CommitDelivered, ReleaseReserved, ReleasePending, ReturnItems, Return, Goto, TypeOK
    <3>2. Hand(w) /\ reserved' = reserved
      BY <1>1, <2>2, <3>1 DEF SendDeliveryMessage, AfterRefusal, Goto, TypeOK
    <3>3. QED
      BY <1>o, <2>2, <3>2, HandLast DEF GotLast
  <2>3. QED
    BY <2>1, <2>2
<1>2. QED
  BY <1>1, <1>o DEF SentBefore

LEMMA NextSentBefore ==
  TypeInv /\ ClaimExclusive /\ ReturnsAlone /\ SentBefore /\ [Next]_vars => SentBefore'
<1> SUFFICES ASSUME TypeOK, HoldsReservation, ClaimExclusive, ReturnsAlone, SentBefore, [Next]_vars
             PROVE  SentBefore'
  BY DEF TypeInv
<1>1. ASSUME NEW b \in Batch, AddProduct(b)
      PROVE  SentBefore'
  BY <1>1 DEF AddProduct, SentBefore, GotLast, ord
<1>2. ASSUME NEW w \in Worker, Call(w)
      PROVE  SentBefore'
  <2>1. /\ pc'[w] # "commit" /\ UNCHANGED <<inbox, reserved>>
        /\ \A v \in Worker \ {w} : pc'[v] = pc[v] /\ call'[v] = call[v]
    BY <1>2 DEF Call, Goto, TypeOK
  <2>2. QED
    BY <2>1 DEF SentBefore, GotLast, ord
<1>3. ASSUME NEW w \in Worker, Step(w)
      PROVE  SentBefore'
  BY <1>3, StepSentBefore
<1>4. CASE Crash
  BY <1>4 DEF Crash, SentBefore
<1>5. CASE UNCHANGED vars
  BY <1>5 DEF vars, SentBefore, GotLast, ord
<1>6. QED
  BY <1>1, <1>2, <1>3, <1>4, <1>5 DEF Next

LEMMA SentIsBefore == Spec => []SentBefore
<1>1. Init => SentBefore
  BY DEF Init, SentBefore
<1>2. QED
  BY <1>1, NextSentBefore, Typed, ClaimIsExclusive, ReturnIsAlone, PTL DEF Spec

\* Only CommitDelivered makes a record delivered, and by then the buyer has
\* the items, or its caller holds them and returns them next.
LEMMA CommitTruthful ==
  ASSUME TypeOK, HoldsReservation, SentBefore, NEW w \in Worker, CommitDelivered(w),
         records' # records
  PROVE  /\ records'[ord(w)] = Completed(w)
         /\ Completed(w).items = reserved[w].items
         /\ \/ /\ inbox'[ord(w)] # <<>>
               /\ inbox'[ord(w)][Len(inbox'[ord(w)])] = reserved[w].items
            \/ pc'[w] = "return" /\ reserved' = reserved
<1>1. /\ ord(w) \in Order /\ reserved[w].items \in Seq(Item) /\ ord(w)' = ord(w)
      /\ Completed(w).items = reserved[w].items /\ inbox' = inbox
  BY DEF TypeOK, ord, Reservation, Completed, CommitDelivered
<1>2. records'[ord(w)] = Completed(w)
  BY <1>1 DEF CommitDelivered, TypeOK
<1>3. CASE call[w].flow = "deliver"
  <2>1. pc'[w] = "return" /\ reserved' = reserved
    BY <1>3 DEF CommitDelivered, Goto, TypeOK
  <2>2. QED
    BY <1>1, <1>2, <2>1
<1>4. CASE call[w].flow # "deliver"
  <2>1. call[w].flow = "process" /\ pc[w] = "commit"
    BY <1>4 DEF CommitDelivered, TypeOK, Flow
  <2>2. GotLast(ord(w), reserved[w].items)
    BY <2>1 DEF SentBefore
  <2>3. inbox'[ord(w)] # <<>> /\ inbox'[ord(w)][Len(inbox'[ord(w)])] = reserved[w].items
    BY <1>1, <2>2 DEF GotLast
  <2>4. QED
    BY <1>1, <1>2, <2>3
<1>5. QED
  BY <1>3, <1>4

LEMMA StepTruthful ==
  ASSUME TypeOK, HoldsReservation, ClaimExclusive, ReturnsAlone, SentBefore, RecordTruthful,
         NEW w \in Worker, Step(w)
  PROVE  RecordTruthful'
<1>o. /\ \A v \in Worker : ord(v)' = ord(v) /\ ord(v) \in Order
      /\ \A v \in Worker : reserved[v].items \in Seq(Item)
  BY Frame DEF ord, TypeOK, Reservation
<1>k. \A o \in Order : records[o].status = "delivered" =>
        records'[o] = records[o] /\ (inbox'[o] = inbox[o] \/ (o = ord(w) /\ ReturnItems(w)))
  <2>1. ASSUME NEW o \in Order, records[o].status = "delivered", o = ord(w)
        PROVE  records'[o] = records[o] /\ (inbox'[o] = inbox[o] \/ ReturnItems(w))
    <3>1. ~Owns(w) /\ ~Vacant(ord(w))
      BY <2>1, OwnedIsPending DEF Vacant
    <3>2. \/ Owns(w)' /\ Owns(w)
          \/ Vacant(ord(w))
          \/ records' = records /\ (pc[w] # "return" => inbox' = inbox)
      BY <3>1, StepKinds
    <3>3. pc[w] = "return" => ReturnItems(w)
      BY DEF Step, ContainsOrder, Reserve, ClaimPending, SendDeliveryMessage, ReleaseReserved,
         ReleasePending, CommitDelivered
    <3>4. QED
      BY <3>1, <3>2, <3>3
  <2>2. QED
    BY <2>1, Frame
<1>r. ASSUME ReturnItems(w)
      PROVE  /\ records' = records /\ records[ord(w)].status = "delivered"
             /\ records[ord(w)].items = reserved[w].items
             /\ inbox'[ord(w)] # <<>> /\ inbox'[ord(w)][Len(inbox'[ord(w)])] = reserved[w].items
  <2>1. /\ pc[w] = "return" /\ Hand(w) /\ records' = records
    BY <1>r DEF ReturnItems
  <2>2. inbox'[ord(w)] # <<>> /\ inbox'[ord(w)][Len(inbox'[ord(w)])] = reserved[w].items
    BY <2>1, HandLast
  <2>3. records[ord(w)] = Completed(w)
    BY <2>1 DEF ReturnsAlone
  <2>4. QED
    BY <2>1, <2>2, <2>3 DEF Completed
<1>n. ASSUME NEW o \in Order, records'[o].status = "delivered", records[o].status # "delivered"
      PROVE  CommitDelivered(w) /\ o = ord(w) /\ records' # records
  <2>1. o = ord(w)
    BY <1>n, Frame
  <2>2. records'[o].status # "delivered" \/ CommitDelivered(w)
    <3>1. Claim(w).status # "delivered" /\ NoRecord.status # "delivered"
      BY DEF Claim, NoRecord
    <3>2. Withdrawn(o) = NoRecord \/ Withdrawn(o) = records[o]
      BY DEF Withdrawn
    <3>3. ClaimPending(w) => records' = records \/ records'[o] = Claim(w)
      BY <2>1 DEF ClaimPending, TypeOK
    <3>4. ReleasePending(w) => records' = records \/ records'[o] = Withdrawn(o)
      BY <2>1 DEF ReleasePending, TypeOK
    <3>5. ContainsOrder(w) \/ Reserve(w) \/ SendDeliveryMessage(w) \/ ReleaseReserved(w)
            \/ ReturnItems(w) => records' = records
      BY DEF ContainsOrder, Reserve, SendDeliveryMessage, ReleaseReserved, ReturnItems
    <3>6. QED
      BY <1>n, <3>1, <3>2, <3>3, <3>4, <3>5 DEF Step
  <2>3. QED
    BY <1>n, <2>1, <2>2
<1>1. ASSUME NEW o \in Order, records'[o].status = "delivered"
      PROVE  GotLast(o, records[o].items)' \/ OnTheWay(o, records[o].items)'
  <2>1. CASE records[o].status = "delivered" /\ ~(o = ord(w) /\ ReturnItems(w))
    <3>1. records'[o] = records[o] /\ inbox'[o] = inbox[o]
      BY <1>k, <2>1
    <3>2. CASE GotLast(o, records[o].items)
      BY <3>1, <3>2 DEF GotLast
    <3>3. CASE OnTheWay(o, records[o].items)
      <4>1. PICK v \in Worker : pc[v] = "return" /\ ord(v) = o /\ reserved[v].items = records[o].items
        BY <3>3 DEF OnTheWay
      <4>2. v # w
        BY <2>1, <4>1 DEF Step, ContainsOrder, Reserve, ClaimPending, SendDeliveryMessage,
           ReleaseReserved, ReleasePending, CommitDelivered
      <4>3. pc'[v] = "return" /\ ord(v)' = o /\ reserved'[v].items = records'[o].items
        BY <1>o, <3>1, <4>1, <4>2, Frame
      <4>4. QED
        BY <4>3 DEF OnTheWay
    <3>4. QED
      BY <2>1, <3>2, <3>3 DEF RecordTruthful
  <2>2. CASE o = ord(w) /\ ReturnItems(w)
    BY <1>r, <2>2 DEF GotLast
  <2>3. CASE records[o].status # "delivered"
    <3>1. CommitDelivered(w) /\ o = ord(w) /\ records' # records
      BY <1>1, <1>n, <2>3
    <3>2. /\ records'[o] = Completed(w) /\ Completed(w).items = reserved[w].items
          /\ \/ inbox'[o] # <<>> /\ inbox'[o][Len(inbox'[o])] = reserved[w].items
             \/ pc'[w] = "return" /\ reserved' = reserved
      BY <3>1, CommitTruthful
    <3>3. CASE inbox'[o] # <<>> /\ inbox'[o][Len(inbox'[o])] = reserved[w].items
      BY <3>2, <3>3 DEF GotLast
    <3>4. CASE pc'[w] = "return" /\ reserved' = reserved
      BY <1>o, <3>1, <3>2, <3>4 DEF OnTheWay
    <3>5. QED
      BY <3>2, <3>3, <3>4
  <2>4. QED
    BY <2>1, <2>2, <2>3
<1>2. ASSUME NEW v \in Worker, pc'[v] = "Ok"
      PROVE  records'[ord(v)].status = "delivered"
  <2>1. CASE pc[v] = "Ok"
    BY <1>k, <1>o, <2>1 DEF RecordTruthful
  <2>2. CASE pc[v] # "Ok"
    <3>1. v = w
      BY <1>2, <2>2, Frame
    <3>2. CommitDelivered(w) \/ ReturnItems(w)
      BY <1>2, <2>2, <3>1 DEF Step, ContainsOrder, Reserve, ClaimPending, AfterClaim,
         SendDeliveryMessage, AfterRefusal, ReleaseReserved, ReleasePending, Return, Goto, TypeOK
    <3>3. CASE CommitDelivered(w)
      <4>1. records'[ord(w)] = Completed(w)
        BY <1>2, <1>o, <3>1, <3>3 DEF CommitDelivered, Return, Goto, TypeOK
      <4>2. QED
        BY <3>1, <4>1 DEF Completed
    <3>4. QED
      BY <1>r, <3>1, <3>2, <3>3
  <2>3. QED
    BY <2>1, <2>2
<1>3. QED
  BY <1>1, <1>2, <1>o DEF RecordTruthful

\* What the host does where its process may die: it leaves DeliverOrder alone,
\* whose items are lost between the commit and the return.
NoDirectCalls == \A o \in Order : "deliver" \notin Flows[o]

LEMMA NextTruthful ==
  ASSUME Crashes => Persistent /\ NoDirectCalls
  PROVE  TypeInv /\ ClaimExclusive /\ ReturnsAlone /\ SentBefore /\ RecordTruthful /\ [Next]_vars
           => RecordTruthful'
<1> SUFFICES ASSUME TypeOK, HoldsReservation, FlowInUse, ClaimExclusive, ReturnsAlone,
                    SentBefore, RecordTruthful, [Next]_vars
             PROVE  RecordTruthful'
  BY DEF TypeInv
<1>1. CASE \E w \in Worker : Step(w)
  BY <1>1, StepTruthful
<1>2. CASE Next /\ \A w \in Worker : ~Step(w)
  <2>0. ASSUME NEW w \in Worker, pc[w] = "return"
        PROVE  pc'[w] = pc[w] /\ call'[w] = call[w] /\ reserved'[w] = reserved[w]
    <3>1. ord(w) \in Order /\ "deliver" \in Flows[ord(w)]
      BY <2>0 DEF HoldsReservation, FlowInUse, Phase, TypeOK, ord
    <3>2. ~Crashes
      BY <3>1 DEF NoDirectCalls
    <3>3. QED
      BY <1>2, <2>0, <3>2, OtherSteps
  <2>1. ASSUME NEW o \in Order, records'[o].status = "delivered"
        PROVE  GotLast(o, records[o].items)' \/ OnTheWay(o, records[o].items)'
    <3>1. records'[o] = records[o] /\ inbox' = inbox
      BY <1>2, OtherSteps
    <3>2. GotLast(o, records[o].items) \/ OnTheWay(o, records[o].items)
      BY <2>1, <3>1 DEF RecordTruthful
    <3>3. QED
      BY <2>0, <3>1, <3>2 DEF GotLast, OnTheWay, ord
  <2>2. ASSUME NEW w \in Worker, pc'[w] = "Ok"
        PROVE  records'[ord(w)'].status = "delivered"
    BY <1>2, <2>2, OtherSteps DEF RecordTruthful, TypeOK, ord
  <2>3. QED
    BY <2>1, <2>2 DEF RecordTruthful
<1>3. CASE UNCHANGED vars
  BY <1>3 DEF vars, RecordTruthful, GotLast, OnTheWay, ord
<1>4. QED
  BY <1>1, <1>2, <1>3

\* A record that says delivered lists exactly what the buyer got last, or gets
\* next from the DeliverOrder that has just committed, and "Ok" is never returned
\* without such a record: whatever stores and messages do, for ProcessPaidOrder
\* over restarts too (with DeliverOrder a restart may come before the return).
THEOREM RecordsAreTruthful ==
  ASSUME Crashes => Persistent /\ NoDirectCalls
  PROVE  Spec => []RecordTruthful
<1>1. Init => RecordTruthful
  BY DEF Init, RecordTruthful, NoRecord
<1>2. TypeInv /\ ClaimExclusive /\ ReturnsAlone /\ SentBefore /\ RecordTruthful /\ [Next]_vars
        => RecordTruthful'
  BY NextTruthful
<1>3. QED
  BY <1>1, <1>2, Typed, ClaimIsExclusive, ReturnIsAlone, SentIsBefore, PTL DEF Spec

-----------------------------------------------------------------------------
(* The ledger.                                                              *)

LedgerPhase == [o \in Order |-> PhaseOf(o)]
LedgerHanded == [o \in Order |-> Len(inbox[o])]

\* What the record of one order and its inbox say determines its place in the
\* ledger; orders whose record and inbox do not change keep it.
LEMMA LedgerFrame ==
  ASSUME TypeOK, NEW x \in Order,
         \A o \in Order \ {x} : records'[o] = records[o] /\ inbox'[o] = inbox[o]
  PROVE  /\ LedgerPhase' = [LedgerPhase EXCEPT ![x] = PhaseOf(x)']
         /\ LedgerHanded' = [LedgerHanded EXCEPT ![x] = Len(inbox'[x])]
<1>1. \A o \in Order \ {x} : PhaseOf(o)' = PhaseOf(o) /\ Len(inbox'[o]) = Len(inbox[o])
  BY DEF PhaseOf
<1>2. QED
  BY <1>1 DEF LedgerPhase, LedgerHanded

LEMMA LedgerStutter ==
  ASSUME \A o \in Order : records'[o] = records[o], inbox' = inbox
  PROVE  LedgerPhase' = LedgerPhase /\ LedgerHanded' = LedgerHanded
<1>1. \A o \in Order : PhaseOf(o)' = PhaseOf(o)
  BY DEF PhaseOf
<1>2. QED
  BY <1>1 DEF LedgerPhase, LedgerHanded

LEMMA StepLedger ==
  ASSUME ~LostReplies, TypeOK, HoldsReservation, FlowInUse, ClaimExclusive, ReturnsAlone,
         ServedOnce, SentBefore, NEW w \in Worker, Step(w)
  PROVE  Ledger!Next \/ (LedgerPhase' = LedgerPhase /\ LedgerHanded' = LedgerHanded)
<1>x. PICK x \in Order : x = ord(w)
  BY DEF TypeOK, ord
<1>f. /\ LedgerPhase' = [LedgerPhase EXCEPT ![x] = PhaseOf(x)']
      /\ LedgerHanded' = [LedgerHanded EXCEPT ![x] = Len(inbox'[x])]
  BY <1>x, Frame, LedgerFrame
<1>v. LedgerPhase[x] = PhaseOf(x) /\ LedgerHanded[x] = Len(inbox[x])
  BY <1>x DEF LedgerPhase, LedgerHanded
<1>p. Owns(w) => PhaseOf(x) = "claimed"
  BY <1>x, OwnedIsPending DEF PhaseOf
<1>u. Unserved(w) => LedgerHanded[x] = 0
  BY <1>v, <1>x DEF ServedOnce
<1>h. ASSUME Hand(w), Unserved(w)
      PROVE  Len(inbox'[x]) = 1
  <2>1. inbox'[x] = <<reserved[w].items>>
    BY <1>h, <1>x, HandOnce DEF ServedOnce
  <2>2. QED
    BY <2>1
<1>s. ASSUME UNCHANGED <<records, inbox>>
      PROVE  LedgerPhase' = LedgerPhase /\ LedgerHanded' = LedgerHanded
  BY <1>s, LedgerStutter
<1>1. CASE ContainsOrder(w)
  BY <1>1, <1>s DEF ContainsOrder
<1>2. CASE Reserve(w)
  BY <1>2, <1>s DEF Reserve
<1>3. CASE ClaimPending(w)
  <2>1. CASE UNCHANGED records
    BY <1>3, <1>s, <2>1 DEF ClaimPending
  <2>2. CASE Vacant(x) /\ records'[x] = Claim(w)
    <3>1. PhaseOf(x) = "open" /\ PhaseOf(x)' = "claimed"
      BY <2>2 DEF PhaseOf, Vacant, Claim
    <3>2. LedgerHanded' = LedgerHanded
      BY <1>3 DEF ClaimPending, LedgerHanded
    <3>3. Ledger!Claim(x)
      BY <1>f, <1>v, <3>1, <3>2 DEF Ledger!Claim, LedgerPhase, LedgerHanded
    <3>4. QED
      BY <1>x, <3>3 DEF Ledger!Next
  <2>3. QED
    BY <1>3, <1>x, <2>1, <2>2 DEF ClaimPending, TypeOK
<1>4. CASE SendDeliveryMessage(w)
  <2>1. CASE UNCHANGED inbox
    BY <1>4, <1>s, <2>1 DEF SendDeliveryMessage
  <2>2. CASE Hand(w)
    <3>1. Unserved(w) /\ Owns(w)
      BY <1>4 DEF SendDeliveryMessage, Unserved, Owns
    <3>2. LedgerPhase' = LedgerPhase
      <4>1. \A o \in Order : PhaseOf(o)' = PhaseOf(o)
        BY <1>4 DEF SendDeliveryMessage, PhaseOf
      <4>2. QED
        BY <4>1 DEF LedgerPhase
    <3>3. Ledger!HandOver(x)
      BY <1>f, <1>h, <1>p, <1>u, <1>v, <2>2, <3>1, <3>2
      DEF Ledger!HandOver, LedgerPhase, LedgerHanded
    <3>4. QED
      BY <1>x, <3>3 DEF Ledger!Next
  <2>3. QED
    BY <1>4, <2>1, <2>2 DEF SendDeliveryMessage
<1>5. CASE ReleaseReserved(w)
  BY <1>5, <1>s DEF ReleaseReserved
<1>6. CASE ReleasePending(w)
  <2>1. CASE UNCHANGED records
    BY <1>6, <1>s, <2>1 DEF ReleasePending
  <2>2. CASE records'[x] = Withdrawn(x)
    <3>1. Unserved(w) /\ Owns(w) /\ inbox' = inbox
      BY <1>6 DEF ReleasePending, Unserved, Owns
    <3>2. PhaseOf(x)' = "open"
      <4>1. Withdrawn(x) = NoRecord
        BY <1>x, <3>1, OwnedIsPending DEF Withdrawn
      <4>2. QED
        BY <2>2, <4>1 DEF PhaseOf, NoRecord
    <3>3. LedgerHanded' = LedgerHanded
      BY <3>1 DEF LedgerHanded
    <3>4. Ledger!Withdraw(x)
      BY <1>f, <1>p, <1>u, <1>v, <3>1, <3>2, <3>3
      DEF Ledger!Withdraw, LedgerPhase, LedgerHanded
    <3>5. QED
      BY <1>x, <3>4 DEF Ledger!Next
  <2>3. QED
    BY <1>6, <1>x, <2>1, <2>2 DEF ReleasePending, TypeOK
<1>7. CASE CommitDelivered(w)
  <2>1. Owns(w) /\ pc[w] = "commit" /\ call[w].flow \in Flow
    BY <1>7 DEF CommitDelivered, Owns, TypeOK
  <2>2. CASE UNCHANGED <<records, inbox>>
    BY <1>s, <2>2
  <2>3. CASE records'[x] = Completed(w) /\ inbox' = inbox
    <3>1. PhaseOf(x)' = "closed"
      BY <2>3 DEF PhaseOf, Completed
    <3>2. LedgerHanded' = LedgerHanded
      BY <2>3 DEF LedgerHanded
    <3>3. x \in Direct \/ LedgerHanded[x] = 1
      <4>1. CASE call[w].flow = "deliver"
        BY <1>x, <2>1, <4>1 DEF Direct, FlowInUse, Phase
      <4>2. CASE call[w].flow = "process"
        <5>1. inbox[x] # <<>> /\ Len(inbox[x]) <= 1 /\ inbox[x] \in Seq(Seq(Item))
          BY <1>x, <2>1, <4>2 DEF SentBefore, GotLast, ServedOnce, AtMostOnceDelivery, TypeOK
        <5>2. Len(inbox[x]) \in Nat /\ Len(inbox[x]) # 0
          BY <5>1
        <5>3. Len(inbox[x]) <= 1
          BY <5>1
        <5>4. \A n \in Nat : n # 0 /\ n <= 1 => n = 1
          OBVIOUS
        <5>5. Len(inbox[x]) = 1
          BY <5>2, <5>3, <5>4, Zenon
        <5>6. QED
          BY <1>v, <5>5
      <4>3. QED
        BY <2>1, <4>1, <4>2 DEF Flow
    <3>4. Ledger!Close(x)
      BY <1>f, <1>p, <1>v, <2>1, <3>1, <3>2, <3>3
      DEF Ledger!Close, LedgerPhase, LedgerHanded
    <3>5. QED
      BY <1>x, <3>4 DEF Ledger!Next
  <2>4. QED
    BY <1>7, <1>x, <2>2, <2>3 DEF CommitDelivered, TypeOK
<1>8. CASE ReturnItems(w)
  <2>1. /\ pc[w] = "return" /\ Hand(w) /\ records' = records /\ Unserved(w)
        /\ call[w].flow = "deliver"
    BY <1>8 DEF ReturnItems, Unserved, HoldsReservation
  <2>2. PhaseOf(x) = "closed" /\ x \in Direct
    BY <1>x, <2>1, ReturnedIsDelivered DEF PhaseOf, Direct, FlowInUse, Phase
  <2>3. LedgerPhase' = LedgerPhase
    BY <2>1 DEF LedgerPhase, PhaseOf
  <2>4. Ledger!HandOver(x)
    BY <1>f, <1>h, <1>u, <1>v, <2>1, <2>2, <2>3 DEF Ledger!HandOver, LedgerPhase, LedgerHanded
  <2>5. QED
    BY <1>x, <2>4 DEF Ledger!Next
<1>9. QED
  BY <1>1, <1>2, <1>3, <1>4, <1>5, <1>6, <1>7, <1>8 DEF Step

\* Goroutines, stores, failures and restarts together do no more to an order
\* than the ledger allows.
THEOREM LedgerImplemented ==
  ASSUME ~LostReplies, Crashes => Persistent
  PROVE  Spec => ImplementsLedger
<1>1. Init => Ledger!Init
  <2>1. ASSUME Init
        PROVE  \A o \in Order : PhaseOf(o) = "open" /\ Len(inbox[o]) = 0
    BY <2>1 DEF Init, PhaseOf, NoRecord
  <2>2. QED
    BY <2>1 DEF Ledger!Init
<1>2. TypeInv /\ ClaimExclusive /\ ReturnsAlone /\ ServedOnce /\ SentBefore /\ [Next]_vars
        => [Ledger!Next]_<<LedgerPhase, LedgerHanded>>
  <2> SUFFICES ASSUME TypeOK, HoldsReservation, FlowInUse, ClaimExclusive, ReturnsAlone,
                      ServedOnce, SentBefore, [Next]_vars
               PROVE  Ledger!Next \/ (LedgerPhase' = LedgerPhase /\ LedgerHanded' = LedgerHanded)
    BY DEF TypeInv
  <2>1. CASE \E w \in Worker : Step(w)
    BY <2>1, StepLedger
  <2>2. CASE Next /\ \A w \in Worker : ~Step(w)
    BY <2>2, OtherSteps, LedgerStutter
  <2>3. CASE UNCHANGED vars
    BY <2>3, LedgerStutter DEF vars
  <2>4. QED
    BY <2>1, <2>2, <2>3
<1>3. Init => ServedOnce
  BY DEF Init, ServedOnce, AtMostOnceDelivery, Unserved
<1>4. TypeInv /\ ClaimExclusive /\ ReturnsAlone /\ ServedOnce /\ [Next]_vars => ServedOnce'
  BY NextServed
<1>5. Spec => []ServedOnce
  BY <1>3, <1>4, Typed, ClaimIsExclusive, ReturnIsAlone, PTL DEF Spec
<1>6. QED
  BY <1>1, <1>2, <1>5, Typed, ClaimIsExclusive, ReturnIsAlone, SentIsBefore, PTL
  DEF Spec, ImplementsLedger, Ledger!Spec, LedgerPhase, LedgerHanded

-----------------------------------------------------------------------------
(* Where the items are.                                                     *)

\* Everything that holds items: the stock of a product, the hands of a
\* goroutine, a batch, the m-th parcel of an order's buyer.
Holder == {<<"stock", p>> : p \in Product} \cup {<<"hand", w>> : w \in Worker}
     \cup {<<"batch", b>> : b \in Batch} \cup {<<"inbox", x>> : x \in Order \X Nat}

\* What it holds; a batch only until the host puts it on sale.
Held(h) ==
  IF h[1] = "stock" THEN stock[h[2]]
  ELSE IF h[1] = "hand" THEN IF InHand(h[2]) THEN reserved[h[2]].items ELSE <<>>
  ELSE IF h[1] = "batch" THEN IF h[2] \in added THEN <<>> ELSE h[2].items
  ELSE IF h[2][2] \in DOMAIN inbox[h[2][1]] THEN inbox[h[2][1]][h[2][2]] ELSE <<>>

Holding == [h \in Holder |-> Held(h)]

\* Items are held at one position of one holder.
Separate(C) ==
  \A g, h \in DOMAIN C : \A k \in DOMAIN C[g], l \in DOMAIN C[h] :
    C[g][k] = C[h][l] => g = h /\ k = l

\* The ways items change hands, from C to D.
SameBut(C, D, S) == \A h \in DOMAIN C \ S : D[h] = C[h]

Dropped(C, D, a) == SameBut(C, D, {a}) /\ D[a] = <<>>

Copied(C, D, a, b) == SameBut(C, D, {b}) /\ a # b /\ C[b] = <<>> /\ D[b] = C[a]

Moved(C, D, a, b) == SameBut(C, D, {a, b}) /\ a # b /\ D[a] = <<>> /\ D[b] = C[a]

Split(C, D, a, b, n) ==
  /\ SameBut(C, D, {a, b}) /\ a # b /\ C[b] = <<>>
  /\ n \in 0 .. Len(C[a])
  /\ D[a] = SubSeq(C[a], n + 1, Len(C[a]))
  /\ D[b] = SubSeq(C[a], 1, n)

Joined(C, D, a, b) == SameBut(C, D, {a, b}) /\ a # b /\ D[a] = <<>> /\ D[b] = C[a] \o C[b]

\* Items thrown away leave the others where they are.
LEMMA DroppedSeparate ==
  ASSUME NEW H, NEW C \in [H -> Seq(Item)], NEW D \in [H -> Seq(Item)], Separate(C),
         \A h \in H : D[h] = C[h] \/ D[h] = <<>>
  PROVE  Separate(D)
  BY DEF Separate

\* A batch put on sale replaces the stock; a parcel is what a goroutine held.
LEMMA MovedSeparate ==
  ASSUME NEW H, NEW C \in [H -> Seq(Item)], NEW D \in [H -> Seq(Item)], Separate(C),
         NEW a \in H, NEW b \in H, Moved(C, D, a, b)
  PROVE  Separate(D)
<1>1. a # b /\ D[a] = <<>> /\ D[b] = C[a] /\ \A h \in H \ {a, b} : D[h] = C[h]
  BY DEF Moved, SameBut
<1>2. SUFFICES ASSUME NEW g \in H, NEW h \in H, NEW k \in DOMAIN D[g], NEW l \in DOMAIN D[h],
                      D[g][k] = D[h][l]
               PROVE  g = h /\ k = l
  BY DEF Separate
<1>3. g # a /\ h # a
  BY <1>1, <1>2
<1>4. LET x == IF g = b THEN a ELSE g
          u == IF h = b THEN a ELSE h
      IN  x \in H /\ u \in H /\ k \in DOMAIN C[x] /\ l \in DOMAIN C[u] /\ C[x][k] = C[u][l]
  BY <1>1, <1>2, <1>3
<1>5. QED
  BY <1>1, <1>3, <1>4 DEF Separate

\* Deliver cuts the stock at one index: positions move, none is in both parts.
LEMMA SplitSeparate ==
  ASSUME NEW H, NEW C \in [H -> Seq(Item)], NEW D \in [H -> Seq(Item)], Separate(C),
         NEW a \in H, NEW b \in H, NEW n \in Nat, Split(C, D, a, b, n)
  PROVE  Separate(D)
<1>1. ASSUME NEW h \in H, NEW k \in DOMAIN D[h]
      PROVE  LET x == IF h = b THEN a ELSE h
                 y == IF h = a THEN k + n ELSE k
             IN  x \in H /\ y \in DOMAIN C[x] /\ C[x][y] = D[h][k]
  <2>0. PICK s \in Seq(Item) : s = C[a]
    OBVIOUS
  <2>1. CASE h = a
    <3>1. a # b /\ D[a] = SubSeq(s, n + 1, Len(s)) /\ n <= Len(s)
      BY <2>0 DEF Split
    <3>2. k \in 1 .. Len(s) - n /\ D[a][k] = s[k + n]
      BY <1>1, <2>1, <3>1
    <3>3. k + n \in DOMAIN s
      BY <3>1, <3>2
    <3>4. QED
      BY <2>0, <2>1, <3>1, <3>2, <3>3
  <2>2. CASE h = b
    <3>1. a # b /\ D[b] = SubSeq(s, 1, n) /\ n <= Len(s)
      BY <2>0 DEF Split
    <3>2. k \in 1 .. n /\ D[b][k] = s[k]
      BY <1>1, <2>2, <3>1
    <3>3. QED
      BY <2>0, <2>2, <3>1, <3>2
  <2>3. CASE h \notin {a, b}
    BY <1>1, <2>3 DEF Split, SameBut
  <2>4. QED
    BY <2>1, <2>2, <2>3
<1>2. \A k \in DOMAIN D[b] : k <= n
  BY DEF Split
<1>3. \A k \in DOMAIN D[a] : k > 0
  BY DEF Split
<1>4. SUFFICES ASSUME NEW g \in H, NEW h \in H, NEW k \in DOMAIN D[g], NEW l \in DOMAIN D[h],
                      D[g][k] = D[h][l]
               PROVE  g = h /\ k = l
  BY DEF Separate
<1>5. a # b /\ k \in Nat /\ l \in Nat
  BY DEF Split
<1>6. LET x == IF g = b THEN a ELSE g
          y == IF g = a THEN k + n ELSE k
          u == IF h = b THEN a ELSE h
          v == IF h = a THEN l + n ELSE l
      IN  x = u /\ y = v
  BY <1>1, <1>4, SMTT(30) DEF Separate
<1>7. QED
  BY <1>2, <1>3, <1>5, <1>6

\* ReleaseReserved puts what a goroutine held before what is in the stock.
LEMMA JoinedSeparate ==
  ASSUME NEW H, NEW C \in [H -> Seq(Item)], NEW D \in [H -> Seq(Item)], Separate(C),
         NEW a \in H, NEW b \in H, Joined(C, D, a, b)
  PROVE  Separate(D)
<1> PICK n \in Nat : n = Len(C[a])
  OBVIOUS
<1>1. D[a] = <<>> /\ a # b
  BY DEF Joined
<1>2. ASSUME NEW h \in H, NEW k \in DOMAIN D[h]
      PROVE  LET x == IF h = b /\ k <= n THEN a ELSE h
                 y == IF h = b /\ k > n THEN k - n ELSE k
             IN  x \in H /\ y \in DOMAIN C[x] /\ C[x][y] = D[h][k] /\ k \in Nat /\ h # a
  <2>1. CASE h = b
    <3>1. PICK s \in Seq(Item), t \in Seq(Item) : s = C[a] /\ t = C[b]
      OBVIOUS
    <3>2. D[b] = s \o t /\ n = Len(s)
      BY <3>1 DEF Joined
    <3>3. /\ k \in 1 .. n + Len(t)
          /\ k <= n => k \in DOMAIN s /\ D[b][k] = s[k]
          /\ k > n => k - n \in DOMAIN t /\ D[b][k] = t[k - n]
      BY <1>2, <2>1, <3>2
    <3>4. QED
      BY <1>1, <2>1, <3>1, <3>3
  <2>2. CASE h # b
    <3>1. h # a
      BY <1>1, <1>2
    <3>2. D[h] = C[h]
      BY <2>2, <3>1 DEF Joined, SameBut
    <3>3. QED
      BY <1>2, <2>2, <3>1, <3>2
  <2>3. QED
    BY <2>1, <2>2
<1>3. SUFFICES ASSUME NEW g \in H, NEW h \in H, NEW k \in DOMAIN D[g], NEW l \in DOMAIN D[h],
                      D[g][k] = D[h][l]
               PROVE  g = h /\ k = l
  BY DEF Separate
<1>4. LET x == IF g = b /\ k <= n THEN a ELSE g
          y == IF g = b /\ k > n THEN k - n ELSE k
          u == IF h = b /\ l <= n THEN a ELSE h
          v == IF h = b /\ l > n THEN l - n ELSE l
      IN  x = u /\ y = v
  BY <1>2, <1>3 DEF Separate
<1>5. QED
  BY <1>2, <1>4

LEMMA HolderKinds ==
  /\ \A p \in Product : <<"stock", p>> \in Holder /\ Held(<<"stock", p>>) = stock[p]
  /\ \A w \in Worker : /\ <<"hand", w>> \in Holder
                       /\ Held(<<"hand", w>>) = IF InHand(w) THEN reserved[w].items ELSE <<>>
  /\ \A b \in Batch : /\ <<"batch", b>> \in Holder
                      /\ Held(<<"batch", b>>) = IF b \in added THEN <<>> ELSE b.items
  /\ \A o \in Order, m \in Nat :
       /\ <<"inbox", <<o, m>>>> \in Holder
       /\ Held(<<"inbox", <<o, m>>>>) = IF m \in DOMAIN inbox[o] THEN inbox[o][m] ELSE <<>>
<1>1. \A p \in Product : <<"stock", p>> \in Holder /\ Held(<<"stock", p>>) = stock[p]
  BY DEF Holder, Held
<1>2. \A w \in Worker : /\ <<"hand", w>> \in Holder
                        /\ Held(<<"hand", w>>) = IF InHand(w) THEN reserved[w].items ELSE <<>>
  BY DEF Holder, Held
<1>3. \A b \in Batch : /\ <<"batch", b>> \in Holder
                       /\ Held(<<"batch", b>>) = IF b \in added THEN <<>> ELSE b.items
  BY DEF Holder, Held
<1>4. ASSUME NEW o \in Order, NEW m \in Nat
      PROVE  /\ <<"inbox", <<o, m>>>> \in Holder
             /\ Held(<<"inbox", <<o, m>>>>) = IF m \in DOMAIN inbox[o] THEN inbox[o][m] ELSE <<>>
  BY DEF Holder, Held
<1>5. QED
  BY <1>1, <1>2, <1>3, <1>4

LEMMA HolderCases ==
  ASSUME NEW h \in Holder
  PROVE  \/ \E p \in Product : h = <<"stock", p>>
         \/ \E w \in Worker : h = <<"hand", w>>
         \/ \E b \in Batch : h = <<"batch", b>>
         \/ \E o \in Order, m \in Nat : h = <<"inbox", <<o, m>>>>
  BY DEF Holder

LEMMA HoldingType == TypeOK => Holding \in [Holder -> Seq(Item)]
<1> SUFFICES ASSUME TypeOK
             PROVE  Holding \in [Holder -> Seq(Item)]
  OBVIOUS
<1>1. ASSUME NEW h \in Holder
      PROVE  Held(h) \in Seq(Item)
  <2>1. ASSUME NEW p \in Product, h = <<"stock", p>>
        PROVE  Held(h) \in Seq(Item)
    BY <2>1, HolderKinds DEF TypeOK
  <2>2. ASSUME NEW w \in Worker, h = <<"hand", w>>
        PROVE  Held(h) \in Seq(Item)
    <3>1. reserved[w].items \in Seq(Item) /\ <<>> \in Seq(Item)
      BY DEF TypeOK, Reservation
    <3>2. Held(<<"hand", w>>) \in Seq(Item)
      BY <3>1, HolderKinds
    <3>3. QED
      BY <2>2, <3>2
  <2>3. ASSUME NEW b \in Batch, h = <<"batch", b>>
        PROVE  Held(h) \in Seq(Item)
    <3>1. b.items \in Seq(Item) /\ <<>> \in Seq(Item)
      BY ConstantsAssumption
    <3>2. Held(<<"batch", b>>) \in Seq(Item)
      BY <3>1, HolderKinds
    <3>3. QED
      BY <2>3, <3>2
  <2>4. ASSUME NEW o \in Order, NEW m \in Nat, h = <<"inbox", <<o, m>>>>
        PROVE  Held(h) \in Seq(Item)
    <3>1. <<>> \in Seq(Item) /\ (m \in DOMAIN inbox[o] => inbox[o][m] \in Seq(Item))
      BY DEF TypeOK
    <3>2. Held(<<"inbox", <<o, m>>>>) \in Seq(Item)
      BY <3>1, HolderKinds
    <3>3. QED
      BY <2>4, <3>2
  <2>5. QED
    BY <2>1, <2>2, <2>3, <2>4, HolderCases
<1>2. QED
  BY <1>1 DEF Holding

LEMMA HoldingTypeNext == (TypeOK => Holding \in [Holder -> Seq(Item)])'
  BY HoldingType, PTL

\* What a step leaves alone keeps what it holds.
LEMMA HeldKept ==
  /\ \A p \in Product : stock'[p] = stock[p] => Holding'[<<"stock", p>>] = Holding[<<"stock", p>>]
  /\ \A w \in Worker : (InHand(w)' <=> InHand(w)) /\ reserved'[w] = reserved[w] =>
       Holding'[<<"hand", w>>] = Holding[<<"hand", w>>]
  /\ \A b \in Batch : (b \in added' <=> b \in added) =>
       Holding'[<<"batch", b>>] = Holding[<<"batch", b>>]
  /\ \A o \in Order, m \in Nat : inbox'[o] = inbox[o] =>
       Holding'[<<"inbox", <<o, m>>>>] = Holding[<<"inbox", <<o, m>>>>]
<1>1. \A h \in Holder : Holding[h] = Held(h) /\ Holding'[h] = Held(h)'
  BY DEF Holding
<1>2. \A p \in Product : stock'[p] = stock[p] => Holding'[<<"stock", p>>] = Holding[<<"stock", p>>]
  BY <1>1, HolderKinds DEF Held
<1>3. \A w \in Worker : (InHand(w)' <=> InHand(w)) /\ reserved'[w] = reserved[w] =>
       Holding'[<<"hand", w>>] = Holding[<<"hand", w>>]
  BY <1>1, HolderKinds DEF Held
<1>4. \A b \in Batch : (b \in added' <=> b \in added) =>
       Holding'[<<"batch", b>>] = Holding[<<"batch", b>>]
  BY <1>1, HolderKinds DEF Held
<1>5. \A o \in Order, m \in Nat : inbox'[o] = inbox[o] =>
       Holding'[<<"inbox", <<o, m>>>>] = Holding[<<"inbox", <<o, m>>>>]
  BY <1>1, HolderKinds DEF Held
<1>6. QED
  BY <1>2, <1>3, <1>4, <1>5

\* A step of w changes what is held only where w works: its hands, the stock of
\* a product, the parcels of its order.
LEMMA StepReach ==
  ASSUME TypeOK, NEW w \in Worker, Step(w), NEW h \in Holder, Holding'[h] # Holding[h]
  PROVE  \/ h = <<"hand", w>> /\ ((InHand(w)' # InHand(w)) \/ reserved'[w] # reserved[w])
         \/ \E p \in Product : h = <<"stock", p>> /\ stock'[p] # stock[p]
         \/ \E m \in Nat : h = <<"inbox", <<ord(w), m>>>> /\ inbox'[ord(w)] # inbox[ord(w)]
<1>1. added' = added
  BY DEF Step, ContainsOrder, Reserve, ClaimPending, SendDeliveryMessage, ReleaseReserved,
     ReleasePending, CommitDelivered, ReturnItems
<1>2. /\ \A v \in Worker \ {w} : (InHand(v)' <=> InHand(v)) /\ reserved'[v] = reserved[v]
      /\ \A o \in Order \ {ord(w)} : inbox'[o] = inbox[o]
  BY Frame DEF InHand
<1>3. InHand(w) \in BOOLEAN /\ InHand(w)' \in BOOLEAN
  BY DEF InHand
<1>4. QED
  BY <1>1, <1>2, <1>3, HolderCases, HeldKept

\* A call of w to the store fails while w holds items.
Fails(w) == CallFails(w) /\ (StoreFaults \/ (pc[w] = "claim" /\ ~Vacant(ord(w))))

\* What a step of w does with the items: nothing; they are taken from a stock,
\* handed over, put back; or thrown away, which takes a failure of the store or
\* an order that another call has claimed.
StepMoves(w, C, D) ==
  \/ \A h \in Holder : D[h] = C[h]
  \/ \E p \in Product, n \in Nat :
       pc[w] = "reserve" /\ p \in listed /\ Split(C, D, <<"stock", p>>, <<"hand", w>>, n)
  \/ Fails(w) /\ Dropped(C, D, <<"hand", w>>)
  \/ \E m \in Nat : /\ C[<<"inbox", <<ord(w), m>>>>] = <<>>
                   /\ Moved(C, D, <<"hand", w>>, <<"inbox", <<ord(w), m>>>>)
  \/ LostReplies /\ \E m \in Nat : Copied(C, D, <<"hand", w>>, <<"inbox", <<ord(w), m>>>>)
  \/ \E p \in Product : p = reserved[w].product /\ Joined(C, D, <<"hand", w>>, <<"stock", p>>)

\* A parcel goes where there was none.
LEMMA HandOver ==
  ASSUME TypeOK, NEW w \in Worker, Hand(w)
  PROVE  \E m \in Nat :
           /\ Holding[<<"inbox", <<ord(w), m>>>>] = <<>>
           /\ Holding'[<<"inbox", <<ord(w), m>>>>] = reserved[w].items
           /\ \A l \in Nat \ {m} : Holding'[<<"inbox", <<ord(w), l>>>>] = Holding[<<"inbox", <<ord(w), l>>>>]
<1>1. PICK o \in Order, s \in Seq(Seq(Item)), r \in Seq(Item) :
        o = ord(w) /\ s = inbox[o] /\ r = reserved[w].items
  BY DEF TypeOK, ord, Reservation
<1>2. inbox'[o] = Append(s, r)
  BY <1>1 DEF Hand, TypeOK
<1>3. \A m \in Nat :
        /\ Holding[<<"inbox", <<o, m>>>>] = IF m \in DOMAIN s THEN s[m] ELSE <<>>
        /\ Holding'[<<"inbox", <<o, m>>>>] = IF m \in DOMAIN Append(s, r) THEN Append(s, r)[m] ELSE <<>>
  <2>1. \A m \in Nat : /\ <<"inbox", <<o, m>>>> \in Holder
                       /\ Held(<<"inbox", <<o, m>>>>) = IF m \in DOMAIN inbox[o] THEN inbox[o][m] ELSE <<>>
                       /\ Held(<<"inbox", <<o, m>>>>)' = IF m \in DOMAIN inbox'[o] THEN inbox'[o][m] ELSE <<>>
    BY HolderKinds DEF Held
  <2>2. QED
    BY <1>1, <1>2, <2>1 DEF Holding
<1>4. PICK m \in Nat : m = Len(s) + 1
  OBVIOUS
<1>5. /\ m \notin DOMAIN s /\ m \in DOMAIN Append(s, r) /\ Append(s, r)[m] = r
      /\ \A l \in Nat \ {m} : /\ l \in DOMAIN Append(s, r) <=> l \in DOMAIN s
                              /\ l \in DOMAIN s => Append(s, r)[l] = s[l]
  BY <1>4
<1>6. /\ Holding[<<"inbox", <<o, m>>>>] = <<>>
      /\ Holding'[<<"inbox", <<o, m>>>>] = r
      /\ \A l \in Nat \ {m} : Holding'[<<"inbox", <<o, l>>>>] = Holding[<<"inbox", <<o, l>>>>]
  BY <1>3, <1>5
<1>7. QED
  BY <1>1, <1>6

\* Each handler's effect on the items is one of these moves.
LEMMA StepHolding ==
  ASSUME TypeInv, NEW w \in Worker, Step(w), NEW C, C = Holding, NEW D, D = Holding'
  PROVE  StepMoves(w, C, D)
<1> DEFINE hand == <<"hand", w>>
<1>0. /\ TypeOK /\ HoldsReservation /\ DOMAIN C = Holder /\ DOMAIN D = Holder
      /\ hand \in Holder /\ \A p \in Product : <<"stock", p>> \in Holder /\ <<"stock", p>> # hand
      /\ \A o \in Order, m \in Nat : <<"inbox", <<o, m>>>> \in Holder /\ <<"inbox", <<o, m>>>> # hand
  BY HolderKinds DEF TypeInv, Holding
<1>1. \A p \in Product : C[<<"stock", p>>] = stock[p] /\ D[<<"stock", p>>] = stock'[p]
  BY HolderKinds DEF Holding, Held
<1>2. /\ C[hand] = IF InHand(w) THEN reserved[w].items ELSE <<>>
      /\ D[hand] = IF InHand(w)' THEN reserved'[w].items ELSE <<>>
  BY HolderKinds DEF Holding, Held
<1>3. call' = call /\ InHand(w) \in BOOLEAN /\ InHand(w)' \in BOOLEAN
  BY <1>0, Frame DEF InHand
<1>4. \A h \in Holder : D[h] # C[h] =>
         \/ h = hand
         \/ \E p \in Product : h = <<"stock", p>> /\ stock'[p] # stock[p]
         \/ \E m \in Nat : h = <<"inbox", <<ord(w), m>>>> /\ inbox'[ord(w)] # inbox[ord(w)]
  BY <1>0, StepReach
<1> HIDE DEF hand
<1>5. CASE ContainsOrder(w)
  <2>1. ~InHand(w) /\ ~InHand(w)' /\ UNCHANGED <<stock, inbox>>
    BY <1>0, <1>5 DEF ContainsOrder, Goto, TypeOK, InHand
  <2>2. QED
    BY <1>2, <1>4, <2>1 DEF StepMoves
<1>6. CASE Reserve(w)
  <2>1. inbox' = inbox /\ ~InHand(w) /\ pc[w] = "reserve"
    BY <1>6 DEF Reserve, InHand
  <2>2. CASE /\ UNCHANGED <<stock, reserved>>
             /\ \E x \in {"ProductNotFound", "NotEnoughItems"} : Goto(w, x)
    <3>1. ~InHand(w)'
      BY <1>0, <2>2 DEF Goto, TypeOK, InHand
    <3>2. QED
      BY <1>2, <1>4, <2>1, <2>2, <3>1 DEF StepMoves
  <2>3. ASSUME NEW p \in Candidates(ord(w)), Len(stock[p]) >= Requested(ord(w)),
               reserved' = [reserved EXCEPT ![w] =
                              [product |-> p, items |-> Taken(p, Requested(ord(w)))]],
               stock' = [stock EXCEPT ![p] = Rest(p, Requested(ord(w)))],
               Goto(w, "claim")
        PROVE  StepMoves(w, C, D)
    <3>1. p \in Product /\ p \in listed /\ ord(w) \in Order
      BY <1>0, <2>3 DEF Candidates, TypeOK, ord
    <3>2. PICK n \in Nat : n = Requested(ord(w))
      BY <3>1, RequestedType
    <3>3. /\ D[hand] = SubSeq(stock[p], 1, n) /\ C[hand] = <<>>
          /\ stock'[p] = SubSeq(stock[p], n + 1, Len(stock[p]))
          /\ \A q \in Product \ {p} : stock'[q] = stock[q]
      <4>1. InHand(w)'
        BY <1>0, <2>3 DEF TypeOK, Goto, InHand
      <4>2. reserved'[w].items = SubSeq(stock[p], 1, n)
        BY <1>0, <2>3, <3>2 DEF TypeOK, Taken
      <4>3. QED
        BY <1>0, <1>2, <2>1, <2>3, <3>1, <3>2, <4>1, <4>2 DEF TypeOK, Rest
    <3>4. n \in 0 .. Len(stock[p])
      BY <1>0, <2>3, <3>1, <3>2 DEF TypeOK
    <3>5. SameBut(C, D, {<<"stock", p>>, hand})
      BY <1>0, <1>4, <2>1, <3>3 DEF SameBut
    <3>6. Split(C, D, <<"stock", p>>, hand, n)
      BY <1>0, <1>1, <3>1, <3>3, <3>4, <3>5 DEF Split
    <3>7. QED
      BY <2>1, <3>1, <3>6 DEF StepMoves, hand
  <2>4. QED
    BY <1>6, <2>2, <2>3 DEF Reserve
<1>7. CASE ClaimPending(w)
  <2>1. UNCHANGED <<stock, inbox>> /\ InHand(w) /\ pc[w] = "claim"
    BY <1>7 DEF ClaimPending, InHand
  <2>2. SameBut(C, D, {hand})
    BY <1>0, <1>4, <2>1 DEF SameBut
  <2>3. CASE \E x \in {"StoreError", "AlreadyDelivered"} : Return(w, x)
    <3>1. ~InHand(w)' /\ Fails(w)
      BY <1>0, <1>7, <2>3 DEF ClaimPending, Return, Goto, TypeOK, InHand, AfterClaim, Fails, CallFails
    <3>2. QED
      BY <1>2, <2>1, <2>2, <3>1 DEF StepMoves, Dropped, hand
  <2>4. CASE Goto(w, AfterClaim(w)) /\ UNCHANGED reserved
    <3>1. InHand(w)'
      BY <1>0, <1>3, <2>4 DEF Goto, TypeOK, InHand, AfterClaim, Flow
    <3>2. QED
      BY <1>0, <1>2, <2>1, <2>2, <2>4, <3>1 DEF StepMoves, SameBut
  <2>5. QED
    BY <1>7, <2>3, <2>4 DEF ClaimPending
<1>8. CASE SendDeliveryMessage(w)
  <2>1. UNCHANGED <<stock, reserved>> /\ InHand(w) /\ call[w].flow = "process"
    BY <1>0, <1>8 DEF SendDeliveryMessage, InHand, HoldsReservation
  <2>2. CASE Hand(w) /\ (Goto(w, "commit") \/ (LostReplies /\ Goto(w, AfterRefusal)))
    <3>1. PICK m \in Nat : /\ C[<<"inbox", <<ord(w), m>>>>] = <<>>
                           /\ D[<<"inbox", <<ord(w), m>>>>] = C[hand]
                           /\ \A l \in Nat \ {m} : D[<<"inbox", <<ord(w), l>>>>] = C[<<"inbox", <<ord(w), l>>>>]
      BY <1>0, <1>2, <2>1, <2>2, HandOver
    <3>2. SameBut(C, D, {hand, <<"inbox", <<ord(w), m>>>>})
      BY <1>0, <1>4, <2>1, <3>1 DEF SameBut
    <3>3. <<"inbox", <<ord(w), m>>>> # hand
      BY <1>0 DEF TypeOK, ord
    <3>4. CASE Goto(w, "commit")
      <4>1. ~InHand(w)'
        BY <1>0, <1>3, <2>1, <3>4 DEF Goto, TypeOK, InHand
      <4>2. Moved(C, D, hand, <<"inbox", <<ord(w), m>>>>)
        BY <1>2, <3>1, <3>2, <3>3, <4>1 DEF Moved
      <4>3. QED
        BY <3>1, <4>2 DEF StepMoves, hand
    <3>5. CASE LostReplies /\ Goto(w, AfterRefusal)
      <4>1. InHand(w)'
        BY <1>0, <1>3, <3>5 DEF Goto, TypeOK, InHand, AfterRefusal
      <4>2. D[hand] = C[hand]
        BY <1>2, <2>1, <4>1
      <4>3. Copied(C, D, hand, <<"inbox", <<ord(w), m>>>>)
        BY <1>0, <3>1, <3>2, <3>3, <4>2 DEF Copied, SameBut
      <4>4. QED
        BY <3>5, <4>3 DEF StepMoves, hand
    <3>6. QED
      BY <2>2, <3>4, <3>5
  <2>3. CASE Goto(w, AfterRefusal) /\ UNCHANGED inbox
    <3>1. InHand(w)'
      BY <1>0, <1>3, <2>3 DEF Goto, TypeOK, InHand, AfterRefusal
    <3>2. QED
      BY <1>2, <1>4, <2>1, <2>3, <3>1 DEF StepMoves
  <2>4. QED
    BY <1>8, <2>2, <2>3 DEF SendDeliveryMessage
<1>9. CASE ReleaseReserved(w)
  <2>1. /\ UNCHANGED <<inbox, reserved>> /\ InHand(w) /\ reserved[w].product \in Product
        /\ stock' = [stock EXCEPT ![reserved[w].product] = Restored(w)]
    BY <1>0, <1>9 DEF ReleaseReserved, InHand, HoldsReservation
  <2>2. ~InHand(w)'
    BY <1>0, <1>9 DEF ReleaseReserved, Goto, TypeOK, InHand
  <2>3. PICK p \in Product : p = reserved[w].product
    BY <2>1
  <2>4. stock'[p] = reserved[w].items \o stock[p] /\ \A q \in Product \ {p} : stock'[q] = stock[q]
    BY <1>0, <2>1, <2>3 DEF TypeOK, Restored
  <2>5. SameBut(C, D, {hand, <<"stock", p>>})
    BY <1>0, <1>4, <2>1, <2>4 DEF SameBut
  <2>6. Joined(C, D, hand, <<"stock", p>>)
    BY <1>0, <1>1, <1>2, <2>1, <2>2, <2>4, <2>5 DEF Joined
  <2>7. QED
    BY <2>3, <2>6 DEF StepMoves, hand
<1>10. CASE ReleasePending(w)
  <2>1. UNCHANGED <<stock, inbox>> /\ ~InHand(w) /\ ~InHand(w)'
    BY <1>0, <1>10 DEF ReleasePending, Return, Goto, TypeOK, InHand
  <2>2. QED
    BY <1>2, <1>4, <2>1 DEF StepMoves
<1>11. CASE CommitDelivered(w)
  <2>1. UNCHANGED <<stock, inbox>>
    BY <1>11 DEF CommitDelivered
  <2>2. SameBut(C, D, {hand})
    BY <1>0, <1>4, <2>1 DEF SameBut
  <2>3. CASE StoreFaults /\ Return(w, "StoreError") /\ call[w].flow = "deliver"
    <3>1. ~InHand(w)'
      BY <1>0, <2>3 DEF Return, Goto, TypeOK, InHand
    <3>2. Fails(w)
      BY <1>0, <1>11, <2>3 DEF CommitDelivered, Fails, CallFails, Return, Goto, TypeOK
    <3>3. QED
      BY <1>2, <2>2, <3>1, <3>2 DEF StepMoves, Dropped, hand
  <2>4. CASE call[w].flow # "deliver"
    <3>1. ~InHand(w) /\ ~InHand(w)'
      BY <1>0, <1>3, <1>11, <2>4 DEF CommitDelivered, Return, Goto, TypeOK, InHand
    <3>2. QED
      BY <1>0, <1>2, <2>2, <3>1 DEF StepMoves, SameBut
  <2>5. CASE call[w].flow = "deliver" /\ Goto(w, "return") /\ UNCHANGED reserved
    <3>1. InHand(w) /\ InHand(w)'
      BY <1>0, <1>11, <2>5 DEF CommitDelivered, Goto, TypeOK, InHand
    <3>2. QED
      BY <1>0, <1>2, <2>2, <2>5, <3>1 DEF StepMoves, SameBut
  <2>6. QED
    BY <1>11, <2>3, <2>4, <2>5 DEF CommitDelivered
<1>12. CASE ReturnItems(w)
  <2>1. UNCHANGED stock /\ Hand(w) /\ InHand(w) /\ ~InHand(w)'
    BY <1>0, <1>12 DEF ReturnItems, Return, Goto, TypeOK, InHand
  <2>2. PICK m \in Nat : /\ C[<<"inbox", <<ord(w), m>>>>] = <<>>
                         /\ D[<<"inbox", <<ord(w), m>>>>] = C[hand]
                         /\ \A l \in Nat \ {m} : D[<<"inbox", <<ord(w), l>>>>] = C[<<"inbox", <<ord(w), l>>>>]
    BY <1>0, <1>2, <2>1, HandOver
  <2>3. SameBut(C, D, {hand, <<"inbox", <<ord(w), m>>>>})
    BY <1>0, <1>4, <2>1, <2>2 DEF SameBut
  <2>4. <<"inbox", <<ord(w), m>>>> # hand
    BY <1>0 DEF TypeOK, ord
  <2>5. Moved(C, D, hand, <<"inbox", <<ord(w), m>>>>)
    BY <1>2, <2>1, <2>2, <2>3, <2>4 DEF Moved
  <2>6. QED
    BY <2>2, <2>5 DEF StepMoves, hand
<1>13. QED
  BY <1>5, <1>6, <1>7, <1>8, <1>9, <1>10, <1>11, <1>12 DEF Step

-----------------------------------------------------------------------------
(* One key is never sold twice.                                             *)

\* What the host promises: it puts no key on sale twice.
KeysOnce ==
  \A b, c \in Batch : \A k \in DOMAIN b.items, l \in DOMAIN c.items :
    b.items[k] = c.items[l] => b = c /\ k = l

LEMMA InitSeparate == KeysOnce /\ Init => Separate(Holding)
<1> SUFFICES ASSUME KeysOnce, Init, NEW g \in Holder, NEW h \in Holder,
                    NEW k \in DOMAIN Held(g), NEW l \in DOMAIN Held(h), Held(g)[k] = Held(h)[l]
             PROVE  g = h /\ k = l
  BY DEF Separate, Holding
<1>1. \A x \in Holder : Held(x) = <<>> \/ \E b \in Batch : x = <<"batch", b>> /\ Held(x) = b.items
  <2>1. ASSUME NEW p \in Product
        PROVE  Held(<<"stock", p>>) = <<>>
    BY HolderKinds DEF Init
  <2>2. ASSUME NEW w \in Worker
        PROVE  Held(<<"hand", w>>) = <<>>
    BY HolderKinds DEF Init, InHand
  <2>3. ASSUME NEW b \in Batch
        PROVE  Held(<<"batch", b>>) = b.items
    BY HolderKinds DEF Init
  <2>4. ASSUME NEW o \in Order, NEW m \in Nat
        PROVE  Held(<<"inbox", <<o, m>>>>) = <<>>
    BY HolderKinds DEF Init
  <2>5. QED
    BY <2>1, <2>2, <2>3, <2>4, HolderCases
<1>2. PICK b \in Batch : g = <<"batch", b>> /\ Held(g) = b.items
  BY <1>1
<1>3. PICK c \in Batch : h = <<"batch", c>> /\ Held(h) = c.items
  BY <1>1
<1>4. QED
  BY <1>2, <1>3 DEF KeysOnce

\* AddProduct moves a batch to the stock, over what is there.
LEMMA AddHolding ==
  ASSUME TypeOK, NEW b \in Batch, AddProduct(b)
  PROVE  Moved(Holding, Holding', <<"batch", b>>, <<"stock", b.product>>)
<1> PICK C, D : C = Holding /\ D = Holding'
  OBVIOUS
<1>1. /\ DOMAIN C = Holder /\ b.product \in Product
      /\ <<"batch", b>> \in Holder /\ <<"stock", b.product>> \in Holder
      /\ <<"batch", b>> # <<"stock", b.product>>
  BY ConstantsAssumption, HolderKinds DEF Holding
<1>2. C[<<"batch", b>>] = b.items /\ D[<<"batch", b>>] = <<>>
  BY <1>1, HolderKinds DEF Holding, Held, AddProduct
<1>3. D[<<"stock", b.product>>] = b.items
  BY <1>1, HolderKinds DEF Holding, Held, AddProduct, TypeOK
<1>4. /\ \A p \in Product \ {b.product} : stock'[p] = stock[p]
      /\ \A c \in Batch \ {b} : c \in added' <=> c \in added
      /\ \A w \in Worker : (InHand(w)' <=> InHand(w)) /\ reserved'[w] = reserved[w]
      /\ \A o \in Order : inbox'[o] = inbox[o]
  BY DEF AddProduct, TypeOK, InHand
<1>5. SameBut(C, D, {<<"batch", b>>, <<"stock", b.product>>})
  BY <1>1, <1>4, HolderCases, HeldKept DEF SameBut
<1>6. QED
  BY <1>1, <1>2, <1>3, <1>5 DEF Moved, SameBut

LEMMA CallHolding ==
  ASSUME TypeOK, NEW w \in Worker, Call(w)
  PROVE  \A h \in Holder : Holding'[h] = Holding[h]
<1>1. /\ ~InHand(w) /\ ~InHand(w)' /\ UNCHANGED <<stock, added, reserved, inbox>>
      /\ \A v \in Worker \ {w} : pc'[v] = pc[v] /\ call'[v] = call[v]
  BY DEF Call, Goto, TypeOK, InHand, Outcome
<1>2. \A v \in Worker : (InHand(v)' <=> InHand(v)) /\ reserved'[v] = reserved[v]
  BY <1>1 DEF InHand
<1>3. QED
  BY <1>1, <1>2, HolderCases, HeldKept

LEMMA CrashHolding ==
  ASSUME TypeOK, Crash
  PROVE  \A h \in Holder : Holding'[h] = Holding[h] \/ Holding'[h] = <<>>
<1>1. /\ \A w \in Worker : ~InHand(w)'
      /\ \A p \in Product : stock'[p] = <<>>
      /\ UNCHANGED <<added, inbox>>
  BY DEF Crash, InHand
<1>2. /\ \A p \in Product : Holding'[<<"stock", p>>] = <<>>
      /\ \A w \in Worker : Holding'[<<"hand", w>>] = <<>>
  BY <1>1, HolderKinds DEF Holding, Held
<1>3. QED
  BY <1>1, <1>2, HolderCases, HeldKept

LEMMA NextSeparate ==
  ASSUME ~LostReplies, TypeInv, Separate(Holding), [Next]_vars
  PROVE  Separate(Holding')
<1>0. TypeOK /\ TypeOK'
  BY NextType DEF TypeInv
<1>1. PICK C, D : C = Holding /\ D = Holding'
  OBVIOUS
<1> SUFFICES Separate(D)
  BY <1>1
<1>2. C \in [Holder -> Seq(Item)] /\ D \in [Holder -> Seq(Item)] /\ Separate(C)
  BY <1>0, <1>1, HoldingType, HoldingTypeNext
<1>3. ASSUME NEW b \in Batch, AddProduct(b)
      PROVE  Separate(D)
  <2>1. Moved(C, D, <<"batch", b>>, <<"stock", b.product>>)
    BY <1>0, <1>1, <1>3, AddHolding
  <2>2. <<"batch", b>> \in Holder /\ <<"stock", b.product>> \in Holder
    BY ConstantsAssumption, HolderKinds
  <2>3. QED
    BY <1>2, <2>1, <2>2, MovedSeparate
<1>4. ASSUME NEW w \in Worker, Call(w)
      PROVE  Separate(D)
  <2>1. \A h \in Holder : D[h] = C[h]
    BY <1>0, <1>1, <1>4, CallHolding
  <2>2. QED
    BY <1>2, <2>1, DroppedSeparate
<1>5. ASSUME NEW w \in Worker, Step(w)
      PROVE  Separate(D)
  <2>0. StepMoves(w, C, D)
    BY <1>1, <1>5, StepHolding
  <2>1. CASE \A h \in Holder : D[h] = C[h]
    BY <1>2, <2>1, DroppedSeparate
  <2>2. ASSUME NEW p \in Product, NEW n \in Nat, Split(C, D, <<"stock", p>>, <<"hand", w>>, n)
        PROVE  Separate(D)
    BY <1>2, <2>2, SplitSeparate, HolderKinds
  <2>3. CASE Dropped(C, D, <<"hand", w>>)
    <3>1. \A h \in Holder : D[h] = C[h] \/ D[h] = <<>>
      BY <1>2, <2>3 DEF Dropped, SameBut
    <3>2. QED
      BY <1>2, <3>1, DroppedSeparate
  <2>4. ASSUME NEW m \in Nat, Moved(C, D, <<"hand", w>>, <<"inbox", <<ord(w), m>>>>)
        PROVE  Separate(D)
    <3>1. ord(w) \in Order
      BY <1>0 DEF TypeOK, ord
    <3>2. QED
      BY <1>2, <2>4, <3>1, MovedSeparate, HolderKinds
  <2>5. ASSUME NEW p \in Product, Joined(C, D, <<"hand", w>>, <<"stock", p>>)
        PROVE  Separate(D)
    BY <1>2, <2>5, JoinedSeparate, HolderKinds
  <2>6. QED
    BY <2>0, <2>1, <2>2, <2>3, <2>4, <2>5 DEF StepMoves
<1>6. CASE Crash
  BY <1>0, <1>1, <1>2, <1>6, CrashHolding, DroppedSeparate
<1>7. CASE UNCHANGED vars
  <2>1. \A h \in Holder : Held(h)' = Held(h)
    BY <1>7 DEF vars, Held, InHand
  <2>2. D = C
    BY <1>1, <2>1 DEF Holding
  <2>3. QED
    BY <1>2, <2>2
<1>8. QED
  BY <1>3, <1>4, <1>5, <1>6, <1>7 DEF Next

LEMMA AtMostOne ==
  ASSUME NEW S, \A x, y \in S : x = y
  PROVE  Cardinality(S) \in {0, 1} /\ (S = {} => Cardinality(S) = 0)
<1>1. CASE S = {}
  BY <1>1, FS_EmptySet
<1>2. ASSUME NEW x \in S
      PROVE  Cardinality(S) = 1
  <2>1. S = {x}
    OBVIOUS
  <2>2. QED
    BY <2>1, FS_Singleton
<1>3. QED
  BY <1>1, <1>2

LEMMA SeparateExclusive ==
  ASSUME TypeOK, Separate(Holding)
  PROVE  ItemExclusive
<1> SUFFICES ASSUME NEW i \in Item
             PROVE  Cardinality(StockPlaces(i)) + Cardinality(HandPlaces(i))
                      + Cardinality(InboxPlaces(i)) <= 1
  BY DEF ItemExclusive
<1>0. \A g, h \in Holder : \A k \in DOMAIN Held(g), l \in DOMAIN Held(h) :
        Held(g)[k] = Held(h)[l] => g = h /\ k = l
  BY DEF Separate, Holding
<1>1. \A x \in StockPlaces(i) : \E p \in Product, k \in Nat :
        /\ x = <<p, k>> /\ <<"stock", p>> \in Holder
        /\ k \in DOMAIN Held(<<"stock", p>>) /\ Held(<<"stock", p>>)[k] = i
  BY HolderKinds DEF StockPlaces, TypeOK
<1>2. \A x \in HandPlaces(i) : \E w \in Worker, k \in Nat :
        /\ x = <<w, k>> /\ <<"hand", w>> \in Holder
        /\ k \in DOMAIN Held(<<"hand", w>>) /\ Held(<<"hand", w>>)[k] = i
  BY HolderKinds DEF HandPlaces, TypeOK, Reservation
<1>3. \A x \in InboxPlaces(i) : \E o \in Order, m \in Nat, k \in Nat :
        /\ x = <<<<o, m>>, k>> /\ <<"inbox", <<o, m>>>> \in Holder
        /\ k \in DOMAIN Held(<<"inbox", <<o, m>>>>) /\ Held(<<"inbox", <<o, m>>>>)[k] = i
  <2>1. SUFFICES ASSUME NEW x \in InboxPlaces(i)
                 PROVE  \E o \in Order, m \in Nat, k \in Nat :
                          /\ x = <<<<o, m>>, k>> /\ <<"inbox", <<o, m>>>> \in Holder
                          /\ k \in DOMAIN Held(<<"inbox", <<o, m>>>>)
                          /\ Held(<<"inbox", <<o, m>>>>)[k] = i
    OBVIOUS
  <2>2. PICK z \in Parcels : \E k \in DOMAIN inbox[z[1]][z[2]] : x = <<z, k>> /\ inbox[z[1]][z[2]][k] = i
    BY DEF InboxPlaces
  <2>3. PICK o \in Order : \E m \in DOMAIN inbox[o] : z = <<o, m>>
    BY DEF Parcels
  <2>7. PICK m \in DOMAIN inbox[o] : z = <<o, m>>
    BY <2>3
  <2>10. PICK k \in DOMAIN inbox[o][m] : x = <<z, k>> /\ inbox[o][m][k] = i
    BY <2>2, <2>7
  <2>4. m \in Nat /\ k \in Nat
    BY <2>7, <2>10 DEF TypeOK
  <2>5. Held(<<"inbox", <<o, m>>>>) = inbox[o][m] /\ <<"inbox", <<o, m>>>> \in Holder
    BY <2>7, <2>4, HolderKinds
  <2>6. QED
    BY <2>4, <2>5, <2>7, <2>10
<1>4. /\ \A x, y \in StockPlaces(i) : x = y
      /\ \A x, y \in HandPlaces(i) : x = y
      /\ \A x, y \in InboxPlaces(i) : x = y
  <2>1. ASSUME NEW x \in StockPlaces(i), NEW y \in StockPlaces(i)
        PROVE  x = y
    <3>1. PICK p \in Product, k \in Nat :
            /\ x = <<p, k>> /\ <<"stock", p>> \in Holder
            /\ k \in DOMAIN Held(<<"stock", p>>) /\ Held(<<"stock", p>>)[k] = i
      BY <1>1
    <3>2. PICK p2 \in Product, k2 \in Nat :
            /\ y = <<p2, k2>> /\ <<"stock", p2>> \in Holder
            /\ k2 \in DOMAIN Held(<<"stock", p2>>) /\ Held(<<"stock", p2>>)[k2] = i
      BY <1>1
    <3>3. <<"stock", p>> = <<"stock", p2>> /\ k = k2
      BY <1>0, <3>1, <3>2
    <3>4. QED
      BY <3>1, <3>2, <3>3
  <2>2. ASSUME NEW x \in HandPlaces(i), NEW y \in HandPlaces(i)
        PROVE  x = y
    <3>1. PICK w \in Worker, k \in Nat :
            /\ x = <<w, k>> /\ <<"hand", w>> \in Holder
            /\ k \in DOMAIN Held(<<"hand", w>>) /\ Held(<<"hand", w>>)[k] = i
      BY <1>2
    <3>2. PICK w2 \in Worker, k2 \in Nat :
            /\ y = <<w2, k2>> /\ <<"hand", w2>> \in Holder
            /\ k2 \in DOMAIN Held(<<"hand", w2>>) /\ Held(<<"hand", w2>>)[k2] = i
      BY <1>2
    <3>3. <<"hand", w>> = <<"hand", w2>> /\ k = k2
      BY <1>0, <3>1, <3>2
    <3>4. QED
      BY <3>1, <3>2, <3>3
  <2>3. ASSUME NEW x \in InboxPlaces(i), NEW y \in InboxPlaces(i)
        PROVE  x = y
    <3>1. PICK o \in Order, m \in Nat, k \in Nat :
            /\ x = <<<<o, m>>, k>> /\ <<"inbox", <<o, m>>>> \in Holder
            /\ k \in DOMAIN Held(<<"inbox", <<o, m>>>>) /\ Held(<<"inbox", <<o, m>>>>)[k] = i
      BY <1>3
    <3>2. PICK o2 \in Order, m2 \in Nat, k2 \in Nat :
            /\ y = <<<<o2, m2>>, k2>> /\ <<"inbox", <<o2, m2>>>> \in Holder
            /\ k2 \in DOMAIN Held(<<"inbox", <<o2, m2>>>>) /\ Held(<<"inbox", <<o2, m2>>>>)[k2] = i
      BY <1>3
    <3>3. <<"inbox", <<o, m>>>> = <<"inbox", <<o2, m2>>>> /\ k = k2
      BY <1>0, <3>1, <3>2
    <3>4. QED
      BY <3>1, <3>2, <3>3
  <2>4. QED
    BY <2>1, <2>2, <2>3
<1>5. /\ StockPlaces(i) = {} \/ HandPlaces(i) = {}
      /\ StockPlaces(i) = {} \/ InboxPlaces(i) = {}
      /\ HandPlaces(i) = {} \/ InboxPlaces(i) = {}
  <2>1. ASSUME NEW x \in StockPlaces(i), NEW y \in HandPlaces(i)
        PROVE  FALSE
    <3>1. PICK p \in Product, k \in Nat :
            /\ x = <<p, k>> /\ <<"stock", p>> \in Holder
            /\ k \in DOMAIN Held(<<"stock", p>>) /\ Held(<<"stock", p>>)[k] = i
      BY <1>1
    <3>2. PICK w2 \in Worker, k2 \in Nat :
            /\ y = <<w2, k2>> /\ <<"hand", w2>> \in Holder
            /\ k2 \in DOMAIN Held(<<"hand", w2>>) /\ Held(<<"hand", w2>>)[k2] = i
      BY <1>2
    <3>3. <<"stock", p>> = <<"hand", w2>>
      BY <1>0, <3>1, <3>2
    <3>4. QED
      BY <3>3
  <2>2. ASSUME NEW x \in StockPlaces(i), NEW y \in InboxPlaces(i)
        PROVE  FALSE
    <3>1. PICK p \in Product, k \in Nat :
            /\ x = <<p, k>> /\ <<"stock", p>> \in Holder
            /\ k \in DOMAIN Held(<<"stock", p>>) /\ Held(<<"stock", p>>)[k] = i
      BY <1>1
    <3>2. PICK o2 \in Order, m2 \in Nat, k2 \in Nat :
            /\ y = <<<<o2, m2>>, k2>> /\ <<"inbox", <<o2, m2>>>> \in Holder
            /\ k2 \in DOMAIN Held(<<"inbox", <<o2, m2>>>>) /\ Held(<<"inbox", <<o2, m2>>>>)[k2] = i
      BY <1>3
    <3>3. <<"stock", p>> = <<"inbox", <<o2, m2>>>>
      BY <1>0, <3>1, <3>2
    <3>4. QED
      BY <3>3
  <2>3. ASSUME NEW x \in HandPlaces(i), NEW y \in InboxPlaces(i)
        PROVE  FALSE
    <3>1. PICK w \in Worker, k \in Nat :
            /\ x = <<w, k>> /\ <<"hand", w>> \in Holder
            /\ k \in DOMAIN Held(<<"hand", w>>) /\ Held(<<"hand", w>>)[k] = i
      BY <1>2
    <3>2. PICK o2 \in Order, m2 \in Nat, k2 \in Nat :
            /\ y = <<<<o2, m2>>, k2>> /\ <<"inbox", <<o2, m2>>>> \in Holder
            /\ k2 \in DOMAIN Held(<<"inbox", <<o2, m2>>>>) /\ Held(<<"inbox", <<o2, m2>>>>)[k2] = i
      BY <1>3
    <3>3. <<"hand", w>> = <<"inbox", <<o2, m2>>>>
      BY <1>0, <3>1, <3>2
    <3>4. QED
      BY <3>3
  <2>4. QED
    BY <2>1, <2>2, <2>3
<1>6. QED
  BY <1>4, <1>5, AtMostOne

\* One key is never sold twice, whatever the goroutines, the store failures and
\* the crashes (of either store) do, as long as the host puts no key on sale
\* twice and no reply is lost: Deliver cuts the stock in one step, a batch
\* replaces it, and only what a goroutine still holds is put back.
THEOREM KeysExclusive ==
  ASSUME KeysOnce, ~LostReplies
  PROVE  Spec => []ItemExclusive
<1>1. Init => Separate(Holding)
  BY InitSeparate
<1>2. TypeInv /\ Separate(Holding) /\ [Next]_vars => Separate(Holding)'
  <2> SUFFICES ASSUME TypeInv, Separate(Holding), [Next]_vars
               PROVE  Separate(Holding')
    BY DEF Separate
  <2>1. QED
    BY NextSeparate
<1>3. TypeInv /\ Separate(Holding) => ItemExclusive
  BY SeparateExclusive DEF TypeInv
<1>4. QED
  BY <1>1, <1>2, <1>3, Typed, PTL DEF Spec

-----------------------------------------------------------------------------
(* The ways an item is lost.                                                *)

OnSale == Holder \ {<<"batch", b>> : b \in Batch}

\* Item i is with some holder that is on sale or beyond.
Around(C, i) == \E h \in OnSale : \E l \in DOMAIN C[h] : C[h][l] = i

\* It is with holder g.
With(C, g, i) == \E k \in DOMAIN C[g] : C[g][k] = i

\* No such move loses an item, but for one thrown away.
LEMMA StepAround ==
  ASSUME NEW C \in [Holder -> Seq(Item)], NEW D \in [Holder -> Seq(Item)],
         TypeOK, NEW w \in Worker, StepMoves(w, C, D),
         NEW i, Around(C, i)
  PROVE  \/ Around(D, i)
         \/ Fails(w) /\ With(C, <<"hand", w>>, i)
<1>0. /\ <<"hand", w>> \in OnSale /\ \A p \in Product : <<"stock", p>> \in OnSale
      /\ \A m \in Nat : <<"inbox", <<ord(w), m>>>> \in OnSale
      /\ OnSale \subseteq Holder
  BY HolderKinds DEF OnSale, TypeOK, ord
<1>1. PICK g \in OnSale : \E k \in DOMAIN C[g] : C[g][k] = i
  BY DEF Around
<1>2. PICK k \in DOMAIN C[g] : C[g][k] = i
  BY <1>1
<1>3. g = <<"hand", w>> => With(C, <<"hand", w>>, i)
  BY <1>2 DEF With
<1>4. ASSUME \A h \in Holder : D[h] = C[h]
      PROVE  \E h \in OnSale : \E l \in DOMAIN D[h] : D[h][l] = i
  BY <1>0, <1>1, <1>4
<1>5. ASSUME NEW p \in Product, NEW n \in Nat, Split(C, D, <<"stock", p>>, <<"hand", w>>, n)
      PROVE  \E h \in OnSale : \E l \in DOMAIN D[h] : D[h][l] = i
  <2>1. CASE g = <<"stock", p>>
    <3>1. PICK s \in Seq(Item) : s = C[g]
      BY <1>0
    <3>2. n \in 0 .. Len(s) /\ D[g] = SubSeq(s, n + 1, Len(s)) /\ D[<<"hand", w>>] = SubSeq(s, 1, n)
      BY <1>5, <2>1, <3>1 DEF Split
    <3>3. k \in 1 .. Len(s) /\ s[k] = i
      BY <1>2, <3>1
    <3>4. CASE k <= n
      <4>1. k \in DOMAIN SubSeq(s, 1, n) /\ SubSeq(s, 1, n)[k] = i
        BY <3>2, <3>3, <3>4
      <4>2. QED
        BY <1>0, <3>2, <4>1
    <3>5. CASE k > n
      <4>1. k - n \in DOMAIN SubSeq(s, n + 1, Len(s)) /\ SubSeq(s, n + 1, Len(s))[k - n] = i
        BY <3>2, <3>3, <3>5
      <4>2. QED
        BY <3>2, <4>1
    <3>6. QED
      BY <3>3, <3>4, <3>5
  <2>2. CASE g = <<"hand", w>>
    BY <1>2, <1>5, <2>2 DEF Split
  <2>3. CASE g \notin {<<"stock", p>>, <<"hand", w>>}
    BY <1>0, <1>2, <1>5, <2>3 DEF Split, SameBut
  <2>4. QED
    BY <2>1, <2>2, <2>3
<1>6. ASSUME NEW b \in OnSale, Moved(C, D, <<"hand", w>>, b), C[b] = <<>>
      PROVE  \E h \in OnSale : \E l \in DOMAIN D[h] : D[h][l] = i
  <2>1. g # b
    BY <1>2, <1>6
  <2>2. QED
    BY <1>0, <1>2, <1>6, <2>1 DEF Moved, SameBut
<1>7. ASSUME NEW b \in OnSale, Copied(C, D, <<"hand", w>>, b)
      PROVE  \E h \in OnSale : \E l \in DOMAIN D[h] : D[h][l] = i
  <2>1. g # b
    BY <1>2, <1>7 DEF Copied
  <2>2. QED
    BY <1>0, <1>2, <1>7, <2>1 DEF Copied, SameBut
<1>8. ASSUME NEW b \in OnSale, Joined(C, D, <<"hand", w>>, b)
      PROVE  \E h \in OnSale : \E l \in DOMAIN D[h] : D[h][l] = i
  <2>1. PICK s \in Seq(Item), t \in Seq(Item) : s = C[<<"hand", w>>] /\ t = C[b]
    BY <1>0
  <2>2. D[b] = s \o t
    BY <1>8, <2>1 DEF Joined
  <2>3. CASE g = <<"hand", w>>
    <3>1. k \in DOMAIN s /\ s[k] = i
      BY <1>2, <2>1, <2>3
    <3>2. k \in DOMAIN (s \o t) /\ (s \o t)[k] = i
      BY <3>1
    <3>3. QED
      BY <2>2, <3>2
  <2>4. CASE g = b
    <3>1. k \in DOMAIN t /\ t[k] = i
      BY <1>2, <2>1, <2>4
    <3>2. k + Len(s) \in DOMAIN (s \o t) /\ (s \o t)[k + Len(s)] = i
      BY <3>1
    <3>3. QED
      BY <2>2, <3>2
  <2>5. CASE g \notin {<<"hand", w>>, b}
    BY <1>0, <1>2, <1>8, <2>5 DEF Joined, SameBut
  <2>6. QED
    BY <2>3, <2>4, <2>5
<1>9. ASSUME Dropped(C, D, <<"hand", w>>), g # <<"hand", w>>
      PROVE  \E h \in OnSale : \E l \in DOMAIN D[h] : D[h][l] = i
  BY <1>0, <1>2, <1>9 DEF Dropped, SameBut
<1>10. QED
  BY <1>0, <1>3, <1>4, <1>5, <1>6, <1>7, <1>8, <1>9 DEF StepMoves, Around

\* Around and Placed say the same of an item.
LEMMA AroundIsPlaced ==
  ASSUME TypeOK, NEW i, Around(Holding, i)
  PROVE  Placed(i)
<1>1. PICK h \in OnSale : \E l \in DOMAIN Holding[h] : Holding[h][l] = i
  BY DEF Around
<1>2. h \in Holder /\ ~\E c \in Batch : h = <<"batch", c>>
  BY DEF OnSale
<1>3. PICK l \in DOMAIN Held(h) : Held(h)[l] = i
  BY <1>1, <1>2 DEF Holding
<1>4. ASSUME NEW p \in Product, h = <<"stock", p>>
      PROVE  <<p, l>> \in StockPlaces(i)
  BY <1>3, <1>4, HolderKinds DEF StockPlaces
<1>5. ASSUME NEW w \in Worker, h = <<"hand", w>>
      PROVE  <<w, l>> \in HandPlaces(i)
  <2>1. Held(h) = IF InHand(w) THEN reserved[w].items ELSE <<>>
    BY <1>5, HolderKinds
  <2>2. InHand(w) /\ l \in DOMAIN reserved[w].items /\ reserved[w].items[l] = i
    BY <1>3, <2>1
  <2>3. QED
    BY <2>2 DEF HandPlaces
<1>6. ASSUME NEW o \in Order, NEW m \in Nat, h = <<"inbox", <<o, m>>>>
      PROVE  <<<<o, m>>, l>> \in InboxPlaces(i)
  <2>1. Held(h) = IF m \in DOMAIN inbox[o] THEN inbox[o][m] ELSE <<>>
    BY <1>6, HolderKinds
  <2>2. m \in DOMAIN inbox[o] /\ l \in DOMAIN inbox[o][m] /\ inbox[o][m][l] = i
    BY <1>3, <2>1
  <2>3. <<o, m>> \in Parcels
    BY <2>2 DEF Parcels
  <2>4. <<<<o, m>>, l>> \in UNION {{z} \X DOMAIN inbox[z[1]][z[2]] : z \in Parcels}
    <3>1. <<<<o, m>>, l>> \in {<<o, m>>} \X DOMAIN inbox[<<o, m>>[1]][<<o, m>>[2]]
      BY <2>2
    <3>2. QED
      BY <2>3, <3>1
  <2>5. QED
    BY <2>2, <2>4 DEF InboxPlaces
<1>7. QED
  BY <1>2, <1>4, <1>5, <1>6, HolderCases DEF Placed

LEMMA PlacedIsAround ==
  ASSUME TypeOK, NEW i, Placed(i)
  PROVE  Around(Holding, i)
<1>1. ASSUME NEW h \in Holder, h[1] # "batch", NEW l \in DOMAIN Held(h), Held(h)[l] = i
      PROVE  Around(Holding, i)
  <2>1. h \in OnSale
    BY <1>1 DEF OnSale
  <2>2. QED
    BY <1>1, <2>1 DEF Around, Holding
<1>2. ASSUME NEW x \in StockPlaces(i)
      PROVE  Around(Holding, i)
  <2>1. PICK p \in Product : \E k \in DOMAIN stock[p] : stock[p][k] = i
    BY <1>2 DEF StockPlaces
  <2>2. PICK k \in DOMAIN stock[p] : stock[p][k] = i
    BY <2>1
  <2>3. <<"stock", p>> \in Holder /\ <<"stock", p>>[1] # "batch" /\ Held(<<"stock", p>>) = stock[p]
    BY HolderKinds
  <2>4. QED
    BY <1>1, <2>2, <2>3
<1>3. ASSUME NEW x \in HandPlaces(i)
      PROVE  Around(Holding, i)
  <2>1. PICK w \in Worker : /\ InHand(w)
                             /\ \E k \in DOMAIN reserved[w].items : reserved[w].items[k] = i
    BY <1>3 DEF HandPlaces
  <2>2. PICK k \in DOMAIN reserved[w].items : reserved[w].items[k] = i
    BY <2>1
  <2>3. /\ Held(<<"hand", w>>) = reserved[w].items
        /\ <<"hand", w>> \in Holder /\ <<"hand", w>>[1] # "batch"
    BY <2>1, HolderKinds
  <2>4. QED
    BY <1>1, <2>2, <2>3
<1>4. ASSUME NEW x \in InboxPlaces(i)
      PROVE  Around(Holding, i)
  <2>1. PICK z \in Parcels : \E k \in DOMAIN inbox[z[1]][z[2]] : inbox[z[1]][z[2]][k] = i
    BY <1>4 DEF InboxPlaces
  <2>2. PICK o \in Order : \E m \in DOMAIN inbox[o] : z = <<o, m>>
    BY <2>1 DEF Parcels
  <2>3. PICK m \in DOMAIN inbox[o] : z = <<o, m>>
    BY <2>2
  <2>4. PICK k \in DOMAIN inbox[o][m] : inbox[o][m][k] = i
    BY <2>1, <2>3
  <2>5. inbox[o] \in Seq(Seq(Item)) /\ m \in Nat
    BY <2>3 DEF TypeOK
  <2>6. /\ Held(<<"inbox", <<o, m>>>>) = inbox[o][m]
        /\ <<"inbox", <<o, m>>>> \in Holder /\ <<"inbox", <<o, m>>>>[1] # "batch"
    BY <2>3, <2>5, HolderKinds
  <2>7. QED
    BY <1>1, <2>4, <2>6
<1>5. QED
  BY <1>2, <1>3, <1>4 DEF Placed

LEMMA AroundIsPlacedNext == (TypeOK => \A i : Around(Holding, i) => Placed(i))'
<1>1. TypeOK => \A i : Around(Holding, i) => Placed(i)
  BY AroundIsPlaced
<1>2. QED
  BY <1>1, PTL

LEMMA NextLosses ==
  ASSUME TypeInv, [Next]_vars, NEW i \in Item, Placed(i), ~Placed(i)'
  PROVE  \/ \E x \in HandPlaces(i) : CallFails(x[1])
         \/ \E x \in StockPlaces(i) : Restocks(x[1])
         \/ Ends
<1>0. TypeOK /\ TypeOK'
  BY NextType DEF TypeInv
<1>1. PICK C, D : C = Holding /\ D = Holding'
  OBVIOUS
<1>2. C \in [Holder -> Seq(Item)] /\ D \in [Holder -> Seq(Item)]
  BY <1>0, <1>1, HoldingType, HoldingTypeNext
<1>3. Around(C, i) /\ ~Around(D, i)
  BY <1>0, <1>1, PlacedIsAround, AroundIsPlacedNext
<1>4. ~\A h \in Holder : D[h] = C[h]
  BY <1>3 DEF Around, OnSale
<1>5. ASSUME NEW b \in Batch, AddProduct(b)
      PROVE  \E x \in StockPlaces(i) : Restocks(x[1])
  <2>1. Moved(C, D, <<"batch", b>>, <<"stock", b.product>>)
    BY <1>0, <1>1, <1>5, AddHolding
  <2>2. PICK g \in OnSale : \E k \in DOMAIN C[g] : C[g][k] = i
    BY <1>3 DEF Around
  <2>3. g # <<"batch", b>> /\ g \in Holder
    BY <2>2 DEF OnSale
  <2>4. g = <<"stock", b.product>>
    <3>1. D[g] # C[g]
      BY <1>3, <2>2 DEF Around
    <3>2. QED
      BY <1>2, <2>1, <2>3, <3>1 DEF Moved, SameBut
  <2>5. b.product \in Product /\ C[g] = stock[b.product]
    BY <1>1, <2>3, <2>4, HolderKinds, ConstantsAssumption DEF Holding
  <2>6. PICK k \in DOMAIN stock[b.product] : stock[b.product][k] = i
    BY <2>2, <2>5
  <2>7. <<b.product, k>> \in StockPlaces(i)
    BY <2>5, <2>6 DEF StockPlaces
  <2>8. Restocks(b.product)
    BY <1>5 DEF AddProduct, Restocks
  <2>9. QED
    BY <2>7, <2>8
<1>6. ASSUME NEW w \in Worker, Call(w)
      PROVE  FALSE
  BY <1>0, <1>1, <1>4, <1>6, CallHolding
<1>7. ASSUME NEW w \in Worker, Step(w)
      PROVE  \E x \in HandPlaces(i) : CallFails(x[1])
  <2>1. StepMoves(w, C, D)
    BY <1>1, <1>7, StepHolding
  <2>2. Fails(w) /\ With(C, <<"hand", w>>, i)
    BY <1>0, <1>2, <1>3, <2>1, StepAround
  <2>3. C[<<"hand", w>>] = IF InHand(w) THEN reserved[w].items ELSE <<>>
    BY <1>1, HolderKinds DEF Holding
  <2>4. PICK k \in DOMAIN reserved[w].items : InHand(w) /\ reserved[w].items[k] = i
    BY <2>2, <2>3 DEF With
  <2>5. <<w, k>> \in HandPlaces(i)
    BY <2>4 DEF HandPlaces
  <2>6. QED
    BY <2>2, <2>5 DEF Fails
<1>8. CASE Crash
  BY <1>8 DEF Crash, Ends
<1>9. CASE UNCHANGED vars
  <2>1. \A h \in Holder : Held(h)' = Held(h)
    BY <1>9 DEF vars, Held, InHand
  <2>2. QED
    BY <1>1, <1>4, <2>1 DEF Holding
<1>10. QED
  BY <1>5, <1>6, <1>7, <1>8, <1>9 DEF Next

\* Of the items on sale, in the hands of a call or with a buyer, one disappears
\* only with a call that the store fails, under a batch put on sale in its
\* place, or with the process: for any stores, faults, races and lost replies.
THEOREM LossesAreKnown == Spec => LossesKnown
<1>1. TypeInv /\ [Next]_vars =>
        [\A i \in Item : Placed(i) /\ ~Placed(i)' =>
           \/ \E x \in HandPlaces(i) : CallFails(x[1])
           \/ \E x \in StockPlaces(i) : Restocks(x[1])
           \/ Ends]_vars
  BY NextLosses
<1>2. QED
  BY <1>1, Typed, PTL DEF Spec, LossesKnown

-----------------------------------------------------------------------------
(* Nothing on sale disappears.                                              *)

\* What the host promises: an order is given to one goroutine only, and a
\* product is put on sale once.
OrdersApart == \A v, w \in Worker : v # w => Assigned[v] \cap Assigned[w] = {}
ProductsOnce == \A b, c \in Batch : b.product = c.product => b = c

Kept == \A b \in added : \A k \in DOMAIN b.items : Around(Holding, b.items[k])

\* A goroutine works on an order of its own; until its claim, on a vacant one.
OwnWork ==
  \A w \in Worker :
    /\ pc[w] \in Phase => ord(w) \in Assigned[w]
    /\ pc[w] \in {"reserve", "claim"} => Vacant(ord(w))

\* What is in a stock, or reserved from one, came from a batch of the product.
FromBatches ==
  /\ listed \subseteq {b.product : b \in added}
  /\ \A p \in Product : stock[p] # <<>> => p \in listed
  /\ \A w \in Worker : reserved[w].product \in listed \cup {None}

NoLossInv == Kept /\ OwnWork /\ FromBatches

LEMMA StepOwnWork ==
  ASSUME OrdersApart, TypeOK, OwnWork, NEW w \in Worker, Step(w)
  PROVE  OwnWork'
<1>1. pc[w] \in Phase /\ ord(w) \in Assigned[w]
  <2>1. pc[w] \in Phase
    BY DEF Step, ContainsOrder, Reserve, ClaimPending, SendDeliveryMessage, ReleaseReserved,
       ReleasePending, CommitDelivered, ReturnItems, Phase
  <2>2. QED
    BY <2>1 DEF OwnWork
<1>2. ASSUME NEW v \in Worker \ {w}, pc'[v] \in Phase
      PROVE  /\ ord(v)' \in Assigned[v]
             /\ pc'[v] \in {"reserve", "claim"} => Vacant(ord(v))'
  <2>1. pc[v] \in Phase /\ ord(v)' = ord(v) /\ ord(v) \in Assigned[v]
    BY <1>2, Frame DEF OwnWork, ord
  <2>2. ord(v) # ord(w) /\ ord(v) \in Order
    BY <1>1, <2>1 DEF OrdersApart, TypeOK, ord
  <2>3. records'[ord(v)] = records[ord(v)]
    BY <2>2, Frame
  <2>4. QED
    BY <1>2, <2>1, <2>3, Frame DEF OwnWork, Vacant
<1>3. ord(w)' = ord(w)
  BY Frame DEF ord
<1>4. pc'[w] \in {"reserve", "claim"} => Vacant(ord(w))'
  <2>1. CASE ContainsOrder(w)
    BY <1>3, <2>1 DEF ContainsOrder, Goto, TypeOK, Vacant
  <2>2. CASE Reserve(w)
    BY <1>3, <2>2 DEF Reserve, Goto, TypeOK, Vacant, OwnWork
  <2>3. CASE \/ ClaimPending(w) \/ SendDeliveryMessage(w) \/ ReleaseReserved(w)
             \/ ReleasePending(w) \/ CommitDelivered(w) \/ ReturnItems(w)
    <3>1. pc'[w] \notin {"reserve", "claim"}
      BY <2>3 DEF ClaimPending, SendDeliveryMessage, ReleaseReserved, ReleasePending,
         CommitDelivered, ReturnItems, Return, Goto, TypeOK, AfterClaim, AfterRefusal
    <3>2. QED
      BY <3>1
  <2>4. QED
    BY <2>1, <2>2, <2>3 DEF Step
<1>5. QED
  BY <1>1, <1>2, <1>3, <1>4 DEF OwnWork, Phase

LEMMA StepFromBatches ==
  ASSUME TypeInv, FromBatches, NEW w \in Worker, Step(w)
  PROVE  FromBatches'
<1>0. TypeOK /\ HoldsReservation
  BY DEF TypeInv
<1>1. CASE UNCHANGED <<listed, stock, added>> /\ reserved'[w] \in {reserved[w], Nothing}
  BY <1>0, <1>1, Frame DEF FromBatches, Nothing
<1>2. ASSUME NEW p \in Candidates(ord(w)), UNCHANGED <<listed, added>>,
             reserved' = [reserved EXCEPT ![w] =
                            [product |-> p, items |-> Taken(p, Requested(ord(w)))]],
             stock' = [stock EXCEPT ![p] = Rest(p, Requested(ord(w)))]
      PROVE  FromBatches'
  <2>1. p \in listed
    BY DEF Candidates
  <2>2. reserved'[w].product = p /\ \A q \in Product \ {p} : stock'[q] = stock[q]
    BY <1>0, <1>2 DEF TypeOK
  <2>3. \A v \in Worker \ {w} : reserved'[v] = reserved[v]
    BY Frame, <1>0
  <2>4. QED
    BY <1>2, <2>1, <2>2, <2>3 DEF FromBatches
<1>3. CASE ReleaseReserved(w)
  <2>1. reserved[w].product \in listed
    BY <1>0, <1>3, ConstantsAssumption DEF ReleaseReserved, HoldsReservation, FromBatches
  <2>2. /\ listed' = listed /\ UNCHANGED <<added, reserved>>
        /\ \A q \in Product \ {reserved[w].product} : stock'[q] = stock[q]
    BY <1>0, <1>3, <2>1 DEF ReleaseReserved, TypeOK
  <2>3. QED
    BY <2>1, <2>2 DEF FromBatches
<1>4. CASE ContainsOrder(w)
  BY <1>1, <1>4 DEF ContainsOrder
<1>5. CASE Reserve(w)
  <2>1. CASE UNCHANGED <<stock, reserved>>
    BY <1>1, <1>5, <2>1 DEF Reserve
  <2>2. QED
    BY <1>2, <1>5, <2>1 DEF Reserve
<1>6. CASE ClaimPending(w)
  BY <1>0, <1>1, <1>6 DEF ClaimPending, Return, TypeOK
<1>7. CASE SendDeliveryMessage(w)
  BY <1>1, <1>7 DEF SendDeliveryMessage
<1>8. CASE ReleasePending(w)
  BY <1>0, <1>1, <1>8 DEF ReleasePending, Return, TypeOK
<1>9. CASE CommitDelivered(w)
  BY <1>0, <1>1, <1>9 DEF CommitDelivered, Return, TypeOK
<1>10. CASE ReturnItems(w)
  BY <1>0, <1>1, <1>10 DEF ReturnItems, Return, TypeOK
<1>11. QED
  BY <1>3, <1>4, <1>5, <1>6, <1>7, <1>8, <1>9, <1>10 DEF Step

LEMMA NextNoLoss ==
  ASSUME OrdersApart, ProductsOnce, ~StoreFaults, ~Crashes, TypeInv, NoLossInv, [Next]_vars
  PROVE  NoLossInv'
<1>0. TypeOK /\ TypeOK' /\ HoldsReservation /\ Kept /\ OwnWork /\ FromBatches
  BY NextType DEF TypeInv, NoLossInv
<1>1. PICK C, D : C = Holding /\ D = Holding'
  OBVIOUS
<1>2. C \in [Holder -> Seq(Item)] /\ D \in [Holder -> Seq(Item)]
  BY <1>0, <1>1, HoldingType, HoldingTypeNext
<1>3. \A b \in added : \A k \in DOMAIN b.items : Around(C, b.items[k])
  BY <1>0, <1>1 DEF Kept, Around
<1>4. SUFFICES /\ \A b \in added' : \A k \in DOMAIN b.items : Around(D, b.items[k])
               /\ OwnWork' /\ FromBatches'
  BY <1>1 DEF NoLossInv, Kept, Around
<1>5. ASSUME \A h \in Holder : D[h] = C[h], added' = added
      PROVE  \A b \in added' : \A k \in DOMAIN b.items : Around(D, b.items[k])
  BY <1>3, <1>5 DEF Around, OnSale
<1>6. ASSUME NEW b \in Batch, AddProduct(b)
      PROVE  /\ \A c \in added' : \A k \in DOMAIN c.items : Around(D, c.items[k])
             /\ OwnWork' /\ FromBatches'
  <2>0. /\ b.product \in Product /\ b.items \in Seq(Item)
        /\ <<"batch", b>> \in Holder /\ <<"stock", b.product>> \in OnSale
        /\ added' = added \cup {b} /\ added \subseteq Batch
    BY <1>0, <1>6, ConstantsAssumption, HolderKinds DEF OnSale, AddProduct, TypeOK
  <2>1. Moved(C, D, <<"batch", b>>, <<"stock", b.product>>)
    BY <1>0, <1>1, <1>6, AddHolding
  <2>2. stock[b.product] = <<>>
    BY <1>0, <1>6, <2>0 DEF FromBatches, AddProduct, ProductsOnce
  <2>3. C[<<"stock", b.product>>] = <<>> /\ C[<<"batch", b>>] = b.items
    BY <1>1, <1>6, <2>0, <2>2, HolderKinds DEF Holding, AddProduct
  <2>4. ASSUME NEW i, Around(C, i)
        PROVE  Around(D, i)
    <3>1. PICK g \in OnSale : \E k \in DOMAIN C[g] : C[g][k] = i
      BY <2>4 DEF Around
    <3>2. g # <<"stock", b.product>> /\ g # <<"batch", b>> /\ g \in Holder
      BY <2>3, <3>1 DEF OnSale
    <3>3. D[g] = C[g]
      BY <1>2, <2>1, <3>2 DEF Moved, SameBut
    <3>4. QED
      BY <3>1, <3>3 DEF Around
  <2>5. ASSUME NEW k \in DOMAIN b.items
        PROVE  Around(D, b.items[k])
    BY <2>0, <2>1, <2>3 DEF Around, Moved
  <2>6. \A c \in added' : \A k \in DOMAIN c.items : Around(D, c.items[k])
    BY <1>3, <2>0, <2>4, <2>5
  <2>7. OwnWork'
    BY <1>0, <1>6 DEF AddProduct, OwnWork, ord, Vacant
  <2>8. FromBatches'
    BY <1>0, <1>6, <2>0 DEF AddProduct, FromBatches, TypeOK
  <2>9. QED
    BY <2>6, <2>7, <2>8
<1>7. ASSUME NEW w \in Worker, Call(w)
      PROVE  /\ \A c \in added' : \A k \in DOMAIN c.items : Around(D, c.items[k])
             /\ OwnWork' /\ FromBatches'
  <2>1. \A h \in Holder : D[h] = C[h]
    BY <1>0, <1>1, <1>7, CallHolding
  <2>2. UNCHANGED <<listed, stock, added, reserved, records>>
    BY <1>7 DEF Call
  <2>a. PICK o \in Assigned[w] :
          \E f \in Flows[o], step \in {"OrderNotPaid", "check"} :
            /\ call' = [call EXCEPT ![w] = [flow |-> f, order |-> o]]
            /\ pc' = [pc EXCEPT ![w] = step]
    BY <1>7 DEF Call, Goto
  <2>3. PICK f \in Flows[o], step \in {"OrderNotPaid", "check"} :
          /\ call' = [call EXCEPT ![w] = [flow |-> f, order |-> o]]
          /\ pc' = [pc EXCEPT ![w] = step]
    BY <2>a
  <2>4. OwnWork'
    <3>1. pc'[w] \notin {"reserve", "claim"} /\ ord(w)' = o
      BY <1>0, <2>3 DEF TypeOK, ord
    <3>2. \A v \in Worker \ {w} : pc'[v] = pc[v] /\ ord(v)' = ord(v)
      BY <1>0, <2>3 DEF TypeOK, ord
    <3>3. QED
      BY <1>0, <2>2, <3>1, <3>2 DEF OwnWork, Vacant
  <2>5. FromBatches'
    BY <1>0, <2>2 DEF FromBatches
  <2>6. QED
    BY <1>5, <2>1, <2>2, <2>4, <2>5
<1>8. ASSUME NEW w \in Worker, Step(w)
      PROVE  /\ \A c \in added' : \A k \in DOMAIN c.items : Around(D, c.items[k])
             /\ OwnWork' /\ FromBatches'
  <2>1. StepMoves(w, C, D)
    BY <1>1, <1>8, StepHolding
  <2>2. ASSUME NEW i, Around(C, i)
        PROVE  Around(D, i)
    BY <1>0, <1>2, <2>1, <2>2, StepAround DEF OwnWork, Fails
  <2>3. added' = added
    BY <1>8 DEF Step, ContainsOrder, Reserve, ClaimPending, SendDeliveryMessage, ReleaseReserved,
       ReleasePending, CommitDelivered, ReturnItems
  <2>4. \A c \in added' : \A k \in DOMAIN c.items : Around(D, c.items[k])
    BY <1>3, <2>2, <2>3
  <2>5. QED
    BY <1>0, <1>8, <2>4, StepOwnWork, StepFromBatches
<1>9. CASE UNCHANGED vars
  <2>1. \A h \in Holder : D[h] = C[h]
    <3>1. \A h \in Holder : Held(h)' = Held(h)
      BY <1>9 DEF vars, Held, InHand
    <3>2. QED
      BY <1>1, <3>1 DEF Holding
  <2>2. OwnWork' /\ FromBatches' /\ added' = added
    BY <1>0, <1>9 DEF vars, OwnWork, FromBatches, ord, Vacant
  <2>3. QED
    BY <1>5, <2>1, <2>2
<1>10. ~Crash
  BY DEF Crash
<1>11. QED
  BY <1>6, <1>7, <1>8, <1>9, <1>10 DEF Next

LEMMA KeptNotLost ==
  ASSUME TypeOK, Kept
  PROVE  NothingLost
  BY AroundIsPlaced DEF NothingLost, Kept

\* Nothing put on sale disappears, whatever messages are refused and replies
\* lost, where no two goroutines work on one order, a product is listed once,
\* the store works and the process lives: what a refused message leaves with its
\* goroutine goes back to the stock.
THEOREM NothingIsLost ==
  ASSUME OrdersApart, ProductsOnce, ~StoreFaults, ~Crashes
  PROVE  Spec => []NothingLost
<1>1. Init => NoLossInv
  BY DEF Init, NoLossInv, Kept, OwnWork, FromBatches, Phase, Nothing
<1>2. TypeInv /\ NoLossInv /\ [Next]_vars => NoLossInv'
  BY NextNoLoss
<1>3. TypeInv /\ NoLossInv => NothingLost
  BY KeptNotLost DEF TypeInv, NoLossInv
<1>4. QED
  BY <1>1, <1>2, <1>3, Typed, PTL DEF Spec

=============================================================================
