------------------------------ MODULE Delivery ------------------------------
(***************************************************************************)
(* Auto-delivery of digital goods (src/automation.go): a DeliveryService   *)
(* with its stock, a DeliveryStore with one record per order, and          *)
(* goroutines of the host that call ProcessPaidOrder or DeliverOrder at    *)
(* the same time.  Every call into the service or the store takes a mutex, *)
(* so each is one atomic step; between two of them a goroutine holds no    *)
(* lock, and any other may run or the process may die.                     *)
(***************************************************************************)
EXTENDS Integers, Sequences, FiniteSets

CONSTANTS
  Worker,       \* goroutines of the host
  Order, Product, Item,
  None,         \* the product of an empty reservation
  Amount,       \* OrderInfo.Amount of each order; may be negative
  Matching,     \* the pairs <<product, order>> a ProductMatcher accepts
  Batch,        \* [product, items]: what the host will put on sale, once each
  Assigned,     \* the orders each goroutine may be asked to deliver
  Flows,        \* the entry points the host may use for each order
  Persistent,   \* TRUE: JSONDeliveryStore; FALSE: MemoryDeliveryStore
  StoreFaults,  \* a store call may fail and change nothing
  LostReplies,  \* a message may arrive although SendMessage reports an error
  Crashes,      \* the process may die and be started again
  MaxInbox      \* bound: copies of an order sent by lost replies

Phase   == {"check", "reserve", "claim", "send", "release", "unclaim", "commit",
            "return"}
Outcome == {"idle", "Ok", "OrderNotPaid", "AlreadyDelivered", "ProductNotFound",
            "NotEnoughItems", "StoreError", "SendFailed"}
Status  == {"absent", "pending", "delivered"}
Flow    == {"process", "deliver"}

ASSUME ConstantsAssumption ==
  /\ Order # {}
  /\ None \notin Product
  /\ Amount \in [Order -> Int]
  /\ Matching \subseteq Product \X Order
  /\ Batch \subseteq [product : Product, items : Seq(Item)]
  /\ Assigned \in [Worker -> SUBSET Order]
  /\ Flows \in [Order -> SUBSET Flow]
  /\ {Persistent, StoreFaults, LostReplies, Crashes} \subseteq BOOLEAN
  /\ MaxInbox \in Nat

VARIABLES
  listed,    \* the keys of DeliveryService.Products
  stock,     \* Products[k].Items; empty for a key that is not listed
  added,     \* the batches the host has put on sale
  records,   \* DeliveryStore: one record per order
  pc,        \* the step each goroutine is about to take, or what it returned
  call,      \* entry point and order of its current or last call
  reserved,  \* its local ReservedDelivery
  inbox      \* what the buyer of each order was handed, oldest first

vars == <<listed, stock, added, records, pc, call, reserved, inbox>>

Record      == [status : Status, items : Seq(Item)]
Reservation == [product : Product \cup {None}, items : Seq(Item)]

NoRecord == [status |-> "absent", items |-> <<>>]
Nothing  == [product |-> None, items |-> <<>>]

\* Stands for "no call yet": nothing reads it before Call sets it.
NoCall == CHOOSE c \in [flow : Flow, order : Order] : TRUE

TypeOK ==
  /\ listed \in SUBSET Product
  /\ stock \in [Product -> Seq(Item)]
  /\ added \in SUBSET Batch
  /\ records \in [Order -> Record]
  /\ pc \in [Worker -> Phase \cup Outcome]
  /\ call \in [Worker -> [flow : Flow, order : Order]]
  /\ reserved \in [Worker -> Reservation]
  /\ inbox \in [Order -> Seq(Seq(Item))]

Init ==
  /\ listed = {}
  /\ stock = [p \in Product |-> <<>>]
  /\ added = {}
  /\ records = [o \in Order |-> NoRecord]
  /\ pc = [w \in Worker |-> "idle"]
  /\ call = [w \in Worker |-> NoCall]
  /\ reserved = [w \in Worker |-> Nothing]
  /\ inbox = [o \in Order |-> <<>>]

-----------------------------------------------------------------------------
(* Mutated forms of the definitions below: one plausible bug each.  No      *)
(* action uses them.                                                        *)

RestNotTaken(p, n) == stock[p]
RestoredWithoutReserved(w) == stock[reserved[w].product]
VacantUnlessDelivered(o) == records[o].status # "delivered"
VacantUnchecked(o) == TRUE
WithdrawnKept(o) == records[o]
SurvivingLost(o) == NoRecord
AfterRefusalCommit == "commit"
CompletedWithoutStatus(w) == [status |-> "", items |-> reserved[w].items]
CompletedWithoutItems(w) == [status |-> "delivered", items |-> <<>>]

-----------------------------------------------------------------------------
(* Helpers.                                                                 *)

ord(w) == call[w].order

Requested(o) == IF Amount[o] < 0 THEN 0 ELSE Amount[o]

\* ProductMatcher.Matches over the listed products; map order is random in Go.
Candidates(o) == {p \in listed : <<p, o>> \in Matching}

Taken(p, n) == SubSeq(stock[p], 1, n)

Rest(p, n) == SubSeq(stock[p], n + 1, Len(stock[p]))

Restored(w) == reserved[w].items \o stock[reserved[w].product]

\* ContainsOrder and ClaimPending look for a record of any status.
Vacant(o) == records[o].status = "absent"

Claim(w) == [status |-> "pending", items |-> reserved[w].items]

Completed(w) == [status |-> "delivered", items |-> reserved[w].items]

\* The JSON store deletes only a pending record, the memory store any.
Withdrawn(o) ==
  IF Persistent /\ records[o].status # "pending" THEN records[o] ELSE NoRecord

Surviving(o) == IF Persistent THEN records[o] ELSE NoRecord

AfterClaim(w) == IF call[w].flow = "process" THEN "send" ELSE "commit"

AfterRefusal == "release"

Goto(w, step) == pc' = [pc EXCEPT ![w] = step]

Hand(w) == inbox' = [inbox EXCEPT ![ord(w)] = Append(@, reserved[w].items)]

\* A call returns: its local reservation is gone.
Return(w, outcome) ==
  /\ Goto(w, outcome)
  /\ reserved' = [reserved EXCEPT ![w] = Nothing]

-----------------------------------------------------------------------------
(* Actions.                                                                 *)

\* The host lists a product; an inventory already there is overwritten.
AddProduct(b) ==
  /\ b \notin added
  /\ added' = added \cup {b}
  /\ listed' = listed \cup {b.product}
  /\ stock' = [stock EXCEPT ![b.product] = b.items]
  /\ UNCHANGED <<records, pc, call, reserved, inbox>>

\* The host calls ProcessPaidOrder, which refuses an order that is not paid,
\* or DeliverOrder, which does not ask.
Call(w) ==
  /\ pc[w] \in Outcome
  /\ \E o \in Assigned[w] : \E f \in Flows[o], paid \in BOOLEAN :
       /\ call' = [call EXCEPT ![w] = [flow |-> f, order |-> o]]
       /\ Goto(w, IF f = "process" /\ ~paid THEN "OrderNotPaid" ELSE "check")
  /\ UNCHANGED <<listed, stock, added, records, reserved, inbox>>

ContainsOrder(w) ==
  /\ pc[w] = "check"
  /\ \/ /\ StoreFaults
        /\ Goto(w, "StoreError")
     \/ Goto(w, IF Vacant(ord(w)) THEN "reserve" ELSE "AlreadyDelivered")
  /\ UNCHANGED <<listed, stock, added, records, call, reserved, inbox>>

\* Only the product the map iteration meets first is tried: with several
\* matching ones the outcome depends on which it is.
Reserve(w) ==
  /\ pc[w] = "reserve"
  /\ UNCHANGED <<listed, added, records, call, inbox>>
  /\ \/ /\ Candidates(ord(w)) = {}
        /\ Goto(w, "ProductNotFound")
        /\ UNCHANGED <<stock, reserved>>
     \/ \E p \in Candidates(ord(w)) :
          \/ /\ Len(stock[p]) < Requested(ord(w))
             /\ Goto(w, "NotEnoughItems")
             /\ UNCHANGED <<stock, reserved>>
          \/ /\ Len(stock[p]) >= Requested(ord(w))
             /\ reserved' = [reserved EXCEPT ![w] =
                  [product |-> p, items |-> Taken(p, Requested(ord(w)))]]
             /\ stock' = [stock EXCEPT ![p] = Rest(p, Requested(ord(w)))]
             /\ Goto(w, "claim")

\* On failure the call returns at once: what it had reserved is in no stock.
ClaimPending(w) ==
  /\ pc[w] = "claim"
  /\ UNCHANGED <<listed, stock, added, call, inbox>>
  /\ \/ /\ StoreFaults
        /\ Return(w, "StoreError")
        /\ UNCHANGED records
     \/ /\ ~Vacant(ord(w))
        /\ Return(w, "AlreadyDelivered")
        /\ UNCHANGED records
     \/ /\ Vacant(ord(w))
        /\ records' = [records EXCEPT ![ord(w)] = Claim(w)]
        /\ Goto(w, AfterClaim(w))
        /\ UNCHANGED reserved

\* Confirmed; refused or not sent; or delivered with the answer lost (the
\* client's timeout, an unreadable answer), which the caller cannot tell from
\* a refusal.
SendDeliveryMessage(w) ==
  /\ pc[w] = "send"
  /\ UNCHANGED <<listed, stock, added, records, call, reserved>>
  /\ \/ /\ Hand(w)
        /\ Goto(w, "commit")
     \/ /\ Goto(w, AfterRefusal)
        /\ UNCHANGED inbox
     \/ /\ LostReplies
        /\ Len(inbox[ord(w)]) < MaxInbox
        /\ Hand(w)
        /\ Goto(w, AfterRefusal)

ReleaseReserved(w) ==
  /\ pc[w] = "release"
  /\ listed' = listed \cup {reserved[w].product}
  /\ stock' = [stock EXCEPT ![reserved[w].product] = Restored(w)]
  /\ Goto(w, "unclaim")
  /\ UNCHANGED <<added, records, call, reserved, inbox>>

\* ProcessPaidOrder ignores the error of ReleasePending.
ReleasePending(w) ==
  /\ pc[w] = "unclaim"
  /\ Return(w, "SendFailed")
  /\ \/ /\ StoreFaults
        /\ UNCHANGED records
     \/ records' = [records EXCEPT ![ord(w)] = Withdrawn(ord(w))]
  /\ UNCHANGED <<listed, stock, added, call, inbox>>

\* ProcessPaidOrder has sent its message before; DeliverOrder still holds the
\* items when the record already says delivered.
CommitDelivered(w) ==
  /\ pc[w] = "commit"
  /\ UNCHANGED <<listed, stock, added, call, inbox>>
  /\ \/ /\ StoreFaults
        /\ Return(w, "StoreError")
        /\ UNCHANGED records
     \/ /\ records' = [records EXCEPT ![ord(w)] = Completed(w)]
        /\ \/ /\ call[w].flow = "process"
              /\ Return(w, "Ok")
           \/ /\ call[w].flow = "deliver"
              /\ Goto(w, "return")
              /\ UNCHANGED reserved

\* DeliverOrder hands the items to its caller: the lock of the store is long
\* released, so anything may have happened since the commit.
ReturnItems(w) ==
  /\ pc[w] = "return"
  /\ Hand(w)
  /\ Return(w, "Ok")
  /\ UNCHANGED <<listed, stock, added, records, call>>

\* The process dies and is started again: the inventory and every call in
\* flight are gone, the JSON file (replaced by an atomic rename) is not.
Crash ==
  /\ Crashes
  /\ listed' = {}
  /\ stock' = [p \in Product |-> <<>>]
  /\ records' = [o \in Order |-> Surviving(o)]
  /\ pc' = [w \in Worker |-> "idle"]
  /\ reserved' = [w \in Worker |-> Nothing]
  /\ call' = [w \in Worker |-> NoCall]
  /\ UNCHANGED <<added, inbox>>

Step(w) ==
  \/ ContainsOrder(w)
  \/ Reserve(w)
  \/ ClaimPending(w)
  \/ SendDeliveryMessage(w)
  \/ ReleaseReserved(w)
  \/ ReleasePending(w)
  \/ CommitDelivered(w)
  \/ ReturnItems(w)

Next ==
  \/ \E b \in Batch : AddProduct(b)
  \/ \E w \in Worker : Call(w) \/ Step(w)
  \/ Crash

Spec == Init /\ [][Next]_vars

\* A goroutine inside a call goes on: the stores only do local file I/O and
\* the HTTP client gives up after 30 seconds (client.go, New).
FairSpec == Spec /\ \A w \in Worker : WF_vars(Step(w))

-----------------------------------------------------------------------------
(* Properties.                                                              *)

\* The worker has the order's record to itself.
Owns(w) == pc[w] \in {"send", "release", "unclaim", "commit"}

\* Between ClaimPending and the end of the call no other goroutine works on
\* the same order, and the record it claimed is still pending and names the
\* items it holds: ContainsOrder runs long before ClaimPending, and only the
\* second check may decide.
ClaimExclusive ==
  \A w \in Worker : Owns(w) =>
    /\ records[ord(w)] = Claim(w)
    /\ \A v \in Worker \ {w} : Owns(v) => ord(v) # ord(w)

\* The promise of DeliveryStore: no buyer is handed the goods of one order
\* twice, whatever the interleaving, the store failures and the restarts.
AtMostOnceDelivery == \A o \in Order : Len(inbox[o]) <= 1

\* "order was already delivered" (automation.go:187) is what a caller is told
\* only of an order whose buyer has been handed something.
AlreadyDeliveredIsTrue ==
  \A w \in Worker : pc[w] = "AlreadyDelivered" => inbox[ord(w)] # <<>>

\* Auto-delivery (README.md:9) sends goods: an order recorded as delivered has
\* been given at least one item.
DeliveredNotEmpty ==
  \A o \in Order : records[o].status = "delivered" => records[o].items # <<>>

\* The last thing the buyer of o was handed.
GotLast(o, items) == inbox[o] # <<>> /\ inbox[o][Len(inbox[o])] = items

\* DeliverOrder has committed and is about to return these items to its caller.
OnTheWay(o, items) ==
  \E w \in Worker : pc[w] = "return" /\ ord(w) = o /\ reserved[w].items = items

\* A record says "delivered" only when the last thing the buyer was handed is
\* exactly what it lists, or a DeliverOrder that has just committed returns
\* exactly that next; a caller told "Ok" finds such a record.
RecordTruthful ==
  /\ \A o \in Order : records[o].status = "delivered" =>
       GotLast(o, records[o].items) \/ OnTheWay(o, records[o].items)
  /\ \A w \in Worker : pc[w] = "Ok" => records[ord(w)].status = "delivered"

\* A record that says "delivered" is never changed again, by any goroutine,
\* failed call or restart: it is what stops a later delivery.
RecordDurable ==
  [][\A o \in Order : records[o].status = "delivered" => records'[o] = records[o]]_vars

\* A goroutine holds items that are neither in the stock nor with a buyer.
InHand(w) ==
  \/ pc[w] \in {"claim", "send", "release", "return"}
  \/ pc[w] = "commit" /\ call[w].flow = "deliver"

\* Where a copy of item i is: positions in the stock, in the hands of a
\* goroutine, and in the inboxes.
StockPlaces(i) ==
  {x \in UNION {{p} \X DOMAIN stock[p] : p \in Product} : stock[x[1]][x[2]] = i}
HandPlaces(i) ==
  {x \in UNION {{w} \X DOMAIN reserved[w].items : w \in Worker} :
     InHand(x[1]) /\ reserved[x[1]].items[x[2]] = i}
Parcels == UNION {{o} \X DOMAIN inbox[o] : o \in Order}
InboxPlaces(i) ==
  {x \in UNION {{z} \X DOMAIN inbox[z[1]][z[2]] : z \in Parcels} :
     inbox[x[1][1]][x[1][2]][x[2]] = i}

\* One key is never sold twice: each item is in at most one place, so two
\* buyers never get the same one and a restored item was not delivered.
ItemExclusive ==
  \A i \in Item :
    Cardinality(StockPlaces(i)) + Cardinality(HandPlaces(i)) + Cardinality(InboxPlaces(i)) <= 1

\* Item i is in the stock, in the hands of a goroutine or with a buyer.
Placed(i) == StockPlaces(i) \cup HandPlaces(i) \cup InboxPlaces(i) # {}

\* A call of w to the store fails with an error.
CallFails(w) == pc[w] \in {"claim", "commit"} /\ pc'[w] \in {"StoreError", "AlreadyDelivered"}

\* The host puts a batch of the product on sale.
Restocks(p) == \E b \in added' \ added : b.product = p

\* The process ends: no inventory, no call.
Ends == Crashes /\ listed' = {} /\ \A w \in Worker : pc'[w] = "idle"

\* The only ways an item disappears, whatever the races and failures: with a
\* call that fails at the store while it holds the item, under a batch that
\* AddProduct puts in the place of what is left, or with the process.  Neither
\* a refused message, nor an error of ReleasePending, nor a release into an
\* inventory replaced meanwhile loses one.
LossesKnown ==
  [][\A i \in Item : Placed(i) /\ ~Placed(i)' =>
       \/ \E x \in HandPlaces(i) : CallFails(x[1])
       \/ \E x \in StockPlaces(i) : Restocks(x[1])
       \/ Ends]_vars

\* Where no two goroutines share an order, no store call fails and nothing
\* crashes, an item put on sale never disappears: reservations that end in a
\* refused message come back to the stock.
NothingLost ==
  \A b \in added : \A k \in DOMAIN b.items : Placed(b.items[k])

\* The ledger a caller may rely on: each goroutine's claim, message, commit and
\* return are steps of one order's open -> claimed -> closed life; everything
\* else, restarts included, leaves the ledger alone.
PhaseOf(o) == CASE records[o].status = "absent" -> "open"
                [] records[o].status = "pending" -> "claimed"
                [] records[o].status = "delivered" -> "closed"

\* The orders the host may pass to DeliverOrder.
Direct == {o \in Order : "deliver" \in Flows[o]}

Ledger == INSTANCE OrderLedger WITH
            Direct <- Direct,
            phase <- [o \in Order |-> PhaseOf(o)],
            handed <- [o \in Order |-> Len(inbox[o])]

ImplementsLedger == Ledger!Spec

\* A refused order is not blocked for ever: without crashes and store failures
\* a claim ends, by a commit or by its release.
PendingResolved ==
  \A o \in Order : records[o].status = "pending" ~> records[o].status # "pending"

=============================================================================
