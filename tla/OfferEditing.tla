---------------------------- MODULE OfferEditing ----------------------------
(***************************************************************************)
(* The offer operations of GoldenPaySession (src/client.go): EditOffer     *)
(* reads an offer's edit page, merges a patch into what it read and posts  *)
(* the result; DeleteOffer, DeactivateAllOffers, DeleteAllOffers and       *)
(* UndercutPrice are built on it.  Editors are the goroutines (or other    *)
(* programs) that edit the offers of one category; the marketplace and the *)
(* other sellers are external.                                             *)
(***************************************************************************)
EXTENDS Integers, FiniteSetsExt

CONSTANTS
  Editor, Offer, NoOffer,
  Prices,       \* prices, in whole kopecks: "%.2f" is exact on them
  RivalPrices,  \* prices other sellers may ask, under MinPrice too
  UndercutBy, MinPrice,
  Calls,        \* the operations called
  Failures,     \* a request may fail, a POST after taking effect too
  Refusals,     \* the marketplace may answer a save with success = false
  BadPages      \* an error page may come in place of a page

ASSUME OfferAssumption ==
  /\ NoOffer \notin Offer
  /\ Prices \subseteq Nat /\ MinPrice \in Prices /\ RivalPrices \subseteq Nat
  /\ UndercutBy \in Nat
  /\ Calls \subseteq {"edit", "undercut", "create", "deactivateAll", "deleteAll"}
  /\ {Failures, Refusals, BadPages} \subseteq BOOLEAN

VARIABLES
  offers,   \* the marketplace's copy of each own offer
  rivals,   \* the prices of the other sellers' offers
  pc,       \* the next request of each editor
  task,     \* its call: the operation, the offer it is at, the patch
  form,     \* the OfferEdit it read for that offer
  todo,     \* the offers its sweep has still to come to
  seen      \* observers of its call, see NothingSeen

vars == <<offers, rivals, pc, task, form, todo, seen>>

Sweeps == {"deactivateAll", "deleteAll"}
Ops    == Sweeps \cup {"edit", "undercut", "create"}
Steps  == {"idle", "list", "market", "read", "save"}
Ended  == {"idle", "ok", "error"}

\* An OfferEdit is a function on its non-nil fields.
NoEdit == [f \in {} |-> 0]
Patches == {[price |-> p] : p \in Prices} \cup {[active |-> b] : b \in BOOLEAN}
             \cup {[deleted |-> TRUE]}
Details == {[price |-> p, active |-> b] : p \in Prices, b \in BOOLEAN}

NoTask == [op |-> "edit", target |-> NoOffer, patch |-> NoEdit]

\* listed: the offers on sale on the list the sweep got; off: those of all
\* offers that were off sale at some moment since then; refused: those whose
\* save the marketplace refused this sweep though they were not deleted.
NothingSeen == [listed |-> {}, off |-> {}, refused |-> {}]

Live(o) == offers[o].status = "live"
OnSale(o) == Live(o) /\ offers[o].active

IsEdit(e) ==
  /\ DOMAIN e \subseteq {"price", "active", "deleted"}
  /\ "price" \in DOMAIN e => e.price \in Prices \cup Nat
  /\ "active" \in DOMAIN e => e.active \in BOOLEAN
  /\ "deleted" \in DOMAIN e => e.deleted \in BOOLEAN

TypeOK ==
  /\ offers \in [Offer -> [status : {"unborn", "live", "deleted"},
                           price : Nat, active : BOOLEAN]]
  /\ \A o \in Offer : offers[o].active => Live(o)
  /\ rivals \in SUBSET RivalPrices
  /\ pc \in [Editor -> Steps \cup Ended]
  /\ \A w \in Editor :
       /\ task[w].op \in Ops
       /\ task[w].target \in Offer \cup {NoOffer}
       /\ pc[w] \in {"read", "save"} =>
            task[w].target # NoOffer \/ task[w].op = "create"
       /\ IsEdit(task[w].patch) /\ IsEdit(form[w])
       /\ todo[w] \subseteq Offer
       /\ task[w].target \notin todo[w]

Init ==
  /\ offers \in [Offer -> {[status |-> "live", price |-> p, active |-> b] :
                             p \in Prices, b \in BOOLEAN}
                          \cup {[status |-> "unborn", price |-> MinPrice, active |-> FALSE]}]
  /\ rivals = {}
  /\ pc = [w \in Editor |-> "idle"]
  /\ task = [w \in Editor |-> NoTask]
  /\ form = [w \in Editor |-> NoEdit]
  /\ todo = [w \in Editor |-> {}]
  /\ seen = [w \in Editor |-> NothingSeen]

-----------------------------------------------------------------------------
(* Mutated forms of the definitions below.                                  *)

FormOfWithActive(o) ==
  IF Live(o) THEN [price |-> offers[o].price, active |-> offers[o].active] ELSE NoEdit
TargetsInactive(op) ==
  {o \in Offer : Live(o) /\ (op = "deactivateAll" => ~offers[o].active)}
CutPriceUnclamped(market) == IF market = {} THEN 0 ELSE Min(market) - UndercutBy

-----------------------------------------------------------------------------
(* Helpers.                                                                 *)

\* OfferEdit.Merge: the patch's non-nil fields win.
Merge(e, other) ==
  [f \in DOMAIN e \cup DOMAIN other |-> IF f \in DOMAIN other THEN other[f] ELSE e[f]]

\* parseOfferDetails: the price (and the texts) but none of the flags; a page
\* that is not an edit form has none of the fields.
FormOf(o) == IF Live(o) THEN [price |-> offers[o].price] ELSE NoEdit

\* buildOfferPayload: a flag that is false is left out like one that is nil.
Payload(e) == [f \in {g \in DOMAIN e : g = "price" \/ e[g]} |-> e[f]]

\* What the marketplace stores: a checkbox that was not sent is off.  (That
\* is how DeactivateAllOffers turns offers off at all.)
Stored(offer, payload) ==
  [status |-> IF "deleted" \in DOMAIN payload THEN "deleted" ELSE "live",
   price  |-> IF "price" \in DOMAIN payload THEN payload.price ELSE offer.price,
   active |-> "active" \in DOMAIN payload /\ "deleted" \notin DOMAIN payload]

\* The offers a sweep goes through, of those FetchMyOffers lists.
Targets(op) == {o \in Offer : IF op = "deactivateAll" THEN OnSale(o) ELSE Live(o)}

SweepPatch(op) == IF op = "deactivateAll" THEN [active |-> FALSE] ELSE [deleted |-> TRUE]

\* FetchMarketOffers lists every seller's offers, the own ones with them.
MarketPrices == rivals \cup {offers[o].price : o \in {p \in Offer : OnSale(p)}}

\* The price UndercutPrice asks for; the lowest of no prices is 0.
CutPrice(market) ==
  LET lowest == IF market = {} THEN 0 ELSE Min(market)
  IN IF lowest - UndercutBy < MinPrice THEN MinPrice ELSE lowest - UndercutBy

Goto(w, step) == pc' = [pc EXCEPT ![w] = step]

At(w, target, patch) ==
  task' = [task EXCEPT ![w].target = target, ![w].patch = patch]

\* A call ends: the operation is kept, what it was at is not.
Return(w, outcome) ==
  /\ Goto(w, outcome)
  /\ task' = [task EXCEPT ![w] = [NoTask EXCEPT !.op = task[w].op]]
  /\ todo' = [todo EXCEPT ![w] = {}]

Sweeping(w) == task[w].op \in Sweeps /\ pc[w] \in {"read", "save"}

\* An offer that is off sale after this step is noted for every sweep under way.
Noted ==
  seen' = [w \in Editor |->
    IF Sweeping(w) THEN [seen[w] EXCEPT !.off = @ \cup {o \in Offer : ~OnSale(o)'}] ELSE seen[w]]

NotedRefused(w) ==
  seen' = IF Sweeping(w) THEN [seen EXCEPT ![w].refused = @ \cup {task[w].target}] ELSE seen

-----------------------------------------------------------------------------
(* Actions.                                                                 *)

RivalsMove ==
  /\ rivals' \in SUBSET RivalPrices
  /\ UNCHANGED <<offers, pc, task, form, todo, seen>>

Call(w) ==
  /\ pc[w] \in Ended
  /\ UNCHANGED <<offers, rivals, form, todo>>
  /\ seen' = [seen EXCEPT ![w] = NothingSeen]
  /\ \/ \E o \in Offer, patch \in Patches :       \* EditOffer, DeleteOffer
          /\ "edit" \in Calls
          /\ offers[o].status # "unborn"
          /\ task' = [task EXCEPT ![w] = [op |-> "edit", target |-> o, patch |-> patch]]
          /\ Goto(w, "read")
     \/ \E o \in Offer :                          \* UndercutPrice
          /\ "undercut" \in Calls
          /\ offers[o].status # "unborn"
          /\ task' = [task EXCEPT ![w] = [op |-> "undercut", target |-> o, patch |-> NoEdit]]
          /\ Goto(w, "market")
     \/ \E op \in Sweeps \cap Calls :              \* Deactivate/DeleteAllOffers
          /\ task' = [task EXCEPT ![w] = [op |-> op, target |-> NoOffer, patch |-> NoEdit]]
          /\ Goto(w, "list")
     \/ \E details \in Details :                  \* CreateOffer
          /\ "create" \in Calls
          /\ task' = [task EXCEPT ![w] = [op |-> "create", target |-> NoOffer, patch |-> details]]
          /\ Goto(w, "save")

\* A request fails before it does anything: the whole call returns the error.
Fail(w) ==
  /\ Failures
  /\ pc[w] \in {"list", "market", "read", "save"}
  /\ Return(w, "error")
  /\ form' = [form EXCEPT ![w] = NoEdit]
  /\ seen' = [seen EXCEPT ![w] = NothingSeen]
  /\ UNCHANGED <<offers, rivals>>

\* Mutated form of NextTarget: the offer stays on the list.
NextTargetKept(w, left) ==
  \/ left = {} /\ Return(w, "ok")
  \/ \E o \in left :
       /\ Goto(w, "read")
       /\ todo' = [todo EXCEPT ![w] = left]
       /\ At(w, o, SweepPatch(task[w].op))

\* A sweep turns to its next offer, if any; any other call is over.
NextTarget(w, left) ==
  \/ left = {} /\ Return(w, "ok")
  \/ \E o \in left :
       /\ Goto(w, "read")
       /\ todo' = [todo EXCEPT ![w] = left \ {o}]
       /\ At(w, o, SweepPatch(task[w].op))

\* FetchMyOffers: getHTML looks at no status but 403, and an error page lists
\* no offers.
FetchMyOffers(w) ==
  /\ pc[w] = "list"
  /\ \E list \in {Targets(task[w].op)} \cup (IF BadPages THEN {{}} ELSE {}) :
       /\ NextTarget(w, list)
       /\ seen' = [seen EXCEPT ![w].listed = {o \in Offer : list # {} /\ OnSale(o)},
                               ![w].off = {o \in Offer : ~OnSale(o)}]
  /\ UNCHANGED <<offers, rivals, form>>

FetchMarketOffers(w) ==
  /\ pc[w] = "market"
  /\ \E market \in {MarketPrices} \cup (IF BadPages THEN {{}} ELSE {}) :
       At(w, task[w].target, [price |-> CutPrice(market)])
  /\ Goto(w, "read")
  /\ UNCHANGED <<offers, rivals, form, todo, seen>>

FetchOfferDetails(w) ==
  /\ pc[w] = "read"
  /\ \E page \in {FormOf(task[w].target)} \cup (IF BadPages THEN {NoEdit} ELSE {}) :
       form' = [form EXCEPT ![w] = page]
  /\ Goto(w, "save")
  /\ UNCHANGED <<offers, rivals, task, todo, seen>>

\* The form of an offer that exists is stored on it, offer_id 0 makes a new
\* one; a deleted offer takes no more edits.
Store(w) ==
  LET payload == Payload(Merge(form[w], task[w].patch))
  IN IF task[w].op = "create"
     THEN \E o \in Offer :
            /\ offers[o].status = "unborn"
            /\ offers' = [offers EXCEPT ![o] = Stored(@, payload)]
     ELSE LET o == task[w].target
          IN Live(o) /\ offers' = [offers EXCEPT ![o] = Stored(@, payload)]

\* saveOffer: done; refused, which no caller looks at; or stored with the
\* answer lost, which ends the call like a failure.
SaveOffer(w) ==
  /\ pc[w] = "save"
  /\ form' = [form EXCEPT ![w] = NoEdit]
  /\ UNCHANGED rivals
  /\ \/ Store(w) /\ NextTarget(w, todo[w]) /\ Noted
     \/ /\ task[w].op # "create" /\ ~Live(task[w].target)
        /\ NextTarget(w, todo[w])
        /\ UNCHANGED <<offers, seen>>
     \/ /\ Refusals
        /\ NextTarget(w, todo[w])
        /\ NotedRefused(w)
        /\ UNCHANGED offers
     \/ Failures /\ Store(w) /\ Return(w, "error") /\ Noted

Step(w) ==
  \/ FetchMyOffers(w)
  \/ FetchMarketOffers(w)
  \/ FetchOfferDetails(w)
  \/ SaveOffer(w)

Next == RivalsMove \/ \E w \in Editor : Call(w) \/ Fail(w) \/ Step(w)

Spec == Init /\ [][Next]_vars

-----------------------------------------------------------------------------
(* Properties.                                                              *)

\* "DeactivateAllOffers sets active=false for all offers in a node"
\* (client.go:289), DeleteAllOffers deletes them: when the sweep returns nil,
\* each offer its list showed on sale was taken off since then, whatever other
\* editors did, and a deleted one is still off; only an offer whose save the
\* marketplace refused may be left, since nobody looks at success = false.
SweepComplete ==
  \A w \in Editor : pc[w] = "ok" =>
    \A o \in seen[w].listed \ seen[w].refused :
      /\ task[w].op = "deactivateAll" => o \in seen[w].off
      /\ task[w].op = "deleteAll" => offers[o].status = "deleted"

\* An offer goes on sale only by a save whose own caller asked for that: no
\* other edit, however stale the page it was made from, puts an offer back
\* that someone else had taken off.
ActivationAsked ==
  [][\A o \in Offer : ~OnSale(o) /\ OnSale(o)' =>
       \E w \in Editor :
         /\ pc[w] = "save" /\ task[w].target \in {o, NoOffer}
         /\ "active" \in DOMAIN task[w].patch /\ task[w].patch.active]_vars

\* "EditOffer patches an existing offer" (client.go:274): an offer goes off
\* sale only by a patch that says so.
ActiveKept ==
  [][\A o \in Offer : OnSale(o) /\ ~OnSale(o)' =>
       \E w \in Editor :
         /\ pc[w] = "save" /\ task[w].target = o
         /\ {"active", "deleted"} \cap DOMAIN task[w].patch # {}]_vars

\* Whatever is stale by the time it is stored, no offer is ever priced under
\* min_price: neither after another seller who asks less, nor after an empty
\* market page, whose lowest price counts as 0.
NeverBelowFloor == \A o \in Offer : offers[o].price >= MinPrice

=============================================================================
