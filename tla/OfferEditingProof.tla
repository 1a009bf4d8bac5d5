-------------------------- MODULE OfferEditingProof --------------------------
(***************************************************************************)
(* Theorems about OfferEditing: for any number of editors, offers, rivals  *)
(* and prices, and whatever fails or is refused.                           *)
(***************************************************************************)
EXTENDS OfferEditing, WellFoundedInduction, TLAPS

-----------------------------------------------------------------------------
(* The inductive invariant.                                                 *)

Fields == {"price", "active", "deleted"}
Edits  == {e \in UNION {[D -> Nat \cup BOOLEAN] : D \in SUBSET Fields} : IsEdit(e)}

\* The variables TypeOK says nothing of the shape of.
Shape ==
  /\ TypeOK
  /\ task \in [Editor -> [op : Ops, target : Offer \cup {NoOffer}, patch : Edits]]
  /\ form \in [Editor -> Edits]
  /\ todo \in [Editor -> SUBSET Offer]
  /\ seen \in [Editor -> [listed : SUBSET Offer, off : SUBSET Offer, refused : SUBSET Offer]]

\* Where a call of each operation can be, and what it holds there.
ProgressOf(w) ==
  /\ pc[w] = "list" => task[w].op \in Sweeps
  /\ pc[w] = "market" => task[w].op = "undercut"
  /\ pc[w] = "read" => task[w].op # "create"
  /\ todo[w] # {} => Sweeping(w)
  /\ Sweeping(w) => task[w].patch = SweepPatch(task[w].op)
  /\ task[w].op = "create" => task[w].target = NoOffer
  /\ task[w].op # "create" /\ pc[w] \in {"market", "read", "save"} => task[w].target # NoOffer

Progress == \A w \in Editor : ProgressOf(w)

\* No form knows whether its offer is on sale.
FormBlind == \A w \in Editor : "active" \notin DOMAIN form[w]

\* The sweep of w has dealt with offer o as its operation asks.
Dealt(w, o) ==
  /\ task[w].op = "deactivateAll" => o \in seen[w].off
  /\ task[w].op = "deleteAll" => offers[o].status = "deleted"

\* What a sweep has behind it.
Behind(w) == seen[w].listed \ (seen[w].refused \cup todo[w] \cup {task[w].target})

SweptOf(w) ==
  /\ \A o \in seen[w].listed : offers[o].status # "unborn"
  /\ Sweeping(w) =>
       /\ \A o \in Offer : ~OnSale(o) => o \in seen[w].off
       /\ \A o \in Behind(w) : Dealt(w, o)
  /\ pc[w] = "ok" => \A o \in seen[w].listed \ seen[w].refused : Dealt(w, o)

Swept == \A w \in Editor : SweptOf(w)

IInv == Shape /\ Progress /\ FormBlind /\ Swept

\* No price anywhere is under the floor, if nobody asks for less by hand.
FloorOf(e) == "price" \in DOMAIN e => e.price >= MinPrice

Floored ==
  /\ NeverBelowFloor
  /\ \A w \in Editor : FloorOf(task[w].patch) /\ FloorOf(form[w])

-----------------------------------------------------------------------------
(* Edits.                                                                   *)

LEMMA EditIff ==
  ASSUME NEW D \in SUBSET Fields, NEW e \in [D -> Nat \cup BOOLEAN], IsEdit(e)
  PROVE  e \in Edits
  BY DEF Edits

LEMMA EditIs ==
  ASSUME NEW e \in Edits
  PROVE  IsEdit(e) /\ DOMAIN e \subseteq Fields /\ e \in [DOMAIN e -> Nat \cup BOOLEAN]
  BY DEF Edits

LEMMA NoEditIsEdit == NoEdit \in Edits /\ DOMAIN NoEdit = {} /\ FloorOf(NoEdit)
<1>1. DOMAIN NoEdit = {} /\ NoEdit \in [{} -> Nat \cup BOOLEAN]
  BY DEF NoEdit
<1>2. IsEdit(NoEdit)
  BY <1>1 DEF IsEdit
<1>3. QED
  BY <1>1, <1>2, EditIff DEF FloorOf

LEMMA PriceIsEdit ==
  ASSUME NEW p \in Nat
  PROVE  /\ [price |-> p] \in Edits /\ DOMAIN [price |-> p] = {"price"}
         /\ [price |-> p].price = p
<1>1. DOMAIN [price |-> p] = {"price"} /\ [price |-> p] \in [{"price"} -> Nat \cup BOOLEAN]
  OBVIOUS
<1>2. IsEdit([price |-> p])
  BY DEF IsEdit
<1>3. QED
  BY <1>1, <1>2, EditIff DEF Fields

LEMMA FlagIsEdit ==
  ASSUME NEW b \in BOOLEAN
  PROVE  [active |-> b] \in Edits /\ FloorOf([active |-> b])
<1>1. DOMAIN [active |-> b] = {"active"} /\ [active |-> b] \in [{"active"} -> Nat \cup BOOLEAN]
  OBVIOUS
<1>2. IsEdit([active |-> b])
  BY DEF IsEdit
<1>3. QED
  BY <1>1, <1>2, EditIff DEF Fields, FloorOf

LEMMA DeletedIsEdit == [deleted |-> TRUE] \in Edits /\ FloorOf([deleted |-> TRUE])
<1>1. ASSUME NEW b \in BOOLEAN
      PROVE  [deleted |-> b] \in Edits /\ FloorOf([deleted |-> b])
  <2>1. DOMAIN [deleted |-> b] = {"deleted"} /\ [deleted |-> b] \in [{"deleted"} -> Nat \cup BOOLEAN]
    OBVIOUS
  <2>2. IsEdit([deleted |-> b])
    BY DEF IsEdit
  <2>3. QED
    BY <2>1, <2>2, EditIff DEF Fields, FloorOf
<1>2. QED
  BY <1>1, Zenon

LEMMA DetailsAreEdits ==
  ASSUME NEW d \in Details
  PROVE  d \in Edits /\ d.price \in Prices
<1>1. PICK p \in Prices, b \in BOOLEAN : d = [price |-> p, active |-> b]
  BY DEF Details
<1>2. DOMAIN d = {"price", "active"} /\ d \in [{"price", "active"} -> Nat \cup BOOLEAN]
  BY <1>1, OfferAssumption
<1>3. IsEdit(d)
  BY <1>1, <1>2 DEF IsEdit
<1>4. QED
  BY <1>1, <1>2, <1>3, EditIff DEF Fields

LEMMA PatchesAreEdits ==
  ASSUME NEW d \in Patches
  PROVE  d \in Edits /\ ((\A p \in Prices : MinPrice <= p) => FloorOf(d))
<1>1. CASE \E p \in Prices : d = [price |-> p]
  BY <1>1, PriceIsEdit, OfferAssumption DEF FloorOf
<1>2. CASE \E b \in BOOLEAN : d = [active |-> b]
  BY <1>2, FlagIsEdit
<1>3. CASE d = [deleted |-> TRUE]
  BY <1>3, DeletedIsEdit
<1>4. QED
  BY <1>1, <1>2, <1>3 DEF Patches

LEMMA SweepPatchIsEdit ==
  ASSUME NEW op
  PROVE  SweepPatch(op) \in Edits /\ FloorOf(SweepPatch(op))
  BY FlagIsEdit, DeletedIsEdit DEF SweepPatch

\* A sweep takes an offer off sale, or deletes it.
LEMMA SweepPatchIs ==
  /\ SweepPatch("deactivateAll").active = FALSE
  /\ "deleted" \in DOMAIN SweepPatch("deleteAll") /\ SweepPatch("deleteAll").deleted = TRUE
<1>1. ASSUME NEW b \in BOOLEAN
      PROVE  /\ [active |-> b].active = b
             /\ "deleted" \in DOMAIN [deleted |-> b] /\ [deleted |-> b].deleted = b
  OBVIOUS
<1>2. /\ [active |-> FALSE].active = FALSE
      /\ "deleted" \in DOMAIN [deleted |-> TRUE] /\ [deleted |-> TRUE].deleted = TRUE
  BY <1>1, Zenon
<1>3. SweepPatch("deactivateAll") = [active |-> FALSE] /\ SweepPatch("deleteAll") = [deleted |-> TRUE]
  BY DEF SweepPatch
<1>4. QED
  BY <1>2, <1>3, Zenon

\* The fields the marketplace gets are those of the patch and of the form,
\* the patch's first, without the flags that are false.
LEMMA PayloadOf ==
  ASSUME NEW e \in Edits, NEW d \in Edits
  PROVE  LET payload == Payload(Merge(e, d)) IN
         /\ DOMAIN payload \subseteq DOMAIN e \cup DOMAIN d
         /\ "price" \in DOMAIN payload =>
              /\ payload.price \in Nat
              /\ FloorOf(e) /\ FloorOf(d) => payload.price >= MinPrice
         /\ \A f \in {"active", "deleted"} :
              f \in DOMAIN payload <=> \/ f \in DOMAIN d /\ d[f] = TRUE
                                       \/ f \notin DOMAIN d /\ f \in DOMAIN e /\ e[f] = TRUE
<1> DEFINE m == Merge(e, d)
           payload == Payload(m)
<1>1. IsEdit(e) /\ IsEdit(d)
  BY EditIs
<1>2. /\ DOMAIN m = DOMAIN e \cup DOMAIN d
      /\ \A f \in DOMAIN m : m[f] = IF f \in DOMAIN d THEN d[f] ELSE e[f]
  BY DEF Merge
<1>3. /\ DOMAIN payload = {f \in DOMAIN m : f = "price" \/ m[f]}
      /\ \A f \in DOMAIN payload : payload[f] = m[f]
  BY DEF Payload
<1>4. "price" \in DOMAIN m => m["price"] \in Nat /\ (FloorOf(e) /\ FloorOf(d) => m["price"] >= MinPrice)
  BY <1>1, <1>2, OfferAssumption DEF IsEdit, FloorOf
<1>5. \A f \in {"active", "deleted"} : f \in DOMAIN m => m[f] \in BOOLEAN
  BY <1>1, <1>2 DEF IsEdit
<1> HIDE DEF m
<1>6. \A f \in {"active", "deleted"} : f \in DOMAIN payload <=> f \in DOMAIN m /\ m[f] = TRUE
  BY <1>3, <1>5
<1> HIDE DEF payload
<1>7. \A f \in {"active", "deleted"} :
        f \in DOMAIN payload <=> \/ f \in DOMAIN d /\ d[f] = TRUE
                                 \/ f \notin DOMAIN d /\ f \in DOMAIN e /\ e[f] = TRUE
  BY <1>2, <1>6
<1>8. DOMAIN payload \subseteq DOMAIN e \cup DOMAIN d
  BY <1>2, <1>3
<1>9. "price" \in DOMAIN payload =>
        /\ payload.price \in Nat
        /\ FloorOf(e) /\ FloorOf(d) => payload.price >= MinPrice
  BY <1>3, <1>4
<1>10. QED
  BY <1>7, <1>8, <1>9 DEF payload, m

-----------------------------------------------------------------------------
(* What the actions do to the editors and to the offers.                    *)

\* The task of an ended call.
Reset(w) == [op |-> task[w].op, target |-> NoOffer, patch |-> NoEdit]

LEMMA ReturnIs ==
  ASSUME NEW w \in Editor, NEW outcome, Return(w, outcome)
  PROVE  /\ pc' = [pc EXCEPT ![w] = outcome]
         /\ task' = [task EXCEPT ![w] = Reset(w)]
         /\ todo' = [todo EXCEPT ![w] = {}]
<1>1. [NoTask EXCEPT !.op = task[w].op] = Reset(w)
  BY DEF NoTask, Reset
<1>2. QED
  BY <1>1 DEF Return, Goto

LEMMA AtIs ==
  ASSUME Shape, NEW w \in Editor, NEW target, NEW patch, At(w, target, patch)
  PROVE  task' = [task EXCEPT ![w] = [op |-> task[w].op, target |-> target, patch |-> patch]]
<1> DEFINE r == [op |-> task[w].op, target |-> target, patch |-> patch]
<1>1. /\ task \in [Editor -> [op : Ops, target : Offer \cup {NoOffer}, patch : Edits]]
      /\ task[w] = [op |-> task[w].op, target |-> task[w].target, patch |-> task[w].patch]
  BY DEF Shape
<1>2. [task[w] EXCEPT !.target = target] = [op |-> task[w].op, target |-> target, patch |-> task[w].patch]
  BY <1>1
<1>3. [[op |-> task[w].op, target |-> target, patch |-> task[w].patch] EXCEPT !.patch = patch] = r
  OBVIOUS
<1>4. \A v \in Editor : task'[v] = [task EXCEPT ![w] = r][v]
  <2>1. \A v \in Editor \ {w} : task'[v] = task[v]
    BY <1>1 DEF At
  <2>2. task'[w] = [[task[w] EXCEPT !.target = target] EXCEPT !.patch = patch]
    BY <1>1 DEF At
  <2>3. QED
    BY <1>1, <1>2, <1>3, <2>1, <2>2
<1>5. task' = [v \in Editor |-> task'[v]]
  BY <1>1 DEF At
<1>6. QED
  BY <1>1, <1>4, <1>5

\* A call that turns to its next target ends or is at one it had to come to.
Ends(w, left) ==
  /\ left = {}
  /\ pc' = [pc EXCEPT ![w] = "ok"]
  /\ task' = [task EXCEPT ![w] = Reset(w)]
  /\ todo' = [todo EXCEPT ![w] = {}]

Turns(w, left, o) ==
  /\ o \in left
  /\ pc' = [pc EXCEPT ![w] = "read"]
  /\ task' = [task EXCEPT ![w] = [op |-> task[w].op, target |-> o,
                                  patch |-> SweepPatch(task[w].op)]]
  /\ todo' = [todo EXCEPT ![w] = left \ {o}]

LEMMA NextTargetIs ==
  ASSUME Shape, NEW w \in Editor, NEW left, NextTarget(w, left)
  PROVE  Ends(w, left) \/ \E o \in left : Turns(w, left, o)
<1>1. CASE left = {} /\ Return(w, "ok")
  BY <1>1, ReturnIs DEF Ends
<1>2. ASSUME NEW o \in left, Goto(w, "read"), todo' = [todo EXCEPT ![w] = left \ {o}],
             At(w, o, SweepPatch(task[w].op))
      PROVE  Turns(w, left, o)
  BY <1>2, AtIs DEF Turns, Goto
<1>3. QED
  BY <1>1, <1>2 DEF NextTarget

LEMMA NextTargetKeeps ==
  ASSUME Shape, Progress, NEW w \in Editor, NEW left \in SUBSET Offer, NextTarget(w, left),
         left # {} => task[w].op \in Sweeps
  PROVE  /\ pc' \in [Editor -> Steps \cup Ended]
         /\ task' \in [Editor -> [op : Ops, target : Offer \cup {NoOffer}, patch : Edits]]
         /\ todo' \in [Editor -> SUBSET Offer]
         /\ \A v \in Editor :
              /\ pc'[v] \in {"read", "save"} => task'[v].target # NoOffer \/ task'[v].op = "create"
              /\ task'[v].target \notin todo'[v]
         /\ Progress'
<1> USE OfferAssumption DEF Shape, TypeOK
<1>1. CASE Ends(w, left)
  <2>1. Reset(w) \in [op : Ops, target : Offer \cup {NoOffer}, patch : Edits]
    BY NoEditIsEdit DEF Reset
  <2>2. \A v \in Editor \ {w} : pc'[v] = pc[v] /\ task'[v] = task[v] /\ todo'[v] = todo[v]
    BY <1>1 DEF Ends
  <2>3. pc'[w] = "ok" /\ task'[w] = Reset(w) /\ todo'[w] = {}
    BY <1>1 DEF Ends
  <2>4. \A v \in Editor \ {w} : ProgressOf(v)'
    BY <2>2 DEF Progress, ProgressOf, Sweeping
  <2>5. ProgressOf(w)'
    BY <2>3 DEF ProgressOf, Sweeping, Reset
  <2>6. QED
    BY <1>1, <2>1, <2>2, <2>3, <2>4, <2>5 DEF Ends, Progress, Steps, Ended, Reset
<1>2. ASSUME NEW o \in left, Turns(w, left, o)
      PROVE  /\ pc' \in [Editor -> Steps \cup Ended]
             /\ task' \in [Editor -> [op : Ops, target : Offer \cup {NoOffer}, patch : Edits]]
             /\ todo' \in [Editor -> SUBSET Offer]
             /\ \A v \in Editor :
                  /\ pc'[v] \in {"read", "save"} => task'[v].target # NoOffer \/ task'[v].op = "create"
                  /\ task'[v].target \notin todo'[v]
             /\ Progress'
  <2>0. task[w].op \in Ops /\ task[w].op \in Sweeps
    OBVIOUS
  <2> DEFINE t == [op |-> task[w].op, target |-> o, patch |-> SweepPatch(task[w].op)]
  <2>1. t \in [op : Ops, target : Offer \cup {NoOffer}, patch : Edits]
    BY <2>0, SweepPatchIsEdit
  <2>2. \A v \in Editor \ {w} : pc'[v] = pc[v] /\ task'[v] = task[v] /\ todo'[v] = todo[v]
    BY <1>2 DEF Turns
  <2>3. pc'[w] = "read" /\ task'[w] = t /\ todo'[w] = left \ {o}
    BY <1>2 DEF Turns
  <2>4. \A v \in Editor \ {w} : ProgressOf(v)'
    BY <2>2 DEF Progress, ProgressOf, Sweeping
  <2>5. ProgressOf(w)'
    BY <2>0, <2>3 DEF ProgressOf, Sweeping, Sweeps
  <2>6. o # NoOffer /\ o \notin left \ {o}
    OBVIOUS
  <2>7. QED
    BY <1>2, <2>1, <2>2, <2>3, <2>4, <2>5, <2>6 DEF Turns, Progress, Steps, Ended
<1>3. QED
  BY <1>1, <1>2, NextTargetIs

\* A step of the marketplace's copies: no offer comes back from the deleted or
\* goes back to the unborn ones.
Moves ==
  /\ offers' \in [Offer -> [status : {"unborn", "live", "deleted"}, price : Nat, active : BOOLEAN]]
  /\ \A o \in Offer : offers'[o].active => Live(o)'
  /\ \A o \in Offer : offers[o].status = "deleted" => offers'[o].status = "deleted"
  /\ \A o \in Offer : offers[o].status # "unborn" => offers'[o].status # "unborn"

LEMMA StaysMoves == Shape /\ offers' = offers => Moves
  BY DEF Shape, TypeOK, Moves, Live

\* What one save does: to one offer, and that as its patch says.
LEMMA StoreIs ==
  ASSUME Shape, FormBlind, NEW w \in Editor, pc[w] = "save", Store(w)
  PROVE  \E o \in Offer :
           /\ \/ task[w].op = "create" /\ offers[o].status = "unborn"
              \/ task[w].op # "create" /\ o = task[w].target /\ Live(o)
           /\ \A p \in Offer \ {o} : offers'[p] = offers[p]
           /\ Moves
           /\ OnSale(o)' => "active" \in DOMAIN task[w].patch /\ task[w].patch.active = TRUE
           /\ "deleted" \in DOMAIN task[w].patch /\ task[w].patch.deleted = TRUE =>
                offers'[o].status = "deleted"
           /\ FloorOf(form[w]) /\ FloorOf(task[w].patch) /\ offers[o].price >= MinPrice =>
                offers'[o].price >= MinPrice
<1> DEFINE d == task[w].patch
           payload == Payload(Merge(form[w], d))
<1>1. PICK o \in Offer :
        /\ \/ task[w].op = "create" /\ offers[o].status = "unborn"
           \/ task[w].op # "create" /\ o = task[w].target /\ Live(o)
        /\ offers' = [offers EXCEPT ![o] = Stored(offers[o], payload)]
  <2>1. task[w].op # "create" => task[w].target \in Offer
    BY DEF Shape, TypeOK
  <2>2. CASE task[w].op = "create"
    BY <2>2 DEF Store
  <2>3. CASE task[w].op # "create"
    BY <2>1, <2>3 DEF Store
  <2>4. QED
    BY <2>2, <2>3
<1>2. form[w] \in Edits /\ d \in Edits
  BY DEF Shape
<1>3. /\ "price" \in DOMAIN payload =>
           /\ payload.price \in Nat
           /\ FloorOf(form[w]) /\ FloorOf(d) => payload.price >= MinPrice
      /\ \A f \in {"active", "deleted"} :
           f \in DOMAIN payload <=> \/ f \in DOMAIN d /\ d[f] = TRUE
                                    \/ f \notin DOMAIN d /\ f \in DOMAIN form[w] /\ form[w][f] = TRUE
  BY <1>2, PayloadOf, ZenonT(60)
<1>4. "active" \notin DOMAIN form[w]
  BY DEF FormBlind
<1> HIDE DEF payload
<1> DEFINE n == Stored(offers[o], payload)
<1>5. offers[o] \in [status : {"unborn", "live", "deleted"}, price : Nat, active : BOOLEAN]
  BY DEF Shape, TypeOK
<1>6. /\ n.status = IF "deleted" \in DOMAIN payload THEN "deleted" ELSE "live"
      /\ n.price = IF "price" \in DOMAIN payload THEN payload.price ELSE offers[o].price
      /\ n.active = ("active" \in DOMAIN payload /\ "deleted" \notin DOMAIN payload)
      /\ n = [status |-> n.status, price |-> n.price, active |-> n.active]
  BY DEF Stored
<1>7. n \in [status : {"unborn", "live", "deleted"}, price : Nat, active : BOOLEAN]
  <2>1. n.status \in {"unborn", "live", "deleted"} /\ n.price \in Nat /\ n.active \in BOOLEAN
    BY <1>3, <1>5, <1>6
  <2>2. QED
    BY <1>6, <2>1
<1>8. offers'[o] = n /\ \A p \in Offer \ {o} : offers'[p] = offers[p]
  BY <1>1 DEF Shape, TypeOK
<1>9. Moves
  <2>1. offers' \in [Offer -> [status : {"unborn", "live", "deleted"}, price : Nat, active : BOOLEAN]]
    BY <1>1, <1>7 DEF Shape, TypeOK
  <2>2. n.active => n.status = "live"
    BY <1>6
  <2>3. offers[o].status # "deleted" /\ n.status # "unborn"
    BY <1>1, <1>6 DEF Live
  <2> HIDE DEF n
  <2>4. \A p \in Offer : offers[p].active => offers[p].status = "live"
    BY DEF Shape, TypeOK, Live
  <2>5. \A p \in Offer : offers'[p].active => offers'[p].status = "live"
    BY <1>8, <2>2, <2>4
  <2>6. /\ \A p \in Offer : offers[p].status = "deleted" => offers'[p].status = "deleted"
        /\ \A p \in Offer : offers[p].status # "unborn" => offers'[p].status # "unborn"
    BY <1>8, <2>3
  <2>7. QED
    BY <2>1, <2>5, <2>6 DEF Moves, Live
<1>10. n.active => "active" \in DOMAIN d /\ d["active"] = TRUE
  BY <1>3, <1>4, <1>6
<1>11. "deleted" \in DOMAIN d /\ d["deleted"] = TRUE => n.status = "deleted"
  BY <1>3, <1>6
<1>12. FloorOf(form[w]) /\ FloorOf(d) /\ offers[o].price >= MinPrice => n.price >= MinPrice
  BY <1>3, <1>6
<1> HIDE DEF n
<1>13. QED
  BY <1>1, <1>8, <1>9, <1>10, <1>11, <1>12 DEF OnSale

-----------------------------------------------------------------------------
(* What a step does to the sweeps under way.                                *)

SeenType == [listed : SUBSET Offer, off : SUBSET Offer, refused : SUBSET Offer]

\* The observer of v saw nothing but what went off sale.
Watches(v) ==
  /\ seen'[v] \in SeenType
  /\ seen'[v].listed = seen[v].listed
  /\ seen[v].off \subseteq seen'[v].off
  /\ seen[v].refused \subseteq seen'[v].refused
  /\ Sweeping(v) => \A o \in Offer : ~OnSale(o)' => o \in seen'[v].off

LEMMA NotedWatches ==
  ASSUME Shape, Noted
  PROVE  seen' \in [Editor -> SeenType] /\ \A v \in Editor : Watches(v)
<1>1. \A v \in Editor : seen[v] \in SeenType
  BY DEF Shape, SeenType
<1> DEFINE offNow == {o \in Offer : ~OnSale(o)'}
<1>2. /\ DOMAIN seen' = Editor
      /\ seen' = [w \in Editor |-> seen'[w]]
      /\ \A v \in Editor : seen'[v] = IF Sweeping(v) THEN [seen[v] EXCEPT !.off = @ \cup offNow]
                                                     ELSE seen[v]
  BY DEF Noted
<1>3. ASSUME NEW v \in Editor
      PROVE  Watches(v)
  <2>1. seen[v] = [listed |-> seen[v].listed, off |-> seen[v].off, refused |-> seen[v].refused]
    BY <1>1 DEF SeenType
  <2>2. CASE Sweeping(v)
    <3>1. seen'[v] = [listed |-> seen[v].listed, off |-> seen[v].off \cup offNow,
                      refused |-> seen[v].refused]
      BY <1>2, <2>1, <2>2
    <3>2. seen[v].off \cup offNow \in SUBSET Offer
      BY <1>1 DEF SeenType
    <3>3. QED
      BY <1>1, <3>1, <3>2 DEF Watches, SeenType
  <2>3. CASE ~Sweeping(v)
    BY <1>1, <1>2, <2>3 DEF Watches
  <2>4. QED
    BY <2>2, <2>3
<1>4. QED
  BY <1>2, <1>3 DEF Watches

LEMMA StillWatches ==
  ASSUME Shape, Swept, offers' = offers, seen' = seen
  PROVE  seen' \in [Editor -> SeenType] /\ \A v \in Editor : Watches(v)
  BY DEF Shape, Swept, SweptOf, Watches, SeenType, OnSale, Live

\* A sweep whose own call takes no step.
LEMMA SweptFrame ==
  ASSUME Swept, Moves, Shape, NEW v \in Editor, Watches(v),
         pc'[v] = pc[v], task'[v] = task[v], todo'[v] = todo[v], seen'[v].refused = seen[v].refused
  PROVE  SweptOf(v)'
<1>1. Sweeping(v)' <=> Sweeping(v)
  BY DEF Sweeping
<1>2. seen[v].listed \subseteq Offer
  BY DEF Shape
<1>3. Behind(v)' = Behind(v)
  BY DEF Behind, Watches
<1>4. \A o \in Offer : Dealt(v, o) => Dealt(v, o)'
  BY DEF Dealt, Moves, Watches
<1>5. QED
  BY <1>1, <1>2, <1>3, <1>4 DEF Swept, SweptOf, Watches, Moves, Behind

\* A sweep that turns to its next offer, having dealt with the one it was at
\* unless that was refused; or any other call that ends.
LEMMA SweptTurns ==
  ASSUME Shape, Progress, Swept, Moves, NEW w \in Editor, pc[w] = "save",
         NextTarget(w, todo[w]), Watches(w),
         task[w].op \in Sweeps =>
           \/ task[w].target \notin seen[w].listed
           \/ task[w].target \in seen'[w].refused
           \/ /\ task[w].op = "deactivateAll" => task[w].target \in seen'[w].off
              /\ task[w].op = "deleteAll" => offers'[task[w].target].status = "deleted"
  PROVE  SweptOf(w)'
<1> DEFINE l == seen[w].listed
<1>0. l \subseteq Offer /\ w \in DOMAIN pc /\ w \in DOMAIN task /\ w \in DOMAIN todo
  BY DEF Shape, TypeOK
<1>1. \A o \in l : offers'[o].status # "unborn"
  BY <1>0 DEF Swept, SweptOf, Moves
<1>2. task'[w].op = task[w].op
  BY <1>0, NextTargetIs DEF Ends, Turns, Reset
<1>3. CASE task[w].op \in Sweeps
  <2>1. Sweeping(w)
    BY <1>3 DEF Sweeping
  <2>2. \A o \in l \ (seen'[w].refused \cup todo[w]) : Dealt(w, o)'
    <3>1. ASSUME NEW o \in l \ (seen'[w].refused \cup todo[w]), o # task[w].target
          PROVE  Dealt(w, o)'
      <4>1. o \in Behind(w) /\ o \in Offer
        BY <1>0, <3>1 DEF Behind, Watches
      <4>2. Dealt(w, o)
        BY <2>1, <4>1 DEF Swept, SweptOf
      <4>3. QED
        BY <1>2, <4>1, <4>2 DEF Dealt, Moves, Watches
    <3>2. ASSUME NEW o \in l \ (seen'[w].refused \cup todo[w]), o = task[w].target
          PROVE  Dealt(w, o)'
      BY <1>2, <1>3, <3>2 DEF Dealt
    <3>3. QED
      BY <3>1, <3>2
  <2>3. CASE Ends(w, todo[w])
    <3>1. pc'[w] = "ok" /\ todo[w] = {}
      BY <1>0, <2>3 DEF Ends
    <3>2. QED
      BY <1>1, <2>2, <3>1 DEF SweptOf, Sweeping, Watches
  <2>4. ASSUME NEW n \in todo[w], Turns(w, todo[w], n)
        PROVE  SweptOf(w)'
    <3>1. pc'[w] = "read" /\ todo'[w] = todo[w] \ {n} /\ task'[w].target = n
      BY <1>0, <2>4 DEF Turns
    <3>2. Behind(w)' \subseteq l \ (seen'[w].refused \cup todo[w])
      BY <3>1 DEF Behind, Watches
    <3>3. \A o \in Offer : ~OnSale(o)' => o \in seen'[w].off
      BY <2>1 DEF Watches
    <3>4. QED
      BY <1>1, <2>2, <3>1, <3>2, <3>3 DEF SweptOf, Watches
  <2>5. QED
    BY <2>3, <2>4, NextTargetIs
<1>4. CASE task[w].op \notin Sweeps
  <2>1. ~Sweeping(w)' /\ \A o \in Offer : Dealt(w, o)'
    BY <1>2, <1>4 DEF Sweeping, Dealt, Sweeps
  <2>2. QED
    BY <1>0, <1>1, <2>1 DEF SweptOf, Watches
<1>5. QED
  BY <1>3, <1>4

-----------------------------------------------------------------------------
(* Every action keeps the invariant.                                        *)

TaskType == [op : Ops, target : Offer \cup {NoOffer}, patch : Edits]

LEMMA Initially == Init => IInv
<1> SUFFICES ASSUME Init PROVE IInv
  OBVIOUS
<1> USE OfferAssumption DEF Init
<1>1. NoTask \in TaskType /\ NoTask.op = "edit" /\ NoTask.target = NoOffer /\ NoTask.patch = NoEdit
  BY NoEditIsEdit DEF NoTask, TaskType, Ops
<1>2. NothingSeen \in SeenType /\ NothingSeen.listed = {}
  BY DEF NothingSeen, SeenType
<1>3. /\ offers \in [Offer -> [status : {"unborn", "live", "deleted"}, price : Nat, active : BOOLEAN]]
      /\ \A o \in Offer : offers[o].active => Live(o)
  <2> DEFINE A == {[status |-> "live", price |-> p, active |-> b] : p \in Prices, b \in BOOLEAN}
             B == {[status |-> "unborn", price |-> MinPrice, active |-> FALSE]}
             T == [status : {"unborn", "live", "deleted"}, price : Nat, active : BOOLEAN]
  <2>1. \A x \in A : x \in T /\ x.status = "live"
    OBVIOUS
  <2>2. \A x \in B : x \in T /\ ~x.active
    <3>1. ASSUME NEW b \in BOOLEAN
          PROVE  LET x == [status |-> "unborn", price |-> MinPrice, active |-> b]
                 IN x \in T /\ x.active = b
      OBVIOUS
    <3>2. QED
      BY <3>1, Zenon
  <2>3. offers \in [Offer -> A \cup B]
    OBVIOUS
  <2> HIDE DEF A, B
  <2>4. QED
    BY <2>1, <2>2, <2>3 DEF Live
<1>4. Shape
  BY <1>1, <1>2, <1>3, NoEditIsEdit, EditIs DEF Shape, TypeOK, SeenType, TaskType, Ended
<1>5. Progress /\ FormBlind
  BY <1>1, NoEditIsEdit DEF Progress, ProgressOf, FormBlind, Sweeping
<1>6. Swept
  BY <1>2 DEF Swept, SweptOf, Sweeping
<1>7. QED
  BY <1>4, <1>5, <1>6 DEF IInv

\* The parts of the invariant, one call's step at a time: the other editors
\* keep their places, and only SaveOffer touches the offers.
LEMMA OthersKeep ==
  ASSUME Shape, Progress, Swept, NEW w \in Editor, offers' = offers,
         \A v \in Editor \ {w} : /\ pc'[v] = pc[v] /\ task'[v] = task[v]
                                 /\ todo'[v] = todo[v] /\ seen'[v] = seen[v],
         ProgressOf(w)', SweptOf(w)'
  PROVE  Progress' /\ Swept'
<1>1. \A v \in Editor \ {w} : ProgressOf(v)'
  BY DEF Progress, ProgressOf, Sweeping
<1>2. \A v \in Editor \ {w} : SweptOf(v)'
  BY DEF Swept, SweptOf, Sweeping, Behind, Dealt, OnSale, Live
<1>3. QED
  BY <1>1, <1>2 DEF Progress, Swept

LEMMA RivalsMoveKeeps == IInv /\ RivalsMove => IInv'
<1> SUFFICES ASSUME IInv, RivalsMove PROVE IInv'
  OBVIOUS
<1>1. Shape'
  BY DEF IInv, Shape, TypeOK, RivalsMove, Live
<1>2. Progress' /\ FormBlind' /\ Swept'
  BY DEF IInv, RivalsMove, Progress, ProgressOf, FormBlind, Swept, SweptOf, Sweeping, Behind,
         Dealt, OnSale, Live
<1>3. QED
  BY <1>1, <1>2 DEF IInv

\* A step of w to a place outside "read" and "save" of a sweep.
LEMMA MoveKeeps ==
  ASSUME IInv, NEW w \in Editor, NEW step \in Steps \cup Ended, NEW t \in TaskType,
         NEW s \in SeenType, NEW f \in Edits,
         pc' = [pc EXCEPT ![w] = step], task' = [task EXCEPT ![w] = t],
         todo' = [todo EXCEPT ![w] = {}], seen' = [seen EXCEPT ![w] = s],
         form' = [form EXCEPT ![w] = f], UNCHANGED <<offers, rivals>>,
         "active" \notin DOMAIN f,
         step = "list" => t.op \in Sweeps,
         step = "market" => t.op = "undercut",
         step \in {"read", "save"} => t.op \notin Sweeps,
         step = "read" => t.op # "create",
         t.op = "create" => t.target = NoOffer,
         t.op # "create" /\ step \in {"market", "read", "save"} => t.target # NoOffer,
         step # "ok",
         \A o \in s.listed : offers[o].status # "unborn"
  PROVE  IInv'
<1> USE DEF IInv, Shape
<1>1. pc'[w] = step /\ task'[w] = t /\ todo'[w] = {} /\ seen'[w] = s
  BY DEF TypeOK
<1>2. \A v \in Editor \ {w} : /\ pc'[v] = pc[v] /\ task'[v] = task[v]
                              /\ todo'[v] = todo[v] /\ seen'[v] = seen[v]
  OBVIOUS
<1>3. ProgressOf(w)'
  BY <1>1 DEF ProgressOf, Sweeping
<1>4. SweptOf(w)'
  BY <1>1 DEF SweptOf, Sweeping
<1>5. Progress' /\ Swept'
  BY <1>2, <1>3, <1>4, OthersKeep
<1>6. FormBlind'
  BY DEF FormBlind
<1>7. /\ pc' \in [Editor -> Steps \cup Ended] /\ task' \in [Editor -> TaskType]
      /\ todo' \in [Editor -> SUBSET Offer] /\ seen' \in [Editor -> SeenType]
      /\ form' \in [Editor -> Edits]
  BY DEF TypeOK, TaskType, SeenType
<1>8. \A v \in Editor : /\ task'[v].op \in Ops /\ task'[v].target \in Offer \cup {NoOffer}
                        /\ task'[v].patch \in Edits /\ form'[v] \in Edits
                        /\ todo'[v] \in SUBSET Offer
  BY <1>7 DEF TaskType
<1>9. \A v \in Editor : task'[v].target \notin todo'[v]
  BY <1>1, <1>2 DEF TypeOK
<1>10. \A v \in Editor : pc'[v] \in {"read", "save"} =>
         task'[v].target # NoOffer \/ task'[v].op = "create"
  BY <1>1, <1>2 DEF TypeOK
<1>11. TypeOK'
  BY <1>7, <1>8, <1>9, <1>10, EditIs DEF TypeOK, Live
<1>12. QED
  BY <1>5, <1>6, <1>7, <1>11 DEF TaskType, SeenType

LEMMA CallKeeps == ASSUME NEW w \in Editor PROVE IInv /\ Call(w) => IInv'
<1> SUFFICES ASSUME IInv, Call(w) PROVE IInv'
  OBVIOUS
<1>1. todo[w] = {} /\ todo' = [todo EXCEPT ![w] = {}]
  <2>1. todo[w] = {}
    BY DEF IInv, Progress, ProgressOf, Sweeping, Call, Ended
  <2>2. todo' = todo /\ todo \in [Editor -> SUBSET Offer]
    BY DEF IInv, Shape, Call
  <2>3. QED
    BY <2>1, <2>2
<1>2. /\ form[w] \in Edits /\ "active" \notin DOMAIN form[w]
      /\ form' = [form EXCEPT ![w] = form[w]]
  <2>1. form \in [Editor -> Edits] /\ form' = form
    BY DEF IInv, Shape, Call
  <2>2. QED
    BY <2>1 DEF IInv, FormBlind
<1>3. NothingSeen \in SeenType /\ NothingSeen.listed = {} /\ seen' = [seen EXCEPT ![w] = NothingSeen]
  BY DEF NothingSeen, SeenType, Call
<1>4. UNCHANGED <<offers, rivals>>
  BY DEF Call
<1>5. ASSUME NEW o \in Offer, NEW patch \in Patches,
             task' = [task EXCEPT ![w] = [op |-> "edit", target |-> o, patch |-> patch]],
             Goto(w, "read")
      PROVE  IInv'
  <2> DEFINE t == [op |-> "edit", target |-> o, patch |-> patch]
  <2>1. t \in TaskType /\ t.op = "edit" /\ t.target # NoOffer
    BY PatchesAreEdits, OfferAssumption DEF TaskType, Ops
  <2> HIDE DEF t
  <2>2. task' = [task EXCEPT ![w] = t] /\ pc' = [pc EXCEPT ![w] = "read"] /\ "read" \in Steps
    BY <1>5 DEF t, Goto, Steps
  <2>3. t.op \notin Sweeps
    BY <2>1 DEF Sweeps
  <2>4. QED
    BY <1>1, <1>2, <1>3, <1>4, <2>1, <2>2, <2>3, MoveKeeps
<1>6. ASSUME NEW o \in Offer, Goto(w, "market"),
             task' = [task EXCEPT ![w] = [op |-> "undercut", target |-> o, patch |-> NoEdit]]
      PROVE  IInv'
  <2> DEFINE t == [op |-> "undercut", target |-> o, patch |-> NoEdit]
  <2>1. t \in TaskType /\ t.op = "undercut" /\ t.target # NoOffer
    BY NoEditIsEdit, OfferAssumption DEF TaskType, Ops
  <2> HIDE DEF t
  <2>2. task' = [task EXCEPT ![w] = t] /\ pc' = [pc EXCEPT ![w] = "market"] /\ "market" \in Steps
    BY <1>6 DEF t, Goto, Steps
  <2>3. t.op \notin Sweeps
    BY <2>1 DEF Sweeps
  <2>4. QED
    BY <1>1, <1>2, <1>3, <1>4, <2>1, <2>2, <2>3, MoveKeeps
<1>7. ASSUME NEW op \in Sweeps, Goto(w, "list"),
             task' = [task EXCEPT ![w] = [op |-> op, target |-> NoOffer, patch |-> NoEdit]]
      PROVE  IInv'
  <2> DEFINE t == [op |-> op, target |-> NoOffer, patch |-> NoEdit]
  <2>1. t \in TaskType /\ t.op = op /\ t.op # "create"
    BY NoEditIsEdit DEF TaskType, Ops, Sweeps
  <2> HIDE DEF t
  <2>2. task' = [task EXCEPT ![w] = t] /\ pc' = [pc EXCEPT ![w] = "list"] /\ "list" \in Steps
    BY <1>7 DEF t, Goto, Steps
  <2>4. QED
    BY <1>1, <1>2, <1>3, <1>4, <2>1, <2>2, MoveKeeps
<1>8. ASSUME NEW details \in Details, Goto(w, "save"),
             task' = [task EXCEPT ![w] = [op |-> "create", target |-> NoOffer, patch |-> details]]
      PROVE  IInv'
  <2> DEFINE t == [op |-> "create", target |-> NoOffer, patch |-> details]
  <2>1. t \in TaskType /\ t.op = "create" /\ t.target = NoOffer
    BY DetailsAreEdits DEF TaskType, Ops
  <2> HIDE DEF t
  <2>2. task' = [task EXCEPT ![w] = t] /\ pc' = [pc EXCEPT ![w] = "save"] /\ "save" \in Steps
    BY <1>8 DEF t, Goto, Steps
  <2>3. t.op \notin Sweeps
    BY <2>1 DEF Sweeps
  <2>4. QED
    BY <1>1, <1>2, <1>3, <1>4, <2>1, <2>2, <2>3, MoveKeeps
<1>9. QED
  BY <1>5, <1>6, <1>7, <1>8 DEF Call

LEMMA ResetIs ==
  ASSUME Shape, NEW w \in Editor
  PROVE  Reset(w) \in TaskType /\ Reset(w).op = task[w].op /\ Reset(w).target = NoOffer
  BY NoEditIsEdit DEF Reset, TaskType, Shape

LEMMA FailKeeps == ASSUME NEW w \in Editor PROVE IInv /\ Fail(w) => IInv'
<1> SUFFICES ASSUME IInv, Fail(w) PROVE IInv'
  OBVIOUS
<1>1. /\ pc' = [pc EXCEPT ![w] = "error"] /\ task' = [task EXCEPT ![w] = Reset(w)]
      /\ todo' = [todo EXCEPT ![w] = {}]
  BY ReturnIs DEF Fail
<1>2. Reset(w) \in TaskType /\ Reset(w).target = NoOffer
  BY ResetIs DEF IInv
<1>3. /\ NothingSeen \in SeenType /\ NothingSeen.listed = {} /\ seen' = [seen EXCEPT ![w] = NothingSeen]
      /\ form' = [form EXCEPT ![w] = NoEdit] /\ UNCHANGED <<offers, rivals>>
      /\ "error" \in Ended
  BY DEF NothingSeen, SeenType, Fail, Ended
<1>4. QED
  BY <1>1, <1>2, <1>3, NoEditIsEdit, MoveKeeps

-----------------------------------------------------------------------------
(* The price UndercutPrice asks for.                                        *)

Less == OpToRel(<, Nat)

\* A set of numbers has a least one: the loop over the market finds it.
LEMMA LeastExists ==
  ASSUME NEW S \in SUBSET Nat, S # {}
  PROVE  \E x \in S : \A y \in S : x <= y
<1>1. IsWellFoundedOn(Less, Nat)
  BY NatLessThanWellFounded DEF Less
<1>2. PICK x \in S : \A y \in S : <<y, x>> \notin Less
  BY <1>1, WFMin, Zenon
<1>3. \A y \in Nat : y < x => <<y, x>> \in Less
  BY DEF Less, OpToRel
<1>4. \A y \in S : x \in Nat /\ y \in Nat /\ ~(y < x)
  BY <1>2, <1>3
<1>5. QED
  BY <1>4

LEMMA CutPriceFloored ==
  ASSUME NEW market \in SUBSET Nat
  PROVE  CutPrice(market) \in Nat /\ CutPrice(market) >= MinPrice
<1>1. MinPrice \in Nat /\ UndercutBy \in Nat
  BY OfferAssumption
<1>2. market # {} => Min(market) \in Nat
  BY LeastExists DEF Min
<1> DEFINE lowest == IF market = {} THEN 0 ELSE Min(market)
<1>3. lowest \in Nat
  BY <1>2
<1> HIDE DEF lowest
<1>4. CutPrice(market) = IF lowest - UndercutBy < MinPrice THEN MinPrice ELSE lowest - UndercutBy
  BY DEF CutPrice, lowest
<1>5. QED
  BY <1>1, <1>3, <1>4

LEMMA MarketPricesTyped ==
  ASSUME Shape
  PROVE  MarketPrices \in SUBSET Nat
<1>1. \A x \in rivals : x \in Nat
  BY OfferAssumption DEF Shape, TypeOK
<1>2. \A o \in Offer : offers[o].price \in Nat
  BY DEF Shape, TypeOK
<1>3. QED
  BY <1>1, <1>2 DEF MarketPrices

\* What UndercutPrice goes on with.
LEMMA MarketPatch ==
  ASSUME Shape, NEW w \in Editor, FetchMarketOffers(w)
  PROVE  \E p \in Nat : /\ p >= MinPrice
                        /\ task' = [task EXCEPT ![w] =
                             [op |-> task[w].op, target |-> task[w].target, patch |-> [price |-> p]]]
<1>1. PICK market \in {MarketPrices} \cup (IF BadPages THEN {{}} ELSE {}) :
        At(w, task[w].target, [price |-> CutPrice(market)])
  BY DEF FetchMarketOffers
<1>2. market \in SUBSET Nat
  BY MarketPricesTyped
<1>3. QED
  BY <1>1, <1>2, AtIs, CutPriceFloored

LEMMA MarketKeeps == ASSUME NEW w \in Editor PROVE IInv /\ FetchMarketOffers(w) => IInv'
<1> SUFFICES ASSUME IInv, FetchMarketOffers(w) PROVE IInv'
  OBVIOUS
<1>1. PICK p \in Nat : task' = [task EXCEPT ![w] =
        [op |-> task[w].op, target |-> task[w].target, patch |-> [price |-> p]]]
  BY MarketPatch DEF IInv
<1> DEFINE t == [op |-> task[w].op, target |-> task[w].target, patch |-> [price |-> p]]
<1>2. task[w].op = "undercut" /\ task[w].target \in Offer /\ todo[w] = {} /\ pc[w] = "market"
  BY DEF IInv, Shape, TypeOK, Progress, ProgressOf, FetchMarketOffers, Sweeping
<1>3. t \in TaskType /\ t.op = "undercut" /\ t.target # NoOffer
  BY <1>2, PriceIsEdit, OfferAssumption DEF TaskType, Ops
<1> HIDE DEF t
<1>4. task' = [task EXCEPT ![w] = t] /\ pc' = [pc EXCEPT ![w] = "read"]
  BY <1>1 DEF t, FetchMarketOffers, Goto
<1>5. /\ todo' = [todo EXCEPT ![w] = {}] /\ seen' = [seen EXCEPT ![w] = seen[w]]
      /\ form' = [form EXCEPT ![w] = form[w]] /\ UNCHANGED <<offers, rivals>>
  BY <1>2 DEF FetchMarketOffers, IInv, Shape
<1>6. /\ seen[w] \in SeenType /\ form[w] \in Edits /\ "active" \notin DOMAIN form[w]
      /\ \A o \in seen[w].listed : offers[o].status # "unborn"
  BY DEF IInv, Shape, FormBlind, Swept, SweptOf, SeenType
<1>7. t.op \notin Sweeps /\ t.op # "create" /\ "read" \in Steps
  BY <1>3 DEF Sweeps, Steps
<1>8. QED
  BY <1>3, <1>4, <1>5, <1>6, <1>7, MoveKeeps

-----------------------------------------------------------------------------
(* The pages read, and the save.                                            *)

LEMMA FormIs ==
  ASSUME Shape, NEW w \in Editor, FetchOfferDetails(w), task[w].target \in Offer
  PROVE  \E f \in Edits : /\ form' = [form EXCEPT ![w] = f]
                          /\ "active" \notin DOMAIN f
                          /\ NeverBelowFloor => FloorOf(f)
<1>1. PICK f \in {FormOf(task[w].target), NoEdit} : form' = [form EXCEPT ![w] = f]
  BY DEF FetchOfferDetails
<1>2. offers[task[w].target].price \in Nat
  BY DEF Shape, TypeOK
<1>3. CASE f = NoEdit
  BY <1>1, <1>3, NoEditIsEdit
<1>4. CASE f = [price |-> offers[task[w].target].price]
  BY <1>1, <1>2, <1>4, PriceIsEdit DEF FloorOf, NeverBelowFloor
<1>5. QED
  BY <1>3, <1>4 DEF FormOf

LEMMA DetailsKeeps == ASSUME NEW w \in Editor PROVE IInv /\ FetchOfferDetails(w) => IInv'
<1> SUFFICES ASSUME IInv, FetchOfferDetails(w) PROVE IInv'
  OBVIOUS
<1> USE DEF IInv
<1>1. pc[w] = "read" /\ task[w].op # "create" /\ task[w].target \in Offer
  BY DEF Shape, TypeOK, Progress, ProgressOf, FetchOfferDetails
<1>2. PICK f \in Edits : form' = [form EXCEPT ![w] = f] /\ "active" \notin DOMAIN f
  BY <1>1, FormIs
<1>3. pc' = [pc EXCEPT ![w] = "save"] /\ UNCHANGED <<offers, rivals, task, todo, seen>>
  BY DEF FetchOfferDetails, Goto
<1>4. Shape'
  BY <1>1, <1>2, <1>3, EditIs DEF Shape, TypeOK, Steps, Live
<1>5. FormBlind'
  BY <1>2, <1>3 DEF FormBlind, Shape
<1>6. \A v \in Editor : pc'[v] = pc[v] \/ (pc[v] = "read" /\ pc'[v] = "save")
  BY <1>1, <1>3 DEF Shape, TypeOK
<1>7. Progress'
  BY <1>1, <1>3, <1>6 DEF Progress, ProgressOf, Sweeping
<1>8. Swept'
  BY <1>3, <1>6 DEF Swept, SweptOf, Sweeping, Behind, Dealt, OnSale, Live
<1>9. QED
  BY <1>4, <1>5, <1>7, <1>8

\* The types of what a step leaves, from its parts.
LEMMA ShapeFrom ==
  ASSUME Moves, rivals' \in SUBSET RivalPrices,
         pc' \in [Editor -> Steps \cup Ended], task' \in [Editor -> TaskType],
         todo' \in [Editor -> SUBSET Offer], seen' \in [Editor -> SeenType],
         form' \in [Editor -> Edits],
         \A v \in Editor :
           /\ pc'[v] \in {"read", "save"} => task'[v].target # NoOffer \/ task'[v].op = "create"
           /\ task'[v].target \notin todo'[v]
  PROVE  Shape'
<1>1. \A v \in Editor : /\ task'[v].op \in Ops /\ task'[v].target \in Offer \cup {NoOffer}
                        /\ IsEdit(task'[v].patch) /\ IsEdit(form'[v])
                        /\ todo'[v] \in SUBSET Offer
  BY EditIs DEF TaskType
<1>2. TypeOK'
  BY <1>1 DEF TypeOK, Moves
<1>3. QED
  BY <1>2 DEF Shape, TaskType, SeenType

LEMMA ListKeeps == ASSUME NEW w \in Editor PROVE IInv /\ FetchMyOffers(w) => IInv'
<1> SUFFICES ASSUME IInv, FetchMyOffers(w) PROVE IInv'
  OBVIOUS
<1> USE DEF IInv
<1>1. task[w].op \in Sweeps /\ w \in DOMAIN pc /\ w \in DOMAIN task /\ w \in DOMAIN todo
  BY DEF Shape, TypeOK, Progress, ProgressOf, FetchMyOffers
<1> DEFINE shown(l) == {o \in Offer : l # {} /\ OnSale(o)}
<1>2. PICK l \in SUBSET Offer :
        /\ l = Targets(task[w].op) \/ l = {}
        /\ NextTarget(w, l)
        /\ seen' = [seen EXCEPT ![w].listed = shown(l), ![w].off = {o \in Offer : ~OnSale(o)}]
  <2>1. Targets(task[w].op) \in SUBSET Offer
    BY DEF Targets
  <2>2. QED
    BY <2>1 DEF FetchMyOffers
<1>3. UNCHANGED <<offers, rivals, form>>
  BY DEF FetchMyOffers
<1>4. /\ shown(l) \subseteq l
      /\ \A o \in shown(l) : offers[o].status # "unborn"
  BY <1>1, <1>2 DEF Targets, OnSale, Live, Sweeps
<1>5. /\ seen'[w].listed = shown(l) /\ seen'[w].off = {o \in Offer : ~OnSale(o)}
      /\ \A v \in Editor \ {w} : seen'[v] = seen[v]
      /\ seen' \in [Editor -> SeenType]
  <2> DEFINE off == {o \in Offer : ~OnSale(o)}
             n == [listed |-> shown(l), off |-> off, refused |-> seen[w].refused]
  <2>1. seen \in [Editor -> SeenType]
    BY DEF Shape, SeenType
  <2>2. n \in SeenType /\ n.listed = shown(l) /\ n.off = off
    BY <2>1 DEF SeenType
  <2>3. /\ seen'[w] = [[seen[w] EXCEPT !.listed = shown(l)] EXCEPT !.off = off]
        /\ \A v \in Editor \ {w} : seen'[v] = seen[v]
        /\ seen' = [v \in Editor |-> seen'[v]]
    BY <1>2, <2>1
  <2>4. seen'[w] = n
    <3>1. seen[w] = [listed |-> seen[w].listed, off |-> seen[w].off, refused |-> seen[w].refused]
      BY <2>1 DEF SeenType
    <3> HIDE DEF off, shown
    <3>2. QED
      BY <2>3, <3>1
  <2> HIDE DEF n, off
  <2>5. \A v \in Editor : seen'[v] \in SeenType
    BY <2>1, <2>2, <2>3, <2>4
  <2>6. QED
    BY <2>2, <2>3, <2>4, <2>5 DEF off
<1> HIDE DEF shown
<1>6. /\ pc' \in [Editor -> Steps \cup Ended] /\ task' \in [Editor -> TaskType]
      /\ todo' \in [Editor -> SUBSET Offer] /\ Progress'
      /\ \A v \in Editor :
           /\ pc'[v] \in {"read", "save"} => task'[v].target # NoOffer \/ task'[v].op = "create"
           /\ task'[v].target \notin todo'[v]
  BY <1>1, <1>2, NextTargetKeeps DEF TaskType
<1>7. Shape'
  BY <1>3, <1>5, <1>6, StaysMoves, ShapeFrom DEF Shape, TypeOK
<1>8. SweptOf(w)'
  <2>0. (\A o \in Offer : ~OnSale(o) => o \in seen[w].off)'
    BY <1>3, <1>5 DEF OnSale, Live
  <2>1. CASE Ends(w, l)
    <3>1. pc'[w] = "ok" /\ seen'[w].listed = {}
      BY <1>1, <1>4, <1>5, <2>1 DEF Ends
    <3>2. QED
      BY <3>1 DEF SweptOf, Sweeping
  <2>2. ASSUME NEW o \in l, Turns(w, l, o)
        PROVE  SweptOf(w)'
    <3>1. pc'[w] = "read" /\ todo'[w] = l \ {o} /\ task'[w].target = o
      BY <1>1, <2>2 DEF Turns
    <3>2. Behind(w)' = {}
      BY <1>4, <1>5, <3>1 DEF Behind
    <3>3. QED
      BY <1>3, <1>4, <1>5, <2>0, <3>1, <3>2 DEF SweptOf
  <2>3. QED
    BY <1>2, <2>1, <2>2, NextTargetIs
<1>9. \A v \in Editor \ {w} : pc'[v] = pc[v] /\ task'[v] = task[v] /\ todo'[v] = todo[v]
  BY <1>2, NextTargetIs DEF Ends, Turns, Shape, TypeOK
<1>10. ProgressOf(w)'
  BY <1>6 DEF Progress
<1>11. Swept'
  BY <1>3, <1>5, <1>8, <1>9, <1>10, OthersKeep
<1>12. FormBlind'
  BY <1>3 DEF FormBlind
<1>13. QED
  BY <1>6, <1>7, <1>11, <1>12

\* What is left of a save whose call goes on: the sweep turns, or is over.
LEMMA SavedKeeps ==
  ASSUME IInv, NEW w \in Editor, pc[w] = "save", Moves, rivals' = rivals,
         form' = [form EXCEPT ![w] = NoEdit], NextTarget(w, todo[w]),
         seen' \in [Editor -> SeenType], \A v \in Editor : Watches(v),
         \A v \in Editor \ {w} : seen'[v].refused = seen[v].refused,
         task[w].op \in Sweeps =>
           \/ task[w].target \notin seen[w].listed
           \/ task[w].target \in seen'[w].refused
           \/ /\ task[w].op = "deactivateAll" => task[w].target \in seen'[w].off
              /\ task[w].op = "deleteAll" => offers'[task[w].target].status = "deleted"
  PROVE  IInv'
<1> USE DEF IInv
<1>1. todo[w] \in SUBSET Offer /\ (todo[w] # {} => task[w].op \in Sweeps)
  BY DEF Shape, Progress, ProgressOf, Sweeping
<1>2. /\ pc' \in [Editor -> Steps \cup Ended] /\ task' \in [Editor -> TaskType]
      /\ todo' \in [Editor -> SUBSET Offer] /\ Progress'
      /\ \A v \in Editor :
           /\ pc'[v] \in {"read", "save"} => task'[v].target # NoOffer \/ task'[v].op = "create"
           /\ task'[v].target \notin todo'[v]
  BY <1>1, NextTargetKeeps DEF TaskType
<1>3. form' \in [Editor -> Edits] /\ FormBlind'
  BY NoEditIsEdit DEF Shape, FormBlind
<1>4. rivals' \in SUBSET RivalPrices
  BY DEF Shape, TypeOK
<1>5. Shape'
  BY <1>2, <1>3, <1>4, ShapeFrom
<1>6. \A v \in Editor \ {w} : pc'[v] = pc[v] /\ task'[v] = task[v] /\ todo'[v] = todo[v]
  BY NextTargetIs DEF Ends, Turns, Shape, TypeOK
<1>7. \A v \in Editor \ {w} : SweptOf(v)'
  BY <1>6, SweptFrame
<1>8. SweptOf(w)'
  BY SweptTurns
<1>9. QED
  BY <1>2, <1>3, <1>5, <1>7, <1>8 DEF Swept

LEMMA SaveKeeps == ASSUME NEW w \in Editor PROVE IInv /\ SaveOffer(w) => IInv'
<1> SUFFICES ASSUME IInv, SaveOffer(w) PROVE IInv'
  OBVIOUS
<1>1. /\ pc[w] = "save" /\ rivals' = rivals /\ form' = [form EXCEPT ![w] = NoEdit]
      /\ Shape /\ Progress /\ FormBlind /\ Swept
  BY DEF SaveOffer, IInv
<1>2. task[w].op \in Sweeps =>
        /\ Sweeping(w) /\ task[w].patch = SweepPatch(task[w].op)
        /\ task[w].target \in Offer
  BY <1>1 DEF Shape, TypeOK, Progress, ProgressOf, Sweeping, Sweeps
<1>3. ASSUME Store(w), Noted
      PROVE  /\ Moves /\ seen' \in [Editor -> SeenType] /\ \A v \in Editor : Watches(v)
             /\ \A v \in Editor : seen'[v].refused = seen[v].refused
             /\ task[w].op \in Sweeps =>
                  /\ task[w].op = "deactivateAll" => task[w].target \in seen'[w].off
                  /\ task[w].op = "deleteAll" => offers'[task[w].target].status = "deleted"
  <2>1. PICK o \in Offer :
          /\ \/ task[w].op = "create" /\ offers[o].status = "unborn"
             \/ task[w].op # "create" /\ o = task[w].target /\ Live(o)
          /\ Moves
          /\ OnSale(o)' => "active" \in DOMAIN task[w].patch /\ task[w].patch.active = TRUE
          /\ "deleted" \in DOMAIN task[w].patch /\ task[w].patch.deleted = TRUE =>
               offers'[o].status = "deleted"
    BY <1>1, <1>3, StoreIs
  <2>2. seen' \in [Editor -> SeenType] /\ \A v \in Editor : Watches(v)
    BY <1>1, <1>3, NotedWatches
  <2>3. \A v \in Editor : seen'[v].refused = seen[v].refused
    BY <1>1, <1>3 DEF Noted, Shape
  <2>4. ASSUME task[w].op = "deactivateAll"
        PROVE  task[w].target \in seen'[w].off
    <3>1. /\ task[w].patch = SweepPatch("deactivateAll")
          /\ o = task[w].target /\ Sweeping(w)
      BY <1>2, <2>1, <2>4 DEF Sweeps
    <3>2. task[w].patch.active = FALSE
      BY <3>1, SweepPatchIs
    <3>3. ~OnSale(o)'
      BY <2>1, <3>2
    <3>4. QED
      BY <2>2, <3>1, <3>3 DEF Watches
  <2>5. ASSUME task[w].op = "deleteAll"
        PROVE  offers'[task[w].target].status = "deleted"
    <3>1. task[w].patch = SweepPatch("deleteAll") /\ o = task[w].target
      BY <1>2, <2>1, <2>5 DEF Sweeps
    <3>2. "deleted" \in DOMAIN task[w].patch /\ task[w].patch.deleted = TRUE
      BY <3>1, SweepPatchIs
    <3>3. QED
      BY <2>1, <3>1, <3>2
  <2>6. QED
    BY <2>1, <2>2, <2>3, <2>4, <2>5
<1>4. CASE Store(w) /\ NextTarget(w, todo[w]) /\ Noted
  BY <1>1, <1>3, <1>4, SavedKeeps
<1>5. CASE /\ task[w].op # "create" /\ ~Live(task[w].target)
           /\ NextTarget(w, todo[w])
           /\ UNCHANGED <<offers, seen>>
  <2>1. Moves /\ seen' \in [Editor -> SeenType] /\ \A v \in Editor : Watches(v)
    BY <1>1, <1>5, StaysMoves, StillWatches
  <2>2. ASSUME task[w].op \in Sweeps, task[w].target \in seen[w].listed
        PROVE  /\ task[w].target \in seen'[w].off
               /\ offers'[task[w].target].status = "deleted"
    BY <1>1, <1>2, <1>5, <2>2 DEF Swept, SweptOf, OnSale, Live, Shape, TypeOK
  <2>3. QED
    BY <1>1, <1>5, <2>1, <2>2, SavedKeeps
<1>6. CASE NextTarget(w, todo[w]) /\ NotedRefused(w) /\ UNCHANGED offers
  <2>1. seen \in [Editor -> SeenType]
    BY <1>1 DEF Shape, SeenType
  <2>2. Moves
    BY <1>1, <1>6, StaysMoves
  <2>3. CASE task[w].op \in Sweeps
    <3> DEFINE n == [listed |-> seen[w].listed, off |-> seen[w].off,
                     refused |-> seen[w].refused \cup {task[w].target}]
    <3>1. seen[w] = [listed |-> seen[w].listed, off |-> seen[w].off, refused |-> seen[w].refused]
      BY <2>1 DEF SeenType
    <3>2. [seen[w] EXCEPT !.refused = seen[w].refused \cup {task[w].target}] = n
      BY <3>1
    <3>3. seen' = [seen EXCEPT ![w] = n]
      BY <1>2, <1>6, <2>1, <2>3, <3>2 DEF NotedRefused
    <3>4. n \in SeenType
      BY <1>2, <2>1, <2>3 DEF SeenType
    <3>5. /\ n.listed = seen[w].listed /\ n.off = seen[w].off
          /\ n.refused = seen[w].refused \cup {task[w].target}
      OBVIOUS
    <3> HIDE DEF n
    <3>6. /\ seen' \in [Editor -> SeenType] /\ seen'[w] = n
          /\ \A v \in Editor \ {w} : seen'[v] = seen[v]
      BY <2>1, <3>3, <3>4
    <3>7. \A v \in Editor : Sweeping(v) => \A o \in Offer : ~OnSale(o)' => o \in seen[v].off
      BY <1>1, <1>6 DEF Swept, SweptOf, OnSale, Live
    <3>8. \A v \in Editor : Watches(v)
      BY <2>1, <3>4, <3>5, <3>6, <3>7 DEF Watches
    <3>9. QED
      BY <1>1, <1>6, <2>2, <3>5, <3>6, <3>8, SavedKeeps
  <2>4. CASE task[w].op \notin Sweeps
    <3>1. seen' = seen
      BY <1>6, <2>4 DEF NotedRefused, Sweeping
    <3>2. seen' \in [Editor -> SeenType] /\ \A v \in Editor : Watches(v)
      BY <1>1, <1>6, <3>1, StillWatches
    <3>3. QED
      BY <1>1, <1>6, <2>2, <2>4, <3>1, <3>2, SavedKeeps
  <2>5. QED
    BY <2>3, <2>4
<1>7. CASE Store(w) /\ Return(w, "error") /\ Noted
  <2>1. /\ pc' = [pc EXCEPT ![w] = "error"] /\ task' = [task EXCEPT ![w] = Reset(w)]
        /\ todo' = [todo EXCEPT ![w] = {}]
    BY <1>7, ReturnIs
  <2>2. Reset(w) \in TaskType /\ Reset(w).target = NoOffer
    BY <1>1, ResetIs
  <2>3. /\ pc \in [Editor -> Steps \cup Ended] /\ task \in [Editor -> TaskType]
        /\ todo \in [Editor -> SUBSET Offer] /\ form \in [Editor -> Edits]
        /\ rivals \in SUBSET RivalPrices
    BY <1>1 DEF Shape, TypeOK, TaskType
  <2>4. /\ pc'[w] = "error" /\ task'[w] = Reset(w) /\ todo'[w] = {}
        /\ \A v \in Editor \ {w} : pc'[v] = pc[v] /\ task'[v] = task[v] /\ todo'[v] = todo[v]
    BY <2>1, <2>3
  <2>5. Shape'
    <3>1. \A v \in Editor :
            /\ pc[v] \in {"read", "save"} => task[v].target # NoOffer \/ task[v].op = "create"
            /\ task[v].target \notin todo[v]
      BY <1>1 DEF Shape, TypeOK
    <3>2. /\ pc' \in [Editor -> Steps \cup Ended] /\ task' \in [Editor -> TaskType]
          /\ todo' \in [Editor -> SUBSET Offer] /\ form' \in [Editor -> Edits]
      BY <1>1, <2>1, <2>2, <2>3, NoEditIsEdit DEF Ended
    <3>3. QED
      BY <1>1, <1>3, <1>7, <2>3, <2>4, <3>1, <3>2, ShapeFrom
  <2>6. FormBlind'
    BY <1>1, <2>3, NoEditIsEdit DEF FormBlind
  <2>7. Progress'
    <3>1. ProgressOf(w)'
      BY <2>2, <2>4 DEF ProgressOf, Sweeping
    <3>2. \A v \in Editor \ {w} : ProgressOf(v)'
      BY <1>1, <2>4 DEF Progress, ProgressOf, Sweeping
    <3>3. QED
      BY <3>1, <3>2 DEF Progress
  <2>8. Swept'
    <3>1. \A v \in Editor \ {w} : SweptOf(v)'
      BY <1>1, <1>3, <1>7, <2>4, SweptFrame
    <3>2. SweptOf(w)'
      <4>1. \A o \in seen'[w].listed : offers'[o].status # "unborn"
        BY <1>1, <1>3, <1>7 DEF Swept, SweptOf, Watches, Moves, SeenType
      <4>2. QED
        BY <2>4, <4>1 DEF SweptOf, Sweeping
    <3>3. QED
      BY <3>1, <3>2 DEF Swept
  <2>9. QED
    BY <2>5, <2>6, <2>7, <2>8 DEF IInv
<1>8. QED
  BY <1>4, <1>5, <1>6, <1>7 DEF SaveOffer

LEMMA Inductive == IInv /\ [Next]_vars => IInv'
<1> SUFFICES ASSUME IInv, [Next]_vars PROVE IInv'
  OBVIOUS
<1>1. CASE RivalsMove
  BY <1>1, RivalsMoveKeeps
<1>2. ASSUME NEW w \in Editor, Call(w) \/ Fail(w) \/ Step(w)
      PROVE  IInv'
  BY <1>2, CallKeeps, FailKeeps, ListKeeps, MarketKeeps, DetailsKeeps, SaveKeeps DEF Step
<1>3. CASE UNCHANGED vars
  <2>1. /\ Shape' /\ Progress' /\ FormBlind'
    BY <1>3 DEF IInv, vars, Shape, TypeOK, Progress, ProgressOf, FormBlind, Sweeping, Live
  <2>2. Swept'
    BY <1>3 DEF IInv, vars, Swept, SweptOf, Sweeping, Behind, Dealt, OnSale, Live
  <2>3. QED
    BY <2>1, <2>2 DEF IInv
<1>4. QED
  BY <1>1, <1>2, <1>3 DEF Next

\* Every reachable state satisfies the invariant.
THEOREM Invariant == Spec => []IInv
BY Initially, Inductive, PTL DEF Spec

-----------------------------------------------------------------------------
(* The properties.                                                          *)

\* Every editor is somewhere its operation goes, at an offer that exists.
THEOREM TypeCorrect == Spec => []TypeOK
BY Invariant, PTL DEF IInv, Shape

\* A sweep that returns nil took off, or deleted, every offer its list showed
\* on sale and the marketplace did not refuse.
THEOREM SweepsAreComplete == Spec => []SweepComplete
<1>1. IInv => SweepComplete
  BY DEF IInv, Swept, SweptOf, Dealt, SweepComplete
<1>2. QED
  BY <1>1, Invariant, PTL

\* No stale page puts an offer back on sale.
THEOREM ActivationIsAsked == Spec => ActivationAsked
<1> DEFINE Asked == \A o \in Offer : ~OnSale(o) /\ OnSale(o)' =>
              \E w \in Editor :
                /\ pc[w] = "save" /\ task[w].target \in {o, NoOffer}
                /\ "active" \in DOMAIN task[w].patch /\ task[w].patch.active
<1>1. ASSUME IInv, [Next]_vars
      PROVE  [Asked]_vars
  <2>1. CASE offers' = offers
    BY <2>1 DEF OnSale, Live
  <2>2. ASSUME NEW w \in Editor, pc[w] = "save", Store(w)
        PROVE  Asked
    <3>1. PICK s \in Offer :
            /\ \/ task[w].op = "create" /\ offers[s].status = "unborn"
               \/ task[w].op # "create" /\ s = task[w].target /\ Live(s)
            /\ \A p \in Offer \ {s} : offers'[p] = offers[p]
            /\ OnSale(s)' => "active" \in DOMAIN task[w].patch /\ task[w].patch.active = TRUE
      BY <1>1, <2>2, StoreIs DEF IInv
    <3>2. task[w].op = "create" => task[w].target = NoOffer
      BY <1>1 DEF IInv, Progress, ProgressOf
    <3>3. SUFFICES ASSUME NEW o \in Offer, ~OnSale(o), OnSale(o)'
                   PROVE  /\ task[w].target \in {o, NoOffer}
                          /\ "active" \in DOMAIN task[w].patch /\ task[w].patch.active
      BY <2>2
    <3>4. o = s
      BY <3>1, <3>3 DEF OnSale, Live
    <3>5. QED
      BY <3>1, <3>2, <3>3, <3>4
  <2>3. CASE Next
    BY <2>1, <2>2, <2>3
       DEF Next, RivalsMove, Call, Fail, Step, FetchMyOffers, FetchMarketOffers,
           FetchOfferDetails, SaveOffer
  <2>4. QED
    BY <1>1, <2>1, <2>3 DEF vars
<1>2. QED
  BY <1>1, Invariant, PTL DEF Spec, ActivationAsked

-----------------------------------------------------------------------------
(* The floor under the prices.                                              *)

LEMMA FlooredInitially ==
  ASSUME \A p \in Prices : MinPrice <= p
  PROVE  Init => Floored
<1> SUFFICES ASSUME Init PROVE Floored
  OBVIOUS
<1> USE OfferAssumption DEF Init
<1>1. \A o \in Offer : offers[o].price \in Prices
  OBVIOUS
<1>2. \A w \in Editor : task[w].patch = NoEdit /\ form[w] = NoEdit
  BY DEF NoTask
<1>3. QED
  BY <1>1, <1>2, NoEditIsEdit DEF Floored, NeverBelowFloor

\* A call starts with a patch that asks for no less than the floor.
LEMMA CallIsFloored ==
  ASSUME \A p \in Prices : MinPrice <= p, IInv, Floored, NEW w \in Editor, Call(w)
  PROVE  Floored'
<1>1. PICK t \in TaskType : task' = [task EXCEPT ![w] = t] /\ FloorOf(t.patch)
  <2>1. ASSUME NEW op \in Ops, NEW target \in Offer \cup {NoOffer}, NEW patch \in Edits, FloorOf(patch),
               task' = [task EXCEPT ![w] = [op |-> op, target |-> target, patch |-> patch]]
        PROVE  \E t \in TaskType : task' = [task EXCEPT ![w] = t] /\ FloorOf(t.patch)
    <3> DEFINE t == [op |-> op, target |-> target, patch |-> patch]
    <3>1. t \in TaskType /\ FloorOf(t.patch)
      BY <2>1 DEF TaskType
    <3>2. QED
      BY <2>1, <3>1
  <2>2. \A d \in Details : d \in Edits /\ FloorOf(d)
    BY DetailsAreEdits DEF FloorOf
  <2>3. \A d \in Patches : d \in Edits /\ FloorOf(d)
    BY PatchesAreEdits
  <2>4. "edit" \in Ops /\ "undercut" \in Ops /\ "create" \in Ops /\ Sweeps \subseteq Ops
    BY DEF Ops
  <2>5. QED
    BY <2>1, <2>2, <2>3, <2>4, NoEditIsEdit DEF Call
<1>2. offers' = offers /\ form' = form /\ task \in [Editor -> TaskType]
  BY DEF Call, IInv, Shape, TaskType
<1>3. \A v \in Editor : task'[v] = IF v = w THEN t ELSE task[v]
  BY <1>1, <1>2
<1>4. QED
  BY <1>1, <1>2, <1>3 DEF Floored, NeverBelowFloor

\* Each later step of a call keeps prices, patches and forms over the floor.
LEMMA TurnIsFloored ==
  ASSUME Shape, NEW w \in Editor, NEW left, NextTarget(w, left),
         \A v \in Editor : FloorOf(task[v].patch)
  PROVE  \A v \in Editor : FloorOf(task'[v].patch)
<1>1. \E n \in {Reset(w)} \cup {[op |-> task[w].op, target |-> o, patch |-> SweepPatch(task[w].op)] : o \in left} :
        task' = [task EXCEPT ![w] = n]
  BY NextTargetIs DEF Ends, Turns
<1>2. QED
  BY <1>1, NoEditIsEdit, SweepPatchIsEdit DEF Reset, Shape

LEMMA ReturnIsFloored ==
  ASSUME Shape, NEW w \in Editor, NEW outcome, Return(w, outcome),
         \A v \in Editor : FloorOf(task[v].patch)
  PROVE  \A v \in Editor : FloorOf(task'[v].patch)
BY ReturnIs, NoEditIsEdit DEF Reset, Shape

LEMMA StepIsFloored ==
  ASSUME IInv, Floored, NEW w \in Editor, Fail(w) \/ Step(w)
  PROVE  Floored'
<1> USE DEF IInv
<1>0. /\ NeverBelowFloor /\ \A v \in Editor : FloorOf(task[v].patch) /\ FloorOf(form[v])
      /\ form \in [Editor -> Edits]
  BY DEF Floored, Shape
<1>1. ASSUME offers' = offers, \A v \in Editor : FloorOf(task'[v].patch) /\ FloorOf(form'[v])
      PROVE  Floored'
  BY <1>0, <1>1 DEF Floored, NeverBelowFloor
<1>2. form' = [form EXCEPT ![w] = NoEdit] => \A v \in Editor : FloorOf(form'[v])
  BY <1>0, NoEditIsEdit
<1>3. CASE Fail(w)
  BY <1>0, <1>1, <1>2, <1>3, ReturnIsFloored DEF Fail
<1>4. CASE FetchMyOffers(w)
  BY <1>0, <1>1, <1>4, TurnIsFloored DEF FetchMyOffers
<1>5. CASE FetchMarketOffers(w)
  <2>1. PICK p \in Nat : /\ p >= MinPrice
                         /\ task' = [task EXCEPT ![w] =
                              [op |-> task[w].op, target |-> task[w].target, patch |-> [price |-> p]]]
    BY <1>5, MarketPatch
  <2>2. FloorOf([price |-> p])
    BY <2>1 DEF FloorOf
  <2>3. \A v \in Editor : FloorOf(task'[v].patch)
    BY <1>0, <2>1, <2>2 DEF Shape
  <2>4. offers' = offers /\ form' = form
    BY <1>5 DEF FetchMarketOffers
  <2>5. QED
    BY <1>0, <1>1, <2>3, <2>4
<1>6. CASE FetchOfferDetails(w)
  <2>1. task[w].target \in Offer
    BY <1>6 DEF Shape, TypeOK, Progress, ProgressOf, FetchOfferDetails
  <2>2. PICK f \in Edits : form' = [form EXCEPT ![w] = f] /\ FloorOf(f)
    BY <1>0, <1>6, <2>1, FormIs
  <2>3. \A v \in Editor : FloorOf(form'[v])
    BY <1>0, <2>2
  <2>4. QED
    BY <1>0, <1>1, <1>6, <2>3 DEF FetchOfferDetails
<1>7. CASE SaveOffer(w)
  <2>1. \A v \in Editor : FloorOf(task'[v].patch) /\ FloorOf(form'[v])
    BY <1>0, <1>2, <1>7, TurnIsFloored, ReturnIsFloored DEF SaveOffer
  <2>2. ASSUME Store(w)
        PROVE  NeverBelowFloor'
    BY <1>0, <1>7, <2>2, StoreIs, ZenonT(60) DEF SaveOffer, NeverBelowFloor
  <2>3. CASE offers' = offers
    BY <1>1, <2>1, <2>3
  <2>4. QED
    BY <1>7, <2>1, <2>2, <2>3 DEF SaveOffer, Floored
<1>8. QED
  BY <1>3, <1>4, <1>5, <1>6, <1>7 DEF Step

\* No offer is ever priced under min_price, unless someone asks for that by
\* hand: neither an empty market, nor a stale or failed page, nor another
\* seller's price below the floor makes UndercutPrice go under it.
THEOREM UndercutKeepsFloor ==
  ASSUME \A p \in Prices : MinPrice <= p
  PROVE  Spec => []NeverBelowFloor
<1>1. IInv /\ Floored /\ [Next]_vars => Floored'
  <2> SUFFICES ASSUME IInv, Floored, [Next]_vars PROVE Floored'
    OBVIOUS
  <2>1. CASE RivalsMove
    BY <2>1 DEF RivalsMove, Floored, NeverBelowFloor
  <2>2. ASSUME NEW w \in Editor, Call(w) \/ Fail(w) \/ Step(w)
        PROVE  Floored'
    BY <2>2, CallIsFloored, StepIsFloored
  <2>3. CASE UNCHANGED vars
    BY <2>3 DEF vars, Floored, NeverBelowFloor
  <2>4. QED
    BY <2>1, <2>2, <2>3 DEF Next
<1>2. Init => Floored
  BY FlooredInitially
<1>3. Floored => NeverBelowFloor
  BY DEF Floored
<1>4. QED
  BY <1>1, <1>2, <1>3, Invariant, PTL DEF Spec

=============================================================================
