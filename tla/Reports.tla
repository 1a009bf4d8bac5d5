------------------------------ MODULE Reports -------------------------------
(***************************************************************************)
(* FetchOrdersWith and CalculateStatistics (src/client.go): one loop over   *)
(* the orders of the page that keeps what no filter rejects, and one over  *)
(* those kept that counts buyers by id.  FetchPaidOrders is the first with *)
(* a filter on the status alone.  A text filter looks for a part of a      *)
(* text, here for all of it.                                               *)
(***************************************************************************)
EXTENDS Naturals, FiniteSets, Sequences

CONSTANTS
  MaxOrders,  \* bound: orders on the page
  Buyers,     \* ids that can be parsed
  Users,      \* user names
  Texts       \* descriptions and names of subcategories

\* An id that cannot be parsed is 0.
OrderInfo ==
  [Status : {"paid", "closed"}, BuyerID : Buyers \cup {0}, BuyerUsername : Users,
   SubcategoryName : Texts, Description : Texts]

\* parseOrderItem finds no amount.
Amount == 0

\* What each filter lets through; a nil filter lets all through (as the least
\* amount, 0 does), one for a text that is in no order none.
Filters(values) == {{v} : v \in values} \cup {values}
TextFilters     == Filters(Texts) \cup {{}}
FetchOrderOptions ==
  [Status : Filters({"paid", "closed"}), MinAmount : {0, 1}, MaxAmount : {0, 1},
   BuyerID : Filters(Buyers \cup {0}), BuyerUsername : Filters(Users),
   Subcategory : TextFilters, Description : TextFilters]
NoFilters ==
  [Status |-> {"paid", "closed"}, MinAmount |-> 0, MaxAmount |-> 1,
   BuyerID |-> Buyers \cup {0}, BuyerUsername |-> Users,
   Subcategory |-> Texts, Description |-> Texts]

VARIABLES
  all,       \* the orders of the page
  opts,
  next,      \* the next order of the first loop
  filtered,
  counted,   \* how many of those the second loop has counted
  seen,      \* the ids it has met
  names      \* StoreStatistics.BuyerUsernames; UniqueBuyers is its length

vars == <<all, opts, next, filtered, counted, seen, names>>

Done == next > Len(all) /\ counted = Len(filtered)

TypeOK ==
  /\ next \in 1 .. Len(all) + 1
  /\ \A k \in DOMAIN filtered : filtered[k] \in OrderInfo
  /\ Len(filtered) < next
  /\ counted \in 0 .. Len(filtered)
  /\ seen \subseteq Buyers \cup {0}
  /\ \A k \in DOMAIN names : names[k] \in Users

Init ==
  /\ \E n \in 0 .. MaxOrders : all \in [1 .. n -> OrderInfo]
  /\ opts \in FetchOrderOptions
  /\ next = 1 /\ filtered = <<>>
  /\ counted = 0 /\ seen = {} /\ names = <<>>

-----------------------------------------------------------------------------
(* Mutated forms of the definitions below.                                  *)

KnownByName(o) == \E k \in DOMAIN names : names[k] = o.BuyerUsername

-----------------------------------------------------------------------------
\* The filters of FetchOrdersWith.
Keeps(o) ==
  /\ o.Status \in opts.Status
  /\ Amount \in opts.MinAmount .. opts.MaxAmount
  /\ o.SubcategoryName \in opts.Subcategory
  /\ o.BuyerID \in opts.BuyerID
  /\ o.BuyerUsername \in opts.BuyerUsername
  /\ o.Description \in opts.Description

Known(o) == o.BuyerID \in seen

FetchOrdersWith ==
  /\ next <= Len(all)
  /\ filtered' = IF Keeps(all[next]) THEN Append(filtered, all[next]) ELSE filtered
  /\ next' = next + 1
  /\ UNCHANGED <<all, opts, counted, seen, names>>

CalculateStatistics ==
  /\ next > Len(all) /\ counted < Len(filtered)
  /\ LET o == filtered[counted + 1] IN
       /\ seen' = seen \cup {o.BuyerID}
       /\ names' = IF Known(o) THEN names ELSE Append(names, o.BuyerUsername)
  /\ counted' = counted + 1
  /\ UNCHANGED <<all, opts, next, filtered>>

Next == FetchOrdersWith \/ CalculateStatistics \/ (Done /\ UNCHANGED vars)

Spec == Init /\ [][Next]_vars

-----------------------------------------------------------------------------
(* Properties.                                                              *)

\* "computes totals from filtered orders" (client.go:202): a buyer counts
\* once, however many orders and names there are, and under the name of the
\* first order; so the count is that of the buyers, but that all whose id
\* could not be parsed are one.
BuyersCounted ==
  LET ids      == {filtered[k].BuyerID : k \in 1 .. counted}
      First(b) == CHOOSE k \in 1 .. counted :
                    filtered[k].BuyerID = b /\ \A j \in 1 .. k - 1 : filtered[j].BuyerID # b
  IN /\ Len(names) = Cardinality(ids)
     /\ \A b \in ids :
          names[Cardinality({c \in ids : First(c) <= First(b)})] = filtered[First(b)].BuyerUsername

=============================================================================
