------------------------------- MODULE Pages --------------------------------
(***************************************************************************)
(* The parsers of src/parser.go.  Each walks the tree of a page in document *)
(* order (walkNodes); at a node of its item class it starts a record, walks *)
(* that node's subtree for the fields, and may drop the record; then the   *)
(* outer walk goes on into the same subtree.  A parser is a row of what it *)
(* looks for; a value is the position of the node it was taken from, 0     *)
(* where nothing was found.                                                *)
(***************************************************************************)
EXTENDS Naturals, FiniteSets, Sequences, SequencesExt

CONSTANT MaxNodes   \* bound: nodes of a page, its root included

\* RootItem: one record, of the whole page.
RootItem == "document"

\* What a match of a field does: "last" - sets it, to nothing if the node has
\* nothing to give; "parsed" - sets it if the node's text parses; "seen" - sets
\* it anyhow; "each" - is appended to it.  "contained": each node it is looked
\* for in sets it, to nothing if there is no match.  within: the mark of those.
Field(kind, marks)  == {[is |-> m, kind |-> kind, within |-> "item"] : m \in marks}
Within(c, kind, m)  == {[is |-> m, kind |-> kind, within |-> c]}

\* item: the class that starts a record.  own: the item is passed over unless
\* its own attribute yields an id.  keep: without these the record is dropped.
Row(item, own, keep, fields) == [item |-> item, own |-> own, keep |-> keep, fields |-> fields]

parseOrders == Row("tc-item", FALSE, {},
  Field("last", {"tc-order", "order-desc", "text-muted"}) \cup Field("seen", {"order-closed"})
  \cup Within("media-user-name", "last", "span") \cup Within("media-user-name", "parsed", "data-href"))

parseOrderPage == Row(RootItem, FALSE, {},
  Field("last", {"badge", "user-link", "/chat/", "order-short-description"})
  \cup Field("parsed", {"order-amount", "order-sum", "/users/"}) \cup Field("seen", {"review-item"}))

orderParams == Row("param-item", FALSE, {"param-item-label"},
  Field("last", {"param-item-label", "param-item-value"}))

orderSecrets == Row("secret-item", FALSE, {}, {})

orderReview == Row("review-item", FALSE, {},
  Field("parsed", {"review-stars"}) \cup Field("last", {"review-text"}))

parseMyOffers == Row("tc-item", TRUE, {},
  Field("last", {"tc-desc-text"}) \cup Field("parsed", {"tc-price"}))

parseMarketOffers == Row("tc-item", TRUE, {},
  Field("last", {"tc-desc-text", "pseudo-a"}) \cup Field("parsed", {"tc-price", "data-href"})
  \cup Within("media-user-reviews", "last", "rating-mini-count")
  \cup Within("pseudo-a", "contained", "online"))

parseOfferDetails == Row(RootItem, FALSE, {},
  Field("last", {"input", "textarea"}) \cup Within("select", "parsed", "option"))

extractCustomFields == Row("form-group", FALSE, {"name"},
  Field("last", {"label", "name"}) \cup Within("name", "parsed", "option"))

parseCategorySubcategories == Row("counter-item", FALSE, {}, {})

parseCategoryFilters == Row("lot-field", FALSE, {"label"},
  Field("last", {"label", "select"}) \cup Within("select", "each", "option"))

parseProfileReviews == Row("review-item", FALSE, {},
  Field("last", {"review-author", "review-text"}) \cup Field("parsed", {"/users/", "review-stars"}))

parseBalance == Row(RootItem, FALSE, {"badge-balance"}, Field("last", {"badge-balance"}))

parseUserFromHome == Row(RootItem, FALSE, {"data-app-data"},
  Field("last", {"data-app-data", "user-link-name"}))

Parsers == {parseOrders, parseOrderPage, orderParams, orderSecrets, orderReview, parseMyOffers,
            parseMarketOffers, parseOfferDetails, extractCustomFields, parseCategorySubcategories,
            parseCategoryFilters, parseProfileReviews, parseBalance, parseUserFromHome}

\* The nodes of a page, for a parser and one field at a time: fields meet only
\* in what keep requires.  full: there is text, and it parses.
NodeOf(marks, full) == {[mark |-> m, full |-> b] : m \in marks, b \in full}

Nodes(p) ==
  LET base == NodeOf({p.item}, IF p.own THEN BOOLEAN ELSE {FALSE}) \cup NodeOf(p.keep, BOOLEAN)
  IN {base} \cup {base \cup NodeOf({f.is}, BOOLEAN)
                       \cup NodeOf({f.within} \ {"item"}, {FALSE}) : f \in p.fields}

\* Document order as depths: the root, then each node below one before it.
Shapes(n) ==
  {d \in [1 .. n -> 0 .. n - 1] : d[1] = 0 /\ \A k \in 2 .. n : d[k] \in 1 .. d[k - 1] + 1}

VARIABLES
  parser,   \* the row at work
  page,
  at,       \* the next node of the outer walk
  recs      \* what has been appended: the item, and where its fields are from

vars == <<parser, page, at, recs>>

Over == at > Len(page)
Lists == {f \in parser.fields : f.kind = "each"}
Names == {f.is : f \in parser.fields \ Lists}

TypeOK ==
  /\ at \in 1 .. Len(page) + 1
  /\ \A r \in DOMAIN recs :
       /\ recs[r].item < at /\ recs[r].from \in [Names -> 0 .. Len(page)]
       /\ recs[r].options \subseteq (DOMAIN page) \X (DOMAIN page)

Init ==
  /\ parser \in Parsers
  /\ \E nodes \in Nodes(parser), n \in 1 .. MaxNodes :
       \E d \in Shapes(n), b \in [2 .. n -> nodes] :
         page = [k \in 1 .. n |->
                   [depth |-> d[k], mark |-> IF k = 1 THEN RootItem ELSE b[k].mark,
                    full |-> k > 1 /\ b[k].full]]
  /\ at = 1
  /\ recs = <<>>

-----------------------------------------------------------------------------
(* Mutated forms of the definitions below.                                  *)

SubtreeToEnd(i) == i .. Len(page)
NextAfterItem(i) == IF page[i].mark = parser.item THEN i + 2 ELSE i + 1

-----------------------------------------------------------------------------
(* Helpers.                                                                 *)

\* walkNodes calls back for the node itself and for all that is below it.
Subtree(i) ==
  {j \in i .. Len(page) : \A k \in i + 1 .. j : page[k].depth > page[i].depth}

\* Where a field is looked for, and the nodes that are taken for it.
Homes(i, f) == {j \in Subtree(i) : IF f.within = "item" THEN j = i ELSE page[j].mark = f.within}
Matches(i, f) == {j \in Subtree(i) : page[j].mark = f.is /\ (f.kind = "parsed" => page[j].full)}

\* The last visit decides: in the last home with a match, the last match.
From(i, f) ==
  LET homes == {h \in Homes(i, f) : f.kind = "contained" \/ Matches(h, f) # {}}
      there == Matches(Max(homes), f)
  IN IF homes = {} \/ there = {} \/ (f.kind = "last" /\ ~page[Max(there)].full)
     THEN 0
     ELSE Max(there)

\* What is appended: each match as often as there are homes around it, in the
\* order of the two walks.
Listed(i, f) ==
  {x \in Subtree(i) \X Subtree(i) : x[1] \in Homes(i, f) /\ x[2] \in Matches(x[1], f)}
Options(i) == UNION {Listed(i, f) : f \in Lists}

IsItem(i) == page[i].mark = parser.item /\ (parser.own => page[i].full)

Parsed(i) ==
  [item |-> i,
   from |-> [m \in Names |-> From(i, CHOOSE f \in parser.fields : f.is = m)],
   options |-> Options(i)]

Taken(r) == \A m \in parser.keep : r.from[m] # 0

NextAfter(i) == i + 1

-----------------------------------------------------------------------------
\* One call of the outer walk's function.
Visit ==
  /\ ~Over
  /\ recs' = IF IsItem(at) /\ Taken(Parsed(at)) THEN Append(recs, Parsed(at)) ELSE recs
  /\ at' = NextAfter(at)
  /\ UNCHANGED <<parser, page>>

Next == Visit \/ (Over /\ UNCHANGED vars)

Spec == Init /\ [][Next]_vars

-----------------------------------------------------------------------------
(* Properties.                                                              *)

Above(i, j) == i < j /\ \A k \in i + 1 .. j : page[k].depth > page[i].depth

Shared(r, q, x) ==
  \/ Above(recs[r].item, recs[q].item) /\ (x = recs[q].item \/ Above(recs[q].item, x))
  \/ Above(recs[q].item, recs[r].item) /\ (x = recs[r].item \/ Above(recs[r].item, x))

\* No record shows what belongs to another: two records take a field or an
\* option from the same node only if the item of one lies in the other's, and
\* then the node lies in both.  A page of a market lists the offers of many
\* sellers.
NothingBorrowed ==
  \A r, q \in DOMAIN recs : r # q =>
    /\ \A m \in Names :
         LET x == recs[r].from[m] IN x # 0 /\ x = recs[q].from[m] => Shared(r, q, x)
    /\ \A x \in recs[r].options \cap recs[q].options : Shared(r, q, x[2])

\* The walk misses nothing and doubles nothing: in the end there is one record,
\* in document order, of every item whose required fields are there in one
\* piece, and none of an item that lacks one of them.
OneRecordEach ==
  Over =>
    /\ \A r, q \in DOMAIN recs : r < q => recs[r].item < recs[q].item
    /\ \A i \in DOMAIN page : IsItem(i) =>
         LET holds(m) == {j \in DOMAIN page : (j = i \/ Above(i, j)) /\ page[j].mark = m}
             record   == \E r \in DOMAIN recs : recs[r].item = i
         IN /\ (\A m \in parser.keep :
                  Cardinality(holds(m)) = 1 /\ \A j \in holds(m) : page[j].full) => record
            /\ (\E m \in parser.keep : \A j \in holds(m) : ~page[j].full) => ~record

=============================================================================
