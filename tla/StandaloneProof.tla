-------------------------- MODULE StandaloneProof ---------------------------
(***************************************************************************)
(* Theorems of Standalone, for templates, pages and lists of any length.   *)
(***************************************************************************)
EXTENDS Standalone, SchedulerProof, FiniteSetTheorems, SequenceTheorems

\* An instance's copy of Cardinality is Cardinality.
LEMMA OneCardinality ==
  ASSUME NEW S
  PROVE  P!Cardinality(S) = Cardinality(S) /\ R!Cardinality(S) = Cardinality(S) /\ T!Cardinality(S) = Cardinality(S)
  BY DEF P!Cardinality, R!Cardinality, T!Cardinality, Cardinality

-----------------------------------------------------------------------------
(* Reports.                                                                 *)

\* The ids of the first n orders of f, and the first order that has id b.
Ids(f, n) == {f[k].BuyerID : k \in 1 .. n}
IsFirst(f, k, b) == f[k].BuyerID = b /\ \A j \in 1 .. k - 1 : f[j].BuyerID # b
First(f, b, n) == CHOOSE k \in 1 .. n : IsFirst(f, k, b)
Upto(f, b, n) == {c \in Ids(f, n) : First(f, c, n) <= First(f, b, n)}

\* BuyersCounted, of any list.
Counts(f, n, ns) ==
  /\ Len(ns) = Cardinality(Ids(f, n))
  /\ \A b \in Ids(f, n) : ns[Cardinality(Upto(f, b, n))] = f[First(f, b, n)].BuyerUsername

\* First is the first.
LEMMA FirstIs ==
  ASSUME NEW f, NEW n \in Nat, NEW b \in Ids(f, n)
  PROVE  First(f, b, n) \in 1 .. n /\ IsFirst(f, First(f, b, n), b)
<1> DEFINE S == {k \in 1 .. n : f[k].BuyerID = b}
<1>1. S \in SUBSET Nat /\ S # {}
  BY DEF Ids
<1>2. PICK k \in S : \A j \in S : k <= j
  BY <1>1, LeastExists
<1>3. \A j \in 1 .. k - 1 : j \in 1 .. n /\ ~(k <= j)
  BY <1>2
<1>4. k \in 1 .. n /\ IsFirst(f, k, b)
  BY <1>2, <1>3 DEF IsFirst
<1>5. QED
  BY <1>4 DEF First

\* There is one first.
LEMMA FirstOnly ==
  ASSUME NEW f, NEW b, NEW k \in Nat \ {0}, NEW l \in Nat \ {0}, IsFirst(f, k, b), IsFirst(f, l, b)
  PROVE  k = l
<1>1. ~(k < l) /\ ~(l < k)
  BY DEF IsFirst
<1>2. QED
  BY <1>1

\* A list has finitely many ids.
LEMMA IdsFinite ==
  ASSUME NEW f, NEW n \in Nat
  PROVE  IsFiniteSet(Ids(f, n))
<1>1. IsFiniteSet(1 .. n)
  BY FS_Interval
<1> DEFINE g == [k \in 1 .. n |-> f[k].BuyerID]
<1>2. g \in Surjection(1 .. n, Ids(f, n))
  BY DEF Surjection, Ids
<1>3. QED
  BY <1>1, <1>2, FS_Surjection

\* One turn of the loop of CalculateStatistics.
LEMMA CountOne ==
  ASSUME NEW f, NEW n \in Nat, NEW ns \in Seq(Users), Counts(f, n, ns),
         f[n + 1].BuyerUsername \in Users
  PROVE  Counts(f, n + 1, IF f[n + 1].BuyerID \in Ids(f, n) THEN ns
                          ELSE Append(ns, f[n + 1].BuyerUsername))
<1> DEFINE id == f[n + 1].BuyerID
           user == f[n + 1].BuyerUsername
<1>1. Ids(f, n + 1) = Ids(f, n) \cup {id} /\ id \in Ids(f, n + 1)
  <2>1. 1 .. n + 1 = (1 .. n) \cup {n + 1}
    OBVIOUS
  <2>2. QED
    BY <2>1 DEF Ids
<1>2. ASSUME NEW b \in Ids(f, n)
      PROVE  First(f, b, n + 1) = First(f, b, n) /\ First(f, b, n) \in 1 .. n
  <2>1. First(f, b, n) \in 1 .. n /\ IsFirst(f, First(f, b, n), b)
    BY FirstIs
  <2>2. First(f, b, n + 1) \in 1 .. n + 1 /\ IsFirst(f, First(f, b, n + 1), b)
    BY <1>1, FirstIs
  <2>3. QED
    BY <2>1, <2>2, FirstOnly
<1>3. CASE id \in Ids(f, n)
  <2>1. Ids(f, n + 1) = Ids(f, n)
    BY <1>1, <1>3
  <2>2. \A b \in Ids(f, n) : Upto(f, b, n + 1) = Upto(f, b, n)
    BY <1>2, <2>1 DEF Upto
  <2>3. QED
    BY <1>2, <1>3, <2>1, <2>2 DEF Counts
<1>4. CASE id \notin Ids(f, n)
  <2> DEFINE os == Append(ns, user)
  <2>1. IsFiniteSet(Ids(f, n)) /\ Cardinality(Ids(f, n)) \in Nat
    BY IdsFinite, FS_CardinalityType
  <2>2. Cardinality(Ids(f, n + 1)) = Cardinality(Ids(f, n)) + 1
    BY <1>1, <1>4, <2>1, FS_AddElement
  <2>3. Len(ns) = Cardinality(Ids(f, n)) /\ Len(os) = Cardinality(Ids(f, n + 1))
    BY <2>2 DEF Counts
  <2>4. First(f, id, n + 1) = n + 1
    <3>1. IsFirst(f, n + 1, id)
      BY <1>4 DEF IsFirst, Ids
    <3>2. First(f, id, n + 1) \in 1 .. n + 1 /\ IsFirst(f, First(f, id, n + 1), id)
      BY <1>1, FirstIs
    <3>3. QED
      BY <3>1, <3>2, FirstOnly
  <2>5. ASSUME NEW b \in Ids(f, n)
        PROVE  os[Cardinality(Upto(f, b, n + 1))] = f[First(f, b, n + 1)].BuyerUsername
    <3>1. Upto(f, b, n + 1) = Upto(f, b, n)
      BY <1>1, <1>2, <1>4, <2>4 DEF Upto
    <3>2. IsFiniteSet(Upto(f, b, n)) /\ Cardinality(Upto(f, b, n)) <= Cardinality(Ids(f, n))
      BY <2>1, FS_Subset DEF Upto
    <3>3. b \in Upto(f, b, n)
      BY <1>2 DEF Upto
    <3>4. Cardinality(Upto(f, b, n)) \in 1 .. Len(ns)
      BY <2>1, <2>3, <3>2, <3>3, FS_CardinalityType, FS_EmptySet
    <3>5. os[Cardinality(Upto(f, b, n))] = ns[Cardinality(Upto(f, b, n))]
      BY <3>4
    <3>6. QED
      BY <1>2, <3>1, <3>5 DEF Counts
  <2>6. os[Cardinality(Upto(f, id, n + 1))] = f[First(f, id, n + 1)].BuyerUsername
    <3>1. Upto(f, id, n + 1) = Ids(f, n + 1)
      BY <1>1, <1>2, <2>4 DEF Upto
    <3>2. os[Len(ns) + 1] = user
      OBVIOUS
    <3>3. QED
      BY <2>2, <2>3, <2>4, <3>1, <3>2
  <2>7. QED
    BY <1>1, <1>4, <2>3, <2>5, <2>6 DEF Counts
<1>5. QED
  BY <1>3, <1>4

\* What the second loop has met are the ids it has counted.
ReportsInv ==
  /\ R!TypeOK
  /\ \A k \in DOMAIN all : all[k] \in R!OrderInfo
  /\ all \in Seq(R!OrderInfo) /\ filtered \in Seq(R!OrderInfo) /\ names \in Seq(Users)
  /\ counted # 0 => next > Len(all)
  /\ seen = Ids(filtered, counted)
  /\ Counts(filtered, counted, names)

\* Nothing is counted yet.
LEMMA CountNone == ASSUME NEW f PROVE Ids(f, 0) = {} /\ Counts(f, 0, <<>>)
<1>1. Ids(f, 0) = {}
  BY DEF Ids
<1>2. QED
  BY <1>1, FS_EmptySet DEF Counts

\* Before the first order, and at rest, nothing is counted.
LEMMA ReportsInit == R!Init \/ ReportsRest => ReportsInv
<1>1. ASSUME R!Init PROVE ReportsInv
  <2>1. PICK n \in 0 .. MaxOrders : all \in [1 .. n -> R!OrderInfo]
    BY <1>1 DEF R!Init
  <2>2. n \in Nat /\ all \in Seq(R!OrderInfo)
    BY <2>1, StandaloneAssumption
  <2>3. QED
    BY <1>1, <2>2, CountNone DEF R!Init, ReportsInv, R!TypeOK
<1>2. ASSUME ReportsRest PROVE ReportsInv
  BY <1>2, CountNone DEF ReportsRest, ReportsInv, R!TypeOK
<1>3. QED
  BY <1>1, <1>2

\* A turn of the filter or of the count keeps the invariant.
LEMMA ReportsStep == ReportsInv /\ [R!Next]_reportsVars => ReportsInv'
<1> SUFFICES ASSUME ReportsInv, [R!Next]_reportsVars
             PROVE  ReportsInv'
  OBVIOUS
<1>1. CASE R!FetchOrdersWith
  <2>1. all[next] \in R!OrderInfo /\ counted = 0 /\ next \in 1 .. Len(all)
    BY <1>1 DEF R!FetchOrdersWith, ReportsInv, R!TypeOK
  <2>2. PICK f \in Seq(R!OrderInfo) : f = filtered /\ Len(f) < next
    BY DEF ReportsInv, R!TypeOK
  <2>3. filtered' \in Seq(R!OrderInfo) /\ Len(filtered') < next + 1
    BY <1>1, <2>1, <2>2 DEF R!FetchOrdersWith
  <2>4. \A k \in DOMAIN filtered' : filtered'[k] \in R!OrderInfo
    BY <2>3
  <2>5. names = <<>>
    <3>1. Len(names) = 0
      BY <2>1, CountNone, FS_EmptySet DEF ReportsInv, Counts
    <3>2. QED
      BY <3>1 DEF ReportsInv
  <2>6. seen = {}
    BY <2>1, CountNone DEF ReportsInv
  <2>7. seen' = Ids(filtered', counted') /\ Counts(filtered', counted', names')
    BY <1>1, <2>1, <2>5, <2>6, CountNone DEF R!FetchOrdersWith
  <2>8. R!TypeOK'
    BY <1>1, <2>1, <2>3, <2>4 DEF R!FetchOrdersWith, ReportsInv, R!TypeOK
  <2>9. QED
    BY <1>1, <2>1, <2>3, <2>7, <2>8 DEF R!FetchOrdersWith, ReportsInv
<1>2. CASE R!CalculateStatistics
  <2> DEFINE o == filtered[counted + 1]
  <2>1. /\ counted \in Nat /\ counted + 1 \in 0 .. Len(filtered) /\ o \in R!OrderInfo
        /\ o.BuyerUsername \in Users /\ o.BuyerID \in Buyers \cup {0}
    BY <1>2 DEF R!CalculateStatistics, ReportsInv, R!TypeOK, R!OrderInfo
  <2>2. names' = IF o.BuyerID \in Ids(filtered, counted) THEN names ELSE Append(names, o.BuyerUsername)
    BY <1>2 DEF R!CalculateStatistics, R!Known, ReportsInv
  <2>3. Counts(filtered, counted + 1, names')
    BY <2>1, <2>2, CountOne DEF ReportsInv
  <2>4. Ids(filtered, counted + 1) = Ids(filtered, counted) \cup {o.BuyerID}
    <3>1. 1 .. counted + 1 = (1 .. counted) \cup {counted + 1}
      BY <2>1
    <3>2. QED
      BY <3>1 DEF Ids
  <2>5. seen' = Ids(filtered, counted + 1)
    BY <1>2, <2>4 DEF R!CalculateStatistics, ReportsInv
  <2>6. names' \in Seq(Users)
    BY <2>1, <2>2 DEF ReportsInv
  <2>7. R!TypeOK'
    BY <1>2, <2>1, <2>6 DEF R!CalculateStatistics, ReportsInv, R!TypeOK
  <2>8. QED
    BY <1>2, <2>3, <2>5, <2>6, <2>7 DEF R!CalculateStatistics, ReportsInv
<1>3. CASE UNCHANGED reportsVars
  BY <1>3 DEF reportsVars, ReportsInv, R!TypeOK
<1>4. QED
  BY <1>1, <1>2, <1>3 DEF R!Next, R!vars, reportsVars

\* The invariant holds what BuyersCounted asks.
LEMMA ReportsBuyersCounted == ReportsInv => BuyersCounted
<1> SUFFICES ASSUME ReportsInv
             PROVE  R!BuyersCounted
  BY DEF BuyersCounted
<1>1. Len(names) = R!Cardinality(Ids(filtered, counted))
  BY OneCardinality DEF ReportsInv, Counts
<1>2. ASSUME NEW b \in Ids(filtered, counted)
      PROVE  names[R!Cardinality(Upto(filtered, b, counted))]
               = filtered[First(filtered, b, counted)].BuyerUsername
  BY OneCardinality DEF ReportsInv, Counts
<1>3. QED
  BY <1>1, <1>2, Zenon DEF R!BuyersCounted, Ids, Upto, First, IsFirst

-----------------------------------------------------------------------------
(* Pages.                                                                   *)

\* A page is a sequence of nodes with depths.
PageOK ==
  /\ Len(page) \in Nat /\ DOMAIN page = 1 .. Len(page)
  /\ \A k \in DOMAIN page : page[k].depth \in Nat

\* What Max of FiniteSetsExt is for, on sets that are bounded.
LEMMA MaxIs ==
  ASSUME NEW S \in SUBSET Nat, S # {}, NEW n \in Nat, \A x \in S : x <= n
  PROVE  P!Max(S) \in S /\ \A y \in S : y <= P!Max(S)
<1> DEFINE D == {n - x : x \in S}
<1>1. D \in SUBSET Nat /\ D # {}
  <2>1. \A x \in S : x \in Nat /\ x <= n => n - x \in Nat
    OBVIOUS
  <2>2. QED
    BY <2>1
<1>2. PICK d \in D : \A e \in D : d <= e
  BY <1>1, LeastExists
<1>3. PICK x \in S : d = n - x
  BY <1>2
<1>4. ASSUME NEW y \in S PROVE x >= y
  <2>1. n - y \in D /\ n - x <= n - y
    BY <1>2, <1>3
  <2>2. QED
    BY <2>1
<1>5. /\ P!Max(S) \in S
      /\ \A y \in S : P!Max(S) >= y
  BY <1>4 DEF P!Max
<1>6. QED
  BY <1>5

\* The subtree of a node of a subtree is a part of it.
LEMMA SubtreeNested ==
  ASSUME PageOK, NEW i \in DOMAIN page, NEW h \in P!Subtree(i)
  PROVE  P!Subtree(h) \subseteq P!Subtree(i) /\ P!Subtree(i) \subseteq DOMAIN page
<1>1. /\ i \in Nat /\ h \in i .. Len(page) /\ Len(page) \in Nat
      /\ \A k \in i + 1 .. h : page[k].depth > page[i].depth
  BY DEF PageOK, P!Subtree
<1>2. page[h].depth >= page[i].depth /\ page[h].depth \in Nat /\ page[i].depth \in Nat
  BY <1>1 DEF PageOK
<1>3. ASSUME NEW x \in P!Subtree(h)
      PROVE  x \in P!Subtree(i)
  <2>1. x \in h .. Len(page) /\ \A k \in h + 1 .. x : page[k].depth > page[h].depth
    BY <1>3 DEF P!Subtree
  <2>2. ASSUME NEW k \in i + 1 .. x
        PROVE  page[k].depth > page[i].depth
    <3>1. CASE k <= h
      BY <1>1, <3>1
    <3>2. CASE k > h
      <4>1. k \in h + 1 .. x /\ k \in DOMAIN page
        BY <1>1, <2>1, <3>2 DEF PageOK
      <4>2. page[k].depth > page[h].depth /\ page[k].depth \in Nat
        BY <2>1, <4>1 DEF PageOK
      <4>3. QED
        BY <1>2, <4>2
    <3>3. QED
      BY <1>1, <2>1, <3>1, <3>2
  <2>3. x \in i .. Len(page)
    BY <1>1, <2>1
  <2>4. QED
    BY <2>2, <2>3 DEF P!Subtree
<1>4. P!Subtree(i) \subseteq DOMAIN page
  BY <1>1 DEF PageOK, P!Subtree
<1>5. QED
  BY <1>3, <1>4

\* A field is taken from the item's subtree: from a match in its last home that
\* decides, and what is taken has text where text is asked.
LEMMA FromWhere ==
  ASSUME PageOK, NEW i \in DOMAIN page, NEW f
  PROVE  LET homes == {h \in P!Homes(i, f) : f.kind = "contained" \/ P!Matches(h, f) # {}}
             there == P!Matches(P!Max(homes), f)
         IN IF homes = {} \/ there = {} THEN P!From(i, f) = 0
            ELSE /\ P!Max(homes) \in homes
                 /\ P!Max(there) \in there /\ P!Max(there) \in P!Subtree(i)
                 /\ P!From(i, f) = IF f.kind = "last" /\ ~page[P!Max(there)].full
                                   THEN 0 ELSE P!Max(there)
<1> DEFINE homes == {h \in P!Homes(i, f) : f.kind = "contained" \/ P!Matches(h, f) # {}}
           there == P!Matches(P!Max(homes), f)
<1>1. CASE homes = {} \/ there = {}
  BY <1>1 DEF P!From
<1>2. CASE homes # {} /\ there # {}
  <2>1. homes \subseteq P!Subtree(i) /\ P!Subtree(i) \subseteq DOMAIN page
    <3>1. i \in P!Subtree(i)
      BY DEF PageOK, P!Subtree
    <3>2. QED
      BY <3>1, SubtreeNested DEF P!Homes
  <2>2. P!Max(homes) \in homes
    <3>1. homes \in SUBSET Nat /\ \A x \in homes : x <= Len(page)
      BY <2>1 DEF PageOK
    <3>2. QED
      BY <1>2, <3>1, MaxIs DEF PageOK
  <2>3. there \subseteq P!Subtree(P!Max(homes)) /\ P!Max(homes) \in P!Subtree(i)
    BY <2>1, <2>2 DEF P!Matches
  <2>4. there \subseteq P!Subtree(i)
    BY <2>3, SubtreeNested
  <2>5. P!Max(there) \in there
    <3>1. \A x \in DOMAIN page : x \in Nat /\ x <= Len(page)
      BY DEF PageOK
    <3>2. there \subseteq DOMAIN page
      BY <2>1, <2>4
    <3>3. there \in SUBSET Nat /\ \A x \in there : x <= Len(page)
      BY <3>1, <3>2
    <3>4. QED
      BY <1>2, <3>3, MaxIs DEF PageOK
  <2>6. P!From(i, f) = IF f.kind = "last" /\ ~page[P!Max(there)].full THEN 0 ELSE P!Max(there)
    BY <1>2 DEF P!From
  <2>7. QED
    BY <1>2, <2>2, <2>4, <2>5, <2>6
<1>3. QED
  BY <1>1, <1>2

\* What is found for an item is inside it.
LEMMA FromInside ==
  ASSUME PageOK, NEW i \in DOMAIN page, NEW f, P!From(i, f) # 0
  PROVE  P!From(i, f) \in P!Subtree(i)
  BY FromWhere

\* What the parsers require they look for in the item itself, and take the last.
LEMMA KeepFields ==
  ASSUME NEW p \in P!Parsers, NEW m \in p.keep
  PROVE  /\ \E f \in p.fields : f.is = m
         /\ \A f \in p.fields : f.is = m => f.within = "item" /\ f.kind = "last"
<1> DEFINE Wanted == /\ \E f \in p.fields : f.is = m
                     /\ \A f \in p.fields : f.is = m => f.within = "item" /\ f.kind = "last"
<1>0. ASSUME NEW marks, m \in marks, P!Field("last", marks) \subseteq p.fields,
             \A f \in p.fields : f \in P!Field("last", marks) \/ f.is # m
      PROVE  Wanted
  <2>1. [is |-> m, kind |-> "last", within |-> "item"] \in P!Field("last", marks)
    BY <1>0 DEF P!Field
  <2>2. \A f \in P!Field("last", marks) : f.kind = "last" /\ f.within = "item"
    BY DEF P!Field
  <2>3. QED
    BY <1>0, <2>1, <2>2
<1>1. CASE p = P!orderParams
  <2>1. m \in {"param-item-label", "param-item-value"}
        /\ p.fields = P!Field("last", {"param-item-label", "param-item-value"})
    BY <1>1 DEF P!orderParams, P!Row
  <2>2. QED
    BY <1>0, <2>1
<1>2. CASE p = P!extractCustomFields
  <2>1. m \in {"label", "name"}
        /\ p.fields = P!Field("last", {"label", "name"}) \cup P!Within("name", "parsed", "option")
    BY <1>2 DEF P!extractCustomFields, P!Row
  <2>2. \A f \in P!Within("name", "parsed", "option") : f.is # m
    BY <2>1 DEF P!Within
  <2>3. QED
    BY <1>0, <2>1, <2>2
<1>3. CASE p = P!parseCategoryFilters
  <2>1. m \in {"label", "select"}
        /\ p.fields = P!Field("last", {"label", "select"}) \cup P!Within("select", "each", "option")
    BY <1>3 DEF P!parseCategoryFilters, P!Row
  <2>2. \A f \in P!Within("select", "each", "option") : f.is # m
    BY <2>1 DEF P!Within
  <2>3. QED
    BY <1>0, <2>1, <2>2
<1>4. CASE p = P!parseBalance
  <2>1. m \in {"badge-balance"} /\ p.fields = P!Field("last", {"badge-balance"})
    BY <1>4 DEF P!parseBalance, P!Row
  <2>2. QED
    BY <1>0, <2>1
<1>5. CASE p = P!parseUserFromHome
  <2>1. m \in {"data-app-data", "user-link-name"}
        /\ p.fields = P!Field("last", {"data-app-data", "user-link-name"})
    BY <1>5 DEF P!parseUserFromHome, P!Row
  <2>2. QED
    BY <1>0, <2>1
<1>6. p \in {P!orderParams, P!extractCustomFields, P!parseCategoryFilters, P!parseBalance,
             P!parseUserFromHome}
  BY DEF P!Parsers, P!Row, P!parseOrders, P!parseOrderPage, P!orderSecrets, P!orderReview, P!parseMyOffers,
         P!parseMarketOffers, P!parseOfferDetails, P!parseCategorySubcategories, P!parseProfileReviews
<1>7. QED
  BY <1>1, <1>2, <1>3, <1>4, <1>5, <1>6

Rec == [item : Nat, from : [P!Names -> Nat], options : SUBSET (Nat \X Nat)]

\* Every record is what its item yields, the items are in document order, and
\* none of those passed is missing.
PagesInv ==
  /\ P!TypeOK /\ parser \in P!Parsers /\ PageOK
  /\ recs \in Seq(Rec)
  /\ \A r \in DOMAIN recs :
       LET i == recs[r].item
       IN i \in DOMAIN page /\ P!IsItem(i) /\ recs[r] = P!Parsed(i) /\ P!Taken(P!Parsed(i))
  /\ \A r, q \in DOMAIN recs : r < q => recs[r].item < recs[q].item
  /\ \A i \in 1 .. at - 1 : P!IsItem(i) /\ P!Taken(P!Parsed(i)) => \E r \in DOMAIN recs : recs[r].item = i

\* A record is of its item and points into the page.
LEMMA ParsedTyped ==
  ASSUME PageOK, NEW i \in DOMAIN page
  PROVE  /\ P!Parsed(i).item = i /\ P!Parsed(i).from \in [P!Names -> 0 .. Len(page)]
         /\ P!Parsed(i).options \subseteq (DOMAIN page) \X (DOMAIN page)
<1>1. ASSUME NEW f
      PROVE  P!From(i, f) \in 0 .. Len(page)
  <2>1. P!From(i, f) = 0 \/ P!From(i, f) \in P!Subtree(i)
    BY FromInside
  <2>2. i \in P!Subtree(i) /\ P!Subtree(i) \subseteq DOMAIN page
    BY SubtreeNested DEF PageOK, P!Subtree
  <2>3. QED
    BY <2>1, <2>2 DEF PageOK
<1>2. P!Parsed(i).options \subseteq (DOMAIN page) \X (DOMAIN page)
  <2>1. P!Subtree(i) \subseteq DOMAIN page
    BY SubtreeNested DEF PageOK, P!Subtree
  <2>2. P!Options(i) \subseteq P!Subtree(i) \X P!Subtree(i)
    BY DEF P!Options, P!Listed
  <2>3. QED
    BY <2>1, <2>2 DEF P!Parsed
<1>3. QED
  BY <1>1, <1>2 DEF P!Parsed

\* A page not begun and a page at rest have no records.
LEMMA PagesInit == P!Init \/ PagesRest => PagesInv
<1>0. ASSUME at = 1, recs = <<>>, PageOK, parser \in P!Parsers
      PROVE  PagesInv
  <2>1. recs \in Seq(Rec)
    BY <1>0
  <2>2. (\A r \in DOMAIN recs : FALSE) /\ (\A i \in 1 .. at - 1 : FALSE)
    BY <1>0
  <2>3. P!TypeOK
    BY <1>0, <2>2 DEF PageOK, P!TypeOK
  <2>4. QED
    BY <1>0, <2>1, <2>2, <2>3, Zenon DEF PagesInv
<1>1. ASSUME P!Init PROVE PagesInv
  <2>1. PICK nodes \in P!Nodes(parser), n \in 1 .. MaxNodes :
          \E d \in P!Shapes(n), b \in [2 .. n -> nodes] : page = [k \in 1 .. n |->
                   [depth |-> d[k], mark |-> IF k = 1 THEN P!RootItem ELSE b[k].mark,
                    full |-> k > 1 /\ b[k].full]]
    BY <1>1 DEF P!Init
  <2>2. PICK d \in P!Shapes(n), b \in [2 .. n -> nodes] : page = [k \in 1 .. n |->
                   [depth |-> d[k], mark |-> IF k = 1 THEN P!RootItem ELSE b[k].mark,
                    full |-> k > 1 /\ b[k].full]]
    BY <2>1
  <2>3. n \in Nat /\ DOMAIN page = 1 .. n /\ \A k \in 1 .. n : page[k].depth = d[k] /\ d[k] \in 0 .. n - 1
    BY <2>2, StandaloneAssumption DEF P!Shapes
  <2>4. page \in [1 .. n -> {page[k] : k \in 1 .. n}]
    BY <2>2
  <2>5. Len(page) = n
    BY <2>3, <2>4
  <2>6. PageOK
    BY <2>3, <2>5 DEF PageOK
  <2>7. QED
    BY <1>0, <1>1, <2>6 DEF P!Init
<1>2. ASSUME PagesRest PROVE PagesInv
  <2>1. PageOK
    BY <1>2 DEF PagesRest, PageOK
  <2>2. QED
    BY <1>0, <1>2, <2>1 DEF PagesRest, P!Parsers
<1>3. QED
  BY <1>1, <1>2

\* Going on to the next node, with or without a record, keeps the invariant.
LEMMA PagesStep == PagesInv /\ [P!Next]_pagesVars => PagesInv'
<1> SUFFICES ASSUME PagesInv, [P!Next]_pagesVars
             PROVE  PagesInv'
  OBVIOUS
<1>1. CASE P!Visit
  <2>0. UNCHANGED <<parser, page>> /\ at' = at + 1 /\ at \in DOMAIN page /\ PageOK
    BY <1>1 DEF P!Visit, P!Over, P!NextAfter, PagesInv, P!TypeOK, PageOK
  <2>1. P!Names' = P!Names /\ PageOK' /\ parser' \in P!Parsers
    BY <2>0 DEF PagesInv, P!Names, P!Lists, PageOK
  <2>2. \A i : P!Parsed(i)' = P!Parsed(i)
    BY <2>0 DEF P!Parsed, P!Names, P!Lists, P!Options, P!Listed, P!From, P!Homes, P!Matches, P!Subtree
  <2>3. \A i : P!IsItem(i)' = P!IsItem(i) /\ P!Taken(P!Parsed(i))' = P!Taken(P!Parsed(i))
    BY <2>0, <2>2 DEF P!IsItem, P!Taken
  <2>4. PICK old \in Seq(Rec) : old = recs
    BY DEF PagesInv
  <2>5. CASE P!IsItem(at) /\ P!Taken(P!Parsed(at))
    <3> DEFINE new == P!Parsed(at)
    <3>1. recs' = Append(old, new)
      BY <1>1, <2>4, <2>5 DEF P!Visit
    <3>2. /\ new.item = at /\ new.from \in [P!Names -> 0 .. Len(page)]
          /\ new.options \subseteq (DOMAIN page) \X (DOMAIN page) /\ new \in Rec
      <4>1. /\ new.item = at /\ new.from \in [P!Names -> 0 .. Len(page)]
            /\ new.options \subseteq (DOMAIN page) \X (DOMAIN page)
        BY <2>0, ParsedTyped
      <4>2. new = [item |-> new.item, from |-> new.from, options |-> new.options] /\ at \in Nat
        BY <2>0 DEF P!Parsed, PageOK
      <4>3. new.from \in [P!Names -> Nat] /\ new.options \in SUBSET (Nat \X Nat)
        BY <2>0, <4>1 DEF PageOK
      <4>4. QED
        BY <4>1, <4>2, <4>3 DEF Rec
    <3> HIDE DEF new
    <3>3. /\ recs' \in Seq(Rec)
          /\ Len(old) + 1 \in DOMAIN recs' /\ recs'[Len(old) + 1] = new
          /\ \A r \in DOMAIN recs' : r \in DOMAIN old \/ r = Len(old) + 1
          /\ \A r \in DOMAIN old : r \in DOMAIN recs' /\ recs'[r] = old[r] /\ r \in 1 .. Len(old)
      BY <3>1, <3>2
    <3>4. P!TypeOK'
      <4> DEFINE Right(x, n) == /\ x.item < n /\ x.from \in [P!Names -> 0 .. Len(page)]
                                /\ x.options \subseteq (DOMAIN page) \X (DOMAIN page)
      <4>1. at' \in 1 .. Len(page) + 1 /\ at \in Nat
        BY <2>0 DEF PageOK
      <4>2. \A r \in DOMAIN old : old[r].item \in Nat /\ Right(old[r], at)
        BY <2>4, ElementOfSeq DEF PagesInv, P!TypeOK, Rec
      <4>3. \A r \in DOMAIN recs' : Right(recs'[r], at')
        <5>1. ASSUME NEW r \in DOMAIN recs', r \in DOMAIN old
              PROVE  Right(recs'[r], at')
          BY <2>0, <3>3, <4>1, <4>2, <5>1, SMTT(30)
        <5>2. Right(new, at')
          BY <2>0, <3>2, <4>1
        <5>3. QED
          BY <3>3, <5>1, <5>2
      <4>4. QED
        BY <2>0, <2>1, <4>1, <4>3 DEF P!TypeOK
    <3>5. \A r \in DOMAIN recs' :
            LET i == recs'[r].item
            IN i \in DOMAIN page /\ P!IsItem(i) /\ recs'[r] = P!Parsed(i) /\ P!Taken(P!Parsed(i))
      BY <2>0, <2>4, <2>5, <3>2, <3>3 DEF PagesInv, new
    <3>6. \A r, q \in DOMAIN recs' : r < q => recs'[r].item < recs'[q].item
      <4>1. \A r, q \in DOMAIN old : r < q => old[r].item < old[q].item
        BY <2>4 DEF PagesInv
      <4>2. \A r \in DOMAIN old : old[r].item < new.item
        BY <2>4, <3>2 DEF PagesInv, P!TypeOK
      <4>3. \A q \in DOMAIN old : ~(Len(old) + 1 < q)
        BY <3>3
      <4>4. ~(Len(old) + 1 < Len(old) + 1)
        OBVIOUS
      <4>5. QED
        BY <3>3, <4>1, <4>2, <4>3, <4>4
    <3>7. \A i \in 1 .. at' - 1 : P!IsItem(i) /\ P!Taken(P!Parsed(i)) => \E r \in DOMAIN recs' : recs'[r].item = i
      <4>1. \A i \in 1 .. at' - 1 : i \in 1 .. at - 1 \/ i = at
        BY <2>0 DEF PageOK
      <4>2. QED
        BY <2>4, <3>2, <3>3, <4>1 DEF PagesInv
    <3>8. QED
      BY <2>0, <2>1, <2>2, <2>3, <3>3, <3>4, <3>5, <3>6, <3>7 DEF PagesInv, Rec
  <2>6. CASE ~(P!IsItem(at) /\ P!Taken(P!Parsed(at)))
    <3>1. recs' = recs
      BY <1>1, <2>6 DEF P!Visit
    <3>2. P!TypeOK'
      BY <2>0, <2>1, <3>1 DEF PagesInv, P!TypeOK, PageOK
    <3>3. \A i \in 1 .. at' - 1 : P!IsItem(i) /\ P!Taken(P!Parsed(i)) => i \in 1 .. at - 1
      BY <2>0, <2>6 DEF PageOK
    <3>4. QED
      BY <2>0, <2>1, <2>2, <2>3, <3>1, <3>2, <3>3 DEF PagesInv, Rec
  <2>7. QED
    BY <2>5, <2>6
<1>2. CASE UNCHANGED pagesVars
  <2>1. UNCHANGED <<parser, page, at, recs>>
    BY <1>2 DEF pagesVars
  <2>2. \A i : P!Parsed(i)' = P!Parsed(i)
    BY <2>1 DEF P!Parsed, P!Names, P!Lists, P!Options, P!Listed, P!From, P!Homes, P!Matches, P!Subtree
  <2>3. \A i : P!IsItem(i)' = P!IsItem(i) /\ P!Taken(P!Parsed(i))' = P!Taken(P!Parsed(i))
    BY <2>1, <2>2 DEF P!IsItem, P!Taken
  <2>4. P!Names' = P!Names /\ PageOK' /\ P!TypeOK'
    BY <2>1 DEF PagesInv, P!TypeOK, P!Names, P!Lists, PageOK
  <2>5. QED
    BY <2>1, <2>2, <2>3, <2>4 DEF PagesInv, Rec
<1>3. QED
  BY <1>1, <1>2 DEF P!Next, P!vars, pagesVars

\* What a record's field was taken from is a node of its item's subtree.
LEMMA FromBelow ==
  ASSUME PagesInv, NEW r \in DOMAIN recs, NEW m \in P!Names, recs[r].from[m] # 0
  PROVE  /\ recs[r].item \in DOMAIN page
         /\ recs[r].from[m] = recs[r].item \/ P!Above(recs[r].item, recs[r].from[m])
<1> DEFINE i == recs[r].item
           f == CHOOSE g \in parser.fields : g.is = m
<1>1. i \in DOMAIN page /\ recs[r] = P!Parsed(i) /\ PageOK
  BY DEF PagesInv
<1>2. recs[r].from[m] = P!From(i, f)
  <2>1. P!Parsed(i).from = [n \in P!Names |-> P!From(i, CHOOSE g \in parser.fields : g.is = n)]
    BY DEF P!Parsed
  <2>2. QED
    BY <1>1, <2>1
<1>3. P!From(i, f) \in P!Subtree(i)
  <2> HIDE DEF f
  <2>1. QED
    BY <1>1, <1>2, FromInside
<1>4. QED
  BY <1>1, <1>2, <1>3 DEF PageOK, P!Subtree, P!Above

\* So are its options.
LEMMA OptionsBelow ==
  ASSUME PagesInv, NEW r \in DOMAIN recs, NEW x \in recs[r].options
  PROVE  /\ x[2] \in DOMAIN page
         /\ x[2] = recs[r].item \/ P!Above(recs[r].item, x[2])
<1> DEFINE i == recs[r].item
<1>1. i \in DOMAIN page /\ recs[r] = P!Parsed(i) /\ PageOK
  BY DEF PagesInv
<1>2. x \in P!Options(i)
  BY <1>1 DEF P!Parsed
<1>3. x[2] \in P!Subtree(i)
  BY <1>2 DEF P!Options, P!Listed
<1>4. QED
  BY <1>1, <1>3 DEF PageOK, P!Subtree, P!Above

\* A node below two items lies below the later one, and that below the other.
LEMMA BelowBoth ==
  ASSUME PagesInv, NEW r \in DOMAIN recs, NEW q \in DOMAIN recs, r # q, NEW x \in DOMAIN page,
         x = recs[r].item \/ P!Above(recs[r].item, x), x = recs[q].item \/ P!Above(recs[q].item, x)
  PROVE  P!Shared(r, q, x)
<1>1. ASSUME NEW i \in Nat, NEW j \in Nat, i < j,
             x = i \/ P!Above(i, x), x = j \/ P!Above(j, x)
      PROVE  P!Above(i, j)
  <2>1. x \in Nat /\ j <= x
    BY <1>1 DEF PagesInv, PageOK, P!Above
  <2>2. QED
    BY <1>1, <2>1 DEF P!Above
<1>2. recs[r].item \in Nat /\ recs[q].item \in Nat
  BY DEF PagesInv, PageOK
<1>3. r < q \/ q < r
  <2>1. DOMAIN recs \subseteq Nat
    BY LenProperties DEF PagesInv
  <2>2. QED
    BY <2>1
<1>4. recs[r].item < recs[q].item \/ recs[q].item < recs[r].item
  BY <1>3 DEF PagesInv
<1>5. QED
  BY <1>1, <1>2, <1>4 DEF P!Shared

\* Two items apart have no node in common to show.
LEMMA PagesNothingBorrowed == PagesInv => NothingBorrowed
<1>1. ASSUME PagesInv, NEW r \in DOMAIN recs, NEW q \in DOMAIN recs, NEW m \in P!Names,
             r # q, recs[r].from[m] # 0, recs[r].from[m] = recs[q].from[m]
      PROVE  P!Shared(r, q, recs[r].from[m])
  <2> DEFINE x == recs[r].from[m]
  <2>1. x \in DOMAIN page
    <3>1. recs[r].from \in [P!Names -> 0 .. Len(page)]
      BY <1>1 DEF PagesInv, P!TypeOK
    <3>2. QED
      BY <1>1, <3>1 DEF PagesInv, PageOK
  <2>2. (x = recs[r].item \/ P!Above(recs[r].item, x)) /\ (x = recs[q].item \/ P!Above(recs[q].item, x))
    BY <1>1, FromBelow
  <2> HIDE DEF x
  <2>3. P!Shared(r, q, x)
    BY <1>1, <2>1, <2>2, BelowBoth
  <2>4. QED
    BY <2>3 DEF x
<1>2. ASSUME PagesInv, NEW r \in DOMAIN recs, NEW q \in DOMAIN recs, r # q,
             NEW x \in recs[r].options \cap recs[q].options
      PROVE  P!Shared(r, q, x[2])
  BY <1>2, OptionsBelow, BelowBoth
<1>3. QED
  BY <1>1, <1>2, Zenon DEF NothingBorrowed, P!NothingBorrowed

\* An item is taken if each field required is there once and has text, and is
\* not if one of them has text nowhere in the item.
LEMMA TakenWhen ==
  ASSUME PageOK, parser \in P!Parsers, NEW i \in DOMAIN page
  PROVE  LET holds(m) == {j \in DOMAIN page : (j = i \/ P!Above(i, j)) /\ page[j].mark = m}
         IN /\ (\A m \in parser.keep : P!Cardinality(holds(m)) = 1 /\ \A j \in holds(m) : page[j].full)
                 => P!Taken(P!Parsed(i))
            /\ (\E m \in parser.keep : \A j \in holds(m) : ~page[j].full) => ~P!Taken(P!Parsed(i))
<1> DEFINE holds(m) == {j \in DOMAIN page : (j = i \/ P!Above(i, j)) /\ page[j].mark = m}
           F(m) == CHOOSE f \in parser.fields : f.is = m
<1>1. ASSUME NEW m \in parser.keep
      PROVE  /\ F(m).is = m /\ F(m).within = "item" /\ F(m).kind = "last"
             /\ m \in P!Names
  BY KeepFields DEF P!Names, P!Lists
<1>2. ASSUME NEW m \in parser.keep
      PROVE  P!Parsed(i).from[m] = P!From(i, F(m))
  BY <1>1 DEF P!Parsed
<1>3. ASSUME NEW m \in parser.keep
      PROVE  P!Homes(i, F(m)) = {i} /\ P!Matches(i, F(m)) = holds(m)
  <2>1. i \in P!Subtree(i) /\ P!Subtree(i) = {j \in DOMAIN page : j = i \/ P!Above(i, j)}
    BY DEF PageOK, P!Subtree, P!Above
  <2>2. QED
    BY <1>1, <2>1 DEF P!Homes, P!Matches
<1> HIDE DEF F
<1>4. ASSUME NEW m \in parser.keep, holds(m) = {}
      PROVE  P!From(i, F(m)) = 0
  <2>1. {h \in P!Homes(i, F(m)) : F(m).kind = "contained" \/ P!Matches(h, F(m)) # {}} = {}
    BY <1>1, <1>3, <1>4
  <2>2. QED
    BY <2>1, FromWhere
<1>5. ASSUME NEW m \in parser.keep, holds(m) # {}
      PROVE  \E j \in holds(m) : P!From(i, F(m)) = IF page[j].full THEN j ELSE 0
  <2> DEFINE homes == {h \in P!Homes(i, F(m)) : F(m).kind = "contained" \/ P!Matches(h, F(m)) # {}}
  <2>1. homes = {i} /\ homes # {}
    BY <1>3, <1>5
  <2>2. P!Max(homes) = i
    <3>1. homes \in SUBSET Nat /\ \A x \in homes : x <= i
      BY <2>1 DEF PageOK
    <3>2. i \in Nat
      BY DEF PageOK
    <3>3. P!Max(homes) \in homes
      BY <2>1, <3>1, <3>2, MaxIs
    <3>4. QED
      BY <2>1, <3>3
  <2>3. /\ P!Max(P!Matches(i, F(m))) \in P!Matches(i, F(m))
        /\ P!From(i, F(m)) = IF F(m).kind = "last" /\ ~page[P!Max(P!Matches(i, F(m)))].full
                             THEN 0 ELSE P!Max(P!Matches(i, F(m)))
    BY <1>3, <1>5, <2>1, <2>2, FromWhere, ZenonT(60)
  <2>4. QED
    BY <1>1, <1>3, <2>3
<1>6. ASSUME \A m \in parser.keep : P!Cardinality(holds(m)) = 1 /\ \A j \in holds(m) : page[j].full
      PROVE  P!Taken(P!Parsed(i))
  <2>1. ASSUME NEW m \in parser.keep
        PROVE  P!Parsed(i).from[m] # 0
    <3>1. holds(m) # {}
      <4>1. Cardinality(holds(m)) = 1
        BY <1>6, OneCardinality
      <4>2. QED
        BY <4>1, FS_EmptySet
    <3>2. PICK j \in holds(m) : P!From(i, F(m)) = IF page[j].full THEN j ELSE 0
      BY <1>5, <3>1
    <3>3. j # 0 /\ page[j].full
      <4>1. \A k \in holds(m) : page[k].full
        BY <1>6
      <4>2. j \in DOMAIN page
        BY <3>2
      <4>3. j # 0
        BY <4>2 DEF PageOK
      <4>4. QED
        BY <3>2, <4>1, <4>3
    <3>4. QED
      BY <1>2, <3>2, <3>3
  <2>2. QED
    BY <2>1 DEF P!Taken
<1>7. ASSUME NEW m \in parser.keep, \A j \in holds(m) : ~page[j].full
      PROVE  ~P!Taken(P!Parsed(i))
  <2>1. P!From(i, F(m)) = 0
    BY <1>4, <1>5, <1>7
  <2>2. QED
    BY <1>2, <2>1 DEF P!Taken
<1>8. QED
  BY <1>6, <1>7

\* At the end of the page every item has had its turn.
LEMMA PagesOneRecordEach == PagesInv => OneRecordEach
<1> SUFFICES ASSUME PagesInv, P!Over
             PROVE  P!OneRecordEach
  BY DEF OneRecordEach, P!OneRecordEach
<1>1. \A i \in DOMAIN page : i \in 1 .. at - 1
  BY DEF P!Over, PagesInv, P!TypeOK, PageOK
<1>2. ASSUME NEW i \in DOMAIN page, P!IsItem(i)
      PROVE  P!Taken(P!Parsed(i)) <=> \E r \in DOMAIN recs : recs[r].item = i
  BY <1>1, <1>2 DEF PagesInv
<1>3. ASSUME NEW i \in DOMAIN page, P!IsItem(i)
      PROVE  LET holds(m) == {j \in DOMAIN page : (j = i \/ P!Above(i, j)) /\ page[j].mark = m}
                 record   == \E r \in DOMAIN recs : recs[r].item = i
             IN /\ (\A m \in parser.keep :
                      P!Cardinality(holds(m)) = 1 /\ \A j \in holds(m) : page[j].full) => record
                /\ (\E m \in parser.keep : \A j \in holds(m) : ~page[j].full) => ~record
  <2>1. PageOK /\ parser \in P!Parsers
    BY DEF PagesInv
  <2>2. QED
    BY <1>2, <1>3, <2>1, TakenWhen
<1>4. \A r, q \in DOMAIN recs : r < q => recs[r].item < recs[q].item
  BY DEF PagesInv
<1>5. QED
  BY <1>3, <1>4, Zenon DEF P!OneRecordEach

-----------------------------------------------------------------------------
(* Template.                                                                *)

Text == Seq(STRING)
Filled == Text \ {<<>>}

\* The reference replacement, of placeholder old by new; f are the shorter texts.
Body(f, old, new, t) ==
  CASE t = <<>>              -> <<>>
    [] T!IsPrefix(old, t)    -> new \o f[SubSeq(t, Len(old) + 1, Len(t))]
    [] OTHER                 -> <<Head(t)>> \o f[Tail(t)]
Replaces(f, old, new) == f = [t \in Text |-> Body(f, old, new, t)]

\* Old stands in t after its first i letters.
Stands(old, t, i) == i + Len(old) <= Len(t) /\ SubSeq(t, i + 1, i + Len(old)) = old

\* The recursion is on shorter texts.
LEMMA Shorter ==
  ASSUME NEW old \in Filled, NEW t \in Filled
  PROVE  /\ Head(t) \in STRING /\ Tail(t) \in Text /\ Len(Tail(t)) < Len(t)
         /\ T!IsPrefix(old, t) => LET rest == SubSeq(t, Len(old) + 1, Len(t))
                                  IN rest \in Text /\ Len(rest) < Len(t)
<1>1. Len(old) \in Nat \ {0} /\ Len(t) \in Nat \ {0}
  BY DEF Filled, Text
<1>2. Head(t) \in STRING /\ Tail(t) \in Text /\ Len(Tail(t)) < Len(t)
  BY DEF Filled, Text
<1>3. ASSUME T!IsPrefix(old, t)
      PROVE  LET rest == SubSeq(t, Len(old) + 1, Len(t))
             IN rest \in Text /\ Len(rest) < Len(t)
  <2>1. Len(old) <= Len(t)
    BY <1>3 DEF T!IsPrefix
  <2>2. QED
    BY <1>1, <2>1 DEF Filled, Text
<1>4. QED
  BY <1>2, <1>3

\* One turn of the replacement needs only what it makes of shorter texts.
LEMMA BodyDepends ==
  ASSUME NEW old \in Filled, NEW new \in Text, NEW t \in Text, NEW f, NEW g,
         \A u \in Text : Len(u) < Len(t) => f[u] = g[u]
  PROVE  Body(f, old, new, t) = Body(g, old, new, t)
<1>1. CASE t = <<>>
  <2>1. ~T!IsPrefix(old, t)
    BY <1>1 DEF T!IsPrefix, Filled, Text
  <2>2. QED
    BY <1>1, <2>1 DEF Body
<1>2. CASE t # <<>> /\ T!IsPrefix(old, t)
  <2>1. f[SubSeq(t, Len(old) + 1, Len(t))] = g[SubSeq(t, Len(old) + 1, Len(t))]
    <3>1. t \in Filled
      BY <1>2 DEF Filled
    <3>2. QED
      BY <1>2, <3>1, Shorter
  <2>2. QED
    BY <1>2, <2>1 DEF Body
<1>3. CASE t # <<>> /\ ~T!IsPrefix(old, t)
  <2>1. f[Tail(t)] = g[Tail(t)]
    <3>1. t \in Filled
      BY <1>3 DEF Filled
    <3>2. QED
      BY <3>1, Shorter
  <2>2. QED
    BY <1>3, <2>1 DEF Body
<1>4. QED
  BY <1>1, <1>2, <1>3

\* So there is such a function on all texts: the one whose value at a text is
\* that of the functions on the texts up to its length.
LEMMA ReplacingExists ==
  ASSUME NEW old \in Filled, NEW new \in Text
  PROVE  \E f : Replaces(f, old, new)
<1> DEFINE Upon(m) == {t \in Text : Len(t) <= m}
           Runs(m, f) == f = [t \in Upon(m) |-> Body(f, old, new, t)]
<1>0. \A t \in Text : Len(t) \in Nat
  BY DEF Text
<1>1. ASSUME NEW m \in Nat, NEW f, m # 0 => Runs(m - 1, f)
      PROVE  \E g : Runs(m, g)
  <2> DEFINE g == [t \in Upon(m) |-> Body(f, old, new, t)]
  <2>1. ASSUME NEW t \in Upon(m)
        PROVE  Body(g, old, new, t) = Body(f, old, new, t)
    <3>1. ASSUME NEW u \in Text, Len(u) < Len(t)
          PROVE  g[u] = f[u]
      <4>1. m # 0 /\ u \in Upon(m - 1) /\ u \in Upon(m)
        BY <1>0, <3>1
      <4>2. f[u] = Body(f, old, new, u)
        BY <1>1, <4>1
      <4>3. QED
        BY <4>1, <4>2
    <3> HIDE DEF g
    <3>2. QED
      BY <3>1, BodyDepends, ZenonT(60)
  <2>2. Runs(m, g)
    BY <2>1
  <2>3. QED
    BY <2>2
<1>2. ASSUME NEW m \in Nat, NEW n \in Nat, NEW f, NEW g, Runs(m, f), Runs(n, g)
      PROVE  \A t \in Upon(m) \cap Upon(n) : f[t] = g[t]
  <2> DEFINE L == {Len(t) : t \in {u \in Upon(m) \cap Upon(n) : f[u] # g[u]}}
  <2>1. SUFFICES ASSUME L # {}
                 PROVE  FALSE
    OBVIOUS
  <2>2. PICK l \in L : \A k \in L : l <= k
    <3>1. L \in SUBSET Nat
      BY <1>0
    <3>2. QED
      BY <2>1, <3>1, LeastExists
  <2>3. PICK t \in Upon(m) \cap Upon(n) : f[t] # g[t] /\ Len(t) = l
    BY <2>2
  <2>4. ASSUME NEW u \in Text, Len(u) < Len(t)
        PROVE  f[u] = g[u]
    <3>1. u \in Upon(m) \cap Upon(n) /\ Len(u) \in Nat /\ l \in Nat /\ ~(l <= Len(u))
      BY <1>0, <2>3, <2>4
    <3>2. QED
      BY <2>2, <3>1
  <2>5. Body(f, old, new, t) = Body(g, old, new, t)
    BY <2>4, BodyDepends
  <2>6. QED
    BY <1>2, <2>3, <2>5
<1>3. \A m \in Nat : \E f : Runs(m, f)
  <2> HIDE DEF Runs
  <2> DEFINE N == {m \in Nat : ~ \E f : Runs(m, f)}
  <2>1. SUFFICES ASSUME N # {}
                 PROVE  FALSE
    OBVIOUS
  <2>2. PICK m \in N : \A k \in N : m <= k
    BY <2>1, LeastExists
  <2>3. \E f : m # 0 => Runs(m - 1, f)
    <3>1. m # 0 => m - 1 \in Nat /\ ~(m <= m - 1)
      OBVIOUS
    <3>2. QED
      BY <2>2, <3>1
  <2>4. QED
    BY <1>1, <2>2, <2>3
<1> DEFINE r(m) == CHOOSE f : Runs(m, f)
           F == [t \in Text |-> r(Len(t))[t]]
<1>4. \A m \in Nat : Runs(m, r(m))
  <2> HIDE DEF Runs
  <2>1. QED
    BY <1>3
<1> HIDE DEF r
<1>5. ASSUME NEW t \in Text
      PROVE  F[t] = Body(F, old, new, t)
  <2>1. t \in Upon(Len(t)) /\ Len(t) \in Nat
    BY <1>0
  <2>2. F[t] = Body(r(Len(t)), old, new, t)
    BY <1>4, <2>1
  <2>3. ASSUME NEW u \in Text, Len(u) < Len(t)
        PROVE  r(Len(t))[u] = F[u]
    <3>1. u \in Upon(Len(t)) /\ u \in Upon(Len(u)) /\ Len(u) \in Nat
      BY <1>0, <2>3
    <3> HIDE DEF Upon, Runs
    <3>2. Runs(Len(t), r(Len(t))) /\ Runs(Len(u), r(Len(u)))
      BY <1>4, <2>1, <3>1
    <3>3. \A x \in Upon(Len(t)) \cap Upon(Len(u)) : r(Len(t))[x] = r(Len(u))[x]
      BY <1>2, <2>1, <3>1, <3>2
    <3>4. QED
      BY <3>1, <3>3
  <2> HIDE DEF F
  <2>4. Body(r(Len(t)), old, new, t) = Body(F, old, new, t)
    BY <2>3, BodyDepends
  <2>5. QED
    BY <2>2, <2>4
<1>6. Replaces(F, old, new)
  BY <1>5 DEF Replaces
<1>7. QED
  BY <1>6

\* The three cases of the replacement.
LEMMA PrefixStands ==
  ASSUME NEW old \in Filled, NEW t \in Text
  PROVE  /\ T!IsPrefix(old, t) <=> Stands(old, t, 0)
         /\ t = <<>> => ~T!IsPrefix(old, t)
<1>1. SubSeq(old, 1, Len(old)) = old /\ Len(old) \in Nat \ {0}
  BY SubSeqFull DEF Filled, Text
<1>2. QED
  BY <1>1 DEF T!IsPrefix, Stands

\* Nothing in the empty text is replaced.
LEMMA ReplacedEmpty ==
  ASSUME NEW old \in Filled, NEW new \in Text, NEW f, Replaces(f, old, new)
  PROVE  f[<<>>] = <<>>
<1>1. <<>> \in Text
  BY DEF Text
<1>2. f[<<>>] = Body(f, old, new, <<>>)
  BY <1>1 DEF Replaces
<1>3. ~T!IsPrefix(old, <<>>)
  BY <1>1, PrefixStands
<1>4. QED
  BY <1>2, <1>3 DEF Body

\* Where old stands first, new takes its place.
LEMMA ReplacedHere ==
  ASSUME NEW old \in Filled, NEW new \in Text, NEW f, Replaces(f, old, new), NEW t \in Filled,
         Stands(old, t, 0)
  PROVE  f[t] = new \o f[SubSeq(t, Len(old) + 1, Len(t))]
<1>1. t \in Text /\ t # <<>>
  BY DEF Filled
<1>2. f[t] = Body(f, old, new, t)
  BY <1>1 DEF Replaces
<1>3. QED
  BY <1>1, <1>2, PrefixStands DEF Body

\* Where it does not, the first letter stays.
LEMMA ReplacedNotHere ==
  ASSUME NEW old \in Filled, NEW new \in Text, NEW f, Replaces(f, old, new), NEW t \in Filled,
         ~Stands(old, t, 0)
  PROVE  f[t] = <<Head(t)>> \o f[Tail(t)]
<1>1. t \in Text /\ t # <<>>
  BY DEF Filled
<1>2. f[t] = Body(f, old, new, t)
  BY <1>1 DEF Replaces
<1>3. QED
  BY <1>1, <1>2, PrefixStands DEF Body

\* What a text is replaced to is a text.
LEMMA ReplacedTyped ==
  ASSUME NEW old \in Filled, NEW new \in Text, NEW f, Replaces(f, old, new)
  PROVE  \A t \in Text : f[t] \in Text
<1> DEFINE L == {Len(t) : t \in {u \in Text : f[u] \notin Text}}
<1>0. \A t \in Text : Len(t) \in Nat
  BY DEF Text
<1>1. SUFFICES ASSUME L # {}
               PROVE  FALSE
  OBVIOUS
<1>2. PICK l \in L : \A k \in L : l <= k
  BY <1>0, <1>1, LeastExists
<1>3. PICK t \in Text : f[t] \notin Text /\ Len(t) = l
  BY <1>2
<1>4. ASSUME NEW u \in Text, Len(u) < Len(t)
      PROVE  f[u] \in Text
  <2>1. Len(u) \in Nat /\ l \in Nat /\ ~(l <= Len(u))
    BY <1>0, <1>3, <1>4
  <2>2. QED
    BY <1>2, <2>1
<1> HIDE DEF L
<1>5. t \in Filled
  <2>1. <<>> \in Text /\ f[<<>>] = <<>>
    BY ReplacedEmpty DEF Text
  <2>2. QED
    BY <1>3, <2>1 DEF Filled
<1>6. CASE Stands(old, t, 0)
  <2>1. PICK rest : rest = SubSeq(t, Len(old) + 1, Len(t))
    OBVIOUS
  <2>2. rest \in Text /\ Len(rest) < Len(t)
    BY <1>5, <1>6, <2>1, PrefixStands, Shorter
  <2>3. f[rest] \in Text
    BY <1>4, <2>2
  <2>4. f[t] = new \o f[rest]
    BY <1>5, <1>6, <2>1, ReplacedHere
  <2>5. new \o f[rest] \in Text
    BY <2>3 DEF Text
  <2>6. QED
    BY <1>3, <2>4, <2>5
<1>7. CASE ~Stands(old, t, 0)
  <2>1. Head(t) \in STRING /\ Tail(t) \in Text /\ Len(Tail(t)) < Len(t)
    BY <1>5, Shorter
  <2>2. f[Tail(t)] \in Text
    BY <1>4, <2>1
  <2>3. f[t] = <<Head(t)>> \o f[Tail(t)]
    BY <1>5, <1>7, ReplacedNotHere
  <2>4. <<Head(t)>> \o f[Tail(t)] \in Text
    BY <2>1, <2>2 DEF Text
  <2>5. QED
    BY <1>3, <2>3, <2>4
<1>8. QED
  BY <1>6, <1>7

\* The rest of a text, from letter n on.
LEMMA RestOf ==
  ASSUME NEW t \in Text, NEW n \in 1 .. Len(t)
  PROVE  LET u == SubSeq(t, n, Len(t))
         IN /\ u \in Filled /\ Len(u) = Len(t) - n + 1
            /\ Head(u) = t[n] /\ Tail(u) = SubSeq(t, n + 1, Len(t)) /\ Tail(u) \in Text
            /\ \A k \in 1 .. Len(t) - n + 1 : u[k] = t[n + k - 1]
<1>1. t \in Seq(STRING) /\ Len(t) \in Nat /\ Len(t) \in n .. Len(t)
  BY DEF Text
<1>2. PICK u : u = SubSeq(t, n, Len(t))
  OBVIOUS
<1>3. Head(u) = t[n] /\ Tail(u) = SubSeq(t, n + 1, Len(t))
  BY <1>1, <1>2, HeadTailOfSubSeq
<1>4. /\ u \in Seq(STRING) /\ Len(u) = Len(t) - n + 1 /\ SubSeq(t, n + 1, Len(t)) \in Seq(STRING)
      /\ \A k \in 1 .. Len(t) - n + 1 : u[k] = t[n + k - 1]
  BY <1>1, <1>2
<1>5. u # <<>>
  BY <1>1, <1>4, EmptySeq
<1>6. QED
  BY <1>2, <1>3, <1>4, <1>5 DEF Filled, Text

\* What stands in the rest stands in the text, as far on.
LEMMA StandsInRest ==
  ASSUME NEW old \in Filled, NEW t \in Text, NEW d \in 0 .. Len(t) - 1, NEW i \in Nat
  PROVE  Stands(old, SubSeq(t, d + 1, Len(t)), i) <=> Stands(old, t, d + i)
<1>1. t \in Seq(STRING) /\ Len(t) \in Nat /\ Len(old) \in Nat \ {0} /\ d + 1 \in 1 .. Len(t)
  BY DEF Filled, Text
<1>2. PICK u : u = SubSeq(t, d + 1, Len(t))
  OBVIOUS
<1>3. u \in Seq(STRING) /\ Len(u) = Len(t) - d /\ \A k \in 1 .. Len(t) - d : u[k] = t[d + k]
  BY <1>1, <1>2
<1>4. i + Len(old) <= Len(u) <=> d + i + Len(old) <= Len(t)
  BY <1>1, <1>3
<1>5. ASSUME i + Len(old) <= Len(u)
      PROVE  SubSeq(u, i + 1, i + Len(old)) = SubSeq(t, d + i + 1, d + i + Len(old))
  BY <1>1, <1>3, <1>5
<1>6. QED
  BY <1>2, <1>4, <1>5 DEF Stands

\* Letters before which old does not stand are copied.
LEMMA ReplacedSkips ==
  ASSUME NEW old \in Filled, NEW new \in Text, NEW f, Replaces(f, old, new), NEW t \in Text,
         NEW i \in 0 .. Len(t), \A j \in 0 .. i - 1 : ~Stands(old, t, j)
  PROVE  f[t] = SubSeq(t, 1, i) \o f[SubSeq(t, i + 1, Len(t))]
<1> DEFINE Skips(n) == f[t] = SubSeq(t, 1, n) \o f[SubSeq(t, n + 1, Len(t))]
           N == {n \in 0 .. i : ~Skips(n)}
<1>0. Len(t) \in Nat /\ i \in Nat /\ t \in Seq(STRING)
  BY DEF Text
<1> HIDE DEF Skips
<1>1. SUFFICES ASSUME N # {}
               PROVE  FALSE
  <2>1. i \in 0 .. i
    BY <1>0
  <2>2. Skips(i)
    BY <1>1, <2>1
  <2>3. QED
    BY <2>2 DEF Skips
<1>2. PICK n \in N : \A k \in N : n <= k
  <2>1. N \in SUBSET Nat
    BY <1>0
  <2>2. QED
    BY <1>1, <2>1, LeastExists
<1>3. Skips(0)
  <2>1. SubSeq(t, 1, 0) = <<>> /\ SubSeq(t, 0 + 1, Len(t)) = t
    BY <1>0, SubSeqEmpty, SubSeqFull
  <2>2. f[t] \in Seq(STRING)
    BY ReplacedTyped DEF Text
  <2>3. <<>> \o f[t] = f[t]
    BY <2>2, ConcatEmptySeq
  <2>4. QED
    BY <2>1, <2>3 DEF Skips
<1>4. n \in 1 .. i /\ n - 1 \in 0 .. i - 1 /\ ~Skips(n)
  BY <1>0, <1>2, <1>3
<1>5. Skips(n - 1)
  <2>1. n - 1 \in 0 .. i /\ ~(n <= n - 1)
    BY <1>0, <1>4
  <2>2. QED
    BY <1>2, <2>1
<1>6. n \in 1 .. Len(t)
  BY <1>0, <1>4
<1>7. PICK u : u = SubSeq(t, n, Len(t))
  OBVIOUS
<1>8. u \in Filled /\ Head(u) = t[n] /\ Tail(u) = SubSeq(t, n + 1, Len(t)) /\ Tail(u) \in Text
  BY <1>6, <1>7, RestOf
<1>9. ~Stands(old, u, 0)
  <2>1. n - 1 \in 0 .. Len(t) - 1 /\ (n - 1) + 1 = n /\ (n - 1) + 0 = n - 1 /\ 0 \in Nat
    BY <1>0, <1>6
  <2>2. Stands(old, SubSeq(t, (n - 1) + 1, Len(t)), 0) <=> Stands(old, t, (n - 1) + 0)
    BY <2>1, StandsInRest
  <2>3. QED
    BY <1>4, <1>7, <2>1, <2>2
<1>10. PICK v : v = Tail(u)
  OBVIOUS
<1>11. f[u] = <<t[n]>> \o f[v]
  BY <1>8, <1>9, <1>10, ReplacedNotHere
<1>12. PICK x : x = SubSeq(t, 1, n - 1)
  OBVIOUS
<1>13. f[t] = x \o f[u]
  <2>1. n - 1 + 1 = n
    BY <1>4
  <2>2. QED
    BY <1>5, <1>7, <1>12, <2>1 DEF Skips
<1>14. PICK w : w = f[v]
  OBVIOUS
<1>15. x \in Seq(STRING) /\ t[n] \in STRING /\ w \in Seq(STRING)
  <2>1. w \in Seq(STRING)
    BY <1>8, <1>10, <1>14, ReplacedTyped DEF Text
  <2>2. x \in Seq(STRING) /\ t[n] \in STRING
    BY <1>0, <1>6, <1>12
  <2>3. QED
    BY <2>1, <2>2
<1>16. x \o (<<t[n]>> \o w) = (x \o <<t[n]>>) \o w
  BY <1>15, SMTT(40)
<1>17. x \o <<t[n]>> = SubSeq(t, 1, n)
  <2>1. 1 \in 1 .. Len(t) /\ n \in 1 .. Len(t)
    BY <1>0, <1>6
  <2>2. QED
    BY <1>0, <1>12, <2>1, SubSeqRecursiveSecond
<1>18. f[t] = SubSeq(t, 1, n) \o f[SubSeq(t, n + 1, Len(t))]
  BY <1>8, <1>10, <1>11, <1>13, <1>14, <1>16, <1>17
<1>19. QED
  BY <1>4, <1>18 DEF Skips

\* Where old does not stand nothing is replaced.
LEMMA ReplacedNowhere ==
  ASSUME NEW old \in Filled, NEW new \in Text, NEW f, Replaces(f, old, new), NEW t \in Text,
         \A j \in Nat : ~Stands(old, t, j)
  PROVE  f[t] = t
<1>1. Len(t) \in Nat /\ t \in Seq(STRING)
  BY DEF Text
<1>2. f[t] = SubSeq(t, 1, Len(t)) \o f[SubSeq(t, Len(t) + 1, Len(t))]
  <2>1. Len(t) \in 0 .. Len(t) /\ \A j \in 0 .. Len(t) - 1 : ~Stands(old, t, j)
    BY <1>1
  <2>2. QED
    BY <2>1, ReplacedSkips
<1>3. SubSeq(t, 1, Len(t)) = t /\ SubSeq(t, Len(t) + 1, Len(t)) = <<>>
  BY <1>1, SubSeqFull, SubSeqEmpty
<1>4. f[<<>>] = <<>>
  BY ReplacedEmpty
<1>5. QED
  BY <1>1, <1>2, <1>3, <1>4, ConcatEmptySeq

\* The first place where old stands gets the new text.
LEMMA ReplacedFirst ==
  ASSUME NEW old \in Filled, NEW new \in Text, NEW f, Replaces(f, old, new), NEW t \in Text,
         NEW i \in 0 .. Len(t), Stands(old, t, i), \A j \in 0 .. i - 1 : ~Stands(old, t, j)
  PROVE  f[t] = SubSeq(t, 1, i) \o (new \o f[SubSeq(t, i + Len(old) + 1, Len(t))])
<1>1. Len(t) \in Nat /\ i \in Nat /\ Len(old) \in Nat \ {0} /\ t \in Seq(STRING)
      /\ i + Len(old) <= Len(t)
  BY DEF Filled, Text, Stands
<1>2. PICK u : u = SubSeq(t, i + 1, Len(t))
  OBVIOUS
<1>3. f[t] = SubSeq(t, 1, i) \o f[u]
  BY <1>2, ReplacedSkips
<1>4. u \in Filled /\ Len(u) = Len(t) - i
  <2>1. i + 1 \in 1 .. Len(t)
    BY <1>1
  <2>2. u \in Filled /\ Len(u) = Len(t) - (i + 1) + 1
    BY <1>2, <2>1, RestOf
  <2>3. QED
    BY <1>1, <2>2
<1>5. Stands(old, u, 0)
  <2>1. i \in 0 .. Len(t) - 1 /\ 0 \in Nat /\ i + 0 = i
    BY <1>1
  <2>2. QED
    BY <1>2, <2>1, StandsInRest
<1>6. SubSeq(u, Len(old) + 1, Len(u)) = SubSeq(t, i + Len(old) + 1, Len(t))
  BY <1>1, <1>2, <1>4
<1>7. f[u] = new \o f[SubSeq(u, Len(old) + 1, Len(u))]
  BY <1>4, <1>5, ReplacedHere
<1>8. QED
  BY <1>3, <1>6, <1>7

\* The pass under way has a placeholder and a value.
LEMMA PassTyped ==
  ASSUME pass \in 1 .. Len(Passes) + 1, ~T!Done
  PROVE  /\ T!Old \in Filled /\ T!New \in Text
         /\ Replaces(T!Replaced, T!Old, T!New)
<1>1. Passes \in Seq([old : Filled, new : Text])
  BY StandaloneAssumption DEF T!ParametersOK, Filled, Text
<1>2. pass \in 1 .. Len(Passes)
  BY <1>1 DEF T!Done
<1>3. Passes[pass] \in [old : Filled, new : Text]
  BY <1>1, <1>2, ElementOfSeq
<1>4. T!Old \in Filled /\ T!New \in Text
  BY <1>3 DEF T!Old, T!New
<1>5. \E f : Replaces(f, T!Old, T!New)
  BY <1>4, ReplacingExists
<1>6. Replaces(T!Replaced, T!Old, T!New)
  BY <1>5 DEF T!Replaced, Replaces, Body, Text
<1>7. QED
  BY <1>4, <1>6

TemplateInv ==
  /\ T!TypeOK
  /\ template \in Text /\ s \in Text /\ result \in Text
  /\ T!NothingGarbled

\* A pass begins with nothing done.
Fresh == pass \in 1 .. Len(Passes) + 1 /\ template \in Text /\ s = template /\ result = <<>>

\* It satisfies the invariant.
LEMMA FreshPass == Fresh => TemplateInv
<1> SUFFICES ASSUME pass \in 1 .. Len(Passes) + 1, template \in Text, s = template, result = <<>>
             PROVE  TemplateInv
  BY DEF Fresh
<1>1. T!TypeOK
  BY DEF T!TypeOK, Text
<1>2. ASSUME ~T!Done
      PROVE  result \o T!Replaced[s] = T!Replaced[template]
  <2>1. T!Replaced[s] \in Seq(STRING)
    BY <1>2, PassTyped, ReplacedTyped DEF Text
  <2>2. QED
    BY <2>1, ConcatEmptySeq
<1>3. result \in Text
  BY DEF Text
<1>4. QED
  BY <1>1, <1>2, <1>3 DEF TemplateInv, T!NothingGarbled

\* So does the next one, on what this one returns.
LEMMA FreshPassNext == Fresh' => TemplateInv'
  BY FreshPass, PTL

\* The first pass, and a message already built, are fresh.
LEMMA TemplateInit == T!Init \/ TemplateRests => TemplateInv
<1>1. Len(Passes) \in Nat
  BY StandaloneAssumption DEF T!ParametersOK
<1>2. ASSUME T!Init PROVE TemplateInv
  <2>1. PICK n \in 0 .. MaxLength : template \in [1 .. n -> Letter]
    BY <1>2 DEF T!Init
  <2>2. n \in Nat /\ Letter \subseteq STRING
    BY <2>1, StandaloneAssumption DEF T!ParametersOK
  <2>3. template \in [1 .. n -> STRING]
    BY <2>1, <2>2
  <2>4. template \in Text
    BY <2>2, <2>3, SeqDef DEF Text
  <2>5. QED
    BY <1>1, <1>2, <2>4, FreshPass DEF T!Init, Fresh
<1>3. ASSUME TemplateRests PROVE TemplateInv
  <2>1. template \in Text
    BY <1>3 DEF TemplateRests, Text
  <2>2. QED
    BY <1>1, <1>3, <2>1, FreshPass DEF TemplateRests, Fresh
<1>4. QED
  BY <1>2, <1>3

\* The inner loop finds the first place, or goes past the last.
LEMMA StopsWhere ==
  ASSUME s \in Text, T!Old \in Filled
  PROVE  /\ \A i : T!Found(i) <=> Stands(T!Old, s, i)
         /\ T!Found(T!Stop) => /\ T!Stop \in 0 .. Len(s)
                               /\ \A j \in 0 .. T!Stop - 1 : ~T!Found(j)
         /\ ~T!Found(T!Stop) => /\ \A j \in Nat : ~T!Found(j)
                                /\ T!Ends(T!Stop, s)
<1> DEFINE N == {i \in 0 .. Len(s) : T!Found(i)}
<1>0. Len(s) \in Nat /\ Len(T!Old) \in Nat \ {0}
  BY DEF Filled, Text
<1>1. \A i : T!Found(i) <=> Stands(T!Old, s, i)
  BY DEF T!Found, Stands
<1>2. CASE N # {}
  <2>1. PICK i \in N : \A k \in N : i <= k
    <3>1. N \in SUBSET Nat
      BY <1>0
    <3>2. QED
      BY <1>2, <3>1, LeastExists
  <2>2. i \in 0 .. Len(s) /\ T!Found(i) /\ \A j \in 0 .. i - 1 : ~T!Found(j)
    BY <1>0, <2>1
  <2>3. \E k \in 0 .. Len(s) : T!Found(k)
    BY <2>2
  <2>4. T!Stop = CHOOSE k \in 0 .. Len(s) : T!Found(k) /\ \A j \in 0 .. k - 1 : ~T!Found(j)
    BY <2>3 DEF T!Stop
  <2>5. T!Stop \in 0 .. Len(s) /\ T!Found(T!Stop) /\ \A j \in 0 .. T!Stop - 1 : ~T!Found(j)
    BY <2>2, <2>4
  <2>6. QED
    BY <1>1, <2>5
<1>3. CASE N = {}
  <2>1. \A j \in Nat : ~T!Found(j)
    <3>1. ASSUME NEW j \in Nat, T!Found(j)
          PROVE  j \in 0 .. Len(s)
      BY <1>0, <3>1 DEF T!Found
    <3>2. QED
      BY <1>3, <3>1
  <2>2. T!Stop = IF Len(s) < Len(T!Old) THEN 0 ELSE Len(s) - Len(T!Old) + 1
    BY <1>0, <2>1 DEF T!Stop
  <2>3. T!Stop \in Nat /\ T!Ends(T!Stop, s)
    BY <1>0, <2>2 DEF T!Ends
  <2>4. QED
    BY <1>1, <2>1, <2>3
<1>4. QED
  BY <1>2, <1>3

\* What one replacement leaves: the copied text with the rest replaced is what
\* the whole is replaced to, and the rest is the end of the template.
LEMMA CopiedAndRest ==
  ASSUME TemplateInv, ~T!Done, NEW i \in 0 .. Len(s), T!Found(i), \A j \in 0 .. i - 1 : ~T!Found(j)
  PROVE  LET rest == T!Rest(i)
         IN /\ rest \in Text /\ Len(rest) <= Len(template)
            /\ T!Copied(i) \in Text
            /\ T!Copied(i) \o T!Replaced[rest] = T!Replaced[template]
            /\ \A k \in DOMAIN rest : rest[k] = template[Len(template) - Len(rest) + k]
<1>1. /\ T!Old \in Filled /\ T!New \in Text /\ Replaces(T!Replaced, T!Old, T!New)
      /\ s \in Text /\ result \in Text /\ template \in Text
  BY PassTyped DEF TemplateInv, T!TypeOK
<1>2. /\ Len(s) \in Nat /\ Len(T!Old) \in Nat \ {0} /\ Len(template) \in Nat /\ Len(s) <= Len(template)
      /\ i + Len(T!Old) <= Len(s) /\ s \in Seq(STRING)
  BY <1>1 DEF Filled, Text, T!Found, TemplateInv, T!TypeOK
<1>3. PICK rest : rest = T!Rest(i)
  OBVIOUS
<1>4. rest = SubSeq(s, i + Len(T!Old) + 1, Len(s))
  BY <1>3 DEF T!Rest
<1>5. /\ rest \in Seq(STRING) /\ Len(rest) = Len(s) - i - Len(T!Old)
      /\ \A k \in 1 .. Len(rest) : rest[k] = s[i + Len(T!Old) + k]
  BY <1>2, <1>4
<1>6. T!Replaced[s] = SubSeq(s, 1, i) \o (T!New \o T!Replaced[rest])
  <2>1. Stands(T!Old, s, i) /\ \A j \in 0 .. i - 1 : ~Stands(T!Old, s, j)
    BY <1>1, StopsWhere
  <2>2. PICK f, old, new, t : f = T!Replaced /\ old = T!Old /\ new = T!New /\ t = s
    OBVIOUS
  <2>3. old \in Filled /\ new \in Text /\ t \in Text /\ i \in 0 .. Len(t)
    BY <1>1, <2>2
  <2>4. Replaces(f, old, new) /\ Stands(old, t, i) /\ \A j \in 0 .. i - 1 : ~Stands(old, t, j)
    BY <1>1, <2>1, <2>2
  <2>5. f[t] = SubSeq(t, 1, i) \o (new \o f[SubSeq(t, i + Len(old) + 1, Len(t))])
    BY ONLY <2>3, <2>4, ReplacedFirst
  <2>6. QED
    BY <1>4, <2>2, <2>5
<1>7. PICK x, y : x = SubSeq(s, 1, i) /\ y = T!Replaced[rest]
  OBVIOUS
<1>8. x \in Seq(STRING) /\ y \in Seq(STRING) /\ T!New \in Seq(STRING) /\ result \in Seq(STRING)
  <2>1. y \in Seq(STRING)
    BY <1>1, <1>5, <1>7, ReplacedTyped DEF Text
  <2>2. QED
    BY <1>1, <1>2, <1>7, <2>1 DEF Text
<1>9. T!Copied(i) = (result \o x) \o T!New
  BY <1>7, <1>8 DEF T!Copied
<1>10. T!Copied(i) \in Text
  BY <1>8, <1>9 DEF Text
<1>11. T!Copied(i) \o y = result \o (x \o (T!New \o y))
  <2>1. PICK r, n : r = result /\ n = T!New
    OBVIOUS
  <2>2. r \in Seq(STRING) /\ n \in Seq(STRING)
    BY <1>8, <2>1
  <2>3. PICK a, b : a = r \o x /\ b = n \o y
    OBVIOUS
  <2>4. a \in Seq(STRING) /\ b \in Seq(STRING)
    BY <1>8, <2>2, <2>3
  <2>5. (a \o n) \o y = a \o (n \o y)
    BY ONLY <1>8, <2>2, <2>4, SMTT(60)
  <2>6. (r \o x) \o b = r \o (x \o b)
    BY ONLY <1>8, <2>2, <2>4, SMTT(60)
  <2>7. QED
    BY <1>9, <2>1, <2>3, <2>5, <2>6
<1>12. T!Copied(i) \o T!Replaced[rest] = T!Replaced[template]
  BY <1>6, <1>7, <1>11 DEF TemplateInv, T!NothingGarbled
<1>13. ASSUME NEW k \in 1 .. Len(rest)
       PROVE  rest[k] = template[Len(template) - Len(rest) + k]
  <2>1. i + Len(T!Old) + k \in 1 .. Len(s)
    BY <1>2, <1>5
  <2>2. \A n \in 1 .. Len(s) : s[n] = template[Len(template) - Len(s) + n]
    BY <1>2 DEF TemplateInv, T!TypeOK
  <2>3. rest[k] = template[Len(template) - Len(s) + (i + Len(T!Old) + k)]
    BY <1>5, <2>1, <2>2
  <2>4. Len(template) - Len(s) + (i + Len(T!Old) + k) = Len(template) - Len(rest) + k
    BY <1>2, <1>5
  <2>5. QED
    BY <2>3, <2>4
<1>14. QED
  BY <1>2, <1>3, <1>5, <1>10, <1>12, <1>13, SMTT(30) DEF Text

\* Going on in the same pass, with what one turn leaves.
LEMMA PassGoesOn ==
  ASSUME TemplateInv, ~T!Done, UNCHANGED <<template, pass>>,
         s' \in Text, result' \in Text, Len(s') <= Len(template),
         \A k \in DOMAIN s' : s'[k] = template[Len(template) - Len(s') + k],
         result' \o T!Replaced[s'] = T!Replaced[template]
  PROVE  TemplateInv'
<1>1. T!TypeOK'
  BY DEF TemplateInv, T!TypeOK
<1>2. T!Replaced' = T!Replaced
  <2>1. pass' = pass
    OBVIOUS
  <2>2. QED
    BY ONLY <2>1 DEF T!Replaced, T!Old, T!New
<1>3. T!NothingGarbled'
  BY <1>2 DEF T!NothingGarbled
<1>4. QED
  BY <1>1, <1>3 DEF TemplateInv

\* What a turn that found old leaves, and where it ends the pass.
TurnFound ==
  /\ T!Found(T!Stop)
  /\ IF T!Ends(T!Stop, T!Rest(T!Stop))
     THEN T!Return(T!Copied(T!Stop) \o T!Rest(T!Stop))
     ELSE s' = T!Rest(T!Stop) /\ result' = T!Copied(T!Stop) /\ UNCHANGED <<template, pass>>

TurnLast == ~T!Found(T!Stop) /\ T!Return(result \o s)

\* A turn found the placeholder, or it is the last.
LEMMA TurnCases ==
  ASSUME TemplateInv, T!Turn
  PROVE  ~T!Done /\ (TurnFound \/ TurnLast)
<1>1. ~T!Done /\ s \in Text /\ T!Old \in Filled
  BY PassTyped DEF T!Turn, TemplateInv, T!TypeOK
<1>2. CASE T!Found(T!Stop)
  BY <1>1, <1>2 DEF T!Turn, TurnFound
<1>3. CASE ~T!Found(T!Stop)
  <2>1. T!Ends(T!Stop, s)
    BY <1>1, <1>3, StopsWhere
  <2>2. QED
    BY <1>1, <1>3, <2>1 DEF T!Turn, TurnLast
<1>4. QED
  BY <1>2, <1>3

\* A turn keeps the invariant: it goes on in the pass or begins the next.
LEMMA TemplateStep == TemplateInv /\ [T!Next]_templateVars => TemplateInv'
<1> SUFFICES ASSUME TemplateInv, [T!Next]_templateVars
             PROVE  TemplateInv'
  OBVIOUS
<1>0. pass \in 1 .. Len(Passes) + 1 /\ Len(Passes) \in Nat
  BY StandaloneAssumption DEF TemplateInv, T!TypeOK, T!ParametersOK
<1>1. ASSUME ~T!Done, NEW t \in Text, T!Return(t)
      PROVE  TemplateInv'
  <2>1. pass + 1 \in 1 .. Len(Passes) + 1
    BY <1>0, <1>1 DEF T!Done
  <2>2. Fresh'
    BY <1>1, <2>1 DEF Fresh, T!Return
  <2>3. QED
    BY <2>2, FreshPassNext
<1>2. CASE T!Turn
  <2>1. ~T!Done /\ (TurnFound \/ TurnLast)
    BY <1>2, TurnCases
  <2>2. CASE TurnLast
    <3>1. result \o s \in Text
      BY DEF TemplateInv, Text
    <3>2. QED
      BY <1>1, <2>1, <2>2, <3>1 DEF TurnLast
  <2>3. CASE TurnFound
    <3>1. PICK i : i = T!Stop
      OBVIOUS
    <3>2. i \in 0 .. Len(s) /\ T!Found(i) /\ \A j \in 0 .. i - 1 : ~T!Found(j)
      BY <2>1, <2>3, <3>1, StopsWhere, PassTyped, <1>0 DEF TurnFound, TemplateInv
    <3>3. PICK rest : rest = T!Rest(i)
      OBVIOUS
    <3>4. /\ rest \in Text /\ Len(rest) <= Len(template) /\ T!Copied(i) \in Text
          /\ T!Copied(i) \o T!Replaced[rest] = T!Replaced[template]
          /\ \A k \in DOMAIN rest : rest[k] = template[Len(template) - Len(rest) + k]
      BY <2>1, <3>2, <3>3, CopiedAndRest
    <3>5. CASE T!Ends(i, rest)
      <4>1. T!Return(T!Copied(i) \o rest)
        BY <2>3, <3>1, <3>3, <3>5 DEF TurnFound
      <4>2. T!Copied(i) \o rest \in Text
        BY <3>4 DEF Text
      <4>3. QED
        BY <1>1, <2>1, <4>1, <4>2
    <3>6. CASE ~T!Ends(i, rest)
      <4>1. s' = rest /\ result' = T!Copied(i) /\ UNCHANGED <<template, pass>>
        BY <2>3, <3>1, <3>3, <3>6 DEF TurnFound
      <4>2. QED
        BY <2>1, <3>4, <4>1, PassGoesOn
    <3>7. QED
      BY <3>5, <3>6
  <2>4. QED
    BY <2>1, <2>2, <2>3
<1>3. CASE UNCHANGED templateVars
  <2>1. UNCHANGED <<template, pass, s, result>>
    BY <1>3 DEF templateVars
  <2>2. T!TypeOK' /\ (template \in Text /\ s \in Text /\ result \in Text)'
    BY <2>1 DEF TemplateInv, T!TypeOK, T!Done
  <2>3. T!NothingGarbled'
    <3>1. T!Replaced' = T!Replaced
      BY <2>1 DEF T!Replaced, T!Old, T!New
    <3>2. QED
      BY <2>1, <3>1 DEF TemplateInv, T!NothingGarbled, T!Done
  <2>4. QED
    BY <2>2, <2>3 DEF TemplateInv
<1>4. QED
  BY <1>2, <1>3 DEF T!Next, T!vars, templateVars

\* Where old stands in a text it occurs.
LEMMA OccursWhere ==
  ASSUME TemplateInv, ~T!Done, NEW j \in Nat, Stands(T!Old, s, j)
  PROVE  Len(template) - Len(s) + j + 1 \in T!Occurrences(template)
<1>1. PICK d, w, old : d = Len(template) - Len(s) /\ w = Len(old) /\ old = T!Old
  OBVIOUS
<1>2. /\ template \in Seq(STRING) /\ s \in Seq(STRING) /\ Len(s) \in Nat /\ Len(template) \in Nat
      /\ d \in Nat /\ w \in Nat \ {0} /\ d + Len(s) = Len(template)
  BY <1>1, PassTyped DEF TemplateInv, T!TypeOK, Filled, Text
<1>3. j + w <= Len(s) /\ SubSeq(s, j + 1, j + w) = old
  BY <1>1 DEF Stands
<1>4. \A k \in 1 .. Len(s) : s[k] = template[d + k]
  <2>1. \A k \in DOMAIN s : s[k] = template[Len(template) - Len(s) + k]
    BY DEF TemplateInv, T!TypeOK
  <2>2. DOMAIN s = 1 .. Len(s)
    BY <1>2
  <2>3. QED
    BY <1>1, <2>1, <2>2
<1>5. \A k \in 1 .. w : old[k] = template[d + j + k]
  <2>1. \A k \in 1 .. w : j + k \in 1 .. Len(s) /\ old[k] = s[j + k]
    <3>1. PICK u : u = s
      OBVIOUS
    <3>2. \A k \in 1 .. w : j + k \in 1 .. Len(u) /\ SubSeq(u, j + 1, j + w)[k] = u[j + k]
      BY ONLY <1>2, <1>3, <3>1, j \in Nat
    <3>3. QED
      BY ONLY <1>3, <3>1, <3>2
  <2>2. \A k \in 1 .. w : d + (j + k) = d + j + k
    BY <1>2
  <2>3. QED
    BY <1>4, <2>1, <2>2
<1>6. SubSeq(template, d + j + 1, d + j + 1 + w - 1) = old
  <2>1. old \in Seq(STRING) /\ Len(old) = w
    BY <1>1, PassTyped DEF TemplateInv, T!TypeOK, Filled, Text
  <2>2. d + j + 1 + w - 1 <= Len(template)
    BY <1>2, <1>3
  <2>3. PICK u : u = SubSeq(template, d + j + 1, d + j + 1 + w - 1)
    OBVIOUS
  <2>4. u \in Seq(STRING) /\ Len(u) = w /\ \A k \in 1 .. w : u[k] = template[d + j + k]
    BY <1>2, <2>2, <2>3
  <2>5. u = old
    BY <1>5, <2>1, <2>4
  <2>6. QED
    BY <2>3, <2>5
<1>7. d + j + 1 \in 1 .. Len(template) /\ d + j + 1 + w - 1 <= Len(template)
  BY <1>2, <1>3
<1>8. QED
  BY <1>1, <1>6, <1>7 DEF T!Occurrences

\* Two places make two occurrences.
LEMMA OccursOnce ==
  ASSUME TemplateInv, ~T!Done, T!Cardinality(T!Occurrences(template)) <= 1,
         NEW a \in T!Occurrences(template), NEW b \in T!Occurrences(template)
  PROVE  a = b
<1>1. PICK S : S = T!Occurrences(template)
  OBVIOUS
<1>2. IsFiniteSet(S) /\ Cardinality(S) \in Nat
  <2>1. S \subseteq 1 .. Len(template)
    BY <1>1 DEF T!Occurrences
  <2>2. IsFiniteSet(1 .. Len(template))
    BY FS_Interval DEF TemplateInv, Text
  <2>3. QED
    BY <2>1, <2>2, FS_Subset, FS_CardinalityType
<1>3. Cardinality(S) <= 1
  BY <1>1, OneCardinality
<1>4. SUFFICES ASSUME a # b
               PROVE  FALSE
  OBVIOUS
<1>5. {a, b} \subseteq S /\ Cardinality({a, b}) = 2
  <2>1. Cardinality({a, b}) = 2
    <3>1. Cardinality({a}) = 1 /\ IsFiniteSet({a})
      BY FS_Singleton
    <3>2. Cardinality({a} \cup {b}) = 2
      BY <1>4, <3>1, FS_AddElement
    <3>3. {a} \cup {b} = {a, b}
      OBVIOUS
    <3>4. QED
      BY <3>2, <3>3
  <2>2. QED
    BY <1>1, <2>1
<1>6. Cardinality({a, b}) <= Cardinality(S)
  BY <1>2, <1>5, FS_Subset
<1>7. QED
  BY <1>2, <1>3, <1>5, <1>6

\* A pass over a template with one place to replace returns it replaced.
LEMMA PassReplaces ==
  ASSUME TemplateInv, T!Turn, pass' = pass + 1, T!Cardinality(T!Occurrences(template)) <= 1
  PROVE  template' = T!Replaced[template]
<1>1. /\ ~T!Done /\ (TurnFound \/ TurnLast)
      /\ T!Old \in Filled /\ T!New \in Text /\ Replaces(T!Replaced, T!Old, T!New)
      /\ s \in Text /\ template \in Text /\ result \in Text
  BY TurnCases, PassTyped DEF TemplateInv, T!TypeOK
<1>2. PICK f, old, new : f = T!Replaced /\ old = T!Old /\ new = T!New
  OBVIOUS
<1>3. old \in Filled /\ new \in Text /\ Replaces(f, old, new)
  BY <1>1, <1>2
<1>4. CASE TurnLast
  <2>1. \A j \in Nat : ~Stands(old, s, j)
    BY <1>1, <1>2, <1>4, StopsWhere DEF TurnLast
  <2>2. PICK t : t = s
    OBVIOUS
  <2>3. f[t] = t
    <3>1. t \in Text /\ \A j \in Nat : ~Stands(old, t, j)
      BY <1>1, <2>1, <2>2
    <3>2. QED
      BY ONLY <1>3, <3>1, ReplacedNowhere
  <2>4. template' = result \o s
    BY <1>4 DEF TurnLast, T!Return
  <2>5. result \o T!Replaced[s] = T!Replaced[template]
    BY <1>1 DEF TemplateInv, T!NothingGarbled
  <2>6. QED
    BY <1>2, <2>2, <2>3, <2>4, <2>5
<1>5. CASE TurnFound
  <2>1. PICK i : i = T!Stop
    OBVIOUS
  <2>2. i \in 0 .. Len(s) /\ T!Found(i) /\ \A j \in 0 .. i - 1 : ~T!Found(j)
    BY <1>1, <1>5, <2>1, StopsWhere DEF TurnFound
  <2>3. PICK rest : rest = T!Rest(i)
    OBVIOUS
  <2>4. rest \in Text /\ T!Copied(i) \o T!Replaced[rest] = T!Replaced[template]
    BY <1>1, <2>2, <2>3, CopiedAndRest
  <2>5. template' = T!Copied(i) \o rest
    <3>1. pass' # pass
      BY DEF TemplateInv, T!TypeOK
    <3>2. QED
      BY <1>5, <2>1, <2>3, <3>1 DEF TurnFound, T!Return
  <2>6. \A j \in Nat : ~Stands(old, rest, j)
    <3>1. SUFFICES ASSUME NEW j \in Nat, Stands(old, rest, j)
                   PROVE  FALSE
      OBVIOUS
    <3>2. PICK d, w : d = i + w /\ w = Len(old)
      OBVIOUS
    <3>3. /\ w \in Nat \ {0} /\ i \in Nat /\ Len(s) \in Nat /\ d \in Nat /\ d <= Len(s)
          /\ rest = SubSeq(s, d + 1, Len(s)) /\ s \in Seq(STRING)
      BY <1>1, <1>2, <2>2, <2>3, <3>2 DEF T!Found, T!Rest, Filled, Text
    <3>4. d \in 0 .. Len(s) - 1
      <4>1. Len(rest) = Len(s) - d
        BY <3>3
      <4>2. j + w <= Len(rest)
        BY <3>1, <3>2 DEF Stands
      <4>3. QED
        BY <3>3, <4>1, <4>2
    <3>5. Stands(old, s, d + j)
      <4>1. PICK t : t = s
        OBVIOUS
      <4>2. t \in Text /\ d \in 0 .. Len(t) - 1 /\ Stands(old, SubSeq(t, d + 1, Len(t)), j)
        BY <1>1, <3>1, <3>3, <3>4, <4>1
      <4>3. Stands(old, t, d + j)
        BY ONLY <1>3, <3>1, <4>2, StandsInRest
      <4>4. QED
        BY <4>1, <4>3
    <3>6. Stands(T!Old, s, i)
      BY <1>1, <2>2, StopsWhere
    <3>7. /\ Len(template) - Len(s) + i + 1 \in T!Occurrences(template)
          /\ Len(template) - Len(s) + (d + j) + 1 \in T!Occurrences(template)
      <4>1. d + j \in Nat /\ Stands(T!Old, s, d + j)
        BY <1>2, <3>3, <3>5
      <4>2. QED
        BY <1>1, <3>3, <3>6, <4>1, OccursWhere
    <3>8. Len(template) - Len(s) + i + 1 = Len(template) - Len(s) + (d + j) + 1
      BY <1>1, <3>7, OccursOnce
    <3>9. Len(template) \in Nat
      BY <1>1 DEF Text
    <3>10. QED
      BY <3>2, <3>3, <3>8, <3>9
  <2>7. f[rest] = rest
    BY ONLY <1>3, <2>4, <2>6, ReplacedNowhere
  <2>8. QED
    BY <1>2, <2>4, <2>5, <2>7
<1>6. QED
  BY <1>1, <1>4, <1>5

-----------------------------------------------------------------------------
(* Webhook.                                                                 *)

\* What the server will do with the post, whenever an attempt arrives.
Welcome == post.method = "POST" /\ Authentic

\* Every attempt is where the post allows, and so is what was called and told.
Consistent ==
  /\ \A a \in Attempt :
       /\ step[a] = "200" => calls # <<>>
       /\ step[a] = "handling" => Welcome
       /\ step[a] \in {"401", "405"} => ~Welcome
  /\ calls # <<>> => Welcome
  /\ verdict = "ok" => calls # <<>>
  /\ verdict = "refused" => ~Welcome

\* Every call was about the post as it stands.
CallsMatch == \A k \in DOMAIN calls : calls[k] = Event

CallType == [kind : Kind, payload : BOOLEAN]

HookInv ==
  /\ secret \in BOOLEAN /\ flaky \in BOOLEAN /\ post \in Post
  /\ step \in [Attempt -> Step]
  /\ calls \in Seq(CallType)
  /\ verdict \in {"none", "ok", "refused"}
  /\ Consistent
  /\ CallsMatch

\* The event handed over is a call's argument.
LEMMA EventTyped ==
  ASSUME post \in Post
  PROVE  Event \in CallType
  BY DEF Event, CallType, Kind, KindOf, EventType, Post, Word

\* Before the first attempt, and after a notification handled, all is consistent.
LEMMA HookInitially == HookInit \/ WebhookRests => HookInv
<1>1. ASSUME HookInit PROVE HookInv
  <2>1. step \in [Attempt -> Step] /\ calls \in Seq(CallType)
    BY <1>1 DEF HookInit, Step, Reply
  <2>2. Consistent /\ CallsMatch
    BY <1>1 DEF HookInit, Consistent, CallsMatch
  <2>3. QED
    BY <1>1, <2>1, <2>2 DEF HookInit, HookInv
<1>2. ASSUME WebhookRests PROVE HookInv
  <2>1. step \in [Attempt -> Step] /\ step = [a \in Attempt |-> "over"]
    BY <1>2 DEF WebhookRests, Step
  <2>2. post \in Post /\ Welcome
    BY <1>2 DEF WebhookRests, Post, Word, Welcome, Authentic
  <2>3. Event = [kind |-> "raw", payload |-> FALSE]
    BY <1>2 DEF WebhookRests, Event, EventType, KindOf
  <2>4. calls = <<Event>> /\ Event \in CallType
    BY <1>2, <2>2, <2>3, EventTyped DEF WebhookRests
  <2>5. CallsMatch /\ calls \in Seq(CallType) /\ calls # <<>>
    BY <2>4 DEF CallsMatch
  <2>6. Consistent
    BY <1>2, <2>1, <2>2, <2>5 DEF WebhookRests, Consistent
  <2>7. QED
    BY <1>2, <2>1, <2>2, <2>5, <2>6 DEF WebhookRests, HookInv
<1>3. QED
  BY <1>1, <1>2

\* One step of the specification keeps the invariant; the post and the secret
\* never change, so neither does what depends on them.
LEMMA HookStep == HookInv /\ [HookNext]_hookVars => HookInv'
<1>. SUFFICES ASSUME HookInv, [HookNext]_hookVars PROVE HookInv'
  OBVIOUS
<1>. USE DEF HookInv
<1>0. ASSUME UNCHANGED settings
      PROVE  /\ (secret \in BOOLEAN /\ flaky \in BOOLEAN /\ post \in Post)'
             /\ Welcome' = Welcome /\ Event' = Event
  BY <1>0 DEF settings, Welcome, Authentic, Event, EventType
<1>1. ASSUME NEW a \in Attempt, Send(a) PROVE HookInv'
  <2>. UNCHANGED settings /\ UNCHANGED <<calls, verdict>>
    BY <1>1 DEF Send
  <2>1. step' = [step EXCEPT ![a] = "arrived"]
    BY <1>1 DEF Send, Goto
  <2>2. (step \in [Attempt -> Step])'
    BY <2>1 DEF Step
  <2>3. Consistent'
    BY <1>0, <2>1 DEF Consistent
  <2>. QED
    BY <1>0, <2>2, <2>3 DEF CallsMatch
<1>2. ASSUME NEW a \in Attempt, Receive(a) PROVE HookInv'
  <2>. UNCHANGED settings /\ UNCHANGED <<calls, verdict>>
    BY <1>2 DEF Receive
  <2>1. \/ post.method # "POST" /\ step' = [step EXCEPT ![a] = "405"]
        \/ step' = [step EXCEPT ![a] = "400"]
        \/ Welcome /\ step' = [step EXCEPT ![a] = "handling"]
        \/ ~Authentic /\ step' = [step EXCEPT ![a] = "401"]
    BY <1>2 DEF Receive, Goto, Welcome
  <2>2. (step \in [Attempt -> Step])'
    BY <2>1 DEF Step, Reply
  <2>3. Consistent'
    BY <1>0, <2>1 DEF Consistent, Welcome
  <2>. QED
    BY <1>0, <2>2, <2>3 DEF CallsMatch
<1>3. ASSUME NEW a \in Attempt, HandleWebhook(a) PROVE HookInv'
  <2>. UNCHANGED settings /\ UNCHANGED verdict
    BY <1>3 DEF HandleWebhook
  <2>1. calls' = Append(calls, Event) /\ Event \in CallType
    BY <1>3, EventTyped DEF HandleWebhook
  <2>2. calls' # <<>> /\ calls' \in Seq(CallType)
    BY <2>1
  <2>3. step[a] = "handling" /\ step' = [step EXCEPT ![a] = IF Panics THEN "over" ELSE "200"]
    BY <1>3 DEF HandleWebhook, Goto, Answer
  <2>4. (step \in [Attempt -> Step])'
    BY <2>3 DEF Step, Reply
  <2>5. Welcome
    BY <2>3 DEF Consistent
  <2>6. Consistent'
    BY <1>0, <2>2, <2>3, <2>5 DEF Consistent
  <2>7. CallsMatch'
    BY <1>0, <2>1 DEF CallsMatch
  <2>. QED
    BY <1>0, <2>2, <2>4, <2>6, <2>7
<1>4. ASSUME NEW a \in Attempt, ReadReply(a) PROVE HookInv'
  <2>. UNCHANGED settings /\ UNCHANGED calls /\ verdict' \in {"none", "ok", "refused"}
    BY <1>4 DEF ReadReply
  <2>1. step' = [step EXCEPT ![a] = "over"]
    BY <1>4 DEF ReadReply, Goto
  <2>2. (step \in [Attempt -> Step])'
    BY <2>1 DEF Step
  <2>3. /\ verdict' = "ok" => verdict = "ok" \/ step[a] = "200"
        /\ verdict' = "refused" => verdict = "refused" \/ step[a] \in {"401", "405"}
    BY <1>4 DEF ReadReply
  <2>4. Consistent'
    BY <1>0, <2>1, <2>3 DEF Consistent
  <2>. QED
    BY <1>0, <2>2, <2>4 DEF CallsMatch
<1>5. CASE UNCHANGED hookVars
  BY <1>0, <1>5 DEF hookVars, settings, Consistent, CallsMatch
<1>. QED
  BY <1>1, <1>2, <1>3, <1>4, <1>5 DEF HookNext, Serve

\* What is called is what the sender meant.
LEMMA HookInvWhole == HookInv => WholeOrNothing
<1>1. ASSUME HookInv, secret, NEW k \in DOMAIN calls PROVE calls[k].kind = Meant
  <2>1. calls # <<>>
    BY <1>1 DEF HookInv
  <2>2. post.fits
    BY <1>1, <2>1 DEF HookInv, Consistent, Welcome, Authentic
  <2>3. Event.kind = Meant
    BY <2>2 DEF Event, EventType, Meant
  <2>. QED
    BY <1>1, <2>3 DEF HookInv, CallsMatch
<1>2. QED
  BY <1>1 DEF WholeOrNothing

-----------------------------------------------------------------------------
(* The parts together: a step of one is a step or a stutter of each.        *)

Move == Schedule \/ Replace \/ Notify \/ Parse \/ Report

\* A move of one part leaves the variables of the others alone.
LEMMA EveryPartMoves ==
  ASSUME [Move]_allVars
  PROVE  /\ part' = part
         /\ [part = "scheduler" /\ Next]_vars /\ [T!Next]_templateVars /\ [HookNext]_hookVars
         /\ [P!Next]_pagesVars /\ [R!Next]_reportsVars
<1>1. CASE Schedule
  BY <1>1 DEF Schedule
<1>2. CASE Replace
  BY <1>2 DEF Replace
<1>3. CASE Notify
  BY <1>3 DEF Notify
<1>4. CASE Parse
  BY <1>4 DEF Parse
<1>5. CASE Report
  BY <1>5 DEF Report
<1>6. CASE UNCHANGED allVars
  BY <1>6 DEF allVars
<1>7. QED
  BY <1>1, <1>2, <1>3, <1>4, <1>5, <1>6 DEF Move

\* The scheduler at rest is polled by nobody; its entries may share a name.
ScheduleInv ==
  /\ part \in Parts /\ TypeOK
  /\ part = "scheduler" /\ UniqueNames => IInv
  /\ part # "scheduler" => polled = -1 /\ again = FALSE

\* The inductive invariant of all the parts.
PartsInv == ScheduleInv /\ TemplateInv /\ HookInv /\ PagesInv /\ ReportsInv

\* A scheduler at rest is well formed.
LEMMA SchedulerRestsTyped == SchedulerRests => TypeOK
<1> SUFFICES ASSUME SchedulerRests
             PROVE  TypeOK
  OBVIOUS
<1>1. (CHOOSE n \in Name : TRUE) \in Name
  BY StandaloneAssumption
<1>2. 0 \in 0 .. Hours - 1 /\ 0 \in 0 .. Hours /\ -1 \in -1 .. Hours - 1 /\ NumEntries \in Nat
  BY SchedulerAssumption
<1>3. entries \in [Index -> Entry]
  BY <1>1, <1>2 DEF SchedulerRests, Entry
<1>4. reported \in Seq(Transition) /\ Len(reported) <= NumEntries
  BY <1>2 DEF SchedulerRests
<1>5. lastStates = Empty /\ DOMAIN Empty = {}
  BY DEF SchedulerRests, Empty
<1>6. QED
  BY <1>2, <1>3, <1>4, <1>5 DEF SchedulerRests, TypeOK

\* Each part begins, or rests, in its invariant.
LEMMA PartsInit == StandaloneInit => PartsInv
<1> SUFFICES ASSUME StandaloneInit
             PROVE  PartsInv
  OBVIOUS
<1>1. ScheduleInv
  <2>1. CASE part = "scheduler"
    <3>1. Init
      BY <2>1 DEF StandaloneInit
    <3>2. QED
      BY <2>1, <3>1, InitType, InitFollows DEF ScheduleInv, Parts
  <2>2. CASE part # "scheduler"
    <3>1. SchedulerRests /\ part \in Parts
      BY <2>2 DEF StandaloneInit
    <3>2. QED
      BY <2>2, <3>1, SchedulerRestsTyped DEF ScheduleInv, SchedulerRests
  <2>3. QED
    BY <2>1, <2>2
<1>2. /\ T!Init \/ TemplateRests
      /\ HookInit \/ WebhookRests
      /\ P!Init \/ PagesRest
      /\ R!Init \/ ReportsRest
  BY DEF StandaloneInit
<1>3. QED
  BY <1>1, <1>2, TemplateInit, HookInitially, PagesInit, ReportsInit DEF PartsInv

\* A move keeps the invariants of all.
LEMMA PartsStep == PartsInv /\ [Move]_allVars => PartsInv'
<1> SUFFICES ASSUME PartsInv, [Move]_allVars
             PROVE  PartsInv'
  OBVIOUS
<1>1. /\ part' = part
      /\ [part = "scheduler" /\ Next]_vars /\ [T!Next]_templateVars /\ [HookNext]_hookVars
      /\ [P!Next]_pagesVars /\ [R!Next]_reportsVars
  BY EveryPartMoves
<1>2. ScheduleInv'
  <2>1. CASE part = "scheduler"
    BY <1>1, <2>1, NextType, NextFollows DEF PartsInv, ScheduleInv
  <2>2. CASE part # "scheduler"
    <3>1. UNCHANGED vars
      BY <1>1, <2>2
    <3>2. polled' = polled /\ again' = again
      BY <3>1 DEF vars
    <3>3. QED
      BY <1>1, <2>2, <3>1, <3>2, NextType DEF PartsInv, ScheduleInv
  <2>3. QED
    BY <2>1, <2>2
<1>3. TemplateInv'
  BY <1>1, TemplateStep DEF PartsInv
<1>4. HookInv'
  BY <1>1, HookStep DEF PartsInv
<1>5. PagesInv'
  BY <1>1, PagesStep DEF PartsInv
<1>6. ReportsInv'
  BY <1>1, ReportsStep DEF PartsInv
<1>7. QED
  BY <1>2, <1>3, <1>4, <1>5, <1>6 DEF PartsInv

\* Every part satisfies its invariant beside the others.
THEOREM PartsInvariant == StandaloneSpec => []PartsInv
  BY PartsInit, PartsStep, PTL DEF StandaloneSpec, Move

-----------------------------------------------------------------------------
(* What the library's smaller parts promise, whatever their sizes.          *)

\* The types of all the parts: the variables of the loops of Poll,
\* stringsReplaceAll, handle, the parsers and CalculateStatistics.
THEOREM PartsTypeCorrect == StandaloneSpec => []PartsTypeOK
<1>1. HookInv => HookTypeOK
  BY DEF HookInv, HookTypeOK, CallType
<1>2. PartsInv => PartsTypeOK
  BY <1>1 DEF PartsInv, ScheduleInv, TemplateInv, PagesInv, ReportsInv, PartsTypeOK
<1>3. QED
  BY <1>2, PartsInvariant, PTL

\* stringsReplaceAll: at every turn of the loop, what is done with what is left
\* replaced is the template replaced; no text is lost or doubled, whatever the
\* template, the placeholders and the values, values holding placeholders included.
THEOREM ReplacingLosesNothing == StandaloneSpec => []NothingGarbled
<1>1. PartsInv => NothingGarbled
  BY DEF PartsInv, TemplateInv, NothingGarbled
<1>2. QED
  BY <1>1, PartsInvariant, PTL

\* stringsReplaceAll: the check that ends the loop too early after a replacement
\* does no harm to a template that holds the placeholder once.
THEOREM OnePlaceReplaced == StandaloneSpec => OnceReplaced
<1>1. PartsInv /\ [Move]_allVars
        => [pass' = pass + 1 /\ T!Cardinality(T!Occurrences(template)) <= 1
              => template' = T!Replaced[template]]_T!vars
  <2>1. SUFFICES ASSUME PartsInv, [Move]_allVars, T!vars' # T!vars, pass' = pass + 1,
                        T!Cardinality(T!Occurrences(template)) <= 1
                 PROVE  template' = T!Replaced[template]
    OBVIOUS
  <2>2. TemplateInv
    BY <2>1 DEF PartsInv
  <2>3. T!Turn
    BY <2>1, EveryPartMoves DEF T!Next, T!vars, templateVars
  <2>4. QED
    BY <2>1, <2>2, <2>3, PassReplaces
<1>2. QED
  BY <1>1, PartsInvariant, PTL DEF StandaloneSpec, Move, OnceReplaced, T!OnceReplaced

\* The parsers of pages (parser.go): what a record shows is found in its own item,
\* never in another one, however items nest and whatever they lack.
THEOREM RecordsKeepApart == StandaloneSpec => []NothingBorrowed
<1>1. PartsInv => NothingBorrowed
  BY PagesNothingBorrowed DEF PartsInv
<1>2. QED
  BY <1>1, PartsInvariant, PTL

\* The parsers of pages: a page that has been read gave one record of each item
\* that has what its parser requires, and none of others.
THEOREM ItemsReadOnce == StandaloneSpec => []OneRecordEach
<1>1. PartsInv => OneRecordEach
  BY PagesOneRecordEach DEF PartsInv
<1>2. QED
  BY <1>1, PartsInvariant, PTL

\* CalculateStatistics (src/models.go): one entry for each buyer met so far, under
\* the name of the first order that has it.
THEOREM BuyersCountedOnce == StandaloneSpec => []BuyersCounted
<1>1. PartsInv => BuyersCounted
  BY ReportsBuyersCounted DEF PartsInv
<1>2. QED
  BY <1>1, PartsInvariant, PTL

\* WebhookServer.handle answers OK only after the handler was called, and 401
\* or 405 only to a notification it never hands over, however attempts overlap
\* and connections break: what the sender was told stays true.
THEOREM VerdictIsTrue == StandaloneSpec => []VerdictTrue
<1>1. HookInv => VerdictTrue
  BY DEF HookInv, Consistent, VerdictTrue
<1>2. QED
  BY <1>1, PartsInvariant, PTL DEF PartsInv

\* With a Secret, the handler is called with what the sender meant: a body cut
\* short at MaxBodySize never gets past the signature.
THEOREM HandledWhole == StandaloneSpec => []WholeOrNothing
<1>1. HookInv => WholeOrNothing
  BY HookInvWhole
<1>2. QED
  BY <1>1, PartsInvariant, PTL DEF PartsInv

\* With names of their own the entries are followed as well.
NamedInv == UniqueNames /\ PartsInv

\* The assumption on names is of the constants, so it stays.
LEMMA NamedInvariant == UniqueNames /\ StandaloneSpec => []NamedInv
<1>1. UniqueNames /\ StandaloneInit => NamedInv
  BY PartsInit DEF NamedInv
<1>2. NamedInv /\ [Move]_allVars => NamedInv'
  BY PartsStep DEF NamedInv
<1>3. QED
  BY <1>1, <1>2, PTL DEF StandaloneSpec, Move

\* The schedule is followed beside the other parts too: a host that only applies
\* what Poll reports has every group as its schedule says.
THEOREM ScheduleFollowed == UniqueNames /\ StandaloneSpec => []ScheduleApplied
<1>1. NamedInv => ScheduleApplied
  <2>1. SUFFICES ASSUME UniqueNames, ScheduleInv
                 PROVE  ScheduleApplied
    BY DEF NamedInv, PartsInv
  <2>2. CASE part = "scheduler"
    BY <2>1, <2>2, FollowedApplied DEF ScheduleInv
  <2>3. CASE part # "scheduler"
    BY <2>1, <2>3 DEF ScheduleInv, ScheduleApplied
  <2>4. QED
    BY <2>2, <2>3
<1>2. QED
  BY <1>1, NamedInvariant, PTL

\* So is a second poll at the hour of the one before quiet.
THEOREM PollsAgainQuiet == UniqueNames /\ StandaloneSpec => []QuietWhenUnchanged
<1>1. NamedInv => QuietWhenUnchanged
  BY DEF NamedInv, PartsInv, ScheduleInv, IInv, QuietWhenUnchanged
<1>2. QED
  BY <1>1, NamedInvariant, PTL

=============================================================================
