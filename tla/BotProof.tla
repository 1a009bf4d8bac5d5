------------------------------ MODULE BotProof ------------------------------
(***************************************************************************)
(* Theorems about Bot: for any orders, chats and messages, any number of   *)
(* polls, and every interleaving of fetches, answers, saves and crashes.   *)
(***************************************************************************)
EXTENDS Bot, FiniteSetTheorems, SequenceTheorems, TLAPS

-----------------------------------------------------------------------------
(* Enumerations.                                                            *)

Ascends(s) == \A j, k \in DOMAIN s : j < k => s[j] < s[k]

Less == OpToRel(<, Nat)

\* A set of numbers has a least one, which stands in for an induction below.
LEMMA LeastExists ==
  ASSUME NEW S \in SUBSET Nat, S # {}
  PROVE  \E x \in S : \A y \in S : x <= y
<1>1. IsWellFoundedOn(Less, Nat)
  BY NatLessThanWellFounded DEF Less
<1>2. PICK x \in S : \A y \in S : <<y, x>> \notin Less
  BY <1>1, WFMin, Zenon
<1>3. \A y \in Nat : y < x => <<y, x>> \in Less
  BY DEF Less, OpToRel
<1>4. \A y \in S : x \in Nat /\ y \in Nat /\ ~(y < x)
  BY <1>2, <1>3
<1>5. QED
  BY <1>4

LEMMA FiniteInterval ==
  ASSUME NEW n \in Nat, NEW S \in SUBSET (1 .. n)
  PROVE  IsFiniteSet(S) /\ Cardinality(S) \in Nat
<1>1. IsFiniteSet(1 .. n)
  BY FS_Interval
<1>2. IsFiniteSet(S)
  BY <1>1, FS_Subset
<1>3. QED
  BY <1>2, FS_CardinalityType

\* Every finite set of message ids can be listed in ascending order.
Listable(n) ==
  \A S \in SUBSET (1 .. n) : \E s \in [1 .. Cardinality(S) -> S] : Ascends(s)

LEMMA AllListable == \A n \in Nat : Listable(n)
<1>1. SUFFICES ASSUME {n \in Nat : ~Listable(n)} # {} PROVE FALSE
  OBVIOUS
<1>2. PICK m \in {n \in Nat : ~Listable(n)} : \A y \in {n \in Nat : ~Listable(n)} : m <= y
  BY <1>1, LeastExists
<1>3. Listable(0)
  <2>1. SUFFICES ASSUME NEW S \in SUBSET (1 .. 0)
                 PROVE  \E s \in [1 .. Cardinality(S) -> S] : Ascends(s)
    BY DEF Listable
  <2>2. S = {} /\ Cardinality(S) = 0
    <3>1. S = {}
      OBVIOUS
    <3>2. QED
      BY <3>1, FS_EmptySet
  <2>3. <<>> \in [1 .. 0 -> S] /\ Ascends(<<>>)
    BY DEF Ascends
  <2>4. QED
    BY <2>2, <2>3
<1>4. m \in Nat /\ m # 0 /\ m - 1 \in Nat /\ Listable(m - 1)
  BY <1>2, <1>3
<1>5. Listable(m)
  <2>1. SUFFICES ASSUME NEW S \in SUBSET (1 .. m)
                 PROVE  \E s \in [1 .. Cardinality(S) -> S] : Ascends(s)
    BY DEF Listable
  <2>2. IsFiniteSet(S)
    BY <1>4, FiniteInterval
  <2> DEFINE T == S \ {m}
  <2>3. T \in SUBSET (1 .. m - 1) /\ IsFiniteSet(T) /\ Cardinality(T) \in Nat
    BY <2>2, FS_RemoveElement, FS_CardinalityType
  <2>4. PICK t \in [1 .. Cardinality(T) -> T] : Ascends(t)
    BY <1>4, <2>3 DEF Listable
  <2>5. CASE m \notin S
    BY <2>4, <2>5
  <2>6. CASE m \in S
    <3>1. Cardinality(S) = Cardinality(T) + 1
      <4>1. S = T \cup {m} /\ m \notin T
        BY <2>6
      <4> HIDE DEF T
      <4>2. QED
        BY <2>3, <4>1, FS_AddElement
    <3> HIDE DEF T
    <3>k. PICK k \in Nat : k = Cardinality(T)
      BY <2>3
    <3>0. /\ \A x \in T : x \in S /\ x \in Nat /\ x < m
          /\ t \in [1 .. k -> T] /\ Ascends(t) /\ Cardinality(S) = k + 1
      <4>1. \A x \in T : x \in S /\ x \in 1 .. m - 1
        BY <2>3 DEF T
      <4>2. t \in [1 .. k -> T] /\ Ascends(t) /\ Cardinality(S) = k + 1
        BY <2>4, <3>1, <3>k
      <4>3. QED
        BY <1>4, <4>1, <4>2
    <3> DEFINE s == [i \in 1 .. k + 1 |-> IF i = k + 1 THEN m ELSE t[i]]
    <3>2. s \in [1 .. Cardinality(S) -> S]
      <4>1. \A i \in 1 .. k + 1 : s[i] \in S
        <5>1. \A i \in 1 .. k + 1 : i # k + 1 => i \in 1 .. k
          OBVIOUS
        <5>2. QED
          BY <2>6, <3>0, <5>1
      <4>2. QED
        BY <3>0, <4>1
    <3>3. \A i \in 1 .. k : t[i] \in Nat /\ t[i] < m
      BY <1>4, <3>0
    <3>4. Ascends(s)
      <4>1. SUFFICES ASSUME NEW i \in 1 .. k + 1, NEW j \in 1 .. k + 1, i < j
                     PROVE  s[i] < s[j]
        BY DEF Ascends
      <4>2. i \in 1 .. k /\ s[i] = t[i]
        BY <4>1
      <4>3. CASE j = k + 1
        BY <3>3, <4>2, <4>3
      <4>4. CASE j # k + 1
        <5>1. j \in 1 .. k /\ s[j] = t[j]
          BY <4>4
        <5>2. DOMAIN t = 1 .. k
          BY <3>0
        <5>3. QED
          BY <3>0, <4>1, <4>2, <5>1, <5>2 DEF Ascends
      <4>5. QED
        BY <4>3, <4>4
    <3>5. QED
      BY <3>2, <3>4
  <2>7. QED
    BY <2>5, <2>6
<1>6. QED
  BY <1>2, <1>5

\* NewIds lists exactly the new messages, each of them once.
LEMMA NewIdsAre ==
  ASSUME NEW c \in Chat, NEW upto \in Nat
  PROVE  /\ NewIds(c, upto) \in Seq(Fresh(c, upto))
         /\ Ascends(NewIds(c, upto))
         /\ \A n \in Fresh(c, upto) : \E k \in DOMAIN NewIds(c, upto) : NewIds(c, upto)[k] = n
<1> DEFINE S == Fresh(c, upto)
           s == NewIds(c, upto)
<1>1. S \in SUBSET (1 .. upto) /\ S \in SUBSET Nat
  BY DEF Fresh
<1>2. IsFiniteSet(S) /\ Cardinality(S) \in Nat
  BY <1>1, FiniteInterval
<1> HIDE DEF S
<1>3. s \in [1 .. Cardinality(S) -> S] /\ Ascends(s)
  <2>1. \E x \in [1 .. Cardinality(S) -> S] : Ascends(x)
    BY <1>1, AllListable DEF Listable
  <2>2. QED
    BY <2>1 DEF NewIds, Ascends, S
<1> HIDE DEF s
<1>4. s \in Injection(1 .. Cardinality(S), S)
  <2>1. \A j, k \in 1 .. Cardinality(S) : j # k => s[j] # s[k]
    <3>1. \A j \in 1 .. Cardinality(S) : s[j] \in Nat
      BY <1>1, <1>3
    <3>2. ASSUME NEW j \in 1 .. Cardinality(S), NEW k \in 1 .. Cardinality(S), j # k
          PROVE  s[j] # s[k]
      BY <1>2, <1>3, <3>1, <3>2 DEF Ascends
    <3>3. QED
      BY <3>2
  <2>2. QED
    BY <1>3, <2>1 DEF Injection, IsInjective
<1>5. s \in Surjection(1 .. Cardinality(S), S)
  <2>1. Cardinality(1 .. Cardinality(S)) = Cardinality(S)
    BY <1>2, FS_Interval
  <2>2. QED
    BY <1>2, <1>4, <2>1, FS_Injection
<1>6. s \in Seq(S)
  BY <1>2, <1>3
<1>7. \A n \in S : \E k \in DOMAIN s : s[k] = n
  BY <1>3, <1>5 DEF Surjection
<1>8. QED
  BY <1>3, <1>6, <1>7 DEF S, s

\* The watermark of a fetched chat only ever rises, to the newest new message.
LEMMA PassedIs ==
  ASSUME NEW c \in Chat, NEW upto \in Nat, seen.msgs[c] \in Nat
  PROVE  /\ Passed(c, upto) = seen.msgs[c] \/ Passed(c, upto) \in Fresh(c, upto)
         /\ \A n \in Fresh(c, upto) : n <= Passed(c, upto)
         /\ seen.msgs[c] <= Passed(c, upto)
         /\ \A n \in Fresh(c, upto) : n \in 1 .. upto /\ seen.msgs[c] < n
<1> DEFINE S == Fresh(c, upto)
           s == NewIds(c, upto)
<1>1. \A n \in S : n \in 1 .. upto /\ n \in Nat /\ seen.msgs[c] < n
  BY DEF Fresh, IsNew
<1>2. /\ s \in Seq(S) /\ Ascends(s)
      /\ \A n \in S : \E k \in DOMAIN s : s[k] = n
  BY NewIdsAre
<1>3. Passed(c, upto) = IF s = <<>> THEN seen.msgs[c] ELSE s[Len(s)]
  BY DEF Passed, Last
<1> HIDE DEF S, s
<1>4. CASE s = <<>>
  <2>1. S = {}
    BY <1>2, <1>4
  <2>2. QED
    BY <1>3, <1>4, <2>1 DEF S
<1>5. CASE s # <<>>
  <2>1. Len(s) \in Nat /\ Len(s) \in DOMAIN s /\ s[Len(s)] \in S /\ DOMAIN s = 1 .. Len(s)
    BY <1>2, <1>5, LenProperties, EmptySeq
  <2>2. \A k \in DOMAIN s : s[k] \in Nat /\ s[Len(s)] \in Nat /\ s[k] <= s[Len(s)]
    <3>1. \A k \in DOMAIN s : s[k] \in Nat /\ s[Len(s)] \in Nat
      BY <1>1, <1>2, <2>1
    <3>2. ASSUME NEW k \in DOMAIN s
          PROVE  s[k] <= s[Len(s)]
      BY <1>2, <2>1, <3>1 DEF Ascends
    <3>3. QED
      BY <3>1, <3>2
  <2>3. \A n \in S : n <= s[Len(s)]
    BY <1>2, <2>2
  <2>4. seen.msgs[c] <= s[Len(s)]
    BY <1>1, <2>1
  <2>5. QED
    BY <1>1, <1>3, <1>5, <2>1, <2>3, <2>4 DEF S
<1>6. QED
  BY <1>4, <1>5

-----------------------------------------------------------------------------
(* The events of a poll.                                                    *)

LEMMA NewOrderEventsAre ==
  ASSUME NewOrders \subseteq Order, IsFiniteSet(NewOrders)
  PROVE  LET es == NewOrderEvents IN
         /\ es \in Seq(Event)
         /\ \A k \in DOMAIN es : es[k].kind = "order" /\ es[k].order \in NewOrders
         /\ \A j, k \in DOMAIN es : j # k => es[j].order # es[k].order
<1> DEFINE s == SetToSeq(NewOrders)
           es == NewOrderEvents
<1>1. PICK n \in Nat : n = Cardinality(NewOrders)
  BY FS_CardinalityType
<1>2. s \in [1 .. n -> NewOrders] /\ \A j, k \in 1 .. n : s[j] = s[k] => j = k
  <2>1. ExistsBijection(1 .. n, NewOrders)
    BY <1>1, FS_CardinalityType
  <2>2. \E f \in [1 .. n -> NewOrders] : IsInjective(f)
    BY <2>1 DEF ExistsBijection, Bijection, Injection
  <2>3. s \in [1 .. n -> NewOrders] /\ IsInjective(s)
    BY <1>1, <2>2 DEF SetToSeq
  <2>4. QED
    BY <2>3 DEF IsInjective
<1>3. es = [k \in 1 .. n |-> [kind |-> "order", order |-> s[k]]]
  BY <1>2 DEF NewOrderEvents
<1> HIDE DEF s
<1>4. \A k \in 1 .. n : [kind |-> "order", order |-> s[k]] \in Event
  BY <1>2 DEF Event
<1>5. es \in Seq(Event) /\ DOMAIN es = 1 .. n
  BY <1>3, <1>4
<1>6. \A k \in 1 .. n : es[k].kind = "order" /\ es[k].order = s[k]
  BY <1>3
<1> HIDE DEF es
<1>7. QED
  BY <1>2, <1>5, <1>6 DEF es

\* No new order is left out.
LEMMA NewOrderEventsAll ==
  ASSUME IsFiniteSet(NewOrders)
  PROVE  \A o \in NewOrders : \E k \in DOMAIN NewOrderEvents :
           NewOrderEvents[k].kind = "order" /\ NewOrderEvents[k].order = o
<1> DEFINE s == SetToSeq(NewOrders)
<1>1. PICK n \in Nat : n = Cardinality(NewOrders)
  BY FS_CardinalityType
<1>2. s \in Injection(1 .. n, NewOrders)
  <2>1. ExistsBijection(1 .. n, NewOrders)
    BY <1>1, FS_CardinalityType
  <2>2. \E f \in [1 .. n -> NewOrders] : IsInjective(f)
    BY <2>1 DEF ExistsBijection, Bijection, Injection
  <2>3. s \in [1 .. n -> NewOrders] /\ IsInjective(s)
    BY <1>1, <2>2 DEF SetToSeq
  <2>4. QED
    BY <2>3 DEF Injection
<1>3. s \in Surjection(1 .. n, NewOrders)
  <2>1. IsFiniteSet(1 .. n) /\ Cardinality(1 .. n) = n
    BY FS_Interval
  <2>2. QED
    BY <1>1, <1>2, <2>1, FS_Injection
<1>4. DOMAIN s = 1 .. n /\ \A o \in NewOrders : \E k \in 1 .. n : s[k] = o
  BY <1>3 DEF Surjection
<1> HIDE DEF s
<1>5. NewOrderEvents = [k \in 1 .. n |-> [kind |-> "order", order |-> s[k]]]
  BY <1>4 DEF NewOrderEvents, s
<1>6. QED
  BY <1>4, <1>5

LEMMA MessageEventsAre ==
  ASSUME NEW c \in Chat, NEW upto \in MsgId
  PROVE  LET es == MessageEvents(c, upto) IN
         /\ es \in Seq(Event)
         /\ \A k \in DOMAIN es : es[k].kind = "message" /\ es[k].chat = c
                                 /\ es[k].id \in Fresh(c, upto)
         /\ \A j, k \in DOMAIN es : j < k => es[j].id < es[k].id
         /\ \A n \in Fresh(c, upto) : \E k \in DOMAIN es : es[k].id = n
<1> DEFINE s == NewIds(c, upto)
           S == Fresh(c, upto)
           es == MessageEvents(c, upto)
<1>0. upto \in Nat /\ S \subseteq MsgId
  BY BotAssumption DEF MsgId, Fresh
<1> HIDE DEF S
<1>1. /\ s \in Seq(S) /\ Ascends(s)
      /\ \A n \in S : \E k \in DOMAIN s : s[k] = n
  BY <1>0, NewIdsAre DEF S
<1>2. PICK n \in Nat : n = Len(s) /\ DOMAIN s = 1 .. n /\ \A k \in 1 .. n : s[k] \in S
  BY <1>1, LenProperties
<1>3. es = [k \in 1 .. n |-> [kind |-> "message", chat |-> c, id |-> s[k]]]
  BY <1>2 DEF MessageEvents
<1> HIDE DEF s
<1>4. \A k \in 1 .. n : [kind |-> "message", chat |-> c, id |-> s[k]] \in Event
  BY <1>0, <1>2 DEF Event
<1>5. es \in Seq(Event) /\ DOMAIN es = 1 .. n
  BY <1>3, <1>4
<1>6. \A k \in 1 .. n : es[k].kind = "message" /\ es[k].chat = c /\ es[k].id = s[k]
  BY <1>3
<1> HIDE DEF es
<1>7. QED
  BY <1>1, <1>2, <1>5, <1>6 DEF Ascends, es, S

LEMMA EventIs ==
  ASSUME NEW e \in Event
  PROVE  \/ e.kind = "order" /\ e.order \in Order
         \/ e.kind = "message" /\ e.chat \in Chat /\ e.id \in MsgId
BY DEF Event

-----------------------------------------------------------------------------
(* Types, and where things are in each phase.                               *)

Shape == TypeOK /\ IsFiniteSet(placed)

Zeros == [c \in Chat |-> 0]

Places ==
  /\ phase \notin {"fetch", "mark", "handle"} => events = <<>>
  /\ phase # "fetch" => results = {}
  /\ phase \notin {"bootChats", "fetch"} => fetches = {}
  /\ phase \notin {"fetch", "mark"} => marks = {}
  /\ phase # "bootChats" => pledge = Zeros
  /\ phase \in {"bootOrders", "bootChats"} => Bootstraps
  /\ phase = "down" => seen = NothingSeen
  /\ file.state # "saved" => file.seen = NothingSeen
  /\ marks # {} => ~EmitMessagesForNewOrders

LEMMA Zero == 0 \in MsgId
  BY BotAssumption DEF MsgId

LEMMA NothingSeenType == NothingSeen \in Seen /\ Corrupt.seen = NothingSeen /\ NoFile.seen = NothingSeen
  BY Zero DEF NothingSeen, Seen, Corrupt, NoFile

\* A write to one chat's watermark.
LEMMA MsgsIs ==
  ASSUME seen \in Seen, NEW c \in Chat, NEW n \in MsgId, seen' = [seen EXCEPT !.msgs[c] = n]
  PROVE  /\ seen' \in Seen /\ seen'.orders = seen.orders
         /\ seen'.msgs = [seen.msgs EXCEPT ![c] = n]
         /\ \A d \in Chat : seen'.msgs[d] = IF d = c THEN n ELSE seen.msgs[d]
<1>1. seen = [orders |-> seen.orders, msgs |-> seen.msgs] /\ seen.msgs \in [Chat -> MsgId]
  BY DEF Seen
<1>2. seen' = [orders |-> seen.orders, msgs |-> [seen.msgs EXCEPT ![c] = n]]
  BY <1>1
<1>3. QED
  BY <1>1, <1>2 DEF Seen

LEMMA OrdersIs ==
  ASSUME seen \in Seen, NEW S \in SUBSET Order, seen' = [seen EXCEPT !.orders = @ \cup S]
  PROVE  /\ seen' \in Seen /\ seen'.orders = seen.orders \cup S /\ seen'.msgs = seen.msgs
  BY DEF Seen

LEMMA RaisedIs ==
  ASSUME TypeOK, NEW c \in Chat
  PROVE  /\ Raised(c, sent[c]) \in MsgId
         /\ seen.msgs[c] <= Raised(c, sent[c]) /\ sent[c] <= Raised(c, sent[c])
         /\ Raised(c, sent[c]) \in {seen.msgs[c], sent[c]}
  BY BotAssumption DEF TypeOK, Seen, Raised, SetMax, MsgId

LEMMA PassedType ==
  ASSUME TypeOK, NEW c \in Chat, NEW upto \in MsgId
  PROVE  Passed(c, upto) \in MsgId /\ Passed(c, upto) <= SetMax(seen.msgs[c], upto)
<1>1. upto \in Nat /\ seen.msgs[c] \in MsgId /\ seen.msgs[c] \in Nat
  BY BotAssumption DEF TypeOK, Seen, MsgId
<1>2. QED
  BY <1>1, PassedIs, BotAssumption DEF MsgId, SetMax

LEMMA LoadedIs ==
  ASSUME TypeOK, Places
  PROVE  /\ Loaded \in Seen
         /\ Loaded.orders = seen.orders \cup file.seen.orders
         /\ \A c \in Chat : Loaded.msgs[c] = IF file.seen.msgs[c] = 0 THEN seen.msgs[c]
                                                                    ELSE file.seen.msgs[c]
<1>1. seen \in Seen /\ file.seen \in Seen
  BY DEF TypeOK
<1>2. CASE file.state = "saved"
  BY <1>1, <1>2 DEF Loaded, Seen
<1>3. CASE file.state # "saved"
  <2>1. file.seen = NothingSeen /\ Loaded = seen
    BY <1>3 DEF Places, Loaded
  <2>2. QED
    BY <1>1, <2>1 DEF NothingSeen
<1>4. QED
  BY <1>2, <1>3

\* A save that fails, or that a crash interrupts, leaves the old file or none.
LEMMA SaveIs ==
  ASSUME TypeOK, SaveState
  PROVE  /\ file' \in [state : {"missing", "corrupt", "saved"}, seen : Seen]
         /\ badSaves' \in 0 .. MaxBadSaves
         /\ file' \in {Saved, file, Corrupt}
         /\ MaxBadSaves = 0 => file' = Saved
         /\ Saved.state = "saved" /\ Saved.seen = seen
         /\ Corrupt.state = "corrupt" /\ Corrupt.seen = NothingSeen
  BY NothingSeenType, BotAssumption DEF SaveState, BadSave, Saved, Corrupt, TypeOK

LEMMA DownType ==
  ASSUME Shape, Places, GoDown, badSaves' \in 0 .. MaxBadSaves,
         file' \in [state : {"missing", "corrupt", "saved"}, seen : Seen],
         file'.state # "saved" => file'.seen = NothingSeen
  PROVE  Shape' /\ Places'
<1>1. Zeros \in [Chat -> MsgId]
  BY Zero DEF Zeros
<1>2. QED
  BY <1>1, NothingSeenType DEF GoDown, Shape, TypeOK, Places, Phases, world, outside, Zeros

LEMMA InitShape == Init => Shape /\ Places
<1>1. Zeros \in [Chat -> MsgId]
  BY Zero DEF Zeros
<1>2. NoFile \in [state : {"missing", "corrupt", "saved"}, seen : Seen]
  BY NothingSeenType DEF NoFile
<1>3. 0 \in 0 .. MaxBadSaves
  BY BotAssumption
<1>4. QED
  BY <1>1, <1>2, <1>3, NothingSeenType, FS_EmptySet
  DEF Init, Shape, TypeOK, Places, Phases, Zeros

LEMMA WorldShape == Shape /\ Places /\ World => Shape' /\ Places'
<1> SUFFICES ASSUME Shape, Places, World PROVE Shape' /\ Places'
  OBVIOUS
<1> USE DEF disk, poll, outside, pledges
<1>1. ASSUME NEW o \in Order, Place(o)
      PROVE  Shape' /\ Places'
  BY <1>1, FS_AddElement DEF Place, Shape, TypeOK, Places
<1>2. ASSUME NEW o \in Order, Close(o) \/ Drop(o)
      PROVE  Shape' /\ Places'
  BY <1>2 DEF Close, Drop, Shape, TypeOK, Places
<1>3. ASSUME NEW c \in Chat, NEW byMe \in BOOLEAN, Write(c, byMe)
      PROVE  Shape' /\ Places'
  <2>1. sent[c] + 1 \in MsgId
    BY <1>3, BotAssumption DEF Write, Shape, TypeOK, MsgId
  <2>2. QED
    BY <1>3, <2>1 DEF Write, Shape, TypeOK, Places
<1>4. QED
  BY <1>1, <1>2, <1>3 DEF World

LEMMA BootShape ==
  ASSUME Shape, Places,
         BootstrapOrders \/ BootstrapSave \/ \E o \in Order : BootstrapChat(o)
  PROVE  Shape' /\ Places'
<1> USE DEF world, disk, poll, outside, pledges, Shape, Places
<1>1. CASE BootstrapOrders
  <2>1. OnPage \in [Chat -> MsgId] /\ listed \in SUBSET Order
    BY Zero DEF OnPage, TypeOK
  <2>2. seen' \in Seen
    BY <1>1, <2>1, OrdersIs DEF BootstrapOrders, TypeOK
  <2>3. QED
    BY <1>1, <2>1, <2>2 DEF BootstrapOrders, TypeOK, Phases
<1>2. ASSUME NEW o \in Order, BootstrapChat(o)
      PROVE  Shape' /\ Places'
  <2>1. ChatOf[o] \in Chat
    BY BotAssumption
  <2>2. seen' \in Seen
    BY <1>2, <2>1, RaisedIs, MsgsIs DEF BootstrapChat, TypeOK
  <2>3. QED
    BY <1>2, <2>2 DEF BootstrapChat, TypeOK
<1>3. CASE BootstrapSave
  <2>1. /\ file' \in [state : {"missing", "corrupt", "saved"}, seen : Seen]
        /\ badSaves' \in 0 .. MaxBadSaves
        /\ file'.state # "saved" => file'.seen = NothingSeen
    BY <1>3, SaveIs DEF BootstrapSave
  <2>2. skip' \in [Chat -> MsgId] /\ pledge' = Zeros /\ Zeros \in [Chat -> MsgId]
    BY <1>3, Zero DEF BootstrapSave, TypeOK, SetMax, Zeros
  <2>3. QED
    BY <1>3, <2>1, <2>2 DEF BootstrapSave, TypeOK, Phases
<1>4. QED
  BY <1>1, <1>2, <1>3

LEMMA PollShape ==
  ASSUME Shape, Places,
         \/ LoadState \/ FetchOrders \/ AllCollected \/ PersistState \/ Handle \/ Sleep
         \/ \E o \in Order : FetchChatMessages(o) \/ FetchChatError(o) \/ MarkChat(o)
         \/ \E r \in results : Collect(r)
  PROVE  Shape' /\ Places'
<1> USE DEF world, disk, poll, outside, pledges, Shape, Places
<1>1. CASE LoadState
  BY <1>1, LoadedIs DEF LoadState, TypeOK, Phases
<1>2. CASE FetchOrders
  <2>1. listed \in SUBSET Order /\ NewOrders \subseteq Order /\ IsFiniteSet(NewOrders)
    BY FS_Subset DEF TypeOK, NewOrders
  <2>2. seen' \in Seen
    BY <1>2, <2>1, OrdersIs DEF FetchOrders, TypeOK
  <2>3. events' \in Seq(Event)
    BY <1>2, <2>1, NewOrderEventsAre DEF FetchOrders
  <2>4. fetches' \subseteq Order /\ marks' \subseteq Order
    BY <1>2, <2>1 DEF FetchOrders
  <2>5. marks' # {} => ~EmitMessagesForNewOrders
    BY <1>2 DEF FetchOrders, NeedsFetch
  <2>6. QED
    BY <1>2, <2>2, <2>3, <2>4, <2>5 DEF FetchOrders, TypeOK, Phases
<1>3. CASE AllCollected \/ Sleep
  BY <1>3 DEF AllCollected, Sleep, TypeOK, Phases
<1>4. CASE PersistState
  <2>1. /\ file' \in [state : {"missing", "corrupt", "saved"}, seen : Seen]
        /\ badSaves' \in 0 .. MaxBadSaves
        /\ file'.state # "saved" => file'.seen = NothingSeen
    BY <1>4, SaveIs DEF PersistState
  <2>2. QED
    BY <1>4, <2>1 DEF PersistState, TypeOK, Phases
<1>5. CASE Handle
  <2>1. Head(events) \in Event /\ Tail(events) \in Seq(Event)
    BY <1>5, HeadTailProperties DEF Handle, TypeOK
  <2>2. CASE Head(events).kind = "order"
    <3>1. told' \in [Order -> Nat] /\ heard' = heard
      BY <1>5, <2>1, <2>2, EventIs DEF Handle, TypeOK
    <3>2. QED
      BY <1>5, <2>1, <3>1 DEF Handle, TypeOK
  <2>3. CASE Head(events).kind # "order"
    <3>1. heard' \in [Chat -> Seq(MsgId)] /\ told' = told
      <4> DEFINE e == Head(events)
      <4>1. e.chat \in Chat /\ e.id \in MsgId
        BY <2>1, <2>3, EventIs
      <4>2. heard \in [Chat -> Seq(MsgId)] /\ heard[e.chat] \in Seq(MsgId)
        BY <4>1 DEF TypeOK
      <4>3. Append(heard[e.chat], e.id) \in Seq(MsgId)
        BY <4>1, <4>2, AppendProperties
      <4>4. heard' = [heard EXCEPT ![e.chat] = Append(heard[e.chat], e.id)] /\ told' = told
        BY <1>5, <2>3 DEF Handle
      <4> HIDE DEF e
      <4>5. QED
        BY <4>1, <4>2, <4>3, <4>4
    <3>2. QED
      BY <1>5, <2>1, <3>1 DEF Handle, TypeOK
  <2>4. QED
    BY <2>2, <2>3
<1>6. ASSUME NEW o \in Order, FetchChatMessages(o) \/ FetchChatError(o)
      PROVE  Shape' /\ Places'
  <2>1. [order |-> o, upto |-> sent[ChatOf[o]]] \in [order : Order, upto : MsgId]
    BY BotAssumption DEF TypeOK
  <2>2. results' \subseteq [order : Order, upto : MsgId]
    BY <1>6, <2>1 DEF FetchChatMessages, FetchChatError, TypeOK
  <2>3. QED
    BY <1>6, <2>2 DEF FetchChatMessages, FetchChatError, TypeOK
<1>7. ASSUME NEW o \in Order, MarkChat(o)
      PROVE  Shape' /\ Places'
  <2>1. ChatOf[o] \in Chat
    BY BotAssumption
  <2>2. seen' \in Seen
    BY <1>7, <2>1, RaisedIs, MsgsIs DEF MarkChat, TypeOK
  <2>3. QED
    BY <1>7, <2>2 DEF MarkChat, TypeOK
<1>8. ASSUME NEW r \in results, Collect(r)
      PROVE  Shape' /\ Places'
  <2>1. ChatOf[r.order] \in Chat /\ r.upto \in MsgId
    BY BotAssumption DEF TypeOK
  <2>2. seen' \in Seen
    BY <1>8, <2>1, PassedType, MsgsIs DEF Collect, TypeOK
  <2>3. events' \in Seq(Event)
    BY <1>8, <2>1, MessageEventsAre, ConcatProperties DEF Collect, TypeOK
  <2>4. QED
    BY <1>8, <2>2, <2>3 DEF Collect, TypeOK
<1>9. QED
  BY <1>1, <1>2, <1>3, <1>4, <1>5, <1>6, <1>7, <1>8

LEMMA NextShape == Shape /\ Places /\ [Next]_vars => Shape' /\ Places'
<1> SUFFICES ASSUME Shape, Places, [Next]_vars PROVE Shape' /\ Places'
  OBVIOUS
<1> USE DEF world, disk, poll, outside, pledges
<1>1. CASE NewBot
  BY <1>1, NothingSeenType DEF NewBot, Shape, TypeOK, Places, Phases
<1>2. CASE Stop
  <2>1. CASE Persistent
    BY <1>2, <2>1, SaveIs, DownType DEF Stop, Shape, Places
  <2>2. CASE ~Persistent
    <3>1. NoFile \in [state : {"missing", "corrupt", "saved"}, seen : Seen]
      BY NothingSeenType DEF NoFile
    <3>2. QED
      BY <1>2, <2>2, <3>1, NothingSeenType, DownType DEF Stop, Shape, TypeOK
  <2>3. QED
    BY <2>1, <2>2
<1>3. CASE Crash
  <2>1. NoFile \in [state : {"missing", "corrupt", "saved"}, seen : Seen]
    BY NothingSeenType DEF NoFile
  <2>2. QED
    BY <1>3, <2>1, NothingSeenType, DownType DEF Crash, StateAfterCrash, Shape, TypeOK, Places
<1>4. CASE UNCHANGED vars
  BY <1>4 DEF vars, Shape, TypeOK, Places
<1>5. QED
  BY <1>1, <1>2, <1>3, <1>4, WorldShape, BootShape, PollShape DEF Next, BotStep

\* Every variable of the bot keeps its type.
THEOREM TypeCorrect == Spec => []TypeOK
<1>1. Shape => TypeOK
  BY DEF Shape
<1>2. QED
  BY <1>1, InitShape, NextShape, PTL DEF Spec

\* Nothing of a poll is left over when the bot is elsewhere: each local of
\* pollOnce and Bootstrap is empty outside the phases that use it.
THEOREM Shaped == Spec => [](Shape /\ Places)
BY InitShape, NextShape, PTL DEF Spec

-----------------------------------------------------------------------------
(* Nothing is remembered but what the marketplace has.                      *)

Grounds(m) ==
  /\ m.orders \subseteq placed
  /\ \A c \in Chat : m.msgs[c] <= sent[c]
  /\ \A c \in Chat : m.msgs[c] > 0 => \E o \in placed : ChatOf[o] = c

Grounded ==
  /\ Grounds(seen) /\ Grounds(file.seen)
  /\ fetches \subseteq placed /\ marks \subseteq placed
  /\ \A r \in results : r.order \in placed /\ r.upto <= sent[ChatOf[r.order]]
  /\ \A c \in Chat : pledge[c] <= sent[c]
  /\ ~Closes => listed = placed /\ closed = {}

\* The marketplace never takes an order or a message back.
Onward ==
  /\ placed \subseteq placed'
  /\ \A c \in Chat : sent[c] \in Nat /\ sent'[c] \in Nat /\ sent[c] <= sent'[c]

LEMMA StaysOnward == TypeOK /\ UNCHANGED world => Onward
  BY BotAssumption DEF TypeOK, Onward, world, MsgId

LEMMA GroundsKept ==
  ASSUME Onward, NEW m \in Seen, Grounds(m)
  PROVE  /\ m.orders \subseteq placed'
         /\ \A c \in Chat : m.msgs[c] <= sent'[c]
         /\ \A c \in Chat : m.msgs[c] > 0 => \E o \in placed' : ChatOf[o] = c
<1>1. \A c \in Chat : m.msgs[c] \in Nat
  BY BotAssumption DEF Seen, MsgId
<1>2. QED
  BY <1>1 DEF Onward, Grounds

LEMMA NothingGrounded ==
  ASSUME TypeOK
  PROVE  Grounds(NothingSeen)
  BY BotAssumption DEF Grounds, NothingSeen, TypeOK, MsgId

LEMMA InitGrounded == Init => Grounded
<1> SUFFICES ASSUME Init PROVE Grounded
  OBVIOUS
<1>1. TypeOK
  BY InitShape DEF Shape
<1>2. Grounds(NothingSeen) /\ seen = NothingSeen /\ file.seen = NothingSeen
  BY <1>1, NothingGrounded, NothingSeenType DEF Init
<1>3. QED
  BY <1>2 DEF Init, Grounded

LEMMA WorldGrounded == Shape /\ Grounded /\ World => Grounded'
<1> SUFFICES ASSUME Shape, Grounded, World PROVE Grounded'
  OBVIOUS
<1> USE DEF disk, poll, outside, pledges
<1>1. Onward
  <2>1. \A c \in Chat : sent[c] \in Nat
    BY BotAssumption DEF Shape, TypeOK, MsgId
  <2>2. ASSUME NEW o \in Order, Place(o) \/ Close(o) \/ Drop(o)
        PROVE  Onward
    BY <2>1, <2>2 DEF Place, Close, Drop, Onward
  <2>3. ASSUME NEW c \in Chat, NEW byMe \in BOOLEAN, Write(c, byMe)
        PROVE  Onward
    BY <2>1, <2>3 DEF Write, Onward, Shape, TypeOK
  <2>4. QED
    BY <2>2, <2>3 DEF World
<1>2. UNCHANGED <<seen, file, fetches, marks, results, pledge>>
  BY DEF World, Place, Close, Drop, Write
<1>3. (Grounds(seen) /\ Grounds(file.seen))'
  BY <1>1, <1>2, GroundsKept DEF Grounded, Shape, TypeOK, Grounds
<1>4. \A r \in results : r.order \in placed /\ r.upto <= sent'[ChatOf[r.order]]
  <2>1. \A r \in results : r.upto \in Nat /\ ChatOf[r.order] \in Chat
    BY BotAssumption DEF Shape, TypeOK, MsgId
  <2>2. QED
    BY <1>1, <2>1 DEF Grounded, Onward
<1>5. \A c \in Chat : pledge[c] <= sent'[c]
  <2>1. \A c \in Chat : pledge[c] \in Nat
    BY BotAssumption DEF Shape, TypeOK, MsgId
  <2>2. QED
    BY <1>1, <2>1 DEF Grounded, Onward
<1>6. ~Closes => listed' = placed' /\ closed' = {}
  BY DEF Grounded, World, Place, Close, Drop, Write
<1>7. QED
  BY <1>1, <1>2, <1>3, <1>4, <1>5, <1>6 DEF Grounded, Onward

\* A step of the bot that leaves the marketplace alone, by what it sets.
LEMMA StepGrounded ==
  ASSUME Shape, Grounded, UNCHANGED world,
         Grounds(seen)', Grounds(file.seen)',
         fetches' \subseteq placed, marks' \subseteq placed,
         \A r \in results' : r.order \in placed /\ r.upto <= sent[ChatOf[r.order]],
         \A c \in Chat : pledge'[c] <= sent[c]
  PROVE  Grounded'
  BY DEF Grounded, world

LEMMA SameGrounds ==
  ASSUME Grounded, UNCHANGED world
  PROVE  /\ seen' = seen => Grounds(seen)'
         /\ seen' = NothingSeen /\ TypeOK => Grounds(seen)'
         /\ file'.seen = file.seen => Grounds(file.seen)'
         /\ file'.seen = seen => Grounds(file.seen)'
         /\ file'.seen = NothingSeen /\ TypeOK => Grounds(file.seen)'
  BY NothingGrounded DEF Grounded, Grounds, world

\* One chat's watermark may rise to what the chat holds, if an order is in it.
LEMMA RaiseGrounded ==
  ASSUME TypeOK, Grounded, UNCHANGED world, NEW o \in placed, NEW n \in MsgId,
         seen' = [seen EXCEPT !.msgs[ChatOf[o]] = n], n <= sent[ChatOf[o]]
  PROVE  Grounds(seen)'
<1>1. ChatOf[o] \in Chat /\ seen \in Seen
  BY BotAssumption DEF TypeOK
<1>2. /\ seen'.orders = seen.orders
      /\ \A d \in Chat : seen'.msgs[d] = IF d = ChatOf[o] THEN n ELSE seen.msgs[d]
  BY <1>1, MsgsIs
<1>3. QED
  BY <1>2 DEF Grounded, Grounds, world

LEMMA NextGrounded == Shape /\ Places /\ Grounded /\ [Next]_vars => Grounded'
<1> SUFFICES ASSUME Shape, Places, Grounded, [Next]_vars PROVE Grounded'
  OBVIOUS
<1> USE DEF Shape, Grounded, poll, disk, outside, pledges
<1>0. /\ \A c \in Chat : sent[c] \in Nat /\ seen.msgs[c] \in Nat
      /\ listed \subseteq placed /\ placed \subseteq Order
  BY BotAssumption DEF TypeOK, Seen, MsgId
<1>1. CASE World
  BY <1>1, WorldGrounded
<1>2. CASE NewBot
  BY <1>2, StepGrounded, SameGrounds DEF NewBot
<1>3. CASE BootstrapOrders
  <2>1. Grounds(seen)'
    <3>1. CASE seen' = seen
      BY <1>3, <3>1, SameGrounds DEF BootstrapOrders
    <3>2. CASE seen' = [seen EXCEPT !.orders = @ \cup listed]
      <4>1. seen'.orders = seen.orders \cup listed /\ seen'.msgs = seen.msgs
        BY <1>0, <3>2, OrdersIs DEF TypeOK
      <4>2. QED
        BY <1>0, <1>3, <4>1 DEF BootstrapOrders, Grounds, world
    <3>3. QED
      BY <1>3, <3>1, <3>2 DEF BootstrapOrders
  <2>2. \A c \in Chat : pledge'[c] <= sent[c]
    BY <1>0, <1>3 DEF BootstrapOrders, OnPage
  <2>3. QED
    BY <1>0, <1>3, <2>1, <2>2, StepGrounded, SameGrounds DEF BootstrapOrders
<1>4. ASSUME NEW o \in Order, BootstrapChat(o) \/ MarkChat(o)
      PROVE  Grounded'
  <2>1. ChatOf[o] \in Chat /\ o \in placed
    BY <1>4, BotAssumption DEF BootstrapChat, MarkChat
  <2>2. Raised(ChatOf[o], sent[ChatOf[o]]) <= sent[ChatOf[o]]
    BY <1>0, <2>1, RaisedIs DEF Grounds
  <2>3. Grounds(seen)'
    BY <1>4, <2>1, <2>2, RaisedIs, RaiseGrounded, SameGrounds DEF BootstrapChat, MarkChat
  <2>4. QED
    BY <1>4, <2>3, StepGrounded, SameGrounds DEF BootstrapChat, MarkChat
<1>5. CASE BootstrapSave
  <2>1. \A c \in Chat : pledge'[c] <= sent[c]
    BY <1>0, <1>5 DEF BootstrapSave
  <2>2. file'.seen \in {seen, file.seen, NothingSeen}
    BY <1>5, SaveIs DEF BootstrapSave
  <2>3. QED
    BY <1>5, <2>1, <2>2, StepGrounded, SameGrounds DEF BootstrapSave
<1>6. CASE LoadState
  <2>1. Grounds(seen)'
    BY <1>6, LoadedIs DEF LoadState, Grounds, world
  <2>2. QED
    BY <1>6, <2>1, StepGrounded, SameGrounds DEF LoadState
<1>7. CASE FetchOrders
  <2>1. seen'.orders = seen.orders \cup listed /\ seen'.msgs = seen.msgs
    BY <1>0, <1>7, OrdersIs DEF FetchOrders, TypeOK
  <2>2. Grounds(seen)'
    BY <1>0, <1>7, <2>1 DEF FetchOrders, Grounds, world
  <2>3. QED
    BY <1>0, <1>7, <2>2, StepGrounded, SameGrounds DEF FetchOrders
<1>8. ASSUME NEW o \in Order, FetchChatMessages(o) \/ FetchChatError(o)
      PROVE  Grounded'
  <2>1. \A r \in results' : r.order \in placed /\ r.upto <= sent[ChatOf[r.order]]
    BY <1>0, <1>8, BotAssumption DEF FetchChatMessages, FetchChatError
  <2>2. QED
    BY <1>8, <2>1, StepGrounded, SameGrounds DEF FetchChatMessages, FetchChatError
<1>9. ASSUME NEW r \in results, Collect(r)
      PROVE  Grounded'
  <2>1. r.order \in placed /\ ChatOf[r.order] \in Chat /\ r.upto \in MsgId /\ r.upto \in Nat
    BY BotAssumption DEF TypeOK, MsgId
  <2>2. Passed(ChatOf[r.order], r.upto) <= sent[ChatOf[r.order]]
    BY <1>0, <2>1, PassedType, BotAssumption DEF SetMax, Grounds, MsgId
  <2>3. Grounds(seen)'
    BY <1>9, <2>1, <2>2, PassedType, RaiseGrounded DEF Collect
  <2>4. QED
    BY <1>9, <2>3, StepGrounded, SameGrounds DEF Collect
<1>10. CASE AllCollected \/ Handle \/ Sleep
  BY <1>10, StepGrounded, SameGrounds DEF AllCollected, Handle, Sleep
<1>11. CASE PersistState
  <2>1. file'.seen \in {seen, file.seen, NothingSeen}
    BY <1>11, SaveIs DEF PersistState
  <2>2. QED
    BY <1>11, <2>1, StepGrounded, SameGrounds DEF PersistState
<1>12. CASE Stop \/ Crash
  <2>1. file'.seen \in {seen, file.seen, NothingSeen}
    BY <1>12, SaveIs, NothingSeenType DEF Stop, Crash, StateAfterCrash
  <2>2. \A c \in Chat : pledge'[c] <= sent[c]
    BY <1>0, <1>12 DEF Stop, Crash, GoDown
  <2>3. QED
    BY <1>12, <2>1, <2>2, StepGrounded, SameGrounds DEF Stop, Crash, GoDown
<1>13. CASE UNCHANGED vars
  BY <1>13, StepGrounded, SameGrounds DEF vars
<1>14. QED
  BY <1>1, <1>2, <1>3, <1>4, <1>5, <1>6, <1>7, <1>8, <1>9, <1>10, <1>11, <1>12, <1>13
  DEF Next, BotStep

-----------------------------------------------------------------------------
(* What is saved is never more than what is remembered.                     *)

\* Bootstrap starts from an empty memory and overwrites the file: it must see
\* every chat again that the file knows of.
BootstrapsWork == Bootstraps => ~FetchFails /\ ~Closes

Leq(a, b) ==
  /\ a.orders \subseteq b.orders
  /\ \A c \in Chat : a.msgs[c] <= b.msgs[c]

Polling == phase \in {"ready", "fetch", "mark", "handle"}

\* What Bootstrap has not raised to bound yet, it has still to fetch.
Seeding(bound) ==
  \A c \in Chat : bound[c] <= seen.msgs[c] \/ \E o \in fetches : ChatOf[o] = c

Remembers ==
  /\ Polling => Leq(file.seen, seen)
  /\ phase = "bootChats" =>
       /\ file.seen.orders \subseteq seen.orders
       /\ Seeding(file.seen.msgs)
       /\ Seeding(pledge)

LEMMA SeenNat ==
  ASSUME TypeOK
  PROVE  \A c \in Chat : /\ seen.msgs[c] \in Nat /\ file.seen.msgs[c] \in Nat /\ sent[c] \in Nat
                         /\ pledge[c] \in Nat /\ skip[c] \in Nat
  BY BotAssumption DEF TypeOK, Seen, MsgId

LEMMA LeqReflexive ==
  ASSUME NEW a \in Seen
  PROVE  Leq(a, a) /\ Leq(NothingSeen, a)
  BY BotAssumption DEF Leq, Seen, NothingSeen, MsgId

LEMMA LeqTransitive ==
  ASSUME NEW a \in Seen, NEW b \in Seen, NEW d \in Seen, Leq(a, b), Leq(b, d)
  PROVE  Leq(a, d)
<1>1. \A c \in Chat : a.msgs[c] \in Nat /\ b.msgs[c] \in Nat /\ d.msgs[c] \in Nat
  BY BotAssumption DEF Seen, MsgId
<1>2. QED
  BY <1>1 DEF Leq

\* A watermark only rises while the bot runs.
LEMMA RaiseLeq ==
  ASSUME TypeOK, NEW c \in Chat, NEW n \in MsgId, seen.msgs[c] <= n,
         seen' = [seen EXCEPT !.msgs[c] = n]
  PROVE  Leq(seen, seen')
  BY SeenNat, MsgsIs, SMTT(30) DEF TypeOK, Leq

LEMMA MarkLeq ==
  ASSUME TypeOK, NEW o \in Order,
         seen' = seen \/ seen' = [seen EXCEPT !.msgs[ChatOf[o]] = Raised(ChatOf[o], sent[ChatOf[o]])]
  PROVE  Leq(seen, seen')
<1>1. ChatOf[o] \in Chat
  BY BotAssumption
<1>2. QED
  BY <1>1, RaisedIs, RaiseLeq, LeqReflexive DEF TypeOK

LEMMA CollectLeq ==
  ASSUME TypeOK, NEW r \in results, Collect(r)
  PROVE  Leq(seen, seen')
<1>1. r.upto \in MsgId /\ r.upto \in Nat /\ ChatOf[r.order] \in Chat
  BY BotAssumption DEF TypeOK, MsgId
<1>2. /\ Passed(ChatOf[r.order], r.upto) \in MsgId
      /\ seen.msgs[ChatOf[r.order]] <= Passed(ChatOf[r.order], r.upto)
  BY <1>1, SeenNat, PassedIs, PassedType
<1>3. QED
  BY <1>1, <1>2, RaiseLeq DEF Collect

\* Bootstrap's fetch of one chat does its part of any bound.
LEMMA SeedingKept ==
  ASSUME TypeOK, ~FetchFails, NEW o \in Order, BootstrapChat(o),
         NEW bound \in [Chat -> MsgId], \A c \in Chat : bound[c] <= sent[c], Seeding(bound)
  PROVE  \A c \in Chat : bound[c] <= seen'.msgs[c] \/ \E p \in fetches' : ChatOf[p] = c
<1>1. ChatOf[o] \in Chat /\ \A c \in Chat : bound[c] \in Nat
  BY BotAssumption DEF MsgId
<1>2. /\ seen' = [seen EXCEPT !.msgs[ChatOf[o]] = Raised(ChatOf[o], sent[ChatOf[o]])]
      /\ fetches' = fetches \ {o}
  BY DEF BootstrapChat
<1>3. /\ \A c \in Chat : seen.msgs[c] <= seen'.msgs[c] /\ seen'.msgs[c] \in Nat
      /\ sent[ChatOf[o]] <= seen'.msgs[ChatOf[o]]
  <2>1. PICK n \in MsgId : n = Raised(ChatOf[o], sent[ChatOf[o]])
    BY <1>1, RaisedIs
  <2>2. n \in Nat /\ seen.msgs[ChatOf[o]] <= n /\ sent[ChatOf[o]] <= n
    BY <1>1, <2>1, RaisedIs, BotAssumption DEF MsgId
  <2>3. \A c \in Chat : seen'.msgs[c] = IF c = ChatOf[o] THEN n ELSE seen.msgs[c]
    BY <1>1, <1>2, <2>1, MsgsIs DEF TypeOK
  <2>4. QED
    BY <1>1, <2>2, <2>3, SeenNat
<1>4. ASSUME NEW c \in Chat
      PROVE  bound[c] <= seen'.msgs[c] \/ \E p \in fetches' : ChatOf[p] = c
  <2>1. CASE c = ChatOf[o]
    BY <1>1, <1>3, <2>1, SeenNat
  <2>2. CASE c # ChatOf[o]
    BY <1>1, <1>2, <1>3, <2>2, SeenNat DEF Seeding
  <2>3. QED
    BY <2>1, <2>2
<1>5. QED
  BY <1>4

LEMMA NextRemembers ==
  ASSUME BootstrapsWork
  PROVE  Shape /\ Places /\ Grounded /\ Remembers /\ [Next]_vars => Remembers'
<1> SUFFICES ASSUME Shape, Places, Grounded, Remembers, [Next]_vars PROVE Remembers'
  OBVIOUS
<1> USE DEF Shape, poll, disk, outside, pledges
<1>0. TypeOK /\ seen \in Seen /\ file.seen \in Seen /\ TypeOK' /\ seen' \in Seen /\ file'.seen \in Seen
  BY NextShape DEF TypeOK
<1>1. ASSUME ~Polling', phase' # "bootChats"
      PROVE  Remembers'
  BY <1>1 DEF Remembers
<1>2. ASSUME Polling, phase' # "bootChats", file' = file, Leq(seen, seen')
      PROVE  Remembers'
  BY <1>0, <1>2, LeqTransitive DEF Remembers
<1>3. CASE World
  <2>1. UNCHANGED <<phase, seen, file, fetches, pledge>>
    BY <1>3 DEF World, Place, Close, Drop, Write
  <2>2. QED
    BY <2>1 DEF Remembers, Polling, Seeding, Leq
<1>4. CASE NewBot \/ Stop \/ Crash
  BY <1>1, <1>4 DEF NewBot, Stop, Crash, GoDown, Polling
<1>5. CASE BootstrapOrders
  <2>1. CASE phase' = "load"
    BY <1>1, <2>1 DEF Polling
  <2>2. CASE phase' # "load"
    <3>1. Bootstraps /\ ~Closes /\ listed = placed /\ closed = {}
      BY <1>5 DEF BootstrapOrders, Places, BootstrapsWork, Grounded
    <3>2. /\ seen'.orders = seen.orders \cup listed /\ seen'.msgs = seen.msgs
          /\ fetches' = listed /\ pledge' = OnPage /\ file' = file /\ phase' = "bootChats"
      BY <1>0, <1>5, <2>2, <3>1, OrdersIs DEF BootstrapOrders, TypeOK, SeedsChat
    <3>3. \A c \in Chat : file.seen.msgs[c] <= seen.msgs[c] \/ \E o \in placed : ChatOf[o] = c
      BY <1>0, SeenNat DEF Grounded, Grounds
    <3>4. \A c \in Chat : OnPage[c] <= seen.msgs[c] \/ \E o \in listed : ChatOf[o] = c
      BY <1>0, SeenNat DEF OnPage
    <3>5. file.seen.orders \subseteq placed
      BY DEF Grounded, Grounds
    <3>6. QED
      BY <3>1, <3>2, <3>3, <3>4, <3>5 DEF Remembers, Seeding, Polling
  <2>3. QED
    BY <2>1, <2>2
<1>6. ASSUME NEW o \in Order, BootstrapChat(o)
      PROVE  Remembers'
  <2>1. ~FetchFails /\ phase = "bootChats" /\ phase' = phase /\ file' = file /\ pledge' = pledge
    BY <1>6 DEF BootstrapChat, Places, BootstrapsWork
  <2>2. seen'.orders = seen.orders
    BY <1>0, <1>6, <2>1, RaisedIs, MsgsIs, BotAssumption DEF BootstrapChat
  <2>3. Seeding(file.seen.msgs)'
    <3>1. file.seen.msgs \in [Chat -> MsgId] /\ \A c \in Chat : file.seen.msgs[c] <= sent[c]
      BY <1>0 DEF Seen, Grounded, Grounds
    <3>2. \A c \in Chat : file.seen.msgs[c] <= seen'.msgs[c] \/ \E p \in fetches' : ChatOf[p] = c
      BY <1>6, <2>1, <3>1, SeedingKept DEF Remembers
    <3>3. QED
      BY <2>1, <3>2 DEF Seeding
  <2>4. Seeding(pledge)'
    <3>1. pledge \in [Chat -> MsgId] /\ \A c \in Chat : pledge[c] <= sent[c]
      BY DEF TypeOK, Grounded
    <3>2. \A c \in Chat : pledge[c] <= seen'.msgs[c] \/ \E p \in fetches' : ChatOf[p] = c
      BY <1>6, <2>1, <3>1, SeedingKept DEF Remembers
    <3>3. QED
      BY <2>1, <3>2 DEF Seeding
  <2>5. QED
    BY <2>1, <2>2, <2>3, <2>4 DEF Remembers, Polling
<1>7. CASE BootstrapSave
  BY <1>1, <1>7 DEF BootstrapSave, Polling
<1>8. CASE LoadState
  <2>1. Leq(file.seen, Loaded)
    BY SeenNat, LoadedIs DEF Leq
  <2>2. QED
    BY <1>8, <2>1 DEF LoadState, Remembers, Polling
<1>9. CASE FetchOrders
  <2>1. Leq(seen, seen')
    BY <1>0, <1>9, SeenNat, OrdersIs DEF FetchOrders, TypeOK, Leq
  <2>2. QED
    BY <1>2, <1>9, <2>1 DEF FetchOrders, Polling
<1>10. ASSUME NEW o \in Order, FetchChatMessages(o) \/ FetchChatError(o) \/ MarkChat(o)
       PROVE  Remembers'
  <2>1. Leq(seen, seen')
    BY <1>0, <1>10, MarkLeq DEF FetchChatMessages, FetchChatError, MarkChat
  <2>2. QED
    BY <1>2, <1>10, <2>1 DEF FetchChatMessages, FetchChatError, MarkChat, Polling
<1>11. ASSUME NEW r \in results, Collect(r)
       PROVE  Remembers'
  BY <1>2, <1>11, CollectLeq DEF Collect, Polling
<1>12. CASE AllCollected \/ Handle \/ Sleep
  BY <1>0, <1>2, <1>12, LeqReflexive DEF AllCollected, Handle, Sleep, Polling
<1>13. CASE PersistState
  <2>1. phase' = "handle" /\ Polling /\ seen' = seen
    BY <1>13 DEF PersistState, Polling
  <2>2. file'.seen \in {seen, file.seen, NothingSeen}
    BY <1>13, SaveIs DEF PersistState
  <2>3. QED
    BY <1>0, <2>1, <2>2, LeqReflexive DEF Remembers
<1>14. CASE UNCHANGED vars
  BY <1>14 DEF vars, Remembers, Polling, Seeding, Leq
<1>15. QED
  BY <1>3, <1>4, <1>5, <1>6, <1>7, <1>8, <1>9, <1>10, <1>11, <1>12, <1>13, <1>14 DEF Next, BotStep

\* Each save writes at least what the file held.
LEMMA SavesKeep ==
  ASSUME Shape, Places, Remembers, [Next]_vars
  PROVE  file'.state = "saved" => Leq(file.seen, file'.seen)
<1> USE DEF poll, disk, outside, pledges
<1>0. TypeOK /\ seen \in Seen /\ file.seen \in Seen
  BY DEF Shape, TypeOK
<1>1. CASE file' = file
  BY <1>0, <1>1, LeqReflexive
<1>2. ASSUME SaveState, Leq(file.seen, seen)
      PROVE  file'.state = "saved" => Leq(file.seen, file'.seen)
  BY <1>0, <1>2, SaveIs, LeqReflexive
<1>3. CASE BootstrapSave
  <2>1. Leq(file.seen, seen)
    BY <1>3 DEF BootstrapSave, Remembers, Seeding, Leq
  <2>2. QED
    BY <1>2, <1>3, <2>1 DEF BootstrapSave
<1>4. CASE PersistState
  BY <1>2, <1>4 DEF PersistState, Remembers, Polling
<1>5. CASE Stop
  BY <1>2, <1>5 DEF Stop, Remembers, Polling, NoFile
<1>6. CASE Crash
  BY <1>1, <1>6 DEF Crash, StateAfterCrash, NoFile
<1>7. QED
  BY <1>1, <1>3, <1>4, <1>5, <1>6
  DEF Next, BotStep, World, Place, Close, Drop, Write, NewBot, BootstrapOrders, BootstrapChat,
      LoadState, FetchOrders, FetchChatMessages, FetchChatError, Collect, AllCollected,
      MarkChat, Handle, Sleep, vars

BaseInv == Shape /\ Places /\ Grounded /\ Remembers

LEMMA InitBase == Init => BaseInv
  BY InitShape, InitGrounded DEF BaseInv, Init, Remembers, Polling

LEMMA NextBase ==
  ASSUME BootstrapsWork
  PROVE  BaseInv /\ [Next]_vars => BaseInv'
  BY NextShape, NextGrounded, NextRemembers DEF BaseInv

\* The memory of a running bot is never less than the file, nor more than the
\* marketplace, if Bootstrap sees every chat it saw before.
THEOREM Based ==
  ASSUME BootstrapsWork
  PROVE  Spec => []BaseInv
<1>1. BaseInv /\ [Next]_vars => BaseInv'
  BY NextBase
<1>2. QED
  BY <1>1, InitBase, PTL DEF Spec

\* A saved state is only replaced by one that remembers as much, whatever
\* fails or dies, if Bootstrap sees every chat it saw before.
THEOREM NeverForgets ==
  ASSUME BootstrapsWork
  PROVE  Spec => StateNeverForgets
<1>1. BaseInv /\ [Next]_vars =>
        (file.state = "saved" /\ file'.state = "saved" =>
           /\ file.seen.orders \subseteq file'.seen.orders
           /\ \A c \in Chat : file.seen.msgs[c] <= file'.seen.msgs[c])
  BY SavesKeep DEF BaseInv, Leq
<1>2. QED
  BY <1>1, Based, PTL DEF Spec, StateNeverForgets

-----------------------------------------------------------------------------
(* The queue of a poll.                                                     *)

Within(e, m) == IF e.kind = "order" THEN e.order \in m.orders ELSE e.id <= m.msgs[e.chat]
Beyond(e, m) == IF e.kind = "order" THEN e.order \notin m.orders ELSE m.msgs[e.chat] < e.id

Collecting == phase \in {"fetch", "mark"}

\* Each event is remembered, in its place, and saved before it is handed out.
Queue ==
  /\ \A j, k \in DOMAIN events : j < k => Feed!Before(events[j], events[k])
  /\ \A k \in DOMAIN events : Within(events[k], seen)
  /\ MaxBadSaves = 0 /\ phase = "handle" => file.seen = seen

LEMMA EventsTyped ==
  ASSUME TypeOK
  PROVE  /\ Len(events) \in Nat /\ DOMAIN events = 1 .. Len(events)
         /\ \A k \in DOMAIN events : events[k] \in Event
  BY LenProperties DEF TypeOK

LEMMA WithinGrows ==
  ASSUME NEW a \in Seen, NEW b \in Seen, Leq(a, b), NEW e \in Event
  PROVE  /\ Within(e, a) => Within(e, b)
         /\ Beyond(e, b) => Beyond(e, a)
<1>1. CASE e.kind = "order"
  BY <1>1 DEF Within, Beyond, Leq
<1>2. CASE e.kind = "message" /\ e.chat \in Chat /\ e.id \in MsgId
  <2>1. a.msgs[e.chat] \in Nat /\ b.msgs[e.chat] \in Nat /\ e.id \in Nat
    BY <1>2, BotAssumption DEF Seen, MsgId
  <2>2. QED
    BY <1>2, <2>1 DEF Within, Beyond, Leq
<1>3. QED
  BY <1>1, <1>2, EventIs

\* The first events of a poll.
LEMMA FetchOrdersIs ==
  ASSUME Shape, FetchOrders
  PROVE  /\ \A k \in DOMAIN events' : /\ events'[k].kind = "order" /\ events'[k].order \in Order
                                      /\ Beyond(events'[k], seen) /\ Within(events'[k], seen')
         /\ \A j, k \in DOMAIN events' : j < k => Feed!Before(events'[j], events'[k])
         /\ Leq(seen, seen')
<1>1. listed \in SUBSET Order /\ NewOrders \subseteq Order /\ IsFiniteSet(NewOrders)
  BY FS_Subset DEF Shape, TypeOK, NewOrders
<1>2. /\ events' \in Seq(Event)
      /\ \A k \in DOMAIN events' : events'[k].kind = "order" /\ events'[k].order \in NewOrders
      /\ \A j, k \in DOMAIN events' : j # k => events'[j].order # events'[k].order
  BY <1>1, NewOrderEventsAre DEF FetchOrders
<1>3. seen'.orders = seen.orders \cup listed /\ seen'.msgs = seen.msgs
  BY <1>1, OrdersIs DEF FetchOrders, Shape, TypeOK
<1>4. Leq(seen, seen')
  BY <1>3, SeenNat DEF Leq, Shape
<1>5. \A j, k \in DOMAIN events' : j < k => j # k
  <2>1. DOMAIN events' \subseteq Nat
    BY <1>2
  <2>2. QED
    BY <2>1
<1>6. QED
  BY <1>1, <1>2, <1>3, <1>4, <1>5 DEF NewOrders, Within, Beyond, Feed!Before

\* A chat's messages join the queue behind everything that is in it.
LEMMA CollectIs ==
  ASSUME Shape, NEW r \in results, Collect(r)
  PROVE  LET n == Len(events) IN
         /\ \A k \in DOMAIN events' :
              \/ k \in DOMAIN events /\ events'[k] = events[k]
              \/ /\ k \in Nat /\ n < k
                 /\ events'[k].kind = "message" /\ events'[k].chat = ChatOf[r.order]
                 /\ events'[k].id \in Nat
                 /\ Beyond(events'[k], seen) /\ Within(events'[k], seen')
         /\ \A j, k \in DOMAIN events' : n < j /\ j < k => events'[j].id < events'[k].id
         /\ \A i \in Fresh(ChatOf[r.order], r.upto) :
              \E k \in DOMAIN events' : /\ events'[k].kind = "message"
                                        /\ events'[k].chat = ChatOf[r.order]
                                        /\ events'[k].id = i
         /\ \A k \in DOMAIN events : k \in DOMAIN events' /\ events'[k] = events[k]
<1> DEFINE c == ChatOf[r.order]
           es == MessageEvents(c, r.upto)
           n == Len(events)
<1>1. c \in Chat /\ r.upto \in MsgId /\ r.upto \in Nat
  BY BotAssumption DEF Shape, TypeOK, MsgId
<1> HIDE DEF c
<1>2. /\ es \in Seq(Event)
      /\ \A k \in DOMAIN es : es[k].kind = "message" /\ es[k].chat = c /\ es[k].id \in Fresh(c, r.upto)
      /\ \A j, k \in DOMAIN es : j < k => es[j].id < es[k].id
      /\ \A i \in Fresh(c, r.upto) : \E k \in DOMAIN es : es[k].id = i
  BY <1>1, MessageEventsAre
<1>3. /\ events \in Seq(Event) /\ events' = events \o es
      /\ seen' = [seen EXCEPT !.msgs[c] = Passed(c, r.upto)]
  BY DEF Shape, TypeOK, Collect, c
<1>4. \A i \in Fresh(c, r.upto) : i \in Nat /\ seen.msgs[c] < i /\ i <= seen'.msgs[c]
  <2>1. \A i \in Fresh(c, r.upto) : i <= Passed(c, r.upto) /\ i \in 1 .. r.upto /\ seen.msgs[c] < i
    BY <1>1, SeenNat, PassedIs DEF Shape
  <2>2. seen'.msgs[c] = Passed(c, r.upto)
    <3>1. Passed(c, r.upto) \in MsgId /\ seen \in Seen
      BY <1>1, PassedType DEF Shape, TypeOK
    <3>2. QED
      BY <1>1, <1>3, <3>1, MsgsIs
  <2>3. QED
    BY <1>1, <2>1, <2>2
<1> HIDE DEF es
<1>5. PICK m \in Nat : m = Len(es) /\ DOMAIN es = 1 .. m
  BY <1>2, LenProperties
<1>6. /\ n \in Nat /\ DOMAIN events = 1 .. n /\ DOMAIN events' = 1 .. n + m
      /\ \A k \in 1 .. n + m : events'[k] = IF k <= n THEN events[k] ELSE es[k - n]
  BY <1>2, <1>3, <1>5, ConcatProperties, LenProperties
<1> HIDE DEF n
<1>7. \A k \in 1 .. n + m : IF k <= n THEN k \in 1 .. n ELSE k - n \in 1 .. m /\ k \in Nat
  BY <1>5, <1>6
<1>8. ASSUME NEW k \in DOMAIN events'
      PROVE  \/ k \in DOMAIN events /\ events'[k] = events[k]
             \/ /\ k \in Nat /\ n < k
                /\ events'[k].kind = "message" /\ events'[k].chat = c
                /\ events'[k].id \in Nat
                /\ Beyond(events'[k], seen) /\ Within(events'[k], seen')
  <2>1. CASE k <= n
    BY <1>6, <1>7, <2>1
  <2>2. CASE ~(k <= n)
    <3>1. k - n \in DOMAIN es /\ events'[k] = es[k - n] /\ k \in Nat /\ n < k
      BY <1>5, <1>6, <1>7, <2>2
    <3>2. QED
      BY <1>2, <1>4, <3>1 DEF Beyond, Within
  <2>3. QED
    BY <2>1, <2>2
<1>9. ASSUME NEW j \in DOMAIN events', NEW k \in DOMAIN events', n < j, j < k
      PROVE  events'[j].id < events'[k].id
  <2>1. /\ j - n \in DOMAIN es /\ k - n \in DOMAIN es /\ j - n < k - n
        /\ events'[j] = es[j - n] /\ events'[k] = es[k - n]
    BY <1>5, <1>6, <1>7, <1>9
  <2>2. QED
    BY <1>2, <2>1
<1>10. ASSUME NEW i \in Fresh(c, r.upto)
       PROVE  \E k \in DOMAIN events' : /\ events'[k].kind = "message" /\ events'[k].chat = c
                                        /\ events'[k].id = i
  <2>1. PICK k \in DOMAIN es : es[k].id = i
    BY <1>2
  <2>2. n + k \in DOMAIN events' /\ events'[n + k] = es[k]
    BY <1>5, <1>6, <2>1
  <2>3. QED
    BY <1>2, <2>1, <2>2
<1>11. \A k \in DOMAIN events : k \in DOMAIN events' /\ events'[k] = events[k]
  BY <1>6
<1>12. QED
  BY <1>8, <1>9, <1>10, <1>11 DEF n, c

LEMMA HandleIs ==
  ASSUME TypeOK, Handle
  PROVE  /\ events[1] = Head(events) /\ 1 \in DOMAIN events /\ Head(events) \in Event
         /\ \A k \in DOMAIN events' :
              k \in Nat /\ k + 1 \in DOMAIN events /\ 1 < k + 1 /\ events'[k] = events[k + 1]
         /\ \A k \in DOMAIN events : k = 1 \/ (k - 1 \in DOMAIN events' /\ events'[k - 1] = events[k])
<1>1. events \in Seq(Event) /\ events # <<>> /\ events' = Tail(events)
  BY DEF TypeOK, Handle
<1>2. /\ Head(events) \in Event /\ events' \in Seq(Event) /\ Len(events') = Len(events) - 1
      /\ \A i \in 1 .. Len(events') : events'[i] = events[i + 1]
  BY <1>1, HeadTailProperties
<1>3. /\ DOMAIN events = 1 .. Len(events) /\ DOMAIN events' = 1 .. Len(events')
      /\ Len(events) \in Nat /\ Len(events) # 0 /\ Head(events) = events[1]
  BY <1>1, <1>2, LenProperties, EmptySeq
<1>4. \A k \in DOMAIN events : k = 1 \/ k - 1 \in 1 .. Len(events')
  BY <1>2, <1>3
<1>5. QED
  BY <1>2, <1>3, <1>4

\* What a step can do to the queue.
LEMMA QueueSteps ==
  ASSUME Shape, Places, [Next]_vars
  PROVE  \/ FetchOrders \/ Handle \/ \E r \in results : Collect(r)
         \/ events' = <<>>
         \/ /\ events' = events /\ Leq(seen, seen') /\ Polling /\ Polling'
            /\ Collecting' => Collecting /\ file' = file
            /\ \/ phase' = phase /\ file' = file /\ (phase = "handle" => seen' = seen)
               \/ PersistState
               \/ phase' = "mark"
<1> USE DEF poll, disk, outside, pledges, Polling, Collecting, Shape
<1>0. TypeOK /\ seen \in Seen
  BY DEF TypeOK
<1>1. CASE World
  BY <1>0, <1>1, LeqReflexive DEF World, Place, Close, Drop, Write, Places
<1>2. CASE \/ NewBot \/ Stop \/ Crash \/ BootstrapOrders \/ BootstrapSave \/ LoadState
           \/ \E o \in Order : BootstrapChat(o)
  BY <1>2 DEF NewBot, Stop, Crash, GoDown, BootstrapOrders, BootstrapSave, LoadState, BootstrapChat, Places
<1>3. ASSUME NEW o \in Order, FetchChatMessages(o) \/ FetchChatError(o) \/ MarkChat(o)
      PROVE  /\ events' = events /\ Leq(seen, seen') /\ Polling /\ phase' = phase /\ file' = file
             /\ phase # "handle"
  BY <1>0, <1>3, MarkLeq DEF FetchChatMessages, FetchChatError, MarkChat
<1>4. CASE AllCollected
  BY <1>0, <1>4, LeqReflexive DEF AllCollected
<1>5. CASE PersistState
  BY <1>0, <1>5, LeqReflexive DEF PersistState
<1>6. CASE Sleep
  BY <1>6 DEF Sleep
<1>7. CASE UNCHANGED vars
  BY <1>0, <1>7, LeqReflexive DEF vars, Places
<1>8. QED
  BY <1>1, <1>2, <1>3, <1>4, <1>5, <1>6, <1>7 DEF Next, BotStep

LEMMA NextQueue == Shape /\ Places /\ Queue /\ [Next]_vars => Queue'
<1> SUFFICES ASSUME Shape, Places, Queue, [Next]_vars PROVE Queue'
  OBVIOUS
<1>0. /\ TypeOK /\ seen \in Seen /\ seen' \in Seen
      /\ DOMAIN events \subseteq Nat /\ \A k \in DOMAIN events : events[k] \in Event
  BY NextShape, EventsTyped DEF Shape, TypeOK
<1>1. CASE FetchOrders
  <2>1. phase' # "handle"
    BY <1>1 DEF FetchOrders
  <2>2. QED
    BY <1>1, <2>1, FetchOrdersIs DEF Queue
<1>2. CASE Handle
  <2>1. \A j, k \in DOMAIN events' : j < k => Feed!Before(events'[j], events'[k])
    <3>1. SUFFICES ASSUME NEW j \in DOMAIN events', NEW k \in DOMAIN events', j < k
                   PROVE  Feed!Before(events'[j], events'[k])
      OBVIOUS
    <3>2. /\ j + 1 \in DOMAIN events /\ k + 1 \in DOMAIN events /\ j + 1 < k + 1
          /\ events'[j] = events[j + 1] /\ events'[k] = events[k + 1]
      BY <1>0, <1>2, <3>1, HandleIs
    <3>3. QED
      BY <3>2 DEF Queue
  <2>2. \A k \in DOMAIN events' : Within(events'[k], seen)
    BY <1>0, <1>2, HandleIs DEF Queue
  <2>3. seen' = seen /\ file' = file /\ phase' = phase
    BY <1>2 DEF Handle, disk
  <2>4. QED
    BY <2>1, <2>2, <2>3 DEF Queue
<1>3. ASSUME NEW r \in results, Collect(r)
      PROVE  Queue'
  <2>1. phase' # "handle" /\ Leq(seen, seen')
    BY <1>0, <1>3, CollectLeq DEF Collect
  <2>2. \A k \in DOMAIN events' : Within(events'[k], seen')
    BY <1>0, <1>3, <2>1, CollectIs, WithinGrows DEF Queue
  <2>3. ASSUME NEW j \in DOMAIN events', NEW k \in DOMAIN events', j < k
        PROVE  Feed!Before(events'[j], events'[k])
    <3>0. Len(events) \in Nat /\ DOMAIN events = 1 .. Len(events)
      BY <1>0, EventsTyped
    <3>1. CASE k \in DOMAIN events /\ events'[k] = events[k]
      <4>1. j \in DOMAIN events /\ events'[j] = events[j]
        <5>1. k <= Len(events) /\ k \in Nat
          BY <3>0, <3>1
        <5>2. j \in DOMAIN events \/ (j \in Nat /\ Len(events) < j)
          BY <1>3, CollectIs
        <5>3. j \in DOMAIN events
          BY <2>3, <3>0, <5>1, <5>2
        <5>4. QED
          BY <1>3, <5>3, CollectIs
      <4>2. QED
        BY <2>3, <3>1, <4>1 DEF Queue
    <3>2. CASE /\ k \in Nat /\ Len(events) < k
               /\ events'[k].kind = "message" /\ events'[k].chat = ChatOf[r.order]
               /\ events'[k].id \in Nat /\ Beyond(events'[k], seen)
      <4>1. CASE j \in DOMAIN events /\ events'[j] = events[j]
        <5>1. Within(events[j], seen) /\ events[j] \in Event
          BY <1>0, <4>1 DEF Queue
        <5>2. CASE events[j].kind = "order"
          BY <3>2, <4>1, <5>2 DEF Feed!Before
        <5>3. CASE events[j].kind = "message" /\ events[j].chat \in Chat /\ events[j].id \in MsgId
          <6>1. seen.msgs[events[j].chat] \in Nat /\ events[j].id \in Nat
            BY <1>0, <5>3, SeenNat, BotAssumption DEF MsgId
          <6>2. QED
            BY <3>2, <4>1, <5>1, <5>3, <6>1 DEF Feed!Before, Within, Beyond
        <5>4. QED
          BY <5>1, <5>2, <5>3, EventIs
      <4>2. CASE j \in Nat /\ Len(events) < j /\ events'[j].kind = "message"
        BY <1>3, <2>3, <3>2, <4>2, CollectIs DEF Feed!Before
      <4>3. QED
        BY <1>3, <4>1, <4>2, CollectIs
    <3>3. QED
      BY <1>3, <3>1, <3>2, CollectIs
  <2>4. QED
    BY <2>1, <2>2, <2>3 DEF Queue
<1>4. CASE events' = <<>>
  <2>1. MaxBadSaves = 0 /\ phase' = "handle" => file'.seen = seen'
    <3>1. CASE PersistState
      BY <1>0, <3>1, SaveIs DEF PersistState
    <3>2. ASSUME ~PersistState, phase' = "handle"
          PROVE  phase = "handle" /\ file' = file /\ seen' = seen
      BY <1>4, <3>2
      DEF Next, BotStep, World, Place, Close, Drop, Write, NewBot, BootstrapOrders, BootstrapChat,
          BootstrapSave, LoadState, FetchOrders, FetchChatMessages, FetchChatError, Collect,
          AllCollected, MarkChat, Handle, Sleep, Stop, Crash, GoDown, vars, disk, poll, outside, pledges
    <3>3. QED
      BY <3>1, <3>2 DEF Queue
  <2>2. QED
    BY <1>4, <2>1 DEF Queue
<1>5. CASE /\ events' = events /\ Leq(seen, seen')
           /\ \/ phase' = phase /\ file' = file /\ (phase = "handle" => seen' = seen)
              \/ PersistState
              \/ phase' = "mark"
  <2>1. \A k \in DOMAIN events : Within(events[k], seen')
    BY <1>0, <1>5, WithinGrows DEF Queue
  <2>2. MaxBadSaves = 0 /\ phase' = "handle" => file'.seen = seen'
    BY <1>0, <1>5, SaveIs DEF Queue, PersistState
  <2>3. QED
    BY <1>5, <2>1, <2>2 DEF Queue
<1>6. QED
  BY <1>1, <1>2, <1>3, <1>4, <1>5, QueueSteps

-----------------------------------------------------------------------------
(* The queue is news to the file until it is saved.                         *)

SavesWork == Persistent /\ MaxBadSaves = 0

Unsaved == Collecting => \A k \in DOMAIN events : Beyond(events[k], file.seen)

LEMMA NextUnsaved == BaseInv /\ BaseInv' /\ Unsaved /\ [Next]_vars => Unsaved'
<1> SUFFICES ASSUME BaseInv, BaseInv', Unsaved, [Next]_vars, Collecting' PROVE Unsaved'
  BY DEF Unsaved
<1> USE DEF BaseInv
<1>0. /\ TypeOK /\ TypeOK' /\ seen \in Seen /\ file.seen \in Seen
      /\ \A k \in DOMAIN events : events[k] \in Event
      /\ \A k \in DOMAIN events' : events'[k] \in Event
  <2>1. TypeOK /\ TypeOK'
    BY DEF Shape
  <2>2. QED
    BY <2>1, EventsTyped DEF TypeOK
<1>1. CASE FetchOrders
  <2>1. Leq(file.seen, seen) /\ file' = file
    BY <1>1 DEF FetchOrders, Remembers, Polling, disk
  <2>2. QED
    BY <1>0, <1>1, <2>1, FetchOrdersIs, WithinGrows DEF Unsaved
<1>2. CASE Handle
  BY <1>2 DEF Handle, Collecting
<1>3. ASSUME NEW r \in results, Collect(r)
      PROVE  Unsaved'
  <2>1. Leq(file.seen, seen) /\ file' = file /\ Collecting
    BY <1>3 DEF Collect, Remembers, Polling, disk, Collecting
  <2>2. QED
    BY <1>0, <1>3, <2>1, CollectIs, WithinGrows DEF Unsaved
<1>4. CASE events' = <<>>
  BY <1>4 DEF Unsaved
<1>5. CASE events' = events /\ Collecting /\ file' = file
  BY <1>5 DEF Unsaved
<1>6. QED
  BY <1>1, <1>2, <1>3, <1>4, <1>5, QueueSteps

\* Where saves work the file only grows.
LEMMA FileGrows ==
  ASSUME SavesWork, BaseInv, [Next]_vars
  PROVE  Leq(file.seen, file'.seen)
<1>0. Shape /\ TypeOK /\ Places /\ Remembers /\ file.seen \in Seen
  BY DEF BaseInv, Shape, TypeOK
<1>1. CASE file' = file
  BY <1>0, <1>1, LeqReflexive
<1>2. CASE SaveState
  BY <1>0, <1>2, SaveIs, SavesKeep DEF SavesWork
<1>3. CASE Stop \/ Crash
  BY <1>1, <1>2, <1>3 DEF Stop, Crash, StateAfterCrash, SavesWork
<1>4. QED
  BY <1>1, <1>2, <1>3
  DEF Next, BotStep, World, Place, Close, Drop, Write, NewBot, BootstrapOrders, BootstrapChat,
      BootstrapSave, LoadState, FetchOrders, FetchChatMessages, FetchChatError, Collect,
      AllCollected, MarkChat, PersistState, Handle, Sleep, vars, disk

-----------------------------------------------------------------------------
(* Nothing is handled twice.                                                *)

Handed(m) ==
  /\ \A o \in Order : told[o] > 0 => o \in m.orders
  /\ \A c \in Chat : \A k \in DOMAIN heard[c] : heard[c][k] <= m.msgs[c]

Unheard(e) ==
  IF e.kind = "order" THEN told[e.order] = 0
                      ELSE \A k \in DOMAIN heard[e.chat] : heard[e.chat][k] < e.id

News == \A k \in DOMAIN events : Unheard(events[k])

Untold == (\A o \in Order : told[o] = 0) /\ \A c \in Chat : heard[c] = <<>>

\* One of the two: the file outlives the process, or the process does not end.
Durable == SavesWork /\ BootstrapsWork
Undying == ~Crashes /\ ~Stops

\* HandledOnce as it has to be strengthened: what was handled is in the memory
\* of a polling bot and in the file a later one starts from, and what waits in
\* the queue was not.
Once ==
  /\ HandledOnce
  /\ News
  /\ Polling => Handed(seen)
  /\ ~Polling /\ ~Durable => Untold
  /\ Durable => Handed(file.seen)

LEMMA HeardNat ==
  ASSUME TypeOK
  PROVE  /\ \A c \in Chat : /\ heard[c] \in Seq(MsgId) /\ Len(heard[c]) \in Nat
                            /\ DOMAIN heard[c] = 1 .. Len(heard[c])
                            /\ \A k \in DOMAIN heard[c] : heard[c][k] \in Nat
         /\ \A o \in Order : told[o] \in Nat
<1>1. \A c \in Chat : heard[c] \in Seq(MsgId)
  BY DEF TypeOK
<1>2. \A c \in Chat : /\ Len(heard[c]) \in Nat /\ DOMAIN heard[c] = 1 .. Len(heard[c])
                      /\ \A k \in DOMAIN heard[c] : heard[c][k] \in MsgId
  BY <1>1, LenProperties
<1>3. QED
  BY <1>1, <1>2, BotAssumption DEF MsgId, TypeOK

LEMMA HandedGrows ==
  ASSUME TypeOK, NEW a \in Seen, NEW b \in Seen, Leq(a, b), Handed(a)
  PROVE  Handed(b)
<1>1. \A c \in Chat : a.msgs[c] \in Nat /\ b.msgs[c] \in Nat
  BY BotAssumption DEF Seen, MsgId
<1>2. QED
  BY <1>1, HeardNat DEF Handed, Leq

LEMMA UntoldHanded ==
  ASSUME TypeOK, Untold, NEW a \in Seen
  PROVE  Handed(a) /\ \A e \in Event : Unheard(e)
<1>1. \A c \in Chat : DOMAIN heard[c] = {}
  BY DEF Untold
<1>2. QED
  BY <1>1, EventIs DEF Handed, Unheard, Untold

\* News to a memory that has all that was handled is news to the handler.
LEMMA BeyondUnheard ==
  ASSUME TypeOK, NEW m \in Seen, Handed(m), NEW e \in Event, Beyond(e, m)
  PROVE  Unheard(e)
<1>1. CASE e.kind = "order" /\ e.order \in Order
  BY <1>1, HeardNat DEF Handed, Unheard, Beyond
<1>2. CASE e.kind = "message" /\ e.chat \in Chat /\ e.id \in MsgId
  <2>1. m.msgs[e.chat] \in Nat /\ e.id \in Nat
    BY <1>2, BotAssumption DEF Seen, MsgId
  <2>2. QED
    BY <1>2, <2>1, HeardNat DEF Handed, Unheard, Beyond
<1>3. QED
  BY <1>1, <1>2, EventIs

\* The handler gets the head of the queue.
LEMMA HandleOnce ==
  ASSUME Shape, Shape', Queue, HandledOnce, News, Handle
  PROVE  /\ HandledOnce'
         /\ News'
         /\ Handed(seen) => Handed(seen)'
<1> DEFINE e == events[1]
<1>0. TypeOK /\ TypeOK' /\ seen' = seen /\ seen \in Seen
  BY DEF Shape, TypeOK, Handle
<1>1. e = Head(events) /\ e \in Event /\ 1 \in DOMAIN events /\ Within(e, seen) /\ Unheard(e)
  BY <1>0, HandleIs DEF Queue, News
<1>2. ASSUME NEW k \in DOMAIN events'
      PROVE  LET f == events'[k] IN f \in Event /\ Unheard(f) /\ Feed!Before(e, f)
  BY <1>0, <1>2, HandleIs, EventsTyped DEF Queue, News
<1>a. ASSUME \A f \in Event : Unheard(f) /\ Feed!Before(e, f) => Unheard(f)'
      PROVE  News'
  BY <1>2, <1>a DEF News
<1>3. CASE e.kind = "order" /\ e.order \in Order
  <2>1. /\ heard' = heard /\ told' = [told EXCEPT ![e.order] = @ + 1]
        /\ \A o \in Order : told'[o] = IF o = e.order THEN 1 ELSE told[o]
    BY <1>0, <1>1, <1>3 DEF Handle, TypeOK, Unheard
  <2>2. HandledOnce'
    BY <2>1 DEF HandledOnce
  <2>3. News'
    BY <1>1, <1>3, <1>a, <2>1, EventIs DEF Unheard, Feed!Before
  <2>4. Handed(seen) => Handed(seen)'
    BY <1>0, <1>1, <1>3, <2>1 DEF Handed, Within
  <2>5. QED
    BY <2>2, <2>3, <2>4
<1>4. CASE e.kind = "message" /\ e.chat \in Chat /\ e.id \in MsgId
  <2> DEFINE c == e.chat
  <2>0. e.id \in Nat
    BY <1>4, BotAssumption DEF MsgId
  <2>1. /\ told' = told /\ heard' = [heard EXCEPT ![c] = Append(@, e.id)]
        /\ \A d \in Chat : heard'[d] = IF d = c THEN Append(heard[c], e.id) ELSE heard[d]
    BY <1>0, <1>1, <1>4 DEF Handle, TypeOK
  <2>2. PICK n \in Nat : /\ DOMAIN heard[c] = 1 .. n /\ DOMAIN heard'[c] = 1 .. n + 1
                         /\ \A k \in 1 .. n : heard'[c][k] = heard[c][k] /\ heard[c][k] \in Nat
                         /\ heard'[c][n + 1] = e.id
                         /\ \A k \in 1 .. n + 1 : k = n + 1 \/ k \in 1 .. n
    <3>1. heard[c] \in Seq(MsgId) /\ heard'[c] = Append(heard[c], e.id)
      BY <1>0, <1>4, <2>1, HeardNat
    <3>2. PICK n \in Nat : n = Len(heard[c]) /\ DOMAIN heard[c] = 1 .. n
      BY <3>1, LenProperties
    <3>3. /\ DOMAIN heard'[c] = 1 .. n + 1
          /\ \A k \in 1 .. n : heard'[c][k] = heard[c][k]
          /\ heard'[c][n + 1] = e.id
      BY <1>4, <3>1, <3>2, AppendProperties, LenProperties
    <3>4. \A k \in 1 .. n : heard[c][k] \in Nat
      BY <1>0, <1>4, <3>2, HeardNat
    <3>5. \A k \in 1 .. n + 1 : k = n + 1 \/ k \in 1 .. n
      OBVIOUS
    <3>6. QED
      BY <3>2, <3>3, <3>4, <3>5
  <2>3. HandledOnce'
    <3>1. ASSUME NEW i \in 1 .. n + 1, NEW j \in 1 .. n + 1, i < j
          PROVE  heard'[c][i] < heard'[c][j]
      <4>1. i \in 1 .. n
        BY <3>1
      <4>2. CASE j = n + 1
        BY <1>1, <1>4, <2>2, <4>1, <4>2 DEF Unheard
      <4>3. CASE j \in 1 .. n
        BY <1>4, <2>2, <3>1, <4>1, <4>3 DEF HandledOnce
      <4>4. QED
        BY <2>2, <4>2, <4>3
    <3>2. QED
      BY <1>4, <2>1, <2>2, <3>1 DEF HandledOnce
  <2>4. ASSUME NEW f \in Event, Unheard(f), Feed!Before(e, f)
        PROVE  Unheard(f)'
    <3>2. CASE f.kind = "order"
      BY <2>1, <2>4, <3>2 DEF Unheard
    <3>3. CASE f.kind = "message" /\ f.chat \in Chat /\ f.chat # c
      BY <2>1, <2>4, <3>3 DEF Unheard
    <3>4. CASE f.kind = "message" /\ f.chat = c
      <4>1. e.id < f.id
        BY <1>4, <2>4, <3>4 DEF Feed!Before
      <4>2. \A x \in DOMAIN heard[c] : heard[c][x] < f.id
        BY <2>4, <3>4 DEF Unheard
      <4>3. \A x \in 1 .. n + 1 : heard'[c][x] < f.id
        BY <2>2, <4>1, <4>2
      <4>4. QED
        BY <2>2, <3>4, <4>3 DEF Unheard
    <3>5. QED
      BY <3>2, <3>3, <3>4, EventIs
  <2>5. Handed(seen) => Handed(seen)'
    <3>1. SUFFICES ASSUME Handed(seen) PROVE Handed(seen)'
      OBVIOUS
    <3>2. \A k \in 1 .. n + 1 : heard'[c][k] <= seen.msgs[c]
      BY <1>1, <1>4, <2>2, <3>1 DEF Handed, Within
    <3>3. QED
      BY <1>0, <1>4, <2>1, <2>2, <3>1, <3>2 DEF Handed
  <2>6. QED
    BY <1>a, <2>3, <2>4, <2>5
<1>6. QED
  BY <1>1, <1>3, <1>4, EventIs

\* A bot that polls loaded the file once, and has forgotten nothing since.
LEMMA PollingSteps ==
  ASSUME Shape, Places, [Next]_vars
  PROVE  /\ Polling' => LoadState \/ (Polling /\ Leq(seen, seen'))
         /\ ~Polling' => ~Polling \/ Stop \/ Crash
<1> USE DEF poll, disk, outside, pledges, Polling, Shape
<1>0. TypeOK /\ seen \in Seen
  BY DEF TypeOK
<1>1. CASE World
  BY <1>0, <1>1, LeqReflexive DEF World, Place, Close, Drop, Write
<1>2. CASE \/ NewBot \/ Stop \/ Crash \/ BootstrapOrders \/ BootstrapSave \/ LoadState
           \/ \E o \in Order : BootstrapChat(o)
  BY <1>2 DEF NewBot, Stop, Crash, GoDown, BootstrapOrders, BootstrapSave, LoadState, BootstrapChat
<1>3. ASSUME NEW o \in Order, FetchChatMessages(o) \/ FetchChatError(o) \/ MarkChat(o)
      PROVE  phase' = phase /\ Polling /\ Leq(seen, seen')
  BY <1>0, <1>3, MarkLeq DEF FetchChatMessages, FetchChatError, MarkChat
<1>4. CASE AllCollected \/ PersistState \/ Sleep \/ Handle
  BY <1>0, <1>4, LeqReflexive DEF AllCollected, PersistState, Sleep, Handle
<1>5. CASE FetchOrders
  BY <1>5, FetchOrdersIs DEF FetchOrders
<1>6. ASSUME NEW r \in results, Collect(r)
      PROVE  phase' = phase /\ Polling /\ Leq(seen, seen')
  BY <1>0, <1>6, CollectLeq DEF Collect
<1>7. CASE UNCHANGED vars
  BY <1>0, <1>7, LeqReflexive DEF vars
<1>8. QED
  BY <1>1, <1>2, <1>3, <1>4, <1>5, <1>6, <1>7 DEF Next, BotStep

\* Only Handle gives anything to the handler.
LEMMA QuietSteps ==
  ASSUME [Next]_vars, ~Handle
  PROVE  told' = told /\ heard' = heard
BY DEF Next, BotStep, World, Place, Close, Drop, Write, NewBot, BootstrapOrders, BootstrapChat,
       BootstrapSave, LoadState, FetchOrders, FetchChatMessages, FetchChatError, Collect,
       AllCollected, MarkChat, PersistState, Sleep, Stop, Crash, GoDown, vars, outside

LEMMA LoadedKeeps ==
  ASSUME TypeOK, Places
  PROVE  Loaded \in Seen /\ Leq(file.seen, Loaded)
BY SeenNat, LoadedIs DEF Leq

OnceInv == Shape /\ Places /\ Queue /\ Once /\ (BootstrapsWork => BaseInv)

LEMMA NextOnce ==
  ASSUME Durable \/ Undying
  PROVE  OnceInv /\ [Next]_vars => Once'
<1> SUFFICES ASSUME OnceInv, [Next]_vars PROVE Once'
  OBVIOUS
<1> USE DEF OnceInv
<1>0. /\ Shape' /\ TypeOK /\ TypeOK'
      /\ seen \in Seen /\ seen' \in Seen /\ file.seen \in Seen /\ file'.seen \in Seen
      /\ \A k \in DOMAIN events' : events'[k] \in Event
  <2>1. Shape' /\ TypeOK /\ TypeOK'
    BY NextShape DEF Shape
  <2>2. QED
    BY <2>1, EventsTyped, SMTT(30) DEF TypeOK
<1>1. CASE Handle
  <2>1. HandledOnce' /\ News' /\ (Handed(seen) => Handed(seen)')
    BY <1>0, <1>1, HandleOnce DEF Once
  <2>2. /\ phase = "handle" /\ phase' = phase /\ seen' = seen /\ file' = file
        /\ Polling /\ Polling'
    BY <1>1 DEF Handle, Polling, disk
  <2>3. Handed(seen)'
    BY <2>1, <2>2 DEF Once
  <2>4. Durable => Handed(file.seen)'
    <3>1. Durable => file'.seen = seen'
      BY <2>2 DEF Queue, Durable, SavesWork
    <3>2. QED
      BY <2>3, <3>1 DEF Handed
  <2>5. QED
    BY <2>1, <2>2, <2>3, <2>4 DEF Once
<1>2. CASE ~Handle
  <2>0. told' = told /\ heard' = heard
    BY <1>2, QuietSteps
  <2>1. HandledOnce'
    BY <2>0 DEF Once, HandledOnce
  <2>2. Durable => Handed(file'.seen)
    <3>1. Durable => Leq(file.seen, file'.seen)
      BY FileGrows DEF Durable
    <3>2. QED
      BY <1>0, <3>1, HandedGrows DEF Once
  <2>3. Polling' => Handed(seen')
    <3>1. CASE Polling /\ Leq(seen, seen')
      BY <1>0, <3>1, HandedGrows DEF Once
    <3>2. CASE LoadState
      <4>1. seen' = Loaded /\ ~Polling
        BY <3>2 DEF LoadState, Polling
      <4>2. CASE Durable
        BY <1>0, <4>1, <4>2, LoadedKeeps, HandedGrows DEF Once
      <4>3. CASE ~Durable
        BY <1>0, <4>1, <4>3, UntoldHanded DEF Once
      <4>4. QED
        BY <4>2, <4>3
    <3>3. QED
      BY <3>1, <3>2, PollingSteps
  <2>4. ~Polling' /\ ~Durable => Untold
    BY PollingSteps DEF Undying, Stop, Crash, Once
  <2>5. News'
    <3>0. ASSUME NEW f \in Event
          PROVE  Unheard(f) <=> Unheard(f)'
      BY <2>0 DEF Unheard
    <3>1. ASSUME \A k \in DOMAIN events' : Unheard(events'[k])
          PROVE  News'
      BY <1>0, <3>0, <3>1 DEF News
    <3>2. CASE FetchOrders
      <4>1. Handed(seen)
        BY <3>2 DEF FetchOrders, Polling, Once
      <4>2. \A k \in DOMAIN events' : Unheard(events'[k])
        BY <1>0, <3>2, <4>1, FetchOrdersIs, BeyondUnheard
      <4>3. QED
        BY <3>1, <4>2
    <3>3. ASSUME NEW r \in results, Collect(r)
          PROVE  News'
      <4>1. Handed(seen)
        BY <3>3 DEF Collect, Polling, Once
      <4>2. \A k \in DOMAIN events' : Unheard(events'[k])
        BY <1>0, <3>3, <4>1, CollectIs, BeyondUnheard DEF Once, News
      <4>3. QED
        BY <3>1, <4>2
    <3>4. CASE events' = <<>>
      BY <3>1, <3>4
    <3>5. CASE events' = events
      BY <3>1, <3>5 DEF Once, News
    <3>6. QED
      BY <1>2, <3>2, <3>3, <3>4, <3>5, QueueSteps
  <2>6. (Durable => Handed(file.seen)') /\ (Polling' => Handed(seen)')
    BY <2>0, <2>2, <2>3 DEF Handed
  <2>7. ~Polling' /\ ~Durable => Untold'
    BY <2>0, <2>4 DEF Untold
  <2>8. QED
    BY <2>1, <2>5, <2>6, <2>7 DEF Once
<1>3. QED
  BY <1>1, <1>2

LEMMA InitOnce == Init => OnceInv
<1> SUFFICES ASSUME Init PROVE OnceInv
  OBVIOUS
<1>1. Shape /\ Places /\ BaseInv /\ TypeOK
  BY InitShape, InitBase DEF Shape
<1>2. /\ Untold /\ events = <<>> /\ seen = NothingSeen /\ file.seen = NothingSeen /\ phase = "down"
  BY NothingSeenType DEF Init, Untold
<1>3. Queue
  BY <1>2 DEF Queue
<1>4. HandledOnce
  BY <1>2 DEF Untold, HandledOnce
<1>5. Handed(seen) /\ Handed(file.seen)
  BY <1>1, <1>2, NothingSeenType, UntoldHanded
<1>6. QED
  BY <1>1, <1>2, <1>3, <1>4, <1>5 DEF OnceInv, Once, News

\* The handler gets an order at most once and the messages of a chat at most
\* once and in their order, across polls, duplicate fetches and answers out of
\* order: as long as the process lives, and for good where the state is on a
\* disk that takes each save and Bootstrap sees every chat.
THEOREM HandledAtMostOnce ==
  ASSUME Durable \/ Undying
  PROVE  Spec => []HandledOnce
<1>1. OnceInv /\ [Next]_vars => OnceInv'
  <2>1. BootstrapsWork => (BaseInv /\ [Next]_vars => BaseInv')
    BY NextBase
  <2>2. OnceInv /\ [Next]_vars => Shape' /\ Places' /\ Queue' /\ Once'
    BY NextShape, NextQueue, NextOnce DEF OnceInv
  <2>3. QED
    BY <2>1, <2>2 DEF OnceInv, BootstrapsWork
<1>2. OnceInv => HandledOnce
  BY DEF OnceInv, Once
<1>3. QED
  BY <1>1, <1>2, InitOnce, PTL DEF Spec

-----------------------------------------------------------------------------
(* What Bootstrap passed over stays passed over.                            *)

Skips ==
  /\ \A c \in Chat : skip[c] <= file.seen.msgs[c]
  /\ \A k \in DOMAIN events :
       events[k].kind = "message" => skip[events[k].chat] < events[k].id

LEMMA InitSkips == Init => Skips
<1>1. Init => skip = NothingSeen.msgs /\ file.seen = NothingSeen /\ events = <<>>
  BY NothingSeenType DEF Init, NothingSeen
<1>2. \A c \in Chat : NothingSeen.msgs[c] = 0
  BY DEF NothingSeen
<1>3. QED
  BY <1>1, <1>2 DEF Skips

LEMMA NextSkips ==
  ASSUME Durable
  PROVE  BaseInv /\ BaseInv' /\ Queue /\ Skips /\ [Next]_vars => Skips'
<1> SUFFICES ASSUME BaseInv, BaseInv', Queue, Skips, [Next]_vars PROVE Skips'
  OBVIOUS
<1> USE DEF BaseInv
<1>0. /\ Shape /\ Places /\ Remembers /\ TypeOK /\ TypeOK'
      /\ seen \in Seen /\ file.seen \in Seen /\ file'.seen \in Seen
      /\ \A k \in DOMAIN events : events[k] \in Event
      /\ \A k \in DOMAIN events' : events'[k] \in Event
  <2>1. Shape /\ TypeOK /\ TypeOK'
    BY DEF Shape
  <2>2. QED
    BY <2>1, EventsTyped DEF TypeOK
<1>n. \A c \in Chat : /\ seen.msgs[c] \in Nat /\ file.seen.msgs[c] \in Nat /\ skip[c] \in Nat
                      /\ pledge[c] \in Nat /\ file'.seen.msgs[c] \in Nat
  <2>1. \A c \in Chat : file'.seen.msgs[c] \in Nat
    BY <1>0, BotAssumption DEF Seen, MsgId
  <2>2. QED
    BY <1>0, <2>1, SeenNat
<1>1. CASE BootstrapSave
  <2>1. /\ events = <<>> /\ events' = events /\ fetches = {} /\ file'.seen = seen
        /\ skip' = [c \in Chat |-> SetMax(skip[c], pledge[c])]
    <3>1. SaveState /\ phase = "bootChats" /\ MaxBadSaves = 0
      BY <1>1 DEF BootstrapSave, Durable, SavesWork
    <3>2. file'.seen = seen
      BY <1>0, <3>1, SaveIs
    <3>3. QED
      BY <1>0, <1>1, <3>1, <3>2 DEF BootstrapSave, Places, poll
  <2>2. ASSUME NEW c \in Chat
        PROVE  pledge[c] <= seen.msgs[c] /\ file.seen.msgs[c] <= seen.msgs[c]
    BY <1>0, <1>1, <2>1 DEF BootstrapSave, Remembers, Seeding
  <2>3. \A c \in Chat : skip'[c] <= file'.seen.msgs[c]
    BY <1>n, <2>1, <2>2 DEF Skips, SetMax
  <2>4. QED
    BY <2>1, <2>3 DEF Skips
<1>2. CASE ~BootstrapSave
  <2>0. skip' = skip
    BY <1>2
    DEF Next, BotStep, World, Place, Close, Drop, Write, NewBot, BootstrapOrders, BootstrapChat,
        LoadState, FetchOrders, FetchChatMessages, FetchChatError, Collect, AllCollected,
        MarkChat, PersistState, Handle, Sleep, Stop, Crash, GoDown, vars, pledges
  <2>1. \A c \in Chat : skip'[c] <= file'.seen.msgs[c]
    <3>1. \A c \in Chat : file.seen.msgs[c] <= file'.seen.msgs[c]
      BY FileGrows DEF Durable, Leq
    <3>2. QED
      BY <1>n, <2>0, <3>1 DEF Skips
  <2>2. ASSUME \A k \in DOMAIN events' :
                  events'[k].kind = "message" => skip[events'[k].chat] < events'[k].id
        PROVE  Skips'
    BY <2>0, <2>1, <2>2 DEF Skips
  <2>3. CASE FetchOrders
    BY <1>0, <2>2, <2>3, FetchOrdersIs
  <2>4. CASE Handle
    <3>1. \A k \in DOMAIN events' : k + 1 \in DOMAIN events /\ events'[k] = events[k + 1]
      BY <1>0, <2>4, HandleIs
    <3>2. QED
      BY <2>2, <3>1 DEF Skips
  <2>5. ASSUME NEW r \in results, Collect(r)
        PROVE  Skips'
    <3>1. Leq(file.seen, seen) /\ ChatOf[r.order] \in Chat
      BY <1>0, <2>5, BotAssumption DEF Collect, Remembers, Polling, TypeOK
    <3>2. ASSUME NEW k \in DOMAIN events', events'[k].kind = "message"
          PROVE  skip[events'[k].chat] < events'[k].id
      <4>1. CASE k \in DOMAIN events /\ events'[k] = events[k]
        BY <3>2, <4>1 DEF Skips
      <4>2. CASE events'[k].chat = ChatOf[r.order] /\ events'[k].id \in Nat /\ Beyond(events'[k], seen)
        BY <1>n, <3>1, <3>2, <4>2 DEF Beyond, Skips, Leq
      <4>3. QED
        BY <1>0, <2>5, <4>1, <4>2, CollectIs
    <3>3. QED
      BY <2>2, <3>2
  <2>6. CASE events' = <<>>
    BY <2>2, <2>6
  <2>7. CASE events' = events
    BY <2>2, <2>7 DEF Skips
  <2>8. QED
    BY <1>0, <2>3, <2>4, <2>5, <2>6, <2>7, QueueSteps
<1>3. QED
  BY <1>1, <1>2

\* Once Bootstrap has returned, what the chats of the listed orders held when
\* it began never reaches the handler, after a crash and a restart neither.
THEOREM BootstrapIsKept ==
  ASSUME Durable
  PROVE  Spec => OldMessagesSkipped
<1> DEFINE SkipsInv == BaseInv /\ Queue /\ Skips
           Passes == \A c \in Chat : heard'[c] # heard[c] => heard'[c][Len(heard'[c])] > skip[c]
<1>1. Init => SkipsInv
  BY InitBase, InitOnce, InitSkips DEF OnceInv
<1>2. SkipsInv /\ [Next]_vars => SkipsInv'
  BY NextBase, NextQueue, NextSkips DEF BaseInv, Durable
<1>3. SkipsInv /\ [Next]_vars => [Passes]_vars
  <2>1. SUFFICES ASSUME SkipsInv, [Next]_vars, NEW c \in Chat, heard'[c] # heard[c]
                 PROVE  heard'[c][Len(heard'[c])] > skip[c]
    OBVIOUS
  <2>2. Handle /\ TypeOK
    BY <2>1, QuietSteps DEF BaseInv, Shape
  <2>3. PICK e \in Event : e = Head(events) /\ e = events[1] /\ 1 \in DOMAIN events
    BY <2>2, HandleIs
  <2>4. e.kind # "order" /\ heard' = [heard EXCEPT ![e.chat] = Append(@, e.id)]
    BY <2>1, <2>2, <2>3 DEF Handle
  <2>5. e.kind = "message" /\ e.chat = c /\ e.id \in MsgId
    BY <2>1, <2>2, <2>4, EventIs DEF TypeOK
  <2>6. skip[c] < e.id /\ skip[c] \in Nat /\ e.id \in Nat
    BY <2>1, <2>2, <2>3, <2>5, SeenNat, BotAssumption DEF Skips, MsgId
  <2>7. heard'[c] = Append(heard[c], e.id) /\ heard[c] \in Seq(MsgId)
    BY <2>2, <2>4, <2>5 DEF TypeOK
  <2>8. heard'[c][Len(heard'[c])] = e.id
    BY <2>5, <2>7, AppendProperties
  <2>9. QED
    BY <2>6, <2>8
<1>4. QED
  BY <1>1, <1>2, <1>3, PTL DEF Spec, OldMessagesSkipped

-----------------------------------------------------------------------------
(* To its handler the bot is an EventFeed.                                  *)

FeedBatch == IF phase = "handle" THEN events ELSE <<>>

FeedInv == BaseInv /\ Queue /\ Unsaved

LEMMA InitFeed == Init => FeedInv /\ Feed!Init
<1>1. Init => Unsaved /\ file.seen = NothingSeen
  BY NothingSeenType DEF Init, Unsaved
<1>2. QED
  BY <1>1, InitBase, InitOnce DEF FeedInv, OnceInv, Init, Feed!Init, NothingSeen

LEMMA HandingSteps ==
  ASSUME [Next]_vars
  PROVE  /\ phase # "handle" /\ phase' = "handle" => PersistState
         /\ phase = "handle" => \/ Handle
                                \/ file' = file /\ events' = events /\ phase' = phase
                                \/ Sleep \/ Crash
<1> USE DEF disk, poll
<1>1. CASE World
  BY <1>1 DEF World, Place, Close, Drop, Write
<1>2. CASE NewBot \/ Stop \/ BootstrapOrders \/ BootstrapSave \/ LoadState \/ FetchOrders \/ AllCollected
  BY <1>2 DEF NewBot, Stop, GoDown, BootstrapOrders, BootstrapSave, LoadState, FetchOrders, AllCollected
<1>3. CASE Crash
  BY <1>3 DEF Crash, GoDown
<1>4. CASE Sleep
  BY <1>4 DEF Sleep
<1>5. CASE Handle
  BY <1>5 DEF Handle
<1>6. CASE PersistState
  BY <1>6 DEF PersistState
<1>7. ASSUME NEW o \in Order, \/ BootstrapChat(o) \/ FetchChatMessages(o) \/ FetchChatError(o)
                              \/ MarkChat(o)
      PROVE  phase # "handle" /\ phase' = phase
  BY <1>7 DEF BootstrapChat, FetchChatMessages, FetchChatError, MarkChat
<1>8. ASSUME NEW r \in results, Collect(r)
      PROVE  phase # "handle" /\ phase' = phase
  BY <1>8 DEF Collect
<1>9. CASE UNCHANGED vars
  BY <1>9 DEF vars
<1>10. QED
  BY <1>1, <1>2, <1>3, <1>4, <1>5, <1>6, <1>7, <1>8, <1>9 DEF Next, BotStep

LEMMA FeedStep ==
  ASSUME Durable, FeedInv, FeedInv', [Next]_vars
  PROVE  [Feed!Next]_<<file.seen, FeedBatch, told, heard>>
<1> USE DEF FeedInv
<1>0. /\ Shape /\ Places /\ TypeOK /\ \A k \in DOMAIN events : events[k] \in Event
      /\ file.seen.orders \subseteq file'.seen.orders
      /\ \A c \in Chat : file.seen.msgs[c] <= file'.seen.msgs[c]
  <2>1. Shape /\ Places /\ TypeOK
    BY DEF BaseInv, Shape
  <2>2. Leq(file.seen, file'.seen)
    BY FileGrows DEF Durable
  <2>3. QED
    BY <2>1, <2>2, EventsTyped DEF Leq
<1>1. CASE phase # "handle" /\ phase' = "handle"
  <2>1. PersistState /\ events' = events /\ phase = "mark" /\ told' = told /\ heard' = heard
    BY <1>1, HandingSteps DEF PersistState, poll, outside
  <2>2. file'.seen = seen
    BY <1>0, <2>1, SaveIs DEF PersistState, Durable, SavesWork
  <2>3. ASSUME NEW k \in DOMAIN events
        PROVE  Feed!Remembered(events[k])
    <3>1. Within(events[k], seen) /\ Beyond(events[k], file.seen) /\ events[k] \in Event
      BY <1>0, <2>1 DEF Queue, Unsaved, Collecting
    <3>2. QED
      BY <2>2, <3>1 DEF Within, Beyond, Feed!Remembered
  <2>4. QED
    BY <1>0, <1>1, <2>1, <2>3 DEF Queue, Feed!Next, Feed!Remember
<1>2. CASE phase # "handle" /\ phase' # "handle"
  <2>1. told' = told /\ heard' = heard
    BY <1>2, QuietSteps DEF Handle
  <2>2. QED
    BY <1>0, <1>2, <2>1 DEF Feed!Next, Feed!Remember
<1>3. CASE phase = "handle"
  <2>1. CASE Handle
    <3>1. PICK e \in Event : e = Head(events)
      BY <1>0, <2>1, HandleIs
    <3>2. QED
      BY <1>3, <2>1, <3>1, EventIs DEF Handle, Feed!Next, Feed!HandOut, disk
  <2>2. CASE ~Handle
    <3>1. told' = told /\ heard' = heard
      BY <2>2, QuietSteps
    <3>2. CASE file' = file /\ events' = events /\ phase' = phase
      BY <3>1, <3>2 DEF FeedBatch
    <3>3. CASE Sleep
      BY <1>3, <3>1, <3>3 DEF FeedBatch, Sleep, disk
    <3>4. CASE Crash
      <4>1. file' = file /\ phase' = "down"
        BY <3>4 DEF Crash, GoDown, StateAfterCrash, Durable, SavesWork
      <4>2. QED
        BY <1>3, <3>1, <4>1 DEF FeedBatch, Feed!Next, Feed!Lose
    <3>5. QED
      BY <1>3, <2>2, <3>2, <3>3, <3>4, HandingSteps
  <2>3. QED
    BY <2>1, <2>2
<1>4. QED
  BY <1>1, <1>2, <1>3

\* Each batch is first saved, as news to what was saved, and then handed out in
\* its order; a crash may lose the rest of it, and nothing of it comes again.
THEOREM FeedImplemented ==
  ASSUME Durable
  PROVE  Spec => ImplementsFeed
<1>1. FeedInv /\ [Next]_vars => FeedInv'
  BY NextBase, NextQueue, NextUnsaved DEF FeedInv, BaseInv, Durable
<1>2. FeedInv /\ FeedInv' /\ [Next]_vars => [Feed!Next]_<<file.seen, FeedBatch, told, heard>>
  BY FeedStep
<1>3. QED
  BY <1>1, <1>2, InitFeed, PTL DEF Spec, ImplementsFeed, Feed!Spec, FeedBatch

-----------------------------------------------------------------------------
(* The watermark never runs over a message.                                 *)

\* Nothing ends the process, and all that a poll sees goes to the handler.
Emitting == Undying /\ ~Bootstraps /\ EmitMessagesForNewOrders

Waits(c, n) ==
  \/ \E k \in DOMAIN heard[c] : heard[c][k] = n
  \/ \E k \in DOMAIN events : events[k].kind = "message" /\ events[k].chat = c /\ events[k].id = n

NoGapInv ==
  /\ \A c \in Chat : \A n \in 1 .. seen.msgs[c] : ~Filtered(c, n) => Waits(c, n)
  /\ phase \in {"down", "load"} => seen = NothingSeen /\ file.seen = NothingSeen

LEMMA NoGapIs == NoGapInv => NoGap
<1>1. \A c \in Chat : \A n : Waits(c, n) => n \in Heard(c) \cup Queued(c)
  BY DEF Waits, Heard, Queued
<1>2. QED
  BY <1>1 DEF NoGap, NoGapInv

\* A fetched chat: what its watermark rises over has joined the queue.
LEMMA CollectNoGap ==
  ASSUME Shape, NoGapInv, NEW r \in results, Collect(r)
  PROVE  \A c \in Chat : \A n \in 1 .. seen'.msgs[c] : ~Filtered(c, n) => Waits(c, n)'
<1> DEFINE d == ChatOf[r.order]
<1>0. /\ TypeOK /\ seen \in Seen /\ d \in Chat /\ r.upto \in MsgId /\ r.upto \in Nat
      /\ heard' = heard /\ Passed(d, r.upto) \in MsgId /\ seen.msgs[d] \in Nat
  <2>0. TypeOK /\ seen \in Seen /\ r.order \in Order /\ r.upto \in MsgId
    BY DEF Shape, TypeOK
  <2>1. TypeOK /\ seen \in Seen /\ d \in Chat /\ r.upto \in MsgId /\ r.upto \in Nat
    BY <2>0, BotAssumption DEF MsgId
  <2>2. QED
    BY <2>1, PassedType, SeenNat DEF Collect, outside
<1> HIDE DEF d
<1>1. \A c \in Chat : seen'.msgs[c] = IF c = d THEN Passed(d, r.upto) ELSE seen.msgs[c]
  BY <1>0, MsgsIs DEF Collect, d
<1>2. ASSUME NEW c \in Chat, NEW n, Waits(c, n)
      PROVE  Waits(c, n)'
  <2>1. \A k \in DOMAIN events : k \in DOMAIN events' /\ events'[k] = events[k]
    BY CollectIs
  <2>2. QED
    BY <1>0, <1>2, <2>1 DEF Waits
<1>3. ASSUME NEW n \in Fresh(d, r.upto)
      PROVE  Waits(d, n)'
  BY <1>3, CollectIs DEF Waits, d
<1>4. ASSUME NEW n \in 1 .. Passed(d, r.upto), ~Filtered(d, n)
      PROVE  n \in 1 .. seen.msgs[d] \/ n \in Fresh(d, r.upto)
  <2>1. /\ Passed(d, r.upto) = seen.msgs[d] \/ Passed(d, r.upto) \in Fresh(d, r.upto)
        /\ Passed(d, r.upto) \in Nat /\ n \in Nat
    BY <1>0, PassedIs, BotAssumption DEF MsgId
  <2>2. CASE n <= seen.msgs[d]
    BY <1>0, <1>4, <2>1, <2>2
  <2>3. CASE seen.msgs[d] < n
    <3>1. Passed(d, r.upto) \in 1 .. r.upto
      BY <1>0, <1>4, <2>1, <2>3 DEF Fresh
    <3>2. n \in 1 .. r.upto
      BY <1>0, <1>4, <2>1, <3>1
    <3>3. QED
      BY <1>4, <2>3, <3>2 DEF Fresh, IsNew
  <2>4. QED
    BY <1>0, <2>1, <2>2, <2>3
<1>5. SUFFICES ASSUME NEW c \in Chat, NEW n \in 1 .. seen'.msgs[c], ~Filtered(c, n)
               PROVE  Waits(c, n)'
  OBVIOUS
<1>6. CASE c = d
  BY <1>0, <1>1, <1>2, <1>3, <1>4, <1>5, <1>6 DEF NoGapInv
<1>7. CASE c # d
  BY <1>1, <1>2, <1>5, <1>7 DEF NoGapInv
<1>8. QED
  BY <1>6, <1>7

\* What leaves the queue has gone to the handler.
LEMMA HandleNoGap ==
  ASSUME TypeOK, Handle, NEW c \in Chat, NEW n, Waits(c, n)
  PROVE  Waits(c, n)'
<1> DEFINE e == events[1]
<1>1. /\ e = Head(events) /\ e \in Event
      /\ \A k \in DOMAIN events : k = 1 \/ (k - 1 \in DOMAIN events' /\ events'[k - 1] = events[k])
  BY HandleIs
<1>2. ASSUME NEW d \in Chat, NEW k \in DOMAIN heard[d]
      PROVE  k \in DOMAIN heard'[d] /\ heard'[d][k] = heard[d][k]
  <2>1. heard[d] \in Seq(MsgId) /\ DOMAIN heard[d] = 1 .. Len(heard[d]) /\ Len(heard[d]) \in Nat
    BY HeardNat
  <2>2. CASE heard'[d] = heard[d]
    BY <1>2, <2>2
  <2>3. CASE heard'[d] = Append(heard[d], e.id) /\ e.id \in MsgId
    BY <1>2, <2>1, <2>3, AppendProperties
  <2>4. QED
    BY <1>1, <2>2, <2>3, EventIs DEF Handle, TypeOK
<1>3. CASE \E k \in DOMAIN heard[c] : heard[c][k] = n
  BY <1>2, <1>3 DEF Waits
<1>4. ASSUME NEW k \in DOMAIN events,
             events[k].kind = "message" /\ events[k].chat = c /\ events[k].id = n
      PROVE  Waits(c, n)'
  <2>1. CASE k = 1
    <3>1. e.kind = "message" /\ e.chat = c /\ e.id = n /\ n \in MsgId
      BY <1>1, <1>4, <2>1, EventIs
    <3>2. heard'[c] = Append(heard[c], n) /\ heard[c] \in Seq(MsgId)
      BY <1>1, <3>1, HeardNat DEF Handle, TypeOK
    <3>3. Len(heard'[c]) \in DOMAIN heard'[c] /\ heard'[c][Len(heard'[c])] = n
      BY <3>1, <3>2, AppendProperties, LenProperties
    <3>4. QED
      BY <3>3 DEF Waits
  <2>2. CASE k # 1
    BY <1>1, <1>4, <2>2 DEF Waits
  <2>3. QED
    BY <2>1, <2>2
<1>5. QED
  BY <1>3, <1>4 DEF Waits

LEMMA NextNoGap ==
  ASSUME Emitting
  PROVE  Shape /\ Places /\ NoGapInv /\ [Next]_vars => NoGapInv'
<1> SUFFICES ASSUME Shape, Places, NoGapInv, [Next]_vars PROVE NoGapInv'
  OBVIOUS
<1> USE DEF poll, disk, outside, pledges, world, Shape
<1>0. TypeOK /\ seen \in Seen /\ phase \notin {"bootOrders", "bootChats"} /\ marks = {}
  BY DEF TypeOK, Places, Emitting
<1>1. ASSUME /\ seen' = seen /\ UNCHANGED <<heard, events>>
             /\ \A c \in Chat : \A n \in Nat : Filtered(c, n) => Filtered(c, n)'
             /\ (phase' = phase /\ file' = file) \/ phase' \notin {"down", "load"}
      PROVE  NoGapInv'
  BY <1>1 DEF NoGapInv, Waits
<1>2. ASSUME \A c \in Chat : seen'.msgs[c] = 0,
             phase' \in {"down", "load"} => seen' = NothingSeen /\ file'.seen = NothingSeen
      PROVE  NoGapInv'
  BY <1>2 DEF NoGapInv
<1>3. CASE World
  <2>1. /\ UNCHANGED <<seen, heard, events, phase, file>> /\ own \subseteq own'
    BY <1>3 DEF World, Place, Close, Drop, Write
  <2>2. QED
    BY <1>1, <2>1 DEF Filtered
<1>4. CASE NewBot
  BY <1>2, <1>4 DEF NewBot, NoGapInv, NothingSeen, Emitting
<1>5. CASE LoadState
  <2>1. seen = NothingSeen /\ file.seen = NothingSeen
    BY <1>5 DEF LoadState, NoGapInv
  <2>2. \A c \in Chat : Loaded.msgs[c] = 0
    BY <1>0, <2>1, LoadedIs DEF NothingSeen
  <2>3. QED
    BY <1>2, <1>5, <2>2 DEF LoadState
<1>6. CASE FetchOrders
  <2>1. seen'.msgs = seen.msgs /\ heard' = heard /\ own' = own /\ phase' = "fetch"
    BY <1>0, <1>6, OrdersIs DEF FetchOrders, TypeOK
  <2>2. events = <<>>
    BY <1>6 DEF FetchOrders, Places
  <2>3. \A c \in Chat : \A n : Waits(c, n) => Waits(c, n)'
    BY <2>1, <2>2 DEF Waits
  <2>4. QED
    BY <2>1, <2>3 DEF NoGapInv, Filtered
<1>7. ASSUME NEW r \in results, Collect(r)
      PROVE  NoGapInv'
  BY <1>7, CollectNoGap DEF Collect, NoGapInv, Filtered
<1>8. CASE Handle
  <2>1. seen' = seen /\ own' = own /\ phase' = "handle"
    BY <1>8 DEF Handle
  <2>2. QED
    BY <1>0, <1>8, <2>1, HandleNoGap DEF NoGapInv, Filtered
<1>9. CASE AllCollected \/ PersistState \/ Sleep
  BY <1>1, <1>9 DEF AllCollected, PersistState, Sleep, Filtered
<1>10. ASSUME NEW o \in Order, FetchChatMessages(o) \/ FetchChatError(o)
       PROVE  NoGapInv'
  BY <1>1, <1>10 DEF FetchChatMessages, FetchChatError, Filtered
<1>11. CASE UNCHANGED vars
  BY <1>1, <1>11 DEF vars, Filtered
<1>12. QED
  BY <1>0, <1>3, <1>4, <1>5, <1>6, <1>7, <1>8, <1>9, <1>10, <1>11
  DEF Next, BotStep, BootstrapOrders, BootstrapChat, BootstrapSave, MarkChat, Stop, Crash,
      Emitting, Undying

\* While nothing dies and no chat is only marked, each message of the other
\* side at or below a chat's watermark was handled or is queued: a failed or
\* late answer can delay a message and never lose it.
THEOREM NothingPassedOver ==
  ASSUME Emitting
  PROVE  Spec => []NoGap
<1>1. Init => NoGapInv
  <2>1. Init => seen = NothingSeen /\ file.seen = NothingSeen
    BY NothingSeenType DEF Init
  <2>2. QED
    BY <2>1 DEF NoGapInv, NothingSeen
<1>2. Shape /\ Places /\ NoGapInv /\ [Next]_vars => (Shape /\ Places /\ NoGapInv)'
  BY NextShape, NextNoGap
<1>3. QED
  BY <1>1, <1>2, InitShape, NoGapIs, PTL DEF Spec

=============================================================================
