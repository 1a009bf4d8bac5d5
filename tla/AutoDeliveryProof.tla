-------------------------- MODULE AutoDeliveryProof --------------------------
(***************************************************************************)
(* Theorems about AutoDelivery: what Bot and Delivery promise on their own *)
(* still holds where one process runs both, and where a crash may leave    *)
(* the file of the bot unreadable.                                         *)
(***************************************************************************)
EXTENDS AutoDelivery, BotProof

DP == INSTANCE DeliveryProof WITH
        Worker <- {loop}, Assigned <- [w \in {loop} |-> Order],
        Flows <- [o \in Order |-> {"process"}],
        Crashes <- TRUE, listed <- onSale

-----------------------------------------------------------------------------
(* The delivery service of the composition is Delivery with one goroutine.  *)

LEMMA DeliveryConstants == DP!ConstantsAssumption
  BY AutoAssumption, BotAssumption DEF DP!ConstantsAssumption, DP!Flow

LEMMA SameInit == D!Init => DP!Init
  BY DEF D!Init, DP!Init, D!NoRecord, DP!NoRecord, D!NoCall, DP!NoCall, D!Flow, DP!Flow,
         D!Nothing, DP!Nothing

LEMMA SameAddProduct ==
  ASSUME NEW b
  PROVE  D!AddProduct(b) => DP!AddProduct(b)
  BY DEF D!AddProduct, DP!AddProduct

LEMMA SameCall == D!Call(loop) => DP!Call(loop)
  BY DEF D!Call, DP!Call, D!Outcome, DP!Outcome, D!Goto, DP!Goto

LEMMA SameCrash == D!Crash => DP!Crash
  BY DEF D!Crash, DP!Crash, D!Surviving, DP!Surviving, D!NoRecord, DP!NoRecord,
         D!Nothing, DP!Nothing, D!NoCall, DP!NoCall, D!Flow, DP!Flow

LEMMA SameStep == D!Step(loop) => DP!Step(loop)
<1> USE DEF D!Goto, DP!Goto, D!ord, DP!ord, D!Return, DP!Return, D!Nothing, DP!Nothing,
            D!Vacant, DP!Vacant, D!Hand, DP!Hand
<1>1. D!ContainsOrder(loop) => DP!ContainsOrder(loop)
  BY SMTT(30) DEF D!ContainsOrder, DP!ContainsOrder
<1>2. D!Reserve(loop) => DP!Reserve(loop)
  BY DEF D!Reserve, DP!Reserve, D!Candidates, DP!Candidates, D!Requested, DP!Requested,
         D!Taken, DP!Taken, D!Rest, DP!Rest
<1>3. D!ClaimPending(loop) => DP!ClaimPending(loop)
  BY DEF D!ClaimPending, DP!ClaimPending, D!Claim, DP!Claim, D!AfterClaim, DP!AfterClaim
<1>4. D!SendDeliveryMessage(loop) => DP!SendDeliveryMessage(loop)
  BY DEF D!SendDeliveryMessage, DP!SendDeliveryMessage, D!AfterRefusal, DP!AfterRefusal
<1>5. D!ReleaseReserved(loop) => DP!ReleaseReserved(loop)
  BY DEF D!ReleaseReserved, DP!ReleaseReserved, D!Restored, DP!Restored
<1>6. D!ReleasePending(loop) => DP!ReleasePending(loop)
  BY DEF D!ReleasePending, DP!ReleasePending, D!Withdrawn, DP!Withdrawn, D!NoRecord, DP!NoRecord
<1>7. D!CommitDelivered(loop) => DP!CommitDelivered(loop)
  BY DEF D!CommitDelivered, DP!CommitDelivered, D!Completed, DP!Completed
<1>8. D!ReturnItems(loop) => DP!ReturnItems(loop)
  BY DEF D!ReturnItems, DP!ReturnItems
<1>9. QED
  BY <1>1, <1>2, <1>3, <1>4, <1>5, <1>6, <1>7, <1>8 DEF D!Step, DP!Step

LEMMA DeliveryStep == [AutoNext]_autoVars => [DP!Next]_(DP!vars)
<1> SUFFICES ASSUME [AutoNext]_autoVars PROVE DP!Next \/ UNCHANGED goods
  BY DEF goods, DP!vars
<1>1. ASSUME NEW b \in Batch, StockUp(b)
      PROVE  DP!Next
  BY <1>1, SameAddProduct DEF StockUp, DP!Next
<1>2. CASE HandleOrder
  BY <1>2, SameCall DEF HandleOrder, DP!Next
<1>3. CASE Deliver
  BY <1>3, SameStep DEF Deliver, DP!Next
<1>4. CASE EndProcess
  BY <1>4, SameCrash DEF EndProcess, DP!Next
<1>5. CASE HandleMessage \/ Loop \/ Outside \/ UNCHANGED autoVars
  BY <1>5 DEF HandleMessage, Loop, Outside, autoVars
<1>6. QED
  BY <1>1, <1>2, <1>3, <1>4, <1>5 DEF AutoNext

\* Seen from its stock, records and buyers the composition is Delivery.
THEOREM DeliveryImplemented == AutoSpec => DP!Spec
<1>1. AutoInit => DP!Init
  BY SameInit DEF AutoInit
<1>2. [AutoNext]_autoVars => [DP!Next]_(DP!vars)
  BY DeliveryStep
<1>3. QED
  BY <1>1, <1>2, PTL DEF AutoSpec, DP!Spec

\* No buyer gets the goods of one order twice, although the bot may offer the
\* order to the handler again: as long as a failed SendMessage means that
\* nothing arrived, and the records survive a restart.
THEOREM BuyerServedOnce ==
  ASSUME ~LostReplies, Persistent
  PROVE  AutoSpec => []ServedOnce
<1>1. DP!Spec => []DP!AtMostOnceDelivery
  BY DeliveryConstants, DP!ServedAtMostOnce
<1>2. DP!AtMostOnceDelivery => ServedOnce
  BY DEF DP!AtMostOnceDelivery, ServedOnce
<1>3. QED
  BY <1>1, <1>2, DeliveryImplemented, PTL

-----------------------------------------------------------------------------
(* The bot of the composition is Bot, whose file a crash may ruin.          *)

LEMMA BotSteps == [AutoNext]_autoVars => [Next]_vars \/ CrashInSave
<1> SUFFICES ASSUME [AutoNext]_autoVars, ~CrashInSave PROVE [Next]_vars
  OBVIOUS
<1>1. CASE \E b \in Batch : StockUp(b)
  BY <1>1 DEF StockUp
<1>2. CASE HandleOrder \/ HandleMessage
  BY <1>2 DEF HandleOrder, HandleMessage, Next, BotStep
<1>3. CASE Deliver \/ UNCHANGED autoVars
  BY <1>3 DEF Deliver, autoVars
<1>4. CASE Loop
  BY <1>4 DEF Loop, Next
<1>5. CASE EndProcess
  BY <1>5 DEF EndProcess, Next
<1>6. CASE Outside
  BY <1>6 DEF Outside, Next
<1>7. QED
  BY <1>1, <1>2, <1>3, <1>4, <1>5, <1>6 DEF AutoNext

LEMMA CrashInSaveIs ==
  ASSUME Shape, Places, CrashInSave
  PROVE  /\ Shape' /\ Places' /\ UNCHANGED world
         /\ phase' = "down" /\ seen' = NothingSeen /\ events' = <<>>
         /\ file'.state = "corrupt" /\ file'.seen = NothingSeen
<1>1. /\ GoDown /\ file' = Corrupt /\ badSaves' = badSaves + 1 /\ badSaves < MaxBadSaves
      /\ badSaves \in 0 .. MaxBadSaves
  BY DEF CrashInSave, BadSave, Shape, TypeOK
<1>2. badSaves' \in 0 .. MaxBadSaves
  BY <1>1, BotAssumption
<1>3. /\ Corrupt \in [state : {"missing", "corrupt", "saved"}, seen : Seen]
      /\ Corrupt.state = "corrupt" /\ Corrupt.seen = NothingSeen
  BY NothingSeenType DEF Corrupt
<1>4. Shape' /\ Places'
  BY <1>1, <1>2, <1>3, DownType
<1>5. QED
  BY <1>1, <1>3, <1>4 DEF GoDown

LEMMA AutoShape == Shape /\ Places /\ [AutoNext]_autoVars => Shape' /\ Places'
  BY BotSteps, NextShape, CrashInSaveIs

LEMMA AutoBase ==
  ASSUME BootstrapsWork
  PROVE  BaseInv /\ [AutoNext]_autoVars => BaseInv'
<1> SUFFICES ASSUME BaseInv, [AutoNext]_autoVars PROVE BaseInv'
  OBVIOUS
<1>1. CASE [Next]_vars
  BY <1>1, NextBase
<1>2. CASE CrashInSave
  <2>1. /\ Shape /\ Places /\ Grounded /\ TypeOK
        /\ Shape' /\ Places' /\ UNCHANGED world /\ phase' = "down"
        /\ seen' = NothingSeen /\ file'.seen = NothingSeen
    BY <1>2, CrashInSaveIs DEF BaseInv, Shape
  <2>2. fetches' = {} /\ results' = {} /\ marks' = {} /\ \A c \in Chat : pledge'[c] <= sent[c]
    <3>1. \A c \in Chat : sent[c] \in Nat /\ pledge'[c] = 0
      BY <1>2, <2>1, SeenNat DEF CrashInSave, GoDown
    <3>2. QED
      BY <1>2, <3>1 DEF CrashInSave, GoDown
  <2>3. Grounded'
    BY <2>1, <2>2, SameGrounds, StepGrounded
  <2>4. Remembers'
    BY <2>1 DEF Remembers, Polling
  <2>5. QED
    BY <2>1, <2>3, <2>4 DEF BaseInv
<1>3. QED
  BY <1>1, <1>2, BotSteps

\* A saved state is only replaced by one that remembers as much, also where
\* saves fail, the handler delivers in between, and a crash cuts a write.
THEOREM AutoNeverForgets ==
  ASSUME BootstrapsWork
  PROVE  AutoSpec => StateNeverForgets
<1> DEFINE Keeps == file.state = "saved" /\ file'.state = "saved" =>
                      /\ file.seen.orders \subseteq file'.seen.orders
                      /\ \A c \in Chat : file.seen.msgs[c] <= file'.seen.msgs[c]
<1>1. AutoInit => BaseInv
  BY InitBase DEF AutoInit
<1>2. BaseInv /\ [AutoNext]_autoVars => BaseInv'
  BY AutoBase
<1>3. BaseInv /\ [AutoNext]_autoVars => [Keeps]_vars
  <2>1. SUFFICES ASSUME BaseInv, [AutoNext]_autoVars PROVE Keeps
    OBVIOUS
  <2>2. CASE [Next]_vars
    BY <2>1, <2>2, SavesKeep DEF BaseInv, Leq
  <2>3. CASE CrashInSave
    BY <2>1, <2>3, CrashInSaveIs DEF BaseInv
  <2>4. QED
    BY <2>1, <2>2, <2>3, BotSteps
<1>4. QED
  BY <1>1, <1>2, <1>3, PTL DEF AutoSpec, StateNeverForgets

-----------------------------------------------------------------------------
(* No order falls between the two files.                                    *)

Settled(o) == inbox[o] # <<>> \/ o \in failed \/ o \in cut

Queueing(o) == \E k \in DOMAIN events : events[k].kind = "order" /\ events[k].order = o

Coming(o) == Queueing(o) \/ (~HandlerIdle /\ call[loop].order = o)

\* Accounted between the polls' ends: an order of the running bot's memory is
\* settled or still to be handled, an order of the file is settled unless the
\* save was this poll's; and the handler that commits has sent its message.
Accounts ==
  /\ \A o \in seen.orders : Settled(o) \/ Coming(o)
  /\ \A o \in file.seen.orders : Settled(o) \/ (phase = "handle" /\ Coming(o))
  /\ ~HandlerIdle => phase = "handle" /\ call[loop].flow = "process"
  /\ pc[loop] = "commit" => inbox[call[loop].order] # <<>>

LEMMA AccountsIs ==
  ASSUME Places, Accounts
  PROVE  /\ phase # "handle" => HandlerIdle
         /\ phase \notin {"fetch", "mark", "handle"} => \A o \in seen.orders : Settled(o)
         /\ phase # "handle" => \A o \in file.seen.orders : Settled(o)
         /\ Accounted
<1>1. phase # "handle" => HandlerIdle
  BY DEF Accounts
<1>2. phase \notin {"fetch", "mark", "handle"} => \A o \in Order : ~Coming(o)
  BY <1>1 DEF Places, Coming, Queueing
<1>3. phase \notin {"fetch", "mark", "handle"} => \A o \in seen.orders : Settled(o)
  BY <1>1 DEF Accounts, Places, Coming, Queueing
<1>4. QED
  BY <1>1, <1>3 DEF Accounts, Accounted, Settled

\* What a step of ProcessPaidOrder does to the buyer and to its caller.
LEMMA DeliverIs ==
  ASSUME DP!TypeOK, D!Step(loop), call[loop].flow = "process",
         pc[loop] = "commit" => inbox[call[loop].order] # <<>>
  PROVE  /\ call' = call /\ ~HandlerIdle
         /\ \A o \in Order : inbox[o] # <<>> => inbox'[o] # <<>>
         /\ pc'[loop] \in {"commit", "Ok"} => inbox'[call[loop].order] # <<>>
         /\ pc'[loop] # "idle"
<1> USE DEF D!Goto, D!Return, D!ord, HandlerIdle, D!Outcome
<1>0. /\ pc = [w \in {loop} |-> pc[loop]]
      /\ \A x : [pc EXCEPT ![loop] = x][loop] = x
      /\ inbox \in [Order -> Seq(Seq(Item))] /\ call[loop].order \in Order
      /\ reserved[loop].items \in Seq(Item)
  BY DEF DP!TypeOK, DP!Reservation
<1>1. CASE D!ContainsOrder(loop)
  BY <1>0, <1>1 DEF D!ContainsOrder
<1>2. CASE D!Reserve(loop)
  BY <1>0, <1>2 DEF D!Reserve
<1>3. CASE D!ClaimPending(loop)
  BY <1>0, <1>3 DEF D!ClaimPending, D!AfterClaim
<1>h. ASSUME D!Hand(loop)
      PROVE  /\ \A o \in Order : inbox[o] # <<>> => inbox'[o] # <<>>
             /\ inbox'[call[loop].order] # <<>>
  <2> DEFINE x == call[loop].order
             m == reserved[loop].items
  <2>1. inbox[x] \in Seq(Seq(Item)) /\ inbox' = [inbox EXCEPT ![x] = Append(inbox[x], m)] /\ x \in Order
    BY <1>0, <1>h DEF D!Hand
  <2>2. Append(inbox[x], m) # <<>>
    <3>1. Len(Append(inbox[x], m)) = Len(inbox[x]) + 1 /\ Len(inbox[x]) \in Nat
      BY <1>0, <2>1, AppendProperties, LenProperties
    <3>2. Len(Append(inbox[x], m)) # 0
      BY <3>1
    <3>3. Len(<<>>) = 0
      OBVIOUS
    <3>4. QED
      BY <3>2, <3>3, Zenon
  <2>3. QED
    BY <1>0, <2>1, <2>2
<1>4. CASE D!SendDeliveryMessage(loop)
  BY <1>0, <1>4, <1>h DEF D!SendDeliveryMessage, D!AfterRefusal
<1>5. CASE D!ReleaseReserved(loop)
  BY <1>0, <1>5 DEF D!ReleaseReserved
<1>6. CASE D!ReleasePending(loop)
  BY <1>0, <1>6 DEF D!ReleasePending
<1>7. CASE D!CommitDelivered(loop)
  BY <1>0, <1>7 DEF D!CommitDelivered
<1>8. CASE D!ReturnItems(loop)
  BY <1>0, <1>8, <1>h DEF D!ReturnItems
<1>9. QED
  BY <1>1, <1>2, <1>3, <1>4, <1>5, <1>6, <1>7, <1>8 DEF D!Step

\* The steps of the bot outside the handler, the handler being idle.
LEMMA LoopAccounts ==
  ASSUME ~Bootstraps, Shape, Places, Accounts, HandlerIdle,
         World \/ (BotStep /\ ~Handle) \/ NewBot \/ \E o \in Order : FetchChatError(o),
         UNCHANGED <<goods, history>>
  PROVE  Accounts'
<1> USE DEF world, poll, disk
<1>0. /\ TypeOK /\ seen \in Seen /\ phase \notin {"bootOrders", "bootChats"}
      /\ HandlerIdle' /\ pc' = pc /\ call' = call /\ inbox' = inbox
      /\ phase # "handle" => \A o \in file.seen.orders : Settled(o)
      /\ phase \notin {"fetch", "mark", "handle"} => \A o \in seen.orders : Settled(o)
  <2>1. TypeOK /\ seen \in Seen /\ phase \notin {"bootOrders", "bootChats"}
    BY DEF Shape, TypeOK, Places
  <2>2. HandlerIdle' /\ pc' = pc /\ call' = call /\ inbox' = inbox
    BY DEF goods, HandlerIdle
  <2>3. QED
    BY <2>1, <2>2, AccountsIs
<1>s. \A o : Settled(o)' <=> Settled(o)
  BY DEF Settled, goods, history
<1>c. \A o : Coming(o) => Queueing(o)
  BY DEF Coming
<1>q. events' = events => \A o : Queueing(o) => Coming(o)'
  BY DEF Coming, Queueing
<1>1. ASSUME \A o \in seen'.orders : Settled(o) \/ Coming(o)',
             \A o \in file'.seen.orders : Settled(o) \/ (phase' = "handle" /\ Coming(o)')
      PROVE  Accounts'
  BY <1>0, <1>1, <1>s DEF Accounts
<1>2. ASSUME seen'.orders = seen.orders, \A o : Queueing(o) => Coming(o)',
             file' = file, phase' = phase \/ phase # "handle"
      PROVE  Accounts'
  BY <1>0, <1>1, <1>2, <1>c DEF Accounts
<1>3. CASE World
  <2>1. UNCHANGED <<seen, events, file, phase>>
    BY <1>3 DEF World, Place, Close, Drop, Write
  <2>2. QED
    BY <1>2, <1>q, <2>1
<1>4. CASE NewBot
  <2>1. seen'.orders = {} /\ file' = file /\ phase # "handle"
    BY <1>4 DEF NewBot, NothingSeen
  <2>2. QED
    BY <1>0, <1>1, <2>1
<1>5. CASE LoadState
  <2>1. seen'.orders = seen.orders \cup file.seen.orders /\ file' = file /\ phase = "load"
    BY <1>0, <1>5, LoadedIs DEF LoadState
  <2>2. QED
    BY <1>0, <1>1, <2>1
<1>6. CASE FetchOrders
  <2>1. /\ seen'.orders = seen.orders \cup listed /\ file' = file /\ phase = "ready"
        /\ events' = NewOrderEvents
    BY <1>0, <1>6, OrdersIs DEF FetchOrders, TypeOK
  <2>2. IsFiniteSet(NewOrders)
    BY FS_Subset DEF Shape, TypeOK, NewOrders
  <2>3. \A o \in NewOrders : Coming(o)'
    BY <2>1, <2>2, NewOrderEventsAll DEF Coming, Queueing
  <2>4. QED
    BY <1>0, <1>1, <2>1, <2>3 DEF NewOrders
<1>7. ASSUME NEW r \in results, Collect(r)
      PROVE  Accounts'
  <2>1. ChatOf[r.order] \in Chat /\ r.upto \in MsgId
    BY <1>0, BotAssumption DEF TypeOK
  <2>2. Passed(ChatOf[r.order], r.upto) \in MsgId
    BY <1>0, <2>1, PassedType
  <2>3. seen'.orders = seen.orders /\ file' = file /\ phase' = phase
    BY <1>0, <1>7, <2>1, <2>2, MsgsIs DEF Collect
  <2>4. \A o : Queueing(o) => Coming(o)'
    BY <1>7, CollectIs DEF Coming, Queueing
  <2>5. QED
    BY <1>2, <2>3, <2>4
<1>8. ASSUME NEW o \in Order, MarkChat(o)
      PROVE  Accounts'
  <2>1. ChatOf[o] \in Chat /\ Raised(ChatOf[o], sent[ChatOf[o]]) \in MsgId
    BY <1>0, RaisedIs, BotAssumption
  <2>2. seen'.orders = seen.orders /\ file' = file /\ phase' = phase /\ events' = events
    BY <1>0, <1>8, <2>1, MsgsIs DEF MarkChat
  <2>3. QED
    BY <1>2, <1>q, <2>2
<1>9. ASSUME NEW o \in Order, FetchChatMessages(o) \/ FetchChatError(o)
      PROVE  Accounts'
  BY <1>2, <1>9, <1>q DEF FetchChatMessages, FetchChatError
<1>10. CASE AllCollected
  BY <1>2, <1>10, <1>q DEF AllCollected
<1>11. CASE PersistState
  <2>1. file'.seen \in {seen, file.seen, NothingSeen}
    BY <1>0, <1>11, SaveIs DEF PersistState
  <2>2. seen' = seen /\ events' = events /\ phase = "mark" /\ phase' = "handle"
    BY <1>11 DEF PersistState
  <2>3. \A o \in seen.orders : Settled(o) \/ Coming(o)'
    BY <1>c, <1>q, <2>2 DEF Accounts
  <2>4. NothingSeen.orders = {}
    BY DEF NothingSeen
  <2>5. QED
    BY <1>0, <1>1, <2>1, <2>2, <2>3, <2>4
<1>12. CASE Sleep
  <2>1. events = <<>> /\ seen' = seen /\ file' = file
    BY <1>12 DEF Sleep
  <2>2. \A o : ~Coming(o)
    BY <1>c, <2>1 DEF Queueing
  <2>3. QED
    BY <1>1, <2>1, <2>2 DEF Accounts
<1>13. QED
  BY <1>0, <1>3, <1>4, <1>5, <1>6, <1>7, <1>8, <1>9, <1>10, <1>11, <1>12
  DEF BotStep, BootstrapOrders, BootstrapChat, BootstrapSave

\* An order leaves the queue into a call, or with an error.
LEMMA HandlerAccounts ==
  ASSUME Shape, Places, Accounts, DP!TypeOK, HandleOrder \/ HandleMessage
  PROVE  Accounts'
<1> DEFINE e == events[1]
<1>0. TypeOK /\ Handle /\ HandlerIdle /\ phase = "handle"
  BY DEF Shape, HandleOrder, HandleMessage, Handle
<1>1. /\ e = Head(events)
      /\ \A k \in DOMAIN events : k = 1 \/ (k - 1 \in DOMAIN events' /\ events'[k - 1] = events[k])
  BY <1>0, HandleIs
<1>2. /\ seen' = seen /\ file' = file /\ phase' = "handle"
      /\ inbox' = inbox /\ cut' = cut /\ failed \subseteq failed'
  BY <1>0 DEF Handle, HandleOrder, HandleMessage, D!Call, OutcomeOf, disk, goods, history
<1> HIDE DEF e
<1>x. PICK x : x = e.order
  OBVIOUS
<1>3. \A o : Settled(o) => Settled(o)'
  BY <1>2 DEF Settled
<1>4. \A o : Coming(o) => Coming(o)' \/ (e.kind = "order" /\ x = o)
  BY <1>0, <1>1, <1>x DEF Coming, Queueing, e
<1>5. CASE HandleMessage
  <2>1. e.kind # "order" /\ UNCHANGED <<pc, call, inbox>>
    BY <1>1, <1>5 DEF HandleMessage, goods
  <2>2. QED
    BY <1>0, <1>2, <1>3, <1>4, <2>1 DEF Accounts, HandlerIdle
<1>6. CASE HandleOrder
  <2>1. /\ call'[loop] = [flow |-> "process", order |-> x]
        /\ failed' = OutcomeOf
        /\ pc'[loop] \in {"check", "OrderNotPaid"}
    BY <1>1, <1>x, <1>6 DEF HandleOrder, D!Call, D!Goto, DP!TypeOK
  <2>2. /\ call'[loop].order = x /\ call'[loop].flow = "process"
        /\ pc'[loop] # "commit"
    BY <2>1
  <2>3. Settled(x)' \/ Coming(x)'
    <3>1. CASE pc'[loop] = "check"
      BY <2>2, <3>1 DEF Coming, HandlerIdle, D!Outcome
    <3>2. CASE pc'[loop] = "OrderNotPaid"
      BY <2>1, <2>2, <3>2 DEF Settled, OutcomeOf, D!Outcome
    <3>3. QED
      BY <2>1, <3>1, <3>2
  <2>4. QED
    BY <1>2, <1>3, <1>4, <2>2, <2>3 DEF Accounts
<1>7. QED
  BY <1>5, <1>6

\* A call ends with the goods at the buyer or with an error.
LEMMA DeliverAccounts ==
  ASSUME Shape, Accounts, DP!TypeOK, Deliver
  PROVE  Accounts'
<1>0. /\ seen.orders \subseteq Order /\ file.seen.orders \subseteq Order
      /\ call[loop].order \in Order
  BY DEF Shape, TypeOK, Seen, DP!TypeOK
<1>1. /\ D!Step(loop) /\ failed' = OutcomeOf /\ cut' = cut
      /\ UNCHANGED <<seen, file, phase, events>>
  BY DEF Deliver, vars, disk, poll
<1>2. pc[loop] \in DP!Phase
  BY <1>1 DEF D!Step, D!ContainsOrder, D!Reserve, D!ClaimPending, D!SendDeliveryMessage,
              D!ReleaseReserved, D!ReleasePending, D!CommitDelivered, D!ReturnItems, DP!Phase
<1>3. ~HandlerIdle
  BY <1>2 DEF HandlerIdle, D!Outcome, DP!Phase
<1>4. phase = "handle" /\ call[loop].flow = "process"
  BY <1>3 DEF Accounts
<1>5. /\ call' = call
      /\ \A o \in Order : inbox[o] # <<>> => inbox'[o] # <<>>
      /\ pc'[loop] \in {"commit", "Ok"} => inbox'[call[loop].order] # <<>>
  BY <1>1, <1>4, DeliverIs DEF Accounts
<1>6. \A o \in Order : Settled(o) => Settled(o)'
  BY <1>1, <1>5 DEF Settled, OutcomeOf
<1>7. Settled(call[loop].order)' \/ ~HandlerIdle'
  BY <1>1, <1>5 DEF Settled, OutcomeOf, HandlerIdle
<1>8. \A o \in Order : Coming(o) => Coming(o)' \/ Settled(o)'
  BY <1>1, <1>5, <1>7 DEF Coming, Queueing
<1>9. QED
  BY <1>0, <1>1, <1>4, <1>5, <1>6, <1>8 DEF Accounts

\* What waits for the handler, or is in it, is cut by the end of its process.
LEMMA EndAccounts ==
  ASSUME Shape, Places, Accounts, EndProcess
  PROVE  Accounts'
<1>0. /\ pc'[loop] = "idle" /\ inbox' = inbox /\ failed' = failed /\ cut' = cut \cup Waiting
  BY DEF EndProcess, D!Crash
<1>1. HandlerIdle' /\ \A o : Settled(o) => Settled(o)'
  BY <1>0 DEF HandlerIdle, D!Outcome, Settled
<1>2. seen' = NothingSeen /\ NothingSeen.orders = {} /\ NoFile.seen = NothingSeen
  BY NothingSeenType DEF EndProcess, Stop, Crash, CrashInSave, GoDown, NothingSeen
<1>3. ASSUME phase = "handle", NEW o, Coming(o)
      PROVE  Settled(o)'
  <2>1. o \in Waiting
    BY <1>3 DEF Coming, Queueing, Waiting
  <2>2. QED
    BY <1>0, <2>1 DEF Settled
<1>4. \A o \in file'.seen.orders : Settled(o)'
  <2>1. \A o \in file.seen.orders : Settled(o)'
    BY <1>1, <1>3 DEF Accounts
  <2>2. CASE CrashInSave
    <3>1. file'.seen = NothingSeen
      BY <2>2, CrashInSaveIs
    <3>2. QED
      BY <1>2, <3>1
  <2>3. CASE Crash
    <3>1. file'.seen \in {file.seen, NothingSeen}
      BY <1>2, <2>3 DEF Crash, StateAfterCrash
    <3>2. QED
      BY <1>2, <2>1, <3>1
  <2>4. CASE Stop
    <3>1. file'.seen \in {seen, file.seen, NothingSeen}
      BY <1>2, <2>4, SaveIs DEF Stop, Shape
    <3>2. \A o \in seen.orders : Settled(o)'
      BY <1>1, <2>4, AccountsIs DEF Stop
    <3>3. QED
      BY <1>2, <2>1, <3>1, <3>2
  <2>5. QED
    BY <2>2, <2>3, <2>4 DEF EndProcess
<1>5. QED
  BY <1>0, <1>1, <1>2, <1>4 DEF Accounts

LEMMA AutoAccounts ==
  ASSUME ~Bootstraps
  PROVE  Shape /\ Places /\ DP!TypeOK /\ Accounts /\ [AutoNext]_autoVars => Accounts'
<1> SUFFICES ASSUME Shape, Places, DP!TypeOK, Accounts, [AutoNext]_autoVars PROVE Accounts'
  OBVIOUS
<1>1. CASE Loop \/ Outside
  <2>1. CASE HandlerIdle
    BY <1>1, <2>1, LoopAccounts DEF Loop, Outside
  <2>2. CASE ~HandlerIdle
    <3>1. phase = "handle" /\ Outside
      BY <1>1, <2>2 DEF Accounts, Loop
    <3>2. UNCHANGED <<seen, file, phase, events>>
      BY <3>1 DEF Outside, World, Place, Close, Drop, Write, NewBot, FetchChatError, disk, poll
    <3>3. UNCHANGED <<pc, call, inbox, failed, cut>>
      BY <3>1 DEF Outside, goods, history
    <3>4. QED
      BY <3>2, <3>3 DEF Accounts, Settled, Coming, Queueing, HandlerIdle
  <2>3. QED
    BY <2>1, <2>2
<1>2. CASE (\E b \in Batch : StockUp(b)) \/ UNCHANGED autoVars
  <2>1. UNCHANGED <<seen, file, phase, events, pc, call, inbox, failed, cut>>
    BY <1>2 DEF StockUp, D!AddProduct, autoVars, vars, disk, poll, goods, history
  <2>2. QED
    BY <2>1 DEF Accounts, Settled, Coming, Queueing, HandlerIdle
<1>3. QED
  BY <1>1, <1>2, HandlerAccounts, DeliverAccounts, EndAccounts DEF AutoNext

\* Back at the top of its loop the bot remembers no order that was not served,
\* whose call did not fail and whose process did not end over it: whatever the
\* saves of the two files and the crashes between them do, without Bootstrap.
THEOREM OrdersAccounted ==
  ASSUME ~Bootstraps
  PROVE  AutoSpec => []Accounted
<1> DEFINE Inv == Shape /\ Places /\ DP!TypeInv /\ Accounts
<1>1. AutoInit => Inv
  <2>1. AutoInit => Shape /\ Places
    BY InitShape DEF AutoInit
  <2>2. AutoInit => DP!TypeInv
    BY SameInit, DeliveryConstants, DP!InitType DEF AutoInit
  <2>3. AutoInit => Accounts
    BY NothingSeenType DEF AutoInit, Init, D!Init, Accounts, HandlerIdle, D!Outcome, NothingSeen
  <2>4. QED
    BY <2>1, <2>2, <2>3
<1>2. Inv /\ [AutoNext]_autoVars => Inv'
  <2>1. DP!TypeInv /\ [AutoNext]_autoVars => DP!TypeInv'
    BY DeliveryStep, DeliveryConstants, DP!NextType
  <2>2. DP!TypeInv => DP!TypeOK
    BY DEF DP!TypeInv
  <2>3. QED
    BY <2>1, <2>2, AutoShape, AutoAccounts
<1>3. Inv => Accounted
  BY AccountsIs
<1>4. QED
  BY <1>1, <1>2, <1>3, PTL DEF AutoSpec

=============================================================================
