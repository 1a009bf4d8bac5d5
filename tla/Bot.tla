-------------------------------- MODULE Bot ---------------------------------
(***************************************************************************)
(* GoldenPayBot (src/bot.go) with its StateStore (src/storage.go): one     *)
(* goroutine polls the orders page, fetches the chats concurrently,        *)
(* remembers what it has seen, saves that, and only then hands the new     *)
(* orders and messages to the host's handler.  Around it the marketplace   *)
(* moves at any time, requests fail, and the process stops, dies and is    *)
(* started again.  Message ids of a chat ascend from 1, as the service     *)
(* numbers them; 0 stands for a chat SeenMessages has no entry for.        *)
(***************************************************************************)
EXTENDS Integers, Sequences, SequencesExt

CONSTANTS
  Order, Chat,
  ChatOf,              \* OrderInfo.ChatID; two orders may share a chat
  IgnoreOwnMessages, EmitMessagesForNewOrders,
  Bootstraps,          \* the host may call Bootstrap before Run
  Persistent,          \* TRUE: JSONStateStore; FALSE: MemoryStateStore
  FetchFails,          \* a request may fail
  MaxBadSaves,         \* bound: saves that fail, or that a crash interrupts
  TornWrites,          \* a crash may interrupt os.WriteFile
  Crashes, Stops,      \* the process may die; the host may cancel the context
  Closes, Drops,       \* orders close; old orders leave the first page
  MaxMessages          \* bound: messages per chat

ASSUME BotAssumption ==
  /\ ChatOf \in [Order -> Chat]
  /\ {IgnoreOwnMessages, EmitMessagesForNewOrders, Bootstraps, Persistent, FetchFails,
      TornWrites, Crashes, Stops, Closes, Drops} \subseteq BOOLEAN
  /\ MaxBadSaves \in Nat
  /\ MaxMessages \in Nat

VARIABLES
  placed, listed, closed,  \* orders: ever placed; on the page; with status closed
  sent,      \* number of messages written in each chat
  own,       \* the pairs <<chat, id>> the account wrote itself
  phase,     \* where the bot's goroutine is
  seen,      \* EventStream: SeenOrders and SeenMessages
  file,      \* what the StateStore holds
  fetches,   \* orders whose chat a goroutine (or Bootstrap) has yet to fetch
  results,   \* fetched chats on their way through the channel
  marks,     \* markChats
  events,    \* what pollOnce returns
  told,      \* how often each order was handed to the handler
  heard,     \* ids of each chat handed to the handler, in that order
  badSaves,  \* number of saves that failed or were interrupted
  pledge,    \* observer: up to which id a running Bootstrap is to pass over
  skip       \* observer: the same, of every Bootstrap that has returned

world   == <<placed, listed, closed, sent, own>>
poll    == <<fetches, results, marks, events>>
outside == <<told, heard>>
disk    == <<file, badSaves>>
pledges == <<pledge, skip>>
vars    == <<world, phase, seen, disk, poll, outside, pledges>>

Phases == {"down", "bootOrders", "bootChats", "load", "ready", "fetch",
           "mark", "save", "handle"}
MsgId  == 0 .. MaxMessages
Seen   == [orders : SUBSET Order, msgs : [Chat -> MsgId]]
Event  == [kind : {"order"}, order : Order]
            \cup [kind : {"message"}, chat : Chat, id : MsgId]

TypeOK ==
  /\ placed \subseteq Order /\ listed \subseteq placed /\ closed \subseteq placed
  /\ sent \in [Chat -> MsgId]
  /\ own \subseteq Chat \X MsgId
  /\ phase \in Phases
  /\ seen \in Seen
  /\ file \in [state : {"missing", "corrupt", "saved"}, seen : Seen]
  /\ fetches \subseteq Order
  /\ results \subseteq [order : Order, upto : MsgId]
  /\ marks \subseteq Order
  /\ events \in Seq(Event)
  /\ told \in [Order -> Nat]
  /\ heard \in [Chat -> Seq(MsgId)]
  /\ badSaves \in 0 .. MaxBadSaves
  /\ {pledge, skip} \subseteq [Chat -> MsgId]

NothingSeen == [orders |-> {}, msgs |-> [c \in Chat |-> 0]]
Corrupt     == [state |-> "corrupt", seen |-> NothingSeen]
NoFile      == [state |-> "missing", seen |-> NothingSeen]

Init ==
  /\ placed = {} /\ listed = {} /\ closed = {}
  /\ sent = [c \in Chat |-> 0]
  /\ own = {}
  /\ phase = "down"
  /\ seen = NothingSeen
  /\ file = NoFile
  /\ fetches = {} /\ results = {} /\ marks = {} /\ events = <<>>
  /\ told = [o \in Order |-> 0]
  /\ heard = [c \in Chat |-> <<>>]
  /\ badSaves = 0
  /\ pledge = [c \in Chat |-> 0]
  /\ skip = [c \in Chat |-> 0]

-----------------------------------------------------------------------------
(* Mutated forms of the definitions below.                                  *)

IsNewAgain(c, n) == n >= seen.msgs[c]
IsNewLate(c, n) == n > seen.msgs[c] + 1
PassedBeyond(c, upto) == upto + 1
LoadedNothing == seen
RaisedNever(c, upto) == seen.msgs[c]
NeedsFetchOnce(o) == o \notin seen.orders

-----------------------------------------------------------------------------
(* Helpers.                                                                 *)

SetMax(a, b) == IF a < b THEN b ELSE a

\* ShouldEmitMessage: the own-author filter comes first and leaves the
\* watermark alone; otherwise the id must be above the chat's watermark.
Filtered(c, n) == IgnoreOwnMessages /\ <<c, n>> \in own

IsNew(c, n) == n > seen.msgs[c]

\* The messages of a fetched chat that pass, in the order the service lists
\* them, which is ascending: an earlier one raises the watermark below a later.
Fresh(c, upto) == {n \in 1 .. upto : ~Filtered(c, n) /\ IsNew(c, n)}

NewIds(c, upto) ==
  CHOOSE s \in [1 .. Cardinality(Fresh(c, upto)) -> Fresh(c, upto)] :
    \A j, k \in DOMAIN s : j < k => s[j] < s[k]

MessageEvents(c, upto) ==
  [k \in DOMAIN NewIds(c, upto) |-> [kind |-> "message", chat |-> c, id |-> NewIds(c, upto)[k]]]

\* The watermark after a fetched chat went through ShouldEmitMessage.
Passed(c, upto) ==
  IF NewIds(c, upto) = <<>> THEN seen.msgs[c] ELSE Last(NewIds(c, upto))

\* Bootstrap and the marking of a chat look at every message, own ones too.
Raised(c, upto) == SetMax(seen.msgs[c], upto)

\* LoadState: entries of the file replace those of the stream.
Loaded ==
  IF file.state = "saved"
  THEN [orders |-> seen.orders \cup file.seen.orders,
        msgs |-> [c \in Chat |-> IF file.seen.msgs[c] = 0 THEN seen.msgs[c]
                                                          ELSE file.seen.msgs[c]]]
  ELSE seen

Saved == [state |-> "saved", seen |-> seen]

\* ShouldEmitOrder on each order of the page.  (A failed FetchOrders is logged
\* and changes nothing: the next poll starts from the same state.)
NewOrders == listed \ seen.orders

NewOrderEvents ==
  [k \in DOMAIN SetToSeq(NewOrders) |-> [kind |-> "order", order |-> SetToSeq(NewOrders)[k]]]

\* pollOnce emits the messages of this order's chat; else it only marks them.
NeedsFetch(o) == o \in seen.orders \/ EmitMessagesForNewOrders

\* Bootstrap looks into the chats of paid orders only.
SeedsChat(o) == o \notin closed

StateAfterCrash == IF Persistent THEN file ELSE NoFile

\* What the chats of the orders on the page hold.
OnPage == [c \in Chat |-> IF \E o \in listed : ChatOf[o] = c THEN sent[c] ELSE 0]

BadSave == badSaves < MaxBadSaves /\ badSaves' = badSaves + 1

SaveState ==
  \/ file' = Saved /\ UNCHANGED badSaves
  \/ BadSave /\ UNCHANGED file
  \/ BadSave /\ TornWrites /\ file' = Corrupt

-----------------------------------------------------------------------------
(* The marketplace.                                                         *)

Place(o) ==
  /\ o \notin placed
  /\ placed' = placed \cup {o}
  /\ listed' = listed \cup {o}
  /\ UNCHANGED <<closed, sent, own, phase, seen, disk, poll, outside, pledges>>

Close(o) ==
  /\ Closes
  /\ o \in placed \ closed
  /\ closed' = closed \cup {o}
  /\ UNCHANGED <<placed, listed, sent, own, phase, seen, disk, poll, outside, pledges>>

Drop(o) ==
  /\ Drops
  /\ o \in listed \cap closed
  /\ listed' = listed \ {o}
  /\ UNCHANGED <<placed, closed, sent, own, phase, seen, disk, poll, outside, pledges>>

Write(c, byMe) ==
  /\ sent[c] < MaxMessages
  /\ sent' = [sent EXCEPT ![c] = @ + 1]
  /\ own' = IF byMe THEN own \cup {<<c, sent[c] + 1>>} ELSE own
  /\ UNCHANGED <<placed, listed, closed, phase, seen, disk, poll, outside, pledges>>

-----------------------------------------------------------------------------
(* Start, Bootstrap, LoadState.                                             *)

\* NewBot: a fresh, empty EventStream.
NewBot ==
  /\ phase = "down"
  /\ phase' \in IF Bootstraps THEN {"bootOrders", "load"} ELSE {"load"}
  /\ seen' = NothingSeen
  /\ UNCHANGED <<world, disk, poll, outside, pledges>>

\* A failed FetchOrders ends Bootstrap without saving; the host logs it and
\* runs the bot all the same (cmd/example).
BootstrapOrders ==
  /\ phase = "bootOrders"
  /\ \/ /\ FetchFails
        /\ phase' = "load"
        /\ UNCHANGED <<seen, fetches, pledge>>
     \/ /\ phase' = "bootChats"
        /\ seen' = [seen EXCEPT !.orders = @ \cup listed]
        /\ fetches' = {o \in listed : SeedsChat(o)}
        /\ pledge' = OnPage
  /\ UNCHANGED <<world, disk, results, marks, events, outside, skip>>

BootstrapChat(o) ==
  /\ phase = "bootChats"
  /\ o \in fetches
  /\ fetches' = fetches \ {o}
  /\ \/ FetchFails /\ UNCHANGED seen
     \/ seen' = [seen EXCEPT !.msgs[ChatOf[o]] = Raised(ChatOf[o], sent[ChatOf[o]])]
  /\ UNCHANGED <<world, phase, disk, results, marks, events, outside, pledges>>

BootstrapSave ==
  /\ phase = "bootChats"
  /\ fetches = {}
  /\ SaveState
  /\ phase' = "load"
  /\ pledge' = [c \in Chat |-> 0]
  /\ skip' = [c \in Chat |-> SetMax(skip[c], pledge[c])]
  /\ UNCHANGED <<world, seen, poll, outside>>

\* Run starts with LoadState; an unreadable file is logged and ignored.
LoadState ==
  /\ phase = "load"
  /\ seen' = Loaded
  /\ phase' = "ready"
  /\ UNCHANGED <<world, disk, poll, outside, pledges>>

-----------------------------------------------------------------------------
(* pollOnce and the handler.                                                *)

FetchOrders ==
  /\ phase = "ready"
  /\ phase' = "fetch"
  /\ seen' = [seen EXCEPT !.orders = @ \cup listed]
  /\ events' = NewOrderEvents
  /\ fetches' = {o \in listed : NeedsFetch(o)}
  /\ marks' = {o \in listed : ~NeedsFetch(o)}
  /\ UNCHANGED <<world, disk, results, outside, pledges>>

\* A goroutine's request is answered: the chat as it is now.
FetchChatMessages(o) ==
  /\ phase = "fetch"
  /\ o \in fetches
  /\ fetches' = fetches \ {o}
  /\ results' = results \cup {[order |-> o, upto |-> sent[ChatOf[o]]]}
  /\ UNCHANGED <<world, phase, seen, disk, marks, events, outside, pledges>>

\* A failed request is an answer without messages; the chat waits for the
\* next poll.
FetchChatError(o) ==
  /\ FetchFails
  /\ phase = "fetch"
  /\ o \in fetches
  /\ fetches' = fetches \ {o}
  /\ UNCHANGED <<world, phase, seen, disk, results, marks, events, outside, pledges>>

\* Answers come out of the channel in any order, and an answer about a chat
\* may be older than one received before it.
Collect(r) ==
  /\ phase = "fetch"
  /\ r \in results
  /\ results' = results \ {r}
  /\ events' = events \o MessageEvents(ChatOf[r.order], r.upto)
  /\ seen' = [seen EXCEPT !.msgs[ChatOf[r.order]] = Passed(ChatOf[r.order], r.upto)]
  /\ UNCHANGED <<world, phase, disk, fetches, marks, outside, pledges>>

AllCollected ==
  /\ phase = "fetch"
  /\ fetches = {} /\ results = {}
  /\ phase' = "mark"
  /\ UNCHANGED <<world, seen, disk, poll, outside, pledges>>

MarkChat(o) ==
  /\ phase = "mark"
  /\ o \in marks
  /\ marks' = marks \ {o}
  /\ \/ FetchFails /\ UNCHANGED seen
     \/ seen' = [seen EXCEPT !.msgs[ChatOf[o]] = Raised(ChatOf[o], sent[ChatOf[o]])]
  /\ UNCHANGED <<world, phase, disk, fetches, results, events, outside, pledges>>

PersistState ==
  /\ phase = "mark"
  /\ marks = {}
  /\ SaveState
  /\ phase' = "handle"
  /\ UNCHANGED <<world, seen, poll, outside, pledges>>

\* An error of the handler is logged; the event is not offered again.
Handle ==
  /\ phase = "handle"
  /\ events # <<>>
  /\ events' = Tail(events)
  /\ IF Head(events).kind = "order"
     THEN /\ told' = [told EXCEPT ![Head(events).order] = @ + 1]
          /\ UNCHANGED heard
     ELSE /\ heard' = [heard EXCEPT ![Head(events).chat] = Append(@, Head(events).id)]
          /\ UNCHANGED told
  /\ UNCHANGED <<world, phase, seen, disk, fetches, results, marks, pledges>>

Sleep ==
  /\ phase = "handle"
  /\ events = <<>>
  /\ phase' = "ready"
  /\ UNCHANGED <<world, seen, disk, poll, outside, pledges>>

-----------------------------------------------------------------------------
(* The end of a process.                                                    *)

GoDown ==
  /\ phase' = "down"
  /\ seen' = NothingSeen
  /\ fetches' = {} /\ results' = {} /\ marks' = {} /\ events' = <<>>
  /\ pledge' = [c \in Chat |-> 0]
  /\ UNCHANGED <<world, outside, skip>>

\* Run looks at the context at the top of its loop only.
Stop ==
  /\ Stops
  /\ phase = "ready"
  /\ IF Persistent THEN SaveState ELSE file' = NoFile /\ UNCHANGED badSaves
  /\ GoDown

Crash ==
  /\ Crashes
  /\ phase # "down"
  /\ file' = StateAfterCrash
  /\ UNCHANGED badSaves
  /\ GoDown

BotStep ==
  \/ BootstrapOrders
  \/ \E o \in Order : BootstrapChat(o)
  \/ BootstrapSave
  \/ LoadState
  \/ FetchOrders
  \/ \E o \in Order : FetchChatMessages(o)
  \/ \E r \in results : Collect(r)
  \/ AllCollected
  \/ \E o \in Order : MarkChat(o)
  \/ PersistState
  \/ Handle
  \/ Sleep

World ==
  \/ \E o \in Order : Place(o) \/ Close(o) \/ Drop(o)
  \/ \E c \in Chat, byMe \in BOOLEAN : Write(c, byMe)

Next ==
  \/ World
  \/ BotStep
  \/ \E o \in Order : FetchChatError(o)
  \/ NewBot
  \/ Stop
  \/ Crash

Spec == Init /\ [][Next]_vars

\* The loop of Run never waits for anybody but the HTTP client, which gives up
\* after 30 seconds; the host starts the bot; and a chat that is asked for at
\* poll after poll is answered at last.
FairSpec ==
  /\ Spec
  /\ WF_vars(BotStep) /\ WF_vars(NewBot)
  /\ \A o \in Order : SF_vars(FetchChatMessages(o))

-----------------------------------------------------------------------------
(* Properties.                                                              *)

\* EventStream's dedup, across polls, duplicate fetches of one chat, answers
\* that arrive out of order, crashes and restarts: the handler gets an order
\* at most once, and the messages of a chat at most once and in their order.
HandledOnce ==
  /\ \A o \in Order : told[o] <= 1
  /\ \A c \in Chat : \A i, j \in DOMAIN heard[c] : i < j => heard[c][i] < heard[c][j]

Queued(c) == {events[k].id : k \in {x \in DOMAIN events :
                events[x].kind = "message" /\ events[x].chat = c}}
Heard(c)  == {heard[c][k] : k \in DOMAIN heard[c]}

\* The watermark never runs over a message: while nothing dies and no chat is
\* marked, each message at or below it that passes the filter has been handled
\* or waits in the events of this poll.
NoGap ==
  \A c \in Chat : \A n \in 1 .. seen.msgs[c] :
    ~Filtered(c, n) => n \in Heard(c) \cup Queued(c)

\* A saved state is only ever replaced by one that remembers at least as much:
\* whatever crashed, failed to be fetched or failed to be saved in between.
StateNeverForgets ==
  [][file.state = "saved" /\ file'.state = "saved" =>
       /\ file.seen.orders \subseteq file'.seen.orders
       /\ \A c \in Chat : file.seen.msgs[c] <= file'.seen.msgs[c]]_vars

\* Bootstrap is there "to avoid re-processing existing orders" (cmd/example):
\* once it has returned, what the chats of the orders on the page held when it
\* began never reaches the handler, nor does it after a crash and a restart
\* without Bootstrap.
OldMessagesSkipped ==
  [][\A c \in Chat : heard'[c] # heard[c] => heard'[c][Len(heard'[c])] > skip[c]]_vars

\* To its handler the bot is an EventFeed: remembered means saved, and a batch
\* is what pollOnce returned.  That holds over every interleaving of fetches,
\* Bootstraps and crashes as long as saves work.
Feed == INSTANCE EventFeed WITH
          known <- file.seen,
          batch <- IF phase = "handle" THEN events ELSE <<>>

ImplementsFeed == Feed!Spec

Watched(c) == \E o \in listed : ChatOf[o] = c

\* A message of the other side in the chat of an order on the page is handled
\* in the end, and so is the order itself, unless the order leaves the page.
EventuallyHandled ==
  /\ \A o \in Order : o \in listed ~> told[o] > 0 \/ o \notin listed
  /\ \A c \in Chat : \A n \in 1 .. MaxMessages :
       (n <= sent[c] /\ <<c, n>> \notin own /\ Watched(c)) ~> (n \in Heard(c) \/ ~Watched(c))

=============================================================================
