---------------------------- MODULE AutoDelivery ----------------------------
(***************************************************************************)
(* The whole of "order polling + auto-delivery": the loop of               *)
(* GoldenPayBot.Run, whose handler calls ProcessPaidOrder for each new     *)
(* order and waits for it.  The two components keep separate files, saved  *)
(* at separate moments; one process runs both and takes both down.         *)
(***************************************************************************)
EXTENDS Bot

CONSTANTS
  Product, Item, None,
  Amount, Matching, Batch,
  StoreFaults,     \* a call of the delivery store may fail
  LostReplies,     \* a message may arrive although SendMessage failed
  MaxInbox         \* bound: see Delivery

ASSUME AutoAssumption ==
  /\ Order # {}
  /\ None \notin Product
  /\ Amount \in [Order -> Int]
  /\ Matching \subseteq Product \X Order
  /\ Batch \subseteq [product : Product, items : Seq(Item)]
  /\ {StoreFaults, LostReplies} \subseteq BOOLEAN
  /\ MaxInbox \in Nat

VARIABLES
  onSale, stock, added, records, pc, call, reserved, inbox,   \* of Delivery
  failed,   \* observer: orders a call of ProcessPaidOrder returned an error for
  cut       \* observer: orders whose event or call ended with its process

goods    == <<onSale, stock, added, records, pc, call, reserved, inbox>>
history  == <<failed, cut>>
autoVars == <<vars, goods, history>>

\* The handler runs in the goroutine of Run.
loop == "loop"

D == INSTANCE Delivery WITH
       Worker <- {loop}, Assigned <- [w \in {loop} |-> Order],
       Flows <- [o \in Order |-> {"process"}],
       Crashes <- TRUE, listed <- onSale

AutoInit ==
  /\ Init
  /\ D!Init
  /\ failed = {} /\ cut = {}

-----------------------------------------------------------------------------
(* Mutated forms of the definitions below.                                  *)

HandlerIdleAlways == TRUE

-----------------------------------------------------------------------------
HandlerIdle == pc[loop] \in D!Outcome

\* The handler's error goes to the log; that is all that becomes of it.
OutcomeOf ==
  IF pc'[loop] \in D!Outcome \ {"Ok"} THEN failed \cup {call'[loop].order} ELSE failed

\* The host's main puts goods on sale while it runs.
StockUp(b) ==
  /\ phase # "down"
  /\ D!AddProduct(b)
  /\ UNCHANGED <<vars, history>>

\* The status of the event's order is that of the page the bot fetched.
HandleOrder ==
  /\ Handle
  /\ Head(events).kind = "order"
  /\ HandlerIdle
  /\ D!Call(loop)
  /\ call'[loop] = [flow |-> "process", order |-> Head(events).order]
  /\ Head(events).order \notin closed => pc'[loop] = "check"
  /\ failed' = OutcomeOf
  /\ UNCHANGED cut

HandleMessage ==
  /\ Handle
  /\ Head(events).kind = "message"
  /\ HandlerIdle
  /\ UNCHANGED <<goods, history>>

Deliver ==
  /\ D!Step(loop)
  /\ failed' = OutcomeOf
  /\ UNCHANGED <<vars, cut>>

\* All of the loop but the handler; it goes on when the handler returns.
Loop ==
  /\ HandlerIdle
  /\ BotStep /\ ~Handle
  /\ UNCHANGED <<goods, history>>

\* os.WriteFile truncates the file before it writes.
CrashInSave ==
  /\ Crashes /\ TornWrites /\ Persistent
  /\ \/ phase = "mark" /\ marks = {}
     \/ phase = "bootChats" /\ fetches = {}
     \/ phase = "ready" /\ Stops
  /\ BadSave
  /\ file' = Corrupt
  /\ GoDown

Waiting ==
  IF phase = "handle"
  THEN {events[k].order : k \in {x \in DOMAIN events : events[x].kind = "order"}}
         \cup (IF HandlerIdle THEN {} ELSE {call[loop].order})
  ELSE {}

EndProcess ==
  /\ \/ HandlerIdle /\ Stop
     \/ Crash
     \/ CrashInSave
  /\ D!Crash
  /\ cut' = cut \cup Waiting
  /\ UNCHANGED failed

Outside ==
  /\ \/ World
     \/ NewBot
     \/ \E o \in Order : FetchChatError(o)
  /\ UNCHANGED <<goods, history>>

AutoNext ==
  \/ \E b \in Batch : StockUp(b)
  \/ HandleOrder
  \/ HandleMessage
  \/ Deliver
  \/ Loop
  \/ EndProcess
  \/ Outside

AutoSpec == AutoInit /\ [][AutoNext]_autoVars

-----------------------------------------------------------------------------
(* Properties.                                                              *)

\* No buyer gets the goods of one order twice, even where the bot, whose file
\* a crash may leave unreadable, offers an order to the handler again: the
\* records of the delivery store decide, and nothing else.
ServedOnce == \A o \in Order : Len(inbox[o]) <= 1

\* No order falls between the two files.  Once the loop is back at its top, an
\* order the bot remembers has been served, or its call has returned an error,
\* or a process ended while it waited for the handler or was in it.
Accounted ==
  phase = "ready" =>
    \A o \in seen.orders : inbox[o] # <<>> \/ o \in failed \/ o \in cut

=============================================================================
