# Verification of goldenpay-go

goldenpay-go is a Go library for sellers on the FunPay marketplace: an HTTP
client with a session, a bot that polls orders and chats, automatic delivery of
digital goods, offer editing and schedules. This directory holds TLA+ models of
its stateful parts, TLC configurations that check them on small instances, and
TLAPS proofs about them. `PROJECT.json` lists components, runs, mutants of the
models, the source lines behind each definition, hazards and findings.

## 1. The system

| Component | Code | State it keeps | Operations | What makes it correct |
|---|---|---|---|---|
| Delivery service | `automation.go` | stock per product, one mutex | `AddProduct`, `MatchOrder`, `Deliver`/`Reserve`, `ReleaseReserved` | a key is never in two places; nothing reserved is lost |
| Delivery stores | `automation.go` | one record per order, in memory or in a JSON file replaced by rename | `ContainsOrder`, `ClaimPending`, `CommitDelivered`, `ReleasePending` | one claim per order; a delivered record is for ever |
| Delivery flows | `automation.go` | locals of each call | `ProcessPaidOrder`, `DeliverOrder` | at most one delivery per order, honest answers |
| Message builder | `automation.go` | locals of `stringsReplaceAll` | `BuildMessage`, `FormatItems` | every placeholder replaced, the loop ends |
| Bot | `bot.go` | `EventStream`, locals of `pollOnce` | `Bootstrap`, `LoadState`, `Run`, `pollOnce`, `SaveState` | each event handled once, in order, none skipped |
| Sleep schedule | `bot.go` | `sleepState` in `Run` | the edits at the top of each pass | offers off sale just in the window |
| Bot state stores | `storage.go` | `BotState` in memory or a JSON file written in place | `Load`, `Save` | what was saved is not forgotten |
| Session manager | `session.go` | the current session, unlocked | `Start`, `call`, `reconnect`, twelve wrappers | expired sessions are replaced, nothing is done twice |
| HTTP client | `client.go`, `error.go` | cookie and CSRF token | one or two requests per method | errors told apart |
| Offer editing | `client.go`, `models.go`, `parser.go` | none; the marketplace's offers | `EditOffer`, `CreateOffer`, `DeleteOffer`, `DeactivateAllOffers`, `DeleteAllOffers`, `UndercutPrice` | an edit changes what its patch names |
| Offer scheduler | `scheduler.go` | last state per entry name | `Poll`, `IsActive` | applying what is reported follows the schedule |
| Parsers | `parser.go` | locals of a walk over the page's tree | one parser per page, HTML and JSON to records | every item gives one record, with nothing of another's; the walk ends |
| Order lists and statistics | `client.go` | locals of two loops | `FetchPaidOrders`, `FetchOrdersWith`, `CalculateStatistics` | a buyer counts once |
| Webhook server | `webhook.go` | none; requests are served concurrently | `handle` | a notification reaches the handler whole; the sender is told the truth |
| Offer edit builder, config, URLs, crypto, utilities | `offer.go`, `config.go`, `urls.go`, `crypto.go`, `utils.go` | none | setters, constants, formatting | - |

How they interact: the bot's `Run` calls the client (orders page, chats, offer
edits), saves through a `StateStore`, and calls the host's handler one event at
a time. A handler typically calls `ProcessPaidOrder`, which takes items from the
service, claims the order in a `DeliveryStore`, sends a message through the
session and commits. Independently of all that, a `WebhookServer` may call a
handler of its own for notifications posted to it. Goroutines of the host may call service, store and session
at the same time; inside the library only `pollOnce` starts goroutines (one per
chat, joined through a channel). The marketplace changes on its own: orders come,
close and leave the page, messages arrive, sessions end, other sellers and other
programs edit offers.

What is hard: steps between two lock holds (`ProcessPaidOrder` takes four
locks one after another), answers out of order, a crash between saving and doing, a
request that worked although its answer was lost, a stale page written back,
state remembered before the action it stands for has succeeded.

## 2. Modules

| Module | Models | State and actions |
|---|---|---|
| `Delivery` | delivery service, stores, flows | `stock`/`listed` = `Products`; `records` = the store; `pc`, `call`, `reserved` = the locals of each goroutine; `inbox` = what buyers got. One action per lock hold or request |
| `OrderLedger` | abstract: an order is open, claimed, closed; goods are handed once, under a claim or, for orders the host may pass to `DeliverOrder`, after closing | implemented by `Delivery` (`ImplementsLedger`) |
| `DeliveryProof` | theorems about `Delivery` | |
| `Bot`, `BotProof` | bot, event stream, state stores | `seen` = `EventStream`; `file` = the `StateStore`; `fetches`, `results`, `marks`, `events` = the locals of `pollOnce`; marketplace actions `Place`, `Close`, `Drop`, `Write` |
| `EventFeed` | abstract: news is remembered for good, then told one by one; what is remembered is never news again | implemented by `Bot` (`ImplementsFeed`) |
| `AutoDelivery`, `AutoDeliveryProof` | `Run` with a handler that calls `ProcessPaidOrder` | extends `Bot`, instantiates `Delivery` with the one goroutine of the loop; `HandleOrder` starts the call when an event is taken, and the loop waits for it; a crash takes both down |
| `Session`, `SessionProof` | session manager over `getHTML`/`postForm` | `current` = `m.session`, read by each `fn` when it starts; `live` = what the service accepts; `barred` = a reconnect of the call failed |
| `OfferEditing`, `OfferEditingProof` | offer operations | `offers` = the marketplace's copy; one action per request (list, market page, edit page, save) |
| `Scheduler`, `SchedulerProof` | `OfferScheduler` and a host that applies the transitions | `lastStates`, `applied`; `Turns` is the loop of `Poll`, one `PollEntry` per entry |
| `SleepSchedule`, `SleepScheduleProof` | the sleep schedule of `Run` | `sleepState`, one action per edit |
| `Template` | the template branch of `BuildMessage` | `s`, `result` of `stringsReplaceAll`; one action per turn of the outer loop |
| `Webhook` | `WebhookServer.handle`, the example's handler, and a sender that posts again | `step` = where each request is; `calls` = the handler's calls; `verdict` = what the sender knows |
| `Pages` | the parsers of HTML pages | `page` a tree in document order, `at` the outer walk, `recs` the records; each parser a row of what it looks for |
| `CategoryTree` | `parseCategoryTree`, `buildCategoryNode` | `calls` = the open calls of the recursion |
| `Reports` | order filters and statistics | one action per turn of each of the two loops |
| `Standalone`, `StandaloneProof` | extends `Scheduler` and `Webhook`, instantiates `Template`, `Pages`, `Reports` | these share no state: each behaviour is of one of them, the others rest |

The `MC...` modules only name small constants. An `OfferEdit` is a function on
its non-nil fields, so `Merge` is `@@`; texts, chats, products are model values.
Each specification has operators under "Mutated forms": plausible bugs, used by
no action, with which a run's property must fail.

Modelling decisions a reader should know:

- **Locks.** A call into the service or a store holds its mutex throughout and
  is one action. Nothing is held between calls.
- **`DeliverOrder`** commits the record under the store's lock and returns the
  items later. These are two steps (`CommitDelivered`, `ReturnItems`): a crash
  between them leaves a record that says delivered and a caller without goods,
  and no later call serves the order. `ProcessPaidOrder` sends before it commits.
- **JSON delivery store.** `saveAll` writes a temporary file and renames it, so
  a crash leaves the old or the new records. `JSONStateStore.Save` writes in
  place, so a crash inside it leaves an unreadable file (`CrashInSave`).
- **Bot.** A chat's messages are numbered from 1 and fetched as a prefix; the
  code looks only at ids. The memory store is new with each process.
- **Lost replies.** `SendMessage` may return an error (timeout, an answer
  that is no JSON) for a message that arrived.
- **403.** `getHTML` turns it into `ErrUnauthorized`; `postForm` returns the
  page and its JSON parser fails. `reconnect` returns the error of `Connect` as
  it is, which may be `ErrUnauthorized` too (a 403, a page without app data);
  the call ends with it and does not retry.
- **Saves of offers.** A checkbox that is not sent is off: this is how the
  marketplace must behave for `DeactivateAllOffers` to work at all. Deleted
  offers take no edits. `deactivate_after_sale` is handled by the code exactly
  as `active` is, the texts as `price` is.
- **Error pages.** No status but 403 is looked at: an error page is a page
  without offers, or a form without fields (`BadPages`).
- **Pages.** A value is the position of the node it was read from, so "the
  right value" means "from the right node". A match with nothing to give
  (`full = FALSE`) overwrites or not as the code has it for that field. Pages
  hold one field at a time besides what decides about dropping a record: the
  fields of a record do not influence each other. A field is the first or the last
  match below its item, or a flag that some match sets ("contained", as the seller's
  being online); a category filter also has a list, one element per option.
- **Notifications.** The body is what the handler distinguishes in it: words
  under `type` and `event`, fields of the declared types or not, within
  `MaxBodySize` or not. An HMAC fits one body only.
- **Prices** are whole kopecks, on which `"%.2f"` is exact.

## 3. Runs

Passing runs, with what the bounds make possible:

| Run | Instance | Properties |
|---|---|---|
| `DeliveryCrash` | 2 goroutines, 2 orders (one for both flows; one of a negative amount, for `ProcessPaidOrder` only), 2 products, a second batch, JSON store, store failures, crashes | `TypeOK`, `ClaimExclusive`, `ItemExclusive`, `AtMostOnceDelivery`, `RecordDurable`, `LossesKnown`, `ImplementsLedger` |
| `DeliveryFair` | each goroutine its own order, a common stock, memory store, refused messages, lost replies; fair | `RecordTruthful`, `NothingLost`, `PendingResolved` |
| `BotRestart` | 2 orders in one chat, 3 messages, no messages for new orders (a chat may be read for one order and marked for the other), each start with or without Bootstrap, stops, crashes | `TypeOK`, `HandledOnce`, `OldMessagesSkipped`, `ImplementsFeed` |
| `AutoDelivery` | 2 orders in chats of their own (one for the product, one for nothing on sale), 2 batches of one item (the second replaces the first or is put on sale after a restart), a message, no messages for new orders, failing requests and store calls, refused messages, one failing, torn or interrupted save, crashes, stops | `ServedOnce`, `Accounted`, `StateNeverForgets` |
| `BotLive` | 2 orders in one chat, 3 messages, failing requests, orders close and leave the page; fair | `NoGap`, `EventuallyHandled` |
| `SessionShared` | 2 callers, 1 retry, sessions ended at any time, reconnects that fail either way; fair | `TypeOK`, `PostedOnce`, `GivesUpLate`, `CallReturns` |
| `OfferEditors` | 2 editors, 2 offers, rivals below and above the floor, all operations, failures, refusals, error pages | `TypeOK`, `SweepComplete`, `NeverBelowFloor`, `ActivationAsked` |
| `Sleep` | all windows of a day of 6 hours, failing edits, restarts | `OnlyFailedAstray` |
| `Standalone`, scheduler | all pairs of entries with distinct names, day of 4 hours, restarts | `PartsTypeOK` (of all parts), `ScheduleApplied`, `QuietWhenUnchanged` |
| `Standalone`, template | all templates of up to 7 letters, 2 placeholders; fair | `NothingGarbled`, `OnceReplaced`, `Terminates` |
| `Standalone`, webhook | all notifications, 2 attempts that overlap, connections that break or not, with and without a secret, the example's handler; fair | `WholeOrNothing`, `VerdictTrue`, `SenderLearns` |
| `Standalone`, pages | 14 parsers, all pages of up to 5 nodes | `NothingBorrowed`, `OneRecordEach` |
| `Standalone`, reports | all lists of up to 3 orders, all filters (the two texts, subcategory and description, match or not), 2 ids (one of them 0) and 2 names | `BuyersCounted` |

Three more runs, `DeliveryEmpty`, `OfferPatch` and `CategoryTree`, must fail: see
below.

Why the bounds are enough: every race here is between two parties over one
thing (one order, one chat, one session, one offer), so two of each show it; a
third goroutine only repeats a role. Three items allow one order of one and one
of two with the stock running out. Three messages make "seen, new, newer"
possible. One retry shows what a retry does; that there may be three in the code
repeats it. A day of four or six hours has every order of start, end and now,
overnight windows, and the whole day (`end` = hours of a day); the code only
compares hours. Seven letters hold two placeholders and text between and after
them. Five nodes hold two items with a field each, beside or inside one another.
`SessionId` holds more sessions than the callers can refer to
at one time, as `SessionAssumption` asks, so that there is always one to open; a
spent one may come back only when nothing refers to it.
Two attempts show a reply lost and a request still under way when the other is
answered. Counters are bounded by constants of the modules: `MaxInbox` (copies sent
by lost replies), `MaxMessages`, `MaxBadSaves`, `MaxRetries`, `MaxLength`,
`MaxAttempts`, `MaxNodes`, `MaxOrders`, `MaxCalls`.

Several results are conditional, and the runs say on what. `NothingLost` and
`PendingResolved` hold where goroutines do not share orders and nothing but
sending fails: when `ClaimPending` fails after `Reserve`, the reserved items are
dropped. `LossesKnown` has no such condition: with store failures, races, an
overwritten stock and crashes it says that these are the only losses.
`PendingResolved` says nothing of a failing `ReleasePending`, whose error the code
ignores: that order stays claimed. `ImplementsLedger` lets an order given to
`DeliverOrder` be closed without goods, which a crash makes of it, and no other.
`GivesUpLate` lets an authentication error come back early when it is that of a
failed reconnect. `EventuallyHandled` and `Accounted` count an order whose handler
returned an error as handled: nothing in the code retries it. `AtMostOnceDelivery` needs that replies are not lost. `SweepComplete`
leaves out offers whose save was refused, and an error page in place of the list
counts as an empty list. `ActivationAsked` holds even with concurrent editors and
error pages, *because* the flags are never read: reading `active` in
`parseOfferDetails` without more would trade one fault for a race (the mutant
`FormOfWithActive`).

`ServedOnce` in `AutoDelivery` rests on the delivery store alone: the bot's file is
lost by a torn save, orders are offered again, and the records stop them.
`Accounted` says what is left of "every paid order is served": once the loop is
back at its top, an order the bot remembers is served, or its call returned an
error (which is logged and never retried), or a process ended in between.
`WholeOrNothing` needs a secret. `SenderLearns` leaves out what breaks every
connection: a handler that panics because the payload is missing.

### Fairness

`DeliveryFair`: each goroutine inside a call goes on (local file I/O, an HTTP
client with a 30 second timeout). `BotLive`: the loop of `Run` never blocks on
anything but that client, and the host starts the bot. Requests for a
chat may fail, but not at every poll for ever (strong fairness of
`FetchChatMessages`): nothing in the code can help a chat the service never
answers for. `SessionShared`: a caller inside `call` goes on. `Standalone`: a
sequential loop runs; the server serves what has arrived, and the sender, which is
no code of this repository, goes on reading replies and posting as long as it is
allowed. `CategoryTree`: a sequential walk goes on.

### Disagreements between code and text

Three of them are runs that TLC must refute; `PROJECT.json` quotes the lines.

- `DeliveryEmpty` (`DeliveredNotEmpty`): `parseOrderItem` leaves `Amount` 0, so
  an order that came from `FetchOrders` is "delivered" without items.
- `OfferPatch` (`ActiveKept`): a patch of the price takes the offer off sale.
- `CategoryTree` (`TreeReturned`): `buildCategoryNode` finds its own node in its
  walk and calls itself about it until the stack overflows.

The others appear when a passing run is changed as the table says; they are why
the runs above have the values they have.

| Change | Property that fails | What the code does |
|---|---|---|
| `DeliveryCrash`, `LostReplies = TRUE` | `ItemExclusive`, `AtMostOnceDelivery` | releases an order whose message may have arrived (`automation.go:542`); the next call serves it again |
| `DeliveryCrash`, check `AlreadyDeliveredIsTrue` | | reports "already delivered" of an order claimed before a crash and never served |
| `BotRestart`, `Closes = TRUE` | `OldMessagesSkipped` | `Bootstrap` skips the chats of closed orders (`bot.go:106`), the poll does not |
| `AutoDelivery`, `Bootstraps = TRUE` | `StateNeverForgets`, `Accounted` | `Bootstrap` saves a fresh stream over the saved state without reading it (`bot.go:116`) |
| `AutoDelivery`, check `HandledOnce` | | a crash while the state is written (`storage.go:86`) loses it, and everything is handled again |
| `SessionShared`, check `RefusedCallsReconnect` | | `postForm` never reports an expired session, so a refused POST is not retried (`client.go:531`) |
| `Standalone`, `UniqueNames = FALSE` | `ScheduleApplied` | entries with one name share their last state (`scheduler.go:86`) |
| `Sleep`, check `ScheduleFollowed` | | a failed edit is not repeated while the window lasts (`bot.go:146`) |
| `Standalone`, check `T!AllReplaced` | | a placeholder used twice may be replaced once (`automation.go:131`) |
| `Standalone`, `WholeOrNothing` without `secret =>` | | a body cut at `MaxBodySize` is handled as a raw event and answered OK (`webhook.go:101`) |
| `Standalone`, `SenderLearns` without `Panics` | | a notification without a usable payload makes the example's handler panic, every time (`cmd/webhook_bot/main.go:14`) |

Three more are visible in the model without a property: an edit of the active
flag writes back the price it read, over another editor's (`client.go:280`);
`UndercutPrice` takes the seller's own offer for a competitor's (`client.go:336`);
`DeactivateAllOffers` ignores a refused save (`client.go:298`).

## 4. Proofs

`DeliveryProof` proves for all orders, products, goroutines, amounts and
batches. The only assumption of the module is `ConstantsAssumption`; theorems
that need more say so (`Crashes => Persistent`: the process only crashes over
the JSON store; `~LostReplies`).

- `Typed`, `TypeCorrect`: `Spec => []TypeOK`. `TypeOK` alone is not inductive:
  `ReleaseReserved` indexes the stock with the reservation's product, so
  `TypeInv` adds that a goroutine past `Reserve` holds one (`HoldsReservation`).
- `ClaimIsExclusive`: `ClaimExclusive` is inductive over `TypeInv`. A second
  claim is stopped by `Vacant`, and a goroutine changes records only of the order
  it owns. `WorkApart` carries this on to a `DeliverOrder` that has committed and not
  returned: it has the order to itself, and the record says delivered
  (`ReturnsAlone`).
- `ServedAtMostOnce`: the invariant `ServedOnce` adds `Unserved`: where a record
  is absent, or pending under a goroutine that has not sent yet or was refused, or
  delivered by a `DeliverOrder` about to return, the buyer has got nothing.
- `DeliveredIsForever`: an action property from `ClaimExclusive`: whoever writes
  a record owns it while it is pending.
- `RecordsAreTruthful`: `SentBefore` adds that between sending and commit the last
  thing in the inbox is what the goroutine holds (`GotLast`). No assumption about
  replies. Crashes are covered where no order goes through `DeliverOrder`
  (`NoDirectCalls`); without crashes its orders are included, with the items on
  their way to the caller (`OnTheWay`) counted as handed.
- `LedgerImplemented`: initial states map to initial states, and each step of
  `Delivery` to a step of `OrderLedger` or a stutter, from the invariants above:
  the commit of `DeliverOrder` closes an order of `Direct`, its return hands over,
  and a crash in between is a stutter.
- `KeysExclusive` (`ItemExclusive`), `LossesAreKnown` and `NothingIsLost` share a view of the state:
  `Holding` maps each holder (a product's stock, a goroutine's hands, a parcel in
  an inbox, a batch not yet on sale) to what it holds. `StepHolding` shows that each
  step moves, splits, joins, copies or drops one holder's items (`StepMoves`), and
  lemmas about functions and sequences alone show which of these keep every item
  at one position (`Separate`) and which keep it somewhere (`Around`, `StepAround`).
  `KeysExclusive` assumes that the host puts no key on sale twice (`KeysOnce`) and
  that no reply is lost; crashes, failures and overwritten stocks are allowed.
  `LossesAreKnown` assumes nothing: whatever does not drop a holder's items keeps
  them around, and only a call failing at the store, a batch in the place of a
  stock, and the end of the process drop any (`NextLosses`).
  `NothingIsLost` allows lost replies and refused messages but not what loses
  items in the code: shared orders (`OrdersApart`), a product listed again
  (`ProductsOnce`), store failures, crashes. `OwnWork` and `FromBatches` are the
  invariants with which those assumptions are used.

`BotProof` covers every safety and action property of `Bot`, for any orders,
chats and messages. `Shape` and `Places` say what is empty in which phase,
`Grounded` that the bot knows nothing the marketplace has not got. Over these:

- `NeverForgets` from `Remembers`: the memory of a polling bot is at least
  its file's, and a Bootstrap under way has the chats it still owes among its
  fetches. It assumes `BootstrapsWork` (a bot that bootstraps meets neither failing
  fetches nor closed orders): `Bootstrap` overwrites the file.
- `HandledAtMostOnce` from `Once`: what was handled is remembered, and what is
  queued was not handled. It assumes that nothing dies (`Undying`), or that the
  file is what a later process starts from (`Durable`: `BootstrapsWork`, the JSON
  store, no bad save). Without either, everything is handled again after a restart.
- `BootstrapIsKept` (`OldMessagesSkipped`) from `Skips`, and `FeedImplemented` from
  `Queue` (the queue is in order and its events are in the memory) and `Unsaved`
  (until the save they are beyond the file), both under `Durable`.
- `NothingPassedOver` from `NoGapInv`: each message under the watermark was
  heard or waits. `Emitting` excludes what passes over messages on purpose:
  Bootstrap, chats that are only marked, processes that die over a queue.

The order of a chat's new messages is the ascending enumeration of a set,
defined by `CHOOSE` in `NewIds`; that it exists for every finite set is an induction,
which here is an argument about the least number without one (`LeastExists`,
from the well-foundedness of the naturals). `SchedulerProof` uses the same device
for the loop of `Poll`.

`AutoDeliveryProof` instantiates `DeliveryProof` with the one goroutine of the
loop. `DeliveryImplemented` shows that every step of the composition is a step of
`Delivery` or leaves it alone, so `BuyerServedOnce` follows from
`ServedAtMostOnce`: it needs the delivery store's file and no lost replies, but
nothing of the bot's. `AutoNeverForgets` carries `NeverForgets` over and adds the
crash inside a write. `OrdersAccounted` needs `Accounts`: an
order in the bot's memory is settled, queued or in the handler's hands, an order
in its file is settled unless it was saved by this poll. It assumes that the host
does not bootstrap, which passes over paid orders on purpose.

`SessionProof` proves `TypeCorrect`, `EffectsNotRepeated` (`PostedOnce`) and
`RetriesAreFresh` (`GivesUpLate`) for any number of callers and retries, whatever
error a failed reconnect gives. `Running`
says that a call that has not returned counts its reconnects by its attempts and
has posted nothing (every method ends with its POST), `Private` that a session
opened and not yet assigned is known to its caller alone, `Fresh` that the session
of a retry is not the one that was refused, although other callers replace
`current` meanwhile. A call whose reconnect failed has ended with its error.

`OfferEditingProof` proves `TypeOK`, `SweepComplete`, `ActivationAsked` and
`NeverBelowFloor` for any editors, offers and prices. `Progress` says what each
operation holds at each request, `Swept` that what a sweep has behind it has been
dealt with, whatever other editors did since, and `FormBlind` that no form knows the active flag, on
which `ActivationAsked` rests. `UndercutKeepsFloor` assumes that no patch asks
for a price below the floor by hand; other sellers' prices are any naturals, also
below the floor.

`SleepScheduleProof` proves `TypeCorrect` and `ScheduleKept` for any number
of hours and any set of offers. `OnlyFailedAstray` is not inductive: `Settled` says the same of the
offers not waiting for an edit, at every step, and ties `sleepState` to the hour
read. `WindowIsCircular` shows that the two-case window test is the window round
the clock, by the mod of a difference of two hours (`ModCases`).

`SchedulerProof` proves `TypeCorrect`, and under `UniqueNames` `EntriesFollowed`
(`ScheduleApplied`) and `SecondPollQuiet`, for any number of entries and hours.
`TurnsFollow` says what the loop of `Poll` has done after n entries; `Following`
that after a poll each name holds its entry's wish and the group is as it holds,
although most groups were not reported now. `WindowIsCircular` is here about
windows up to midnight too.

`StandaloneProof` proves every safety and action property of `Standalone` for any
number of entries, attempts, nodes and orders, any texts, placeholders and values.
Its assumptions are those of the parts and that some name exists. One invariant,
`PartsInv`, joins those of the parts: `EveryPartMoves` says that a step of one is a
step or a stutter of each. The schedule is thereby proved beside the other parts too.

- *Template*: `Replaced`, the reference, is a recursive function, and that one
  exists is itself proved (`ReplacingExists`, over the length of the text, with
  `LeastExists` in place of an induction). `ReplacedSkips`, `ReplacedFirst` and
  `ReplacedNowhere` say what it makes of a text whose first place is known.
  `ReplacingLosesNothing` (`NothingGarbled`) is inductive over the types;
  `OnePlaceReplaced` (`OnceReplaced`) adds that a place in what is left is a second
  occurrence in the template, as `s` always is the template's end (`OccursWhere`).
- *Webhook*: `VerdictIsTrue` and `HandledWhole`. Neither property is inductive:
  `Consistent` says for each attempt what its place in `handle` implies about the
  post (`Welcome`: a POST whose signature fits), and that an OK under way was
  preceded by a call; `CallsMatch` that each call was about the post. The refusals
  are final because post and secret do not change.
- *Pages*: `PagesInv` says that the records are those of the items passed, in
  document order, each as `Parsed` reads it. `RecordsKeepApart` (`NothingBorrowed`)
  rests on how subtrees nest (`SubtreeNested`): a field is found in its item's
  subtree, and so are the elements of its list (`OptionsBelow`); what two
  records share is below both (`BelowBoth`). `ItemsReadOnce` (`OneRecordEach`) on what the parsers require
  (`TakenWhen`).
- *Reports*: `ReportsInv` says that `seen` holds the ids of the orders counted and
  `names` their names in the order they first came. `CountOne` keeps it for one
  order, whatever the list; `BuyersCountedOnce` (`BuyersCounted`) follows.
- `PartsTypeCorrect` (`PartsTypeOK`) is the types of all five.

Only model-checked: all liveness (`PendingResolved`, `EventuallyHandled`,
`CallReturns`, `Terminates`, `SenderLearns`), which is beyond this prover. Every
other property of the passing runs is a theorem.

## 5. Not modelled

Regular expressions, number formats and JSON layouts of the parsers; setters, URLs,
configuration, `FormatItems` (formatting); the HMAC itself;
single-request client methods without follow-up (`RefundOrder`, `LeaveReview`,
`ReplyToReview`, `Withdraw`, `RaiseOffers`, `CalcPrice`): they are a `postForm`
or `getHTML` as in `Session`; `AutoWelcomeMessage`, `MaxRetries`,
`RetryBaseDelay`, `MaxConcurrentRequests`, `StoreStatistics.TotalRevenue` and
`TotalSum`, which no code reads or sets. In the models that do exist: handler
calls that edit offers while the bot sleeps, `FetchOrders` answered by an error
page, several nodes' worth of fields in one record, and data races of the Go
memory model on `m.session` beyond old-or-new value.

## 6. Plan

Order: delivery (the money) first, then the bot that drives it, the session under
both, offers and schedules, the compositions and refinements, the parts that
stand alone. All of that is written. Next:

1. `OfferEditing` composed with `SleepSchedule`: the schedule and price edits of
   the handler on the same offers.
2. `AutoDeliveryProof` with `LossesKnown` and `ImplementsLedger` carried over to
   the composition with the bot, whose steps are steps of `Delivery` already.

## 7. Running

    tlc -config DeliveryCrash.cfg MCDelivery.tla
    tlapm DeliveryProof.tla

Each run takes from seconds to two minutes (`AutoDelivery`); `BotProof` takes a few
minutes, `DeliveryProof`, `AutoDeliveryProof` and `StandaloneProof` one to three,
the others seconds.
