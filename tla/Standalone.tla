----------------------------- MODULE Standalone -----------------------------
(***************************************************************************)
(* The parts of the library that share no state with one another: the      *)
(* offer scheduler, the template of the delivery message, the webhook      *)
(* server, the parsers of pages, and the filters and statistics of orders. *)
(* Since no step of one is seen by another, each behaviour is of one part, *)
(* and the others are at rest.                                             *)
(***************************************************************************)
EXTENDS Scheduler, Webhook, FiniteSets

CONSTANTS Letter, MaxLength, Passes, MaxNodes, MaxOrders, Buyers, Users, Texts

VARIABLES
  part,                                       \* the part at work
  template, pass, s, result,                  \* of Template
  parser, page, at, recs,                     \* of Pages
  all, opts, next, filtered, counted, seen, names  \* of Reports

T == INSTANCE Template
P == INSTANCE Pages
R == INSTANCE Reports

ASSUME StandaloneAssumption == T!ParametersOK /\ {MaxNodes, MaxOrders} \subseteq Nat /\ Name # {}

templateVars == <<template, pass, s, result>>
pagesVars    == <<parser, page, at, recs>>
reportsVars  == <<all, opts, next, filtered, counted, seen, names>>
allVars      == <<vars, part, templateVars, hookVars, pagesVars, reportsVars>>

Parts == {"scheduler", "template", "webhook", "pages", "reports"}

\* At rest: a scheduler never polled, a message built, a sender that has been
\* told OK, a page that has been read, statistics of no orders.
SchedulerRests ==
  /\ entries = [i \in Index |->
       [name |-> CHOOSE n \in Name : TRUE, start |-> 0, end |-> 0, activate |-> TRUE]]
  /\ hour = 0 /\ lastStates = Empty /\ reported = <<>> /\ polled = -1 /\ again = FALSE
  /\ applied = [i \in Index |-> FALSE]
TemplateRests == template = <<>> /\ pass = Len(Passes) + 1 /\ s = <<>> /\ result = <<>>
WebhookRests ==
  /\ secret = FALSE /\ flaky = FALSE
  /\ post = [method |-> "POST", fits |-> TRUE, sealed |-> TRUE, type |-> "", event |-> "", shaped |-> TRUE]
  /\ step = [a \in Attempt |-> "over"]
  /\ calls = <<[kind |-> "raw", payload |-> FALSE]>> /\ verdict = "ok"
PagesRest == parser = P!parseBalance /\ page = <<>> /\ at = 1 /\ recs = <<>>

ReportsRest ==
  /\ all = <<>> /\ opts = R!NoFilters
  /\ next = 1 /\ filtered = <<>> /\ counted = 0 /\ seen = {} /\ names = <<>>

StandaloneInit ==
  /\ part \in Parts
  /\ IF part = "scheduler" THEN Init   ELSE SchedulerRests
  /\ IF part = "template"  THEN T!Init ELSE TemplateRests
  /\ IF part = "webhook"   THEN HookInit ELSE WebhookRests
  /\ IF part = "pages"     THEN P!Init ELSE PagesRest
  /\ IF part = "reports"   THEN R!Init ELSE ReportsRest

Schedule == part = "scheduler" /\ Next   /\ UNCHANGED <<part, templateVars, hookVars, pagesVars, reportsVars>>
Replace  == part = "template"  /\ T!Next /\ UNCHANGED <<part, vars, hookVars, pagesVars, reportsVars>>
Notify   == part = "webhook"   /\ HookNext /\ UNCHANGED <<part, vars, templateVars, pagesVars, reportsVars>>
Parse    == part = "pages"     /\ P!Next /\ UNCHANGED <<part, vars, templateVars, hookVars, reportsVars>>
Report   == part = "reports"   /\ R!Next
            /\ UNCHANGED <<part, vars, templateVars, hookVars, pagesVars>>

\* Nothing obliges the host to poll the scheduler; a loop goes on once it has
\* begun, the server answers what it has received, and the sender keeps trying.
StandaloneSpec ==
  /\ StandaloneInit
  /\ [][Schedule \/ Replace \/ Notify \/ Parse \/ Report]_allVars
  /\ WF_allVars(Replace) /\ WF_allVars(Notify)

-----------------------------------------------------------------------------
(* Properties: those of Scheduler and Webhook, and, with their reasons in   *)
(* the part's module:                                                       *)

\* Every part keeps its state well formed.
PartsTypeOK == TypeOK /\ T!TypeOK /\ HookTypeOK /\ P!TypeOK /\ R!TypeOK

\* Template: replacing loses and doubles nothing (stringsReplaceAll).
NothingGarbled == T!NothingGarbled

\* Template: a placeholder that occurs once is replaced.
OnceReplaced == T!OnceReplaced

\* Template: stringsReplaceAll ends for every template.
Terminates == T!Terminates

\* Pages: no record shows what belongs to another.
NothingBorrowed == P!NothingBorrowed

\* Pages: one record of each item that has what is required, none of others.
OneRecordEach == P!OneRecordEach

\* Reports: CalculateStatistics counts every buyer once.
BuyersCounted == R!BuyersCounted

=============================================================================
