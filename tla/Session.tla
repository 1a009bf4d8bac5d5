------------------------------ MODULE Session -------------------------------
(***************************************************************************)
(* SessionManager (src/session.go) over GoldenPaySession's two kinds of    *)
(* requests (src/client.go): getHTML reports a 403 as ErrUnauthorized,     *)
(* postForm does not look at the status.  Several goroutines share one     *)
(* manager, whose session field no lock protects; the service ends         *)
(* sessions whenever it likes.                                             *)
(***************************************************************************)
EXTENDS Naturals, Sequences, FiniteSets

CONSTANTS
  Caller,       \* goroutines that call the manager's methods
  SessionId,    \* PHPSESSIDs; enough of them for every one still referred to
  None,
  MaxRetries    \* SessionManager.maxRetries, 3 in NewSessionManager

ASSUME SessionAssumption ==
  /\ None \notin SessionId
  /\ MaxRetries \in Nat
  /\ IsFiniteSet(Caller)
  /\ IsFiniteSet(SessionId) => Cardinality(SessionId) > 3 * Cardinality(Caller) + 1

VARIABLES
  live,        \* the sessions the service accepts
  current,     \* SessionManager.session
  pc,          \* the next step of each caller
  requests,    \* the requests of the method it called that are still to make
  using,       \* the session its running fn() loaded from the manager
  got,         \* the session Connect returned to it, not assigned yet
  attempt,
  outcome,     \* what its last call returned
  rejected,    \* observer: its last session the service refused in this call
  reconnects,  \* observer: successful reconnects in this call, up to MaxRetries
  posted,      \* observer: POSTs of this call that took effect
  barred       \* observer: a reconnect of this call failed

locals == <<pc, requests, using, got, attempt, outcome, rejected, reconnects, posted, barred>>
vars   == <<live, current, locals>>

\* FetchOrders, FetchPaidOrders, FetchOrderPage, FetchMyOffers, FetchBalance;
\* SendMessage, FetchChatMessages, Ping; EditOffer reads, then saves.
Methods == {<<"get">>, <<"post">>, <<"get", "post">>}
Left    == Methods \cup {<<>>}
Results == {"none", "ok", "unauthorized", "http", "parse"}

TypeOK ==
  /\ live \subseteq SessionId
  /\ current \in SessionId \cup {None}
  /\ pc \in [Caller -> {"idle", "load", "request", "connect", "assign"}]
  /\ requests \in [Caller -> [method : Left, left : Left]]
  /\ using \in [Caller -> SessionId \cup {None}]
  /\ got \in [Caller -> SessionId \cup {None}]
  /\ attempt \in [Caller -> 0 .. MaxRetries]
  /\ outcome \in [Caller -> Results]
  /\ rejected \in [Caller -> SessionId \cup {None}]
  /\ reconnects \in [Caller -> 0 .. MaxRetries]
  /\ posted \in [Caller -> Nat]
  /\ barred \in [Caller -> BOOLEAN]

Init ==
  /\ live = {}
  /\ current = None
  /\ pc = [w \in Caller |-> "idle"]
  /\ requests = [w \in Caller |-> [method |-> <<>>, left |-> <<>>]]
  /\ using = [w \in Caller |-> None]
  /\ got = [w \in Caller |-> None]
  /\ attempt = [w \in Caller |-> 0]
  /\ outcome = [w \in Caller |-> "none"]
  /\ rejected = [w \in Caller |-> None]
  /\ reconnects = [w \in Caller |-> 0]
  /\ posted = [w \in Caller |-> 0]
  /\ barred = [w \in Caller |-> FALSE]

-----------------------------------------------------------------------------
(* Mutated forms of the definitions below.                                  *)

IsAuthErrorAny(err) == err # "ok"
NextAttemptForgotten(w) == attempt[w]
NextAttemptTwice(w) == attempt[w] + 2
AssignedStale(w) == current

-----------------------------------------------------------------------------
(* Helpers.                                                                 *)

IsAuthError(err) == err = "unauthorized"

MayRetry(w) == attempt[w] < MaxRetries

NextAttempt(w) == attempt[w] + 1

Assigned(w) == got[w]

Referenced ==
  {current} \cup {using[w] : w \in Caller} \cup {got[w] : w \in Caller}
    \cup {rejected[w] : w \in Caller}

\* Connect returns a session the service has just opened.
NewSession == CHOOSE s \in SessionId : s \notin Referenced

\* What a 403 becomes: only getHTML checks the status.
RejectionError(request) == IF request = "get" THEN "unauthorized" ELSE "parse"

Goto(w, step) == pc' = [pc EXCEPT ![w] = step]

Return(w, result) ==
  /\ Goto(w, "idle")
  /\ outcome' = [outcome EXCEPT ![w] = result]

Current(w) == Head(requests[w].left)

-----------------------------------------------------------------------------
(* Actions.                                                                 *)

Start ==
  /\ current = None
  /\ current' = NewSession
  /\ live' = live \cup {NewSession}
  /\ UNCHANGED locals

\* The service ends a session: timeout, logout elsewhere, a restart.
Expire(s) ==
  /\ s \in live
  /\ live' = live \ {s}
  /\ UNCHANGED <<current, locals>>

\* A method is called.  (Before Start the manager has no session to call.)
Call(w) ==
  /\ pc[w] = "idle"
  /\ current # None
  /\ \E m \in Methods : requests' = [requests EXCEPT ![w] = [method |-> m, left |-> m]]
  /\ attempt' = [attempt EXCEPT ![w] = 0]
  /\ rejected' = [rejected EXCEPT ![w] = None]
  /\ reconnects' = [reconnects EXCEPT ![w] = 0]
  /\ posted' = [posted EXCEPT ![w] = 0]
  /\ barred' = [barred EXCEPT ![w] = FALSE]
  /\ outcome' = [outcome EXCEPT ![w] = "none"]
  /\ Goto(w, "load")
  /\ UNCHANGED <<live, current, using, got>>

\* fn() starts: m.session is read once, and both requests of EditOffer go
\* through the session read.
LoadSession(w) ==
  /\ pc[w] = "load"
  /\ using' = [using EXCEPT ![w] = current]
  /\ requests' = [requests EXCEPT ![w].left = requests[w].method]
  /\ Goto(w, "request")
  /\ UNCHANGED <<live, current, got, attempt, outcome, rejected, reconnects, posted, barred>>

\* fn() fails with err: reconnect and try again, or give up.
Fail(w, err) ==
  IF IsAuthError(err) /\ MayRetry(w)
  THEN Goto(w, "connect") /\ UNCHANGED outcome
  ELSE Return(w, err)

\* A request of fn() has been answered well: on to the next, or done.
Advance(w) ==
  /\ requests' = [requests EXCEPT ![w].left = Tail(@)]
  /\ IF Len(requests[w].left) = 1
     THEN Return(w, "ok")
     ELSE UNCHANGED <<pc, outcome>>

Accepted(w) ==
  /\ using[w] \in live
  /\ Advance(w)
  /\ posted' = IF Current(w) = "post" THEN [posted EXCEPT ![w] = @ + 1] ELSE posted
  /\ UNCHANGED rejected

\* 403: getHTML says so, postForm hands the page on and its parser fails.
Rejected(w) ==
  /\ using[w] \notin live
  /\ rejected' = [rejected EXCEPT ![w] = using[w]]
  /\ Fail(w, RejectionError(Current(w)))
  /\ UNCHANGED <<requests, posted>>

\* The connection fails, or the answer cannot be read; a POST may have taken
\* effect all the same.
Broken(w) ==
  /\ \E err \in {"http", "parse"} : Fail(w, err)
  /\ \/ UNCHANGED posted
     \/ /\ Current(w) = "post" /\ using[w] \in live
        /\ posted' = [posted EXCEPT ![w] = @ + 1]
  /\ UNCHANGED <<requests, rejected>>

Request(w) ==
  /\ pc[w] = "request"
  /\ Accepted(w) \/ Rejected(w) \/ Broken(w)
  /\ UNCHANGED <<live, current, using, got, attempt, reconnects, barred>>

\* Why Connect fails: the request breaks; a 403 for the golden key, or a home
\* page without the app data of a user, as that of a service in trouble.
ConnectErrors == {"http", "unauthorized"}

\* reconnect(): whatever error Connect returns the call returns as it is, also
\* one that IsAuthError knows.
Connect(w) ==
  /\ pc[w] = "connect"
  /\ \/ /\ \E err \in ConnectErrors : Return(w, err)
        /\ barred' = [barred EXCEPT ![w] = TRUE]
        /\ UNCHANGED <<live, got>>
     \/ /\ got' = [got EXCEPT ![w] = NewSession]
        /\ live' = live \cup {NewSession}
        /\ Goto(w, "assign")
        /\ UNCHANGED <<outcome, barred>>
  /\ UNCHANGED <<current, requests, using, attempt, rejected, reconnects, posted>>

AssignSession(w) ==
  /\ pc[w] = "assign"
  /\ current' = Assigned(w)
  /\ got' = [got EXCEPT ![w] = None]
  /\ attempt' = [attempt EXCEPT ![w] = NextAttempt(w)]
  /\ reconnects' = [reconnects EXCEPT ![w] = IF @ < MaxRetries THEN @ + 1 ELSE @]
  /\ Goto(w, "load")
  /\ UNCHANGED <<live, requests, using, outcome, rejected, posted, barred>>

Step(w) == LoadSession(w) \/ Request(w) \/ Connect(w) \/ AssignSession(w)

Next ==
  \/ Start
  \/ \E s \in SessionId : Expire(s)
  \/ \E w \in Caller : Call(w) \/ Step(w)

Spec == Init /\ [][Next]_vars

\* A goroutine inside a method goes on: the HTTP client times out.
FairSpec == Spec /\ \A w \in Caller : WF_vars(Step(w))

-----------------------------------------------------------------------------
(* Properties.                                                              *)

\* Retrying never repeats an effect: no message is sent and no offer saved
\* twice by one call, though EditOffer is retried as a whole and a POST whose
\* answer was lost may have worked.
PostedOnce == \A w \in Caller : posted[w] <= 1

\* "auto-reconnect": a read gives up with an authentication error only after
\* MaxRetries reconnects, or because a reconnect failed and the error is that
\* of Connect; after a failed reconnect the call never ends well nor goes on;
\* and a retry never goes through the session it was just refused with,
\* whatever other callers assign to the manager meanwhile.
GivesUpLate ==
  \A w \in Caller :
    /\ outcome[w] = "unauthorized" => reconnects[w] = MaxRetries \/ barred[w]
    /\ barred[w] => pc[w] = "idle" /\ outcome[w] \in ConnectErrors
    /\ pc[w] = "request" => using[w] # rejected[w]

\* However often the service ends sessions, every call returns.
CallReturns == \A w \in Caller : pc[w] # "idle" ~> pc[w] = "idle"

\* The manager "wraps GoldenPaySession with auto-reconnect on auth errors"
\* (session.go:5): a call whose session the service refused does not come back
\* with an error before a reconnect was tried.
RefusedCallsReconnect ==
  \A w \in Caller :
    outcome[w] \in {"unauthorized", "parse"} /\ rejected[w] # None =>
      reconnects[w] > 0 \/ barred[w]

=============================================================================
