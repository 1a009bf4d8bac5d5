------------------------------ MODULE Webhook -------------------------------
(***************************************************************************)
(* WebhookServer.handle (src/webhook.go) and a sender that posts one       *)
(* notification again until it is told that it arrived.  net/http serves   *)
(* every request in a goroutine of its own, so attempts overlap; requests  *)
(* share nothing but the handler.                                          *)
(***************************************************************************)
EXTENDS Naturals, Sequences

CONSTANTS
  MaxAttempts,   \* bound: how often the sender posts the notification
  HandlerPanics  \* the handler uses a missing payload (cmd/webhook_bot does)

ASSUME WebhookAssumption ==
  /\ MaxAttempts \in Nat
  /\ HandlerPanics \in BOOLEAN

Attempt == 1 .. MaxAttempts
Word    == {"", "order", "message", "other"}
Kind    == {"new_order", "new_message", "raw"}
Reply   == {"200", "400", "401", "405"}
Step    == {"unsent", "arrived", "handling", "over"} \cup Reply

\* What is posted: with which method, whether the body is within MaxBodySize,
\* whether its signature is right, the words under "type" and "event" (empty
\* also if absent or no string), and whether the other fields have the types
\* that the structs declare.
Post == [method : {"POST", "GET"}, fits : BOOLEAN, sealed : BOOLEAN,
         type : Word, event : Word, shaped : BOOLEAN]

VARIABLES
  secret,   \* the server has a Secret
  flaky,    \* connections may break at any time
  post,     \* the notification
  step,     \* where each attempt is, or the reply on its way to the sender
  calls,    \* what HandleWebhook was called with, oldest first
  verdict   \* what the sender has been told

settings == <<secret, flaky, post>>
hookVars     == <<settings, step, calls, verdict>>

HookTypeOK ==
  /\ secret \in BOOLEAN /\ flaky \in BOOLEAN
  /\ post \in Post
  /\ step \in [Attempt -> Step]
  /\ calls \in Seq([kind : Kind, payload : BOOLEAN])
  /\ verdict \in {"none", "ok", "refused"}

HookInit ==
  /\ secret \in BOOLEAN /\ flaky \in BOOLEAN
  /\ post \in Post
  /\ step = [a \in Attempt |-> "unsent"]
  /\ calls = <<>>
  /\ verdict = "none"

-----------------------------------------------------------------------------
(* Mutated forms of the definitions below.                                  *)

AuthenticNoLimit == ~secret \/ post.sealed
AnswerUnavailable == "400"
AnswerUnauthorized == "401"

-----------------------------------------------------------------------------
(* Helpers.                                                                 *)

\* The HMAC is taken over the body as read, which ends at MaxBodySize.
Authentic == ~secret \/ (post.sealed /\ post.fits)

\* A body cut short is no JSON, so nothing is found in it.
EventType ==
  CASE ~post.fits      -> ""
    [] post.type # ""  -> post.type
    [] OTHER           -> post.event

KindOf(word) == CASE word = "order"   -> "new_order"
                  [] word = "message" -> "new_message"
                  [] OTHER            -> "raw"

\* Unmarshalling the body again, into the struct of its kind, may fail.
Event == [kind    |-> KindOf(EventType),
          payload |-> KindOf(EventType) # "raw" /\ post.shaped]

Panics == HandlerPanics /\ Event.kind # "raw" /\ ~Event.payload

\* An error of the handler goes to the log; the sender is told OK all the same.
Answer == "200"

Goto(a, s) == step' = [step EXCEPT ![a] = s]

-----------------------------------------------------------------------------
(* Actions.                                                                 *)

\* The sender does not wait for an earlier attempt for ever.
Send(a) ==
  /\ verdict = "none"
  /\ step[a] = "unsent"
  /\ \A b \in 1 .. a - 1 : step[b] # "unsent"
  /\ Goto(a, "arrived")
  /\ UNCHANGED <<settings, calls, verdict>>

Receive(a) ==
  /\ step[a] = "arrived"
  /\ \/ post.method # "POST" /\ Goto(a, "405")
     \/ post.method = "POST" /\ flaky /\ Goto(a, "400")
     \/ post.method = "POST" /\ Goto(a, IF Authentic THEN "handling" ELSE "401")
  /\ UNCHANGED <<settings, calls, verdict>>

\* net/http recovers a panic and closes the connection.
HandleWebhook(a) ==
  /\ step[a] = "handling"
  /\ calls' = Append(calls, Event)
  /\ Goto(a, IF Panics THEN "over" ELSE Answer)
  /\ UNCHANGED <<settings, verdict>>

\* The sender posts again unless it is told OK or that it is not welcome.
ReadReply(a) ==
  /\ step[a] \in Reply
  /\ Goto(a, "over")
  /\ \/ /\ flaky
        /\ UNCHANGED verdict
     \/ verdict' = CASE verdict # "none"        -> verdict
                     [] step[a] = "200"           -> "ok"
                     [] step[a] \in {"401", "405"}  -> "refused"
                     [] OTHER                   -> "none"
  /\ UNCHANGED <<settings, calls>>

Serve(a) == Receive(a) \/ HandleWebhook(a) \/ ReadReply(a)

Quiet == \A a \in Attempt : step[a] \in {"unsent", "over"}

HookNext ==
  \/ \E a \in Attempt : Send(a) \/ Serve(a)
  \/ Quiet /\ UNCHANGED hookVars

HookSpec == HookInit /\ [][HookNext]_hookVars

\* The server answers what it has received, and the sender keeps trying.
HookFairSpec == HookSpec /\ WF_hookVars(HookNext)

-----------------------------------------------------------------------------
(* Properties.                                                              *)

\* What the sender calls its notification.
Meant == KindOf(IF post.type # "" THEN post.type ELSE post.event)

\* With a Secret, a notification reaches the handler whole or not at all: the
\* body that MaxBodySize cuts short, without a word to anybody, no longer fits
\* its signature.
WholeOrNothing ==
  secret => \A k \in DOMAIN calls : calls[k].kind = Meant

\* What a sender is told is true of all its attempts, those still under way
\* and those whose reply was lost: OK - the handler has been called; refused -
\* it never is.
VerdictTrue ==
  /\ verdict = "ok" => calls # <<>>
  /\ verdict = "refused" => calls = <<>>

\* The sender comes to know in the end, unless its attempts are used up by
\* broken connections; a handler that panics for want of a payload breaks them
\* all.
SenderLearns ==
  <>(verdict # "none" \/ ((flaky \/ Panics) /\ \A a \in Attempt : step[a] = "over"))

=============================================================================
