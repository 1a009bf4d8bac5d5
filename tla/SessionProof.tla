---------------------------- MODULE SessionProof ----------------------------
(***************************************************************************)
(* Theorems about Session: for any number of callers and of retries.       *)
(***************************************************************************)
EXTENDS Session, FiniteSetTheorems, TLAPS

-----------------------------------------------------------------------------
(* The inductive invariant.                                                 *)

\* A call that has not returned: it counts its reconnects by its attempts, and
\* none of its POSTs has taken effect, since every method ends with its POST.
Running ==
  \A w \in Caller : pc[w] # "idle" =>
    /\ requests[w].method \in Methods
    /\ outcome[w] = "none" /\ ~barred[w]
    /\ posted[w] = 0
    /\ reconnects[w] = attempt[w]
    /\ current # None
    /\ pc[w] = "request" => requests[w].left \in Methods
    /\ pc[w] \in {"connect", "assign"} => MayRetry(w)

\* A session that Connect returned and nobody has assigned yet is known to its
\* caller alone.
Private ==
  \A w \in Caller :
    /\ pc[w] = "assign" <=> got[w] # None
    /\ got[w] # None =>
         /\ got[w] # current
         /\ \A v \in Caller :
              /\ got[w] # using[v] /\ got[w] # rejected[v]
              /\ v # w => got[w] # got[v]

\* The manager's session is not the one a caller is about to retry without.
Fresh ==
  \A w \in Caller :
    /\ pc[w] = "load" => current # rejected[w]
    /\ pc[w] = "request" => using[w] # rejected[w] /\ using[w] # None

GaveUp ==
  \A w \in Caller :
    /\ posted[w] <= 1
    /\ outcome[w] = "unauthorized" => reconnects[w] = MaxRetries \/ barred[w]
    /\ barred[w] => outcome[w] \in ConnectErrors

IInv == TypeOK /\ Running /\ Private /\ Fresh /\ GaveUp

-----------------------------------------------------------------------------
(* There is always a session to open.                                       *)

\* A function on the callers takes at most as many values as there are callers.
LEMMA ImageBound ==
  ASSUME NEW S, NEW f \in [Caller -> S]
  PROVE  /\ IsFiniteSet({f[w] : w \in Caller})
         /\ Cardinality({f[w] : w \in Caller}) <= Cardinality(Caller)
<1>1. f \in Surjection(Caller, {f[w] : w \in Caller})
  BY DEF Surjection
<1>2. QED
  BY <1>1, FS_Surjection, SessionAssumption

LEMMA UnionBound ==
  ASSUME NEW S, NEW T, IsFiniteSet(S), IsFiniteSet(T)
  PROVE  IsFiniteSet(S \cup T) /\ Cardinality(S \cup T) <= Cardinality(S) + Cardinality(T)
<1>1. IsFiniteSet(S \cap T) /\ IsFiniteSet(S \cup T)
  BY FS_Intersection, FS_Union
<1>2. Cardinality(S) \in Nat /\ Cardinality(T) \in Nat /\ Cardinality(S \cap T) \in Nat
  BY <1>1, FS_CardinalityType
<1>3. Cardinality(S \cup T) = Cardinality(S) + Cardinality(T) - Cardinality(S \cap T)
  BY FS_Union
<1>4. QED
  BY <1>1, <1>2, <1>3

\* Connect never runs out of PHPSESSIDs, and gets one nobody refers to.
LEMMA NewSessionIsNew ==
  ASSUME TypeOK
  PROVE  NewSession \in SessionId /\ NewSession \notin Referenced
<1> DEFINE U == {using[w] : w \in Caller}
           G == {got[w] : w \in Caller}
           R == {rejected[w] : w \in Caller}
           n == Cardinality(Caller)
<1>1. /\ IsFiniteSet(U) /\ Cardinality(U) <= n
      /\ IsFiniteSet(G) /\ Cardinality(G) <= n
      /\ IsFiniteSet(R) /\ Cardinality(R) <= n
  <2>1. {using, got, rejected} \subseteq [Caller -> SessionId \cup {None}]
    BY DEF TypeOK
  <2>2. IsFiniteSet(U) /\ Cardinality(U) <= n
    BY <2>1, ImageBound, Zenon
  <2>3. IsFiniteSet(G) /\ Cardinality(G) <= n
    BY <2>1, ImageBound, Zenon
  <2>4. IsFiniteSet(R) /\ Cardinality(R) <= n
    BY <2>1, ImageBound, Zenon
  <2>5. QED
    BY <2>2, <2>3, <2>4
<1>2. IsFiniteSet({current}) /\ Cardinality({current}) = 1
  BY FS_Singleton
<1>3. IsFiniteSet(Referenced) /\ Cardinality(Referenced) <= 3 * n + 1
  <2> HIDE DEF U, G, R, n
  <2>1. IsFiniteSet({current} \cup U) /\ Cardinality({current} \cup U) <= 1 + Cardinality(U)
    BY <1>1, <1>2, UnionBound
  <2>2. /\ IsFiniteSet({current} \cup U \cup G)
        /\ Cardinality({current} \cup U \cup G) <= Cardinality({current} \cup U) + Cardinality(G)
    BY <1>1, <2>1, UnionBound
  <2>3. /\ IsFiniteSet({current} \cup U \cup G \cup R)
        /\ Cardinality({current} \cup U \cup G \cup R)
             <= Cardinality({current} \cup U \cup G) + Cardinality(R)
    BY <1>1, <2>2, UnionBound
  <2>4. Referenced = {current} \cup U \cup G \cup R
    BY DEF Referenced, U, G, R
  <2>5. /\ n \in Nat /\ Cardinality(U) \in Nat /\ Cardinality(G) \in Nat /\ Cardinality(R) \in Nat
        /\ Cardinality({current} \cup U) \in Nat
        /\ Cardinality({current} \cup U \cup G) \in Nat
        /\ Cardinality({current} \cup U \cup G \cup R) \in Nat
    BY <1>1, <2>1, <2>2, <2>3, FS_CardinalityType, SessionAssumption DEF n
  <2>6. QED
    BY <1>1, <2>1, <2>2, <2>3, <2>4, <2>5
<1>4. ~(SessionId \subseteq Referenced)
  <2> HIDE DEF n
  <2>1. SUFFICES ASSUME SessionId \subseteq Referenced PROVE FALSE
    OBVIOUS
  <2>2. IsFiniteSet(SessionId) /\ Cardinality(SessionId) <= Cardinality(Referenced)
    BY <1>3, <2>1, FS_Subset
  <2>3. Cardinality(SessionId) > 3 * n + 1
    BY <2>2, SessionAssumption DEF n
  <2>4. Cardinality(SessionId) \in Nat /\ Cardinality(Referenced) \in Nat /\ n \in Nat
    BY <1>3, <2>2, FS_CardinalityType, SessionAssumption DEF n
  <2>5. QED
    BY <1>3, <2>2, <2>3, <2>4
<1>5. \E s \in SessionId : s \notin Referenced
  BY <1>4
<1>6. QED
  BY <1>5 DEF NewSession

-----------------------------------------------------------------------------
(* The requests of a method.                                                *)

LEMMA Requests ==
  ASSUME NEW l \in Methods
  PROVE  /\ l \in Left
         /\ Tail(l) \in Left
         /\ Len(l) # 1 => Head(l) # "post" /\ Tail(l) \in Methods
<1>1. CASE l = <<"get">>
  BY <1>1 DEF Methods, Left
<1>2. CASE l = <<"post">>
  BY <1>2 DEF Methods, Left
<1>3. CASE l = <<"get", "post">>
  <2>1. Head(l) = "get" /\ Tail(l) = <<"post">>
    BY <1>3
  <2>2. QED
    BY <1>3, <2>1 DEF Methods, Left
<1>4. QED
  BY <1>1, <1>2, <1>3 DEF Methods

LEMMA Initially == Init => IInv
  BY SessionAssumption
  DEF Init, IInv, TypeOK, Running, Private, Fresh, GaveUp, Left, Results

-----------------------------------------------------------------------------
(* Every action keeps the invariant.                                        *)

LEMMA StartKeeps == IInv /\ Start => IInv'
<1> SUFFICES ASSUME IInv, Start PROVE IInv'
  OBVIOUS
<1>1. NewSession \in SessionId /\ NewSession \notin Referenced
  BY NewSessionIsNew DEF IInv
<1>2. \A w \in Caller : pc[w] = "idle"
  BY DEF IInv, Running, Start
<1>3. \A w \in Caller : got[w] = None
  BY <1>2 DEF IInv, Private
<1>4. QED
  BY <1>1, <1>2, <1>3, SessionAssumption
  DEF IInv, TypeOK, Running, Private, Fresh, GaveUp, Start, locals, MayRetry

LEMMA ExpireKeeps == ASSUME NEW s \in SessionId PROVE IInv /\ Expire(s) => IInv'
  BY DEF IInv, TypeOK, Running, Private, Fresh, GaveUp, Expire, locals, MayRetry

LEMMA CallKeeps == ASSUME NEW w \in Caller PROVE IInv /\ Call(w) => IInv'
<1> SUFFICES ASSUME IInv, Call(w) PROVE IInv'
  OBVIOUS
<1>1. PICK m \in Methods :
        requests' = [requests EXCEPT ![w] = [method |-> m, left |-> m]]
  BY DEF Call
<1>2. m \in Left
  BY Requests
<1>3. TypeOK'
  BY <1>1, <1>2, SessionAssumption DEF IInv, TypeOK, Call, Goto, Results
<1>4. Running'
  BY <1>1 DEF IInv, TypeOK, Running, Call, Goto, MayRetry
<1>5. Private' /\ Fresh'
  BY SessionAssumption DEF IInv, TypeOK, Private, Fresh, Call, Goto
<1>6. GaveUp'
  BY DEF IInv, TypeOK, GaveUp, Call, Goto
<1>7. QED
  BY <1>3, <1>4, <1>5, <1>6 DEF IInv

LEMMA LoadKeeps == ASSUME NEW w \in Caller PROVE IInv /\ LoadSession(w) => IInv'
<1> SUFFICES ASSUME IInv, LoadSession(w) PROVE IInv'
  OBVIOUS
<1>1. requests[w].method \in Methods /\ current # None
  BY DEF IInv, Running, LoadSession
<1>2. requests[w].method \in Left
  BY <1>1, Requests
<1>3. TypeOK'
  BY <1>2 DEF IInv, TypeOK, LoadSession, Goto
<1>4. Running'
  BY <1>1 DEF IInv, TypeOK, Running, LoadSession, Goto, MayRetry
<1>5. Private' /\ Fresh'
  BY <1>1 DEF IInv, TypeOK, Private, Fresh, LoadSession, Goto
<1>6. GaveUp'
  BY DEF IInv, TypeOK, GaveUp, LoadSession, Goto
<1>7. QED
  BY <1>3, <1>4, <1>5, <1>6 DEF IInv

\* A read that is refused may go round again; a POST, and whatever else fails,
\* ends the call.
LEMMA FailCases ==
  ASSUME IInv, NEW w \in Caller, pc[w] = "request", NEW err \in Results, Fail(w, err)
  PROVE  \/ /\ err = "unauthorized" /\ MayRetry(w)
            /\ pc' = [pc EXCEPT ![w] = "connect"] /\ outcome' = outcome
         \/ /\ err = "unauthorized" => reconnects[w] = MaxRetries
            /\ pc' = [pc EXCEPT ![w] = "idle"]
            /\ outcome' = [outcome EXCEPT ![w] = err]
<1>1. attempt[w] \in 0 .. MaxRetries /\ MaxRetries \in Nat /\ reconnects[w] = attempt[w]
  BY SessionAssumption DEF IInv, TypeOK, Running
<1>2. ~MayRetry(w) => reconnects[w] = MaxRetries
  BY <1>1 DEF MayRetry
<1>3. QED
  BY <1>2 DEF Fail, IsAuthError, Return, Goto

LEMMA RequestKeeps == ASSUME NEW w \in Caller PROVE IInv /\ Request(w) => IInv'
<1> SUFFICES ASSUME IInv, Request(w) PROVE IInv'
  OBVIOUS
<1> DEFINE l == requests[w].left
<1>0. /\ l \in Methods /\ pc[w] = "request" /\ posted[w] = 0 /\ outcome[w] = "none"
      /\ using[w] # None /\ ~barred[w]
  BY DEF IInv, Running, Fresh, Request
<1>1. Tail(l) \in Left /\ (Len(l) # 1 => Current(w) # "post" /\ Tail(l) \in Methods)
  BY <1>0, Requests DEF Current
<1>2. CASE Accepted(w)
  <2>1. /\ requests' = [requests EXCEPT ![w].left = Tail(l)]
        /\ UNCHANGED <<live, current, using, got, attempt, reconnects, rejected, barred>>
        /\ \/ Len(l) = 1 /\ pc' = [pc EXCEPT ![w] = "idle"]
              /\ outcome' = [outcome EXCEPT ![w] = "ok"]
           \/ Len(l) # 1 /\ UNCHANGED <<pc, outcome>>
    BY <1>2 DEF Accepted, Advance, Return, Goto, Request
  <2>2. /\ posted' \in {posted, [posted EXCEPT ![w] = @ + 1]}
        /\ Len(l) # 1 => posted' = posted
    BY <1>1, <1>2 DEF Accepted
  <2>3. TypeOK'
    <3>1. requests' \in [Caller -> [method : Left, left : Left]]
      BY <1>1, <2>1 DEF IInv, TypeOK
    <3>2. posted' \in [Caller -> Nat]
      BY <2>2 DEF IInv, TypeOK
    <3>3. pc' \in [Caller -> {"idle", "load", "request", "connect", "assign"}]
      BY <2>1 DEF IInv, TypeOK
    <3>4. outcome' \in [Caller -> Results]
      BY <2>1 DEF IInv, TypeOK, Results
    <3>5. QED
      BY <2>1, <3>1, <3>2, <3>3, <3>4 DEF IInv, TypeOK
  <2>4. requests'[w].method = requests[w].method /\ requests'[w].left = Tail(l)
    BY <2>1 DEF IInv, TypeOK
  <2>5. Running'
    BY <1>0, <1>1, <2>1, <2>2, <2>4 DEF IInv, TypeOK, Running, MayRetry
  <2>6. Private' /\ Fresh' /\ GaveUp'
    <3>1. \A v \in Caller : pc'[v] = pc[v] \/ (pc[v] = "request" /\ pc'[v] = "idle")
      BY <1>0, <2>1 DEF IInv, TypeOK
    <3>2. Private' /\ Fresh'
      BY <2>1, <3>1 DEF IInv, Private, Fresh
    <3>3. \A v \in Caller : /\ outcome'[v] = outcome[v] \/ (v = w /\ outcome'[v] = "ok")
                            /\ posted'[v] <= 1
      BY <1>0, <2>1, <2>2 DEF IInv, TypeOK, GaveUp
    <3>4. barred' = barred
      BY DEF Request
    <3>5. QED
      BY <1>0, <2>1, <3>2, <3>3, <3>4 DEF IInv, GaveUp
  <2>7. QED
    BY <2>3, <2>5, <2>6 DEF IInv
<1>3. CASE Rejected(w)
  <2>1. /\ RejectionError(Current(w)) \in Results /\ Fail(w, RejectionError(Current(w)))
        /\ rejected' = [rejected EXCEPT ![w] = using[w]]
        /\ UNCHANGED <<requests, posted, live, current, using, got, attempt, reconnects, barred>>
    BY <1>3 DEF Rejected, RejectionError, Results, Request
  <2>2. \A v \in Caller : got[v] # None => got[v] # using[w]
    BY DEF IInv, Private
  <2>3. CASE /\ MayRetry(w)
             /\ pc' = [pc EXCEPT ![w] = "connect"] /\ outcome' = outcome
    BY <1>0, <2>1, <2>2, <2>3
    DEF IInv, TypeOK, Running, Private, Fresh, GaveUp, MayRetry
  <2>4. ASSUME NEW err \in Results,
               err = "unauthorized" => reconnects[w] = MaxRetries,
               pc' = [pc EXCEPT ![w] = "idle"],
               outcome' = [outcome EXCEPT ![w] = err]
        PROVE  IInv'
    <3>1. TypeOK' /\ Running'
      BY <1>0, <2>1, <2>4 DEF IInv, TypeOK, Running, MayRetry
    <3>2. Private' /\ Fresh'
      BY <1>0, <2>1, <2>2, <2>4 DEF IInv, TypeOK, Private, Fresh
    <3>3. GaveUp'
      BY <1>0, <2>1, <2>4 DEF IInv, TypeOK, GaveUp
    <3>4. QED
      BY <3>1, <3>2, <3>3 DEF IInv
  <2>5. QED
    BY <1>0, <2>1, <2>3, <2>4, FailCases
<1>4. CASE Broken(w)
  <2>1. PICK err \in {"http", "parse"} : Fail(w, err)
    BY <1>4 DEF Broken
  <2>2. /\ pc' = [pc EXCEPT ![w] = "idle"]
        /\ outcome' = [outcome EXCEPT ![w] = err]
    BY <1>0, <2>1, FailCases DEF Results
  <2>3. /\ posted' \in {posted, [posted EXCEPT ![w] = @ + 1]}
        /\ UNCHANGED <<requests, rejected, live, current, using, got, attempt, reconnects, barred>>
    BY <1>4 DEF Broken, Request
  <2>4. TypeOK' /\ Running'
    BY <1>0, <2>2, <2>3 DEF IInv, TypeOK, Running, MayRetry, Results
  <2>5. Private' /\ Fresh'
    BY <1>0, <2>2, <2>3 DEF IInv, TypeOK, Private, Fresh
  <2>6. GaveUp'
    BY <1>0, <2>2, <2>3 DEF IInv, TypeOK, GaveUp
  <2>7. QED
    BY <2>4, <2>5, <2>6 DEF IInv
<1>5. QED
  BY <1>2, <1>3, <1>4 DEF Request

LEMMA ConnectKeeps == ASSUME NEW w \in Caller PROVE IInv /\ Connect(w) => IInv'
<1> SUFFICES ASSUME IInv, Connect(w) PROVE IInv'
  OBVIOUS
<1> USE SessionAssumption
<1>1. NewSession \in SessionId /\ NewSession \notin Referenced /\ NewSession # None
  BY NewSessionIsNew DEF IInv
<1>2. got[w] = None /\ pc[w] = "connect"
  BY DEF IInv, Private, Connect
<1>3. CASE /\ \E err \in ConnectErrors : Return(w, err)
           /\ barred' = [barred EXCEPT ![w] = TRUE]
           /\ UNCHANGED <<live, got>>
  BY <1>2, <1>3
  DEF ConnectErrors, IInv, TypeOK, Running, Private, Fresh, GaveUp, Connect, Return, Goto, MayRetry, Results
<1>4. CASE /\ got' = [got EXCEPT ![w] = NewSession]
           /\ live' = live \cup {NewSession}
           /\ Goto(w, "assign")
           /\ UNCHANGED <<outcome, barred>>
  <2>1. TypeOK'
    BY <1>1, <1>4 DEF IInv, TypeOK, Connect, Goto
  <2>2. Running' /\ Fresh' /\ GaveUp'
    BY <1>2, <1>4 DEF IInv, TypeOK, Running, Fresh, GaveUp, Connect, Goto, MayRetry
  <2>3. Private'
    BY <1>1, <1>2, <1>4 DEF IInv, TypeOK, Private, Connect, Goto, Referenced
  <2>4. QED
    BY <2>1, <2>2, <2>3 DEF IInv
<1>5. QED
  BY <1>3, <1>4 DEF Connect

LEMMA AssignKeeps == ASSUME NEW w \in Caller PROVE IInv /\ AssignSession(w) => IInv'
<1> SUFFICES ASSUME IInv, AssignSession(w) PROVE IInv'
  OBVIOUS
<1> USE SessionAssumption
<1>1. got[w] # None /\ MayRetry(w) /\ reconnects[w] = attempt[w]
  BY DEF IInv, Private, Running, AssignSession
<1>2. TypeOK'
  BY <1>1 DEF IInv, TypeOK, AssignSession, Assigned, NextAttempt, MayRetry, Goto
<1>3. Running'
  BY <1>1 DEF IInv, TypeOK, Running, AssignSession, Assigned, NextAttempt, MayRetry, Goto
<1>4. Private' /\ Fresh'
  BY <1>1 DEF IInv, TypeOK, Private, Fresh, AssignSession, Assigned, Goto
<1>5. GaveUp'
  BY DEF IInv, TypeOK, Running, GaveUp, AssignSession, Goto
<1>6. QED
  BY <1>2, <1>3, <1>4, <1>5 DEF IInv

LEMMA Inductive == IInv /\ [Next]_vars => IInv'
<1> SUFFICES ASSUME IInv, [Next]_vars PROVE IInv'
  OBVIOUS
<1>1. CASE Start
  BY <1>1, StartKeeps
<1>2. CASE \E s \in SessionId : Expire(s)
  BY <1>2, ExpireKeeps
<1>3. CASE \E w \in Caller : Call(w)
  BY <1>3, CallKeeps
<1>4. CASE \E w \in Caller : Step(w)
  BY <1>4, LoadKeeps, RequestKeeps, ConnectKeeps, AssignKeeps DEF Step
<1>5. CASE UNCHANGED vars
  BY <1>5 DEF vars, locals, IInv, TypeOK, Running, Private, Fresh, GaveUp, MayRetry
<1>6. QED
  BY <1>1, <1>2, <1>3, <1>4, <1>5 DEF Next

-----------------------------------------------------------------------------
(* Theorems.                                                                *)

\* Every reachable state satisfies the inductive invariant.
THEOREM Invariant == Spec => []IInv
  BY Initially, Inductive, PTL DEF Spec

\* Every variable keeps its type: in particular no call is retried more often
\* than MaxRetries allows.
THEOREM TypeCorrect == Spec => []TypeOK
<1>1. IInv => TypeOK
  BY DEF IInv
<1>2. QED
  BY <1>1, Invariant, PTL

\* No retry repeats a message or a save, for any number of goroutines, whatever
\* the service refuses and whichever answers are lost.
THEOREM EffectsNotRepeated == Spec => []PostedOnce
<1>1. IInv => PostedOnce
  BY DEF IInv, GaveUp, PostedOnce
<1>2. QED
  BY <1>1, Invariant, PTL

\* No read gives up before its last retry, unless a reconnect fails, whose error
\* it then returns; and none is sent through the session it was refused with,
\* though the manager's session is shared without a lock.
THEOREM RetriesAreFresh == Spec => []GivesUpLate
<1>1. IInv => GivesUpLate
  BY DEF IInv, Running, TypeOK, GaveUp, Fresh, GivesUpLate
<1>2. QED
  BY <1>1, Invariant, PTL

=============================================================================
