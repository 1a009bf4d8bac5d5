------------------------- MODULE SleepScheduleProof -------------------------
(***************************************************************************)
(* Proofs about SleepSchedule: for any number of hours and of offers.      *)
(***************************************************************************)
EXTENDS SleepSchedule, TLAPS

\* An offer that is not waiting for its edit, and whose last one did not fail,
\* is as the hour read says: also at the top of the next pass, which makes no
\* edits while the window state stays the same.
Settled ==
  /\ now = -1 <=> sleepState = -1
  /\ pc # "top" => now # -1
  /\ now # -1 => /\ sleepState = Target(now)
                 /\ \A o \in Offer \ (todo \cup failed) : onSale[o] = ~InWindow(now)

IInv == TypeOK /\ Settled

\* The mod of a difference of two hours.
LEMMA ModCases ==
  ASSUME NEW H \in Nat \ {0}, NEW x \in Int, -H <= x, x < H
  PROVE  x % H = IF x >= 0 THEN x ELSE x + H
  BY Z3

\* The window test of Run is the reference window.
LEMMA WindowIsCircular ==
  ASSUME TypeOK, NEW h \in 0 .. Hours - 1
  PROVE  InWindow(h) <=> Asleep(h)
<1> USE SleepAssumption
<1>1. /\ start \in Int /\ end \in Int /\ h \in Int /\ Hours \in Nat \ {0}
      /\ 0 <= start /\ start < Hours /\ 0 <= end /\ end <= Hours
      /\ 0 <= h /\ h < Hours
  BY DEF TypeOK
<1>2. (h - start) % Hours = IF h >= start THEN h - start ELSE h - start + Hours
  <2>1. h - start \in Int /\ -Hours <= h - start /\ h - start < Hours
        /\ (h - start >= 0 <=> h >= start)
    BY <1>1
  <2>2. (h - start) % Hours = IF h - start >= 0 THEN h - start ELSE h - start + Hours
    BY ONLY Hours \in Nat \ {0}, <2>1, ModCases
  <2> QED BY <2>1, <2>2
<1>3. CASE start <= end
  BY <1>1, <1>3 DEF InWindow, Asleep
<1>4. CASE start > end
  <2>1. end - start \in Int /\ -Hours <= end - start /\ end - start < Hours
        /\ ~(end - start >= 0)
    BY <1>1, <1>4
  <2>2. (end - start) % Hours = IF end - start >= 0 THEN end - start ELSE end - start + Hours
    BY ONLY Hours \in Nat \ {0}, <2>1, ModCases
  <2> QED BY <1>1, <1>2, <1>4, <2>1, <2>2 DEF InWindow, Asleep
<1> QED BY <1>1, <1>3, <1>4

LEMMA InitSettled == Init => IInv
  BY SleepAssumption DEF Init, IInv, TypeOK, Settled

LEMMA StepSettled == IInv /\ [Next]_vars => IInv'
<1> SUFFICES ASSUME IInv, [Next]_vars PROVE IInv'
  OBVIOUS
<1> USE SleepAssumption
<1>1. CASE Look
  <2>1. CASE Due(Target(hour))
    BY <1>1, <2>1 DEF Look, IInv, TypeOK, Settled, Target, InWindow, bounds
  <2>2. CASE ~Due(Target(hour))
    <3>1. TypeOK'
      BY <1>1, <2>2 DEF Look, IInv, TypeOK, Target, bounds
    <3>2. now # -1 /\ Target(now) = Target(hour)
      BY <2>2 DEF Due, IInv, Settled, TypeOK, Target
    <3>3. InWindow(now) <=> InWindow(hour)
      BY <3>2 DEF Target, InWindow
    <3> QED BY <1>1, <2>2, <3>1, <3>2, <3>3
            DEF Look, IInv, TypeOK, Settled, Target, InWindow, bounds
  <2> QED BY <2>1, <2>2
<1>2. ASSUME NEW o \in Offer, EditOffer(o) PROVE IInv'
  <2>1. TypeOK'
    BY <1>2 DEF EditOffer, IInv, TypeOK, bounds
  <2>2. \A p \in Offer \ (todo' \cup failed') : onSale'[p] = ~InWindow(now)
    BY <1>2 DEF EditOffer, IInv, TypeOK, Settled
  <2> QED BY <1>2, <2>1, <2>2 DEF EditOffer, IInv, TypeOK, Settled, Target, InWindow, bounds
<1>3. CASE Rest
  BY <1>3 DEF Rest, IInv, TypeOK, Settled, Target, InWindow, bounds
<1>4. CASE Tick
  BY <1>4 DEF Tick, IInv, TypeOK, Settled, Target, InWindow, bounds
<1>5. CASE Crash
  BY <1>5 DEF Crash, IInv, TypeOK, Settled, Target, InWindow, bounds
<1>6. CASE UNCHANGED vars
  BY <1>6 DEF vars, IInv, TypeOK, Settled, Target, InWindow
<1> QED BY <1>1, <1>2, <1>3, <1>4, <1>5, <1>6 DEF Next

\* Whatever the window (overnight ones too), the hours skipped and the moments
\* of the restarts, only an offer whose last edit failed is off schedule when a
\* pass goes on to poll (bot.go, lines 135-154).
THEOREM ScheduleKept == Spec => []OnlyFailedAstray
<1>1. IInv => OnlyFailedAstray
  <2> SUFFICES ASSUME IInv, pc = "poll", NEW o \in Offer \ failed
               PROVE  onSale[o] = ~Asleep(now)
    BY DEF OnlyFailedAstray
  <2>1. todo = {} /\ now \in 0 .. Hours - 1
    BY SleepAssumption DEF IInv, TypeOK, Settled
  <2>2. onSale[o] = ~InWindow(now)
    BY <2>1 DEF IInv, Settled
  <2> QED BY <2>1, <2>2, WindowIsCircular DEF IInv
<1> QED BY <1>1, InitSettled, StepSettled, PTL DEF Spec

\* Every reachable state is well typed.
THEOREM TypeCorrect == Spec => []TypeOK
<1>1. IInv => TypeOK
  BY DEF IInv
<1> QED BY <1>1, InitSettled, StepSettled, PTL DEF Spec

=============================================================================
