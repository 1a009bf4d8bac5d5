--------------------------- MODULE SleepSchedule ----------------------------
(***************************************************************************)
(* The sleep schedule of GoldenPayBot.Run (src/bot.go): at the top of each *)
(* pass the loop takes the listed offers off sale when the sleep window    *)
(* has begun and puts them back when it is over.  An EditOffer of the      *)
(* active flag is one step here: OfferEditing has its requests.            *)
(***************************************************************************)
EXTENDS Integers, FiniteSets

CONSTANTS
  Hours,        \* hours of a day: 24
  Offer,        \* SleepNodeOffers, not empty
  Failures,     \* edits may fail
  Crashes

ASSUME SleepAssumption ==
  /\ Hours \in Nat \ {0}
  /\ Offer # {}
  /\ {Failures, Crashes} \subseteq BOOLEAN

VARIABLES
  start, end,   \* SleepScheduleStart and SleepScheduleEnd
  hour,         \* the time of day
  sleepState,   \* Run's sleepState: -1 before the first pass, 1 in the window
  pc, todo,     \* the next step of the pass and the offers it has to edit yet
  now,          \* the hour its last pass read, -1 before the first
  onSale,       \* external: the active flag of each offer
  failed        \* observer: the offers whose last edit failed

vars == <<start, end, hour, sleepState, pc, todo, now, onSale, failed>>
bounds == <<start, end>>

TypeOK ==
  /\ start \in 0 .. Hours - 1 /\ end \in 0 .. Hours
  /\ hour \in 0 .. Hours - 1
  /\ sleepState \in -1 .. 1
  /\ pc \in {"top", "edit", "poll"}
  /\ todo \subseteq Offer
  /\ todo # {} <=> pc = "edit"
  /\ now \in -1 .. Hours - 1
  /\ onSale \in [Offer -> BOOLEAN]
  /\ failed \subseteq Offer

Init ==
  /\ start \in 0 .. Hours - 1 /\ end \in 0 .. Hours
  /\ hour \in 0 .. Hours - 1
  /\ sleepState = -1
  /\ pc = "top" /\ todo = {}
  /\ now = -1
  /\ onSale \in [Offer -> BOOLEAN]
  /\ failed = {}

-----------------------------------------------------------------------------
(* Mutated forms of the definitions below.                                  *)

InWindowDaytime(h) == start <= h /\ h < end

-----------------------------------------------------------------------------
(* Helpers.                                                                 *)

InWindow(h) ==
  IF start > end THEN h >= start \/ h < end ELSE start <= h /\ h < end

Target(h) == IF InWindow(h) THEN 1 ELSE 0

Due(target) == sleepState # target

-----------------------------------------------------------------------------
(* Actions.                                                                 *)

\* The schedule is looked at; the new state is kept before any edit is made.
Look ==
  /\ pc = "top"
  /\ now' = hour
  /\ sleepState' = Target(hour)
  /\ IF Due(Target(hour))
     THEN pc' = "edit" /\ todo' = Offer
     ELSE pc' = "poll" /\ UNCHANGED todo
  /\ UNCHANGED <<bounds, hour, onSale, failed>>

\* An edit is made, or fails (with or without effect) and is only logged.
EditOffer(o) ==
  /\ pc = "edit" /\ o \in todo
  /\ todo' = todo \ {o}
  /\ pc' = IF todo' = {} THEN "poll" ELSE "edit"
  /\ \/ /\ onSale' = [onSale EXCEPT ![o] = ~InWindow(now)]
        /\ failed' = failed \ {o}
     \/ /\ Failures
        /\ failed' = failed \cup {o}
        /\ onSale' \in {onSale, [onSale EXCEPT ![o] = ~InWindow(now)]}
  /\ UNCHANGED <<bounds, hour, sleepState, now>>

\* pollOnce, the handlers and time.Sleep: see Bot.
Rest ==
  /\ pc = "poll"
  /\ pc' = "top"
  /\ UNCHANGED <<bounds, hour, sleepState, todo, now, onSale, failed>>

\* Passes may be hours apart, edits too.
Tick ==
  /\ hour' \in (0 .. Hours - 1) \ {hour}
  /\ UNCHANGED <<bounds, sleepState, pc, todo, now, onSale, failed>>

\* The process dies anywhere and Run is called again: sleepState is a local
\* variable of Run.
Crash ==
  /\ Crashes
  /\ sleepState' = -1
  /\ pc' = "top" /\ todo' = {}
  /\ now' = -1
  /\ UNCHANGED <<bounds, hour, onSale, failed>>

Next == Look \/ (\E o \in Offer : EditOffer(o)) \/ Rest \/ Tick \/ Crash

Spec == Init /\ [][Next]_vars

-----------------------------------------------------------------------------
(* Properties.                                                              *)

\* Reference window: the hours from start on, round the clock, up to end.
\* (Unlike ScheduleRule's it is empty when start = end.)
Asleep(h) ==
  IF start < end THEN h \in start .. end - 1
  ELSE start # end /\ (h - start) % Hours < (end - start) % Hours

\* "Offer schedule (activate/deactivate by time)" (README.md:16): when a pass
\* goes on to poll, the listed offers are off sale just if the hour it read is
\* in the sleep window.
ScheduleFollowed ==
  pc = "poll" => \A o \in Offer : onSale[o] = ~Asleep(now)

\* What it does achieve: through overnight windows, passes hours apart and
\* restarts in the middle of the edits, an offer is off schedule only from an
\* edit of it that failed until the next one that works; the failure of one
\* offer's edit does not touch the others.
OnlyFailedAstray ==
  pc = "poll" => \A o \in Offer \ failed : onSale[o] = ~Asleep(now)

=============================================================================
