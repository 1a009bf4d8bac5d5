----------------------------- MODULE Scheduler ------------------------------
(***************************************************************************)
(* OfferScheduler (src/scheduler.go): Poll compares what each entry's rule *)
(* wants at this hour with what it last reported under the entry's name,   *)
(* and reports the differences.  The host polls when it likes, applies     *)
(* what is reported and may restart with an empty OfferScheduler.          *)
(***************************************************************************)
EXTENDS Integers, Sequences

CONSTANTS
  Hours,        \* hours of a day: 24
  Name,
  NumEntries,
  UniqueNames   \* the host gives no two entries one name

ASSUME SchedulerAssumption ==
  /\ Hours \in Nat \ {0} /\ NumEntries \in Nat \ {0}
  /\ UniqueNames \in BOOLEAN

VARIABLES
  entries,      \* the ScheduleEntries, fixed when the scheduler is made
  hour,         \* the time of day
  lastStates,   \* OfferScheduler.lastStates, a function on the names it holds
  reported,     \* the transitions the last poll reported
  polled,       \* the hour of that poll, -1 for none since the start
  again,        \* observer: that poll and the one before were at one hour
  applied       \* external: is the group of the i-th entry switched on

vars == <<entries, hour, lastStates, reported, polled, again, applied>>

Index == 1 .. NumEntries
Entry == [name : Name, start : 0 .. Hours - 1, end : 0 .. Hours, activate : BOOLEAN]
Transition == [index : Index, active : BOOLEAN]
Empty == [n \in {} |-> FALSE]

TypeOK ==
  /\ entries \in [Index -> Entry]
  /\ hour \in 0 .. Hours - 1
  /\ DOMAIN lastStates \subseteq Name
  /\ \A n \in DOMAIN lastStates : lastStates[n] \in BOOLEAN
  /\ reported \in Seq(Transition) /\ Len(reported) <= NumEntries
  /\ polled \in -1 .. Hours - 1
  /\ again \in BOOLEAN
  /\ applied \in [Index -> BOOLEAN]

Init ==
  /\ entries \in {e \in [Index -> Entry] :
                    UniqueNames => \A i, j \in Index : i # j => e[i].name # e[j].name}
  /\ hour = 0
  /\ lastStates = Empty
  /\ reported = <<>>
  /\ polled = -1
  /\ again = FALSE
  /\ applied \in [Index -> BOOLEAN]

-----------------------------------------------------------------------------
(* Mutated forms of the definitions below.                                  *)

IsActiveInclusive(start, end, h) ==
  CASE start = end -> TRUE
    [] start < end -> h >= start /\ h <= end
    [] OTHER       -> h >= start \/ h < end
RememberedNothing(last, name, active) == last

-----------------------------------------------------------------------------
(* Helpers.                                                                 *)

\* ScheduleRule.IsActive
IsActive(start, end, h) ==
  CASE start = end -> TRUE
    [] start < end -> h >= start /\ h < end
    [] OTHER       -> h >= start \/ h < end

\* What the entry wants at hour h: its action inside the window of its rule,
\* the opposite outside.
ShouldBe(e, h) == IsActive(e.start, e.end, h) = e.activate

Reports(last, name, active) == name \notin DOMAIN last \/ last[name] # active

Remembered(last, name, active) ==
  [n \in DOMAIN last \cup {name} |-> IF n = name THEN active ELSE last[n]]

\* Mutated form of PollEntry: both branches report.
PollEntryTwice(acc, i) ==
  LET active == ShouldBe(entries[i], hour)
      name   == entries[i].name
      found  == [index |-> i, active |-> active]
  IN IF Reports(acc.last, name, active)
     THEN [last |-> Remembered(acc.last, name, active), found |-> acc.found \o <<found, found>>]
     ELSE acc

\* One turn of Poll's loop over the entries.
PollEntry(acc, i) ==
  LET active == ShouldBe(entries[i], hour)
      name   == entries[i].name
  IN IF Reports(acc.last, name, active)
     THEN [last |-> Remembered(acc.last, name, active),
           found |-> Append(acc.found, [index |-> i, active |-> active])]
     ELSE acc

\* What Poll remembers and has found after the first n entries.
Turns[n \in 0 .. NumEntries] ==
  IF n = 0 THEN [last |-> lastStates, found |-> <<>>] ELSE PollEntry(Turns[n - 1], n)

-----------------------------------------------------------------------------
(* Actions.                                                                 *)

Poll ==
  LET result == Turns[NumEntries]
  IN /\ lastStates' = result.last
     /\ reported' = result.found
     /\ polled' = hour
     /\ again' = (polled = hour)
     /\ applied' = [i \in Index |->
          IF \E k \in DOMAIN result.found : result.found[k].index = i
          THEN ShouldBe(entries[i], hour) ELSE applied[i]]
     /\ UNCHANGED <<entries, hour>>

\* The clock goes on, by any amount between two polls, or is set.
Tick ==
  /\ hour' \in (0 .. Hours - 1) \ {hour}
  /\ UNCHANGED <<entries, lastStates, reported, polled, again, applied>>

\* The groups may have been switched by hand while the host was down.
Restart ==
  /\ polled # -1
  /\ lastStates' = Empty
  /\ reported' = <<>>
  /\ polled' = -1
  /\ again' = FALSE
  /\ applied' \in [Index -> BOOLEAN]
  /\ UNCHANGED <<entries, hour>>

Next == Poll \/ Tick \/ Restart

Spec == Init /\ [][Next]_vars

-----------------------------------------------------------------------------
(* Properties.                                                              *)

\* Reference window: the hours from start on, round the clock, up to end; the
\* whole day when the two meet.
InWindow(start, end, h) ==
  \/ (end - start) % Hours = 0
  \/ (h - start) % Hours < (end - start) % Hours

\* "evaluates entries and reports transitions" (scheduler.go:58): a host that
\* only ever applies the transitions reported has every group as its own
\* schedule says at the time of the poll, overnight windows, skipped hours,
\* clock changes and restarts included.
ScheduleApplied ==
  polled # -1 => \A i \in Index :
    applied[i] = (InWindow(entries[i].start, entries[i].end, polled) = entries[i].activate)

\* A poll reports an entry only when its wish has changed: a second poll at
\* the hour of the one before reports nothing ("Second poll should have no
\* transitions", goldenpay_test.go:236), even if the clock was elsewhere since.
QuietWhenUnchanged == again => reported = <<>>

=============================================================================
