--------------------------- MODULE SchedulerProof ---------------------------
(***************************************************************************)
(* Theorems of Scheduler, for any number of entries and hours: what Poll's *)
(* loop leaves behind, and that applying its reports follows the schedule. *)
(***************************************************************************)
EXTENDS Scheduler, NaturalsInduction, WellFoundedInduction, TLAPS

-----------------------------------------------------------------------------
(* Helpers.                                                                 *)

Less == OpToRel(<, Nat)

\* A set of numbers has a least one, which stands in for an induction below.
LEMMA LeastExists ==
  ASSUME NEW S \in SUBSET Nat, S # {}
  PROVE  \E x \in S : \A y \in S : x <= y
<1>1. IsWellFoundedOn(Less, Nat)
  BY NatLessThanWellFounded DEF Less
<1>2. PICK x \in S : \A y \in S : <<y, x>> \notin Less
  BY <1>1, WFMin, Zenon
<1>3. \A y \in Nat : y < x => <<y, x>> \in Less
  BY DEF Less, OpToRel
<1>4. \A y \in S : x \in Nat /\ y \in Nat /\ ~(y < x)
  BY <1>2, <1>3
<1>5. QED
  BY <1>4

\* A set of turns that has the zeroth and with each the next has them all.
LEMMA EveryTurn ==
  ASSUME NEW S, 0 \in S, \A n \in Index : n - 1 \in S => n \in S
  PROVE  0 .. NumEntries \subseteq S
<1> USE SchedulerAssumption
<1>1. SUFFICES ASSUME (0 .. NumEntries) \ S # {}
               PROVE  FALSE
  OBVIOUS
<1>2. PICK m \in (0 .. NumEntries) \ S : \A y \in (0 .. NumEntries) \ S : m <= y
  <2>1. (0 .. NumEntries) \ S \in SUBSET Nat
    OBVIOUS
  <2>2. QED
    BY <1>1, <2>1, LeastExists
<1>3. m \in Index /\ m - 1 \in 0 .. NumEntries /\ m - 1 < m
  BY <1>2 DEF Index
<1>4. m - 1 \in S
  BY <1>2, <1>3
<1>5. QED
  BY <1>2, <1>3, <1>4

Base == [last |-> lastStates, found |-> <<>>]

\* The loop runs: its turns are the function the definition describes.
LEMMA TurnsRun ==
  /\ Turns[0] = Base
  /\ \A n \in Index : Turns[n] = PollEntry(Turns[n - 1], n)
<1> USE SchedulerAssumption
<1> DEFINE Runs(m, f) == f = [n \in 0 .. m |-> IF n = 0 THEN Base ELSE PollEntry(f[n - 1], n)]
<1>1. \E f : Runs(0, f)
  <2>1. Runs(0, [n \in 0 .. 0 |-> Base])
    OBVIOUS
  <2>2. QED
    BY <2>1
<1>2. ASSUME NEW m \in Index, \E f : Runs(m - 1, f)
      PROVE  \E f : Runs(m, f)
  <2>1. PICK f : Runs(m - 1, f)
    BY <1>2
  <2> DEFINE g == [n \in 0 .. m |-> IF n = m THEN PollEntry(f[m - 1], m) ELSE f[n]]
  <2>2. \A n \in 0 .. m - 1 : g[n] = f[n]
    BY DEF Index
  <2>3. \A n \in 0 .. m : g[n] = IF n = 0 THEN Base ELSE PollEntry(g[n - 1], n)
    <3>1. ASSUME NEW n \in 0 .. m - 1
          PROVE  g[n] = IF n = 0 THEN Base ELSE PollEntry(g[n - 1], n)
      <4>1. f[n] = IF n = 0 THEN Base ELSE PollEntry(f[n - 1], n)
        BY <2>1 DEF Index
      <4>2. n # 0 => g[n - 1] = f[n - 1]
        BY <2>2 DEF Index
      <4>3. QED
        BY <2>2, <4>1, <4>2
    <3>2. g[m] = PollEntry(g[m - 1], m) /\ m # 0
      BY <2>2 DEF Index
    <3>3. QED
      BY <3>1, <3>2 DEF Index
  <2>4. Runs(m, g)
    BY <2>3
  <2>5. QED
    BY <2>4
<1>3. \E f : Runs(NumEntries, f)
  <2> HIDE DEF Runs
  <2> DEFINE S == {m \in 0 .. NumEntries : \E f : Runs(m, f)}
  <2>1. 0 \in S
    BY <1>1
  <2>2. \A m \in Index : m - 1 \in S => m \in S
    BY <1>2 DEF Index
  <2> HIDE DEF S
  <2>3. 0 .. NumEntries \subseteq S
    BY <2>1, <2>2, EveryTurn
  <2>4. QED
    BY <2>3 DEF S
<1>4. Turns = [n \in 0 .. NumEntries |-> IF n = 0 THEN Base ELSE PollEntry(Turns[n - 1], n)]
  BY <1>3 DEF Turns, Base
<1>5. QED
  BY <1>4 DEF Index

-----------------------------------------------------------------------------
(* Types.                                                                   *)

TurnTyped(n) ==
  /\ DOMAIN Turns[n].last \subseteq Name
  /\ \A x \in DOMAIN Turns[n].last : Turns[n].last[x] \in BOOLEAN
  /\ Turns[n].found \in Seq(Transition)
  /\ Len(Turns[n].found) <= n

\* A wish is on or off.
LEMMA ShouldBeType ==
  ASSUME NEW e, NEW h
  PROVE  ShouldBe(e, h) \in BOOLEAN
  BY DEF ShouldBe

\* The two cases of one turn of the loop.
LEMMA OneTurn ==
  ASSUME NEW n \in Index
  PROVE  LET t == Turns[n - 1]
             name == entries[n].name
             active == ShouldBe(entries[n], hour)
         IN IF Reports(t.last, name, active)
            THEN /\ Turns[n].last = Remembered(t.last, name, active)
                 /\ Turns[n].found = Append(t.found, [index |-> n, active |-> active])
            ELSE Turns[n] = t
<1> PICK t : t = Turns[n - 1]
  OBVIOUS
<1> DEFINE name == entries[n].name
           active == ShouldBe(entries[n], hour)
<1>1. Turns[n] = PollEntry(t, n)
  BY TurnsRun
<1>2. CASE Reports(t.last, name, active)
  <2>1. Turns[n] = [last |-> Remembered(t.last, name, active),
                    found |-> Append(t.found, [index |-> n, active |-> active])]
    BY <1>1, <1>2 DEF PollEntry
  <2>2. QED
    BY <1>2, <2>1
<1>3. CASE ~Reports(t.last, name, active)
  BY <1>1, <1>3 DEF PollEntry
<1>4. QED
  BY <1>2, <1>3

\* What Poll's loop builds is well typed after every turn.
LEMMA TurnsTyped ==
  ASSUME TypeOK
  PROVE  \A n \in 0 .. NumEntries : TurnTyped(n)
<1> USE SchedulerAssumption
<1> DEFINE S == {n \in 0 .. NumEntries : TurnTyped(n)}
<1>1. 0 \in S
  <2>1. Turns[0].last = lastStates /\ Turns[0].found = <<>>
    BY TurnsRun DEF Base
  <2>2. TurnTyped(0)
    BY <2>1 DEF TypeOK, TurnTyped
  <2>3. QED
    BY <2>2
<1>2. ASSUME NEW n \in Index, n - 1 \in S
      PROVE  n \in S
  <2> DEFINE t == Turns[n - 1]
             name == entries[n].name
             active == ShouldBe(entries[n], hour)
  <2>1. /\ TurnTyped(n - 1) /\ n \in 0 .. NumEntries /\ name \in Name /\ active \in BOOLEAN
        /\ [index |-> n, active |-> active] \in Transition
    BY <1>2, ShouldBeType DEF TypeOK, Entry, Index, Transition
  <2>2. CASE Reports(t.last, name, active)
    <3>1. /\ Turns[n].last = Remembered(t.last, name, active)
          /\ Turns[n].found = Append(t.found, [index |-> n, active |-> active])
      BY <2>2, OneTurn
    <3>2. PICK f \in Seq(Transition) : f = t.found /\ Len(f) <= n - 1
      BY <2>1 DEF TurnTyped
    <3>3. Turns[n].found \in Seq(Transition) /\ Len(Turns[n].found) <= n
      BY <2>1, <3>1, <3>2 DEF Index
    <3>4. QED
      BY <2>1, <3>1, <3>3 DEF TurnTyped, Remembered
  <2>3. CASE ~Reports(t.last, name, active)
    <3>1. Turns[n] = t
      BY <2>3, OneTurn
    <3>2. QED
      BY <2>1, <3>1 DEF TurnTyped, Index
  <2>4. QED
    BY <2>2, <2>3
<1> HIDE DEF S
<1>3. 0 .. NumEntries \subseteq S
  BY <1>1, <1>2, EveryTurn
<1>4. QED
  BY <1>3 DEF S

LEMMA InitType == Init => TypeOK
<1> SUFFICES ASSUME Init
             PROVE  TypeOK
  OBVIOUS
<1>1. entries \in [Index -> Entry] /\ applied \in [Index -> BOOLEAN]
  BY DEF Init
<1>2. reported \in Seq(Transition) /\ Len(reported) <= NumEntries
  BY SchedulerAssumption DEF Init
<1>3. DOMAIN lastStates = {}
  BY DEF Init, Empty
<1>4. hour \in 0 .. Hours - 1 /\ polled \in -1 .. Hours - 1
  BY SchedulerAssumption DEF Init
<1>5. again \in BOOLEAN
  BY DEF Init
<1>6. QED
  BY <1>1, <1>2, <1>3, <1>4, <1>5 DEF TypeOK

LEMMA NextType == TypeOK /\ [Next]_vars => TypeOK'
<1> SUFFICES ASSUME TypeOK, [Next]_vars
             PROVE  TypeOK'
  OBVIOUS
<1> USE SchedulerAssumption
<1>1. CASE Poll
  <2>1. TurnTyped(NumEntries)
    BY TurnsTyped
  <2>2. PICK r : r = Turns[NumEntries]
    OBVIOUS
  <2>3. /\ lastStates' = r.last /\ reported' = r.found /\ polled' = hour
        /\ again' = (polled = hour) /\ UNCHANGED <<entries, hour>>
        /\ applied' = [i \in Index |-> IF \E k \in DOMAIN r.found : r.found[k].index = i
                                       THEN ShouldBe(entries[i], hour) ELSE applied[i]]
    BY <1>1, <2>2 DEF Poll
  <2>4. applied' \in [Index -> BOOLEAN]
    BY <2>3, ShouldBeType DEF TypeOK
  <2>5. /\ DOMAIN lastStates' \subseteq Name
        /\ \A x \in DOMAIN lastStates' : lastStates'[x] \in BOOLEAN
        /\ reported' \in Seq(Transition) /\ Len(reported') <= NumEntries
    BY <2>1, <2>2, <2>3 DEF TurnTyped
  <2>6. QED
    BY <2>3, <2>4, <2>5 DEF TypeOK
<1>2. CASE Tick
  BY <1>2 DEF Tick, TypeOK
<1>3. CASE Restart
  <2>1. reported' \in Seq(Transition) /\ Len(reported') <= NumEntries
    BY <1>3 DEF Restart
  <2>2. DOMAIN lastStates' = {}
    BY <1>3 DEF Restart, Empty
  <2>3. polled' \in -1 .. Hours - 1
    BY <1>3 DEF Restart
  <2>4. QED
    BY <1>3, <2>1, <2>2, <2>3 DEF Restart, TypeOK
<1>4. CASE UNCHANGED vars
  BY <1>4 DEF vars, TypeOK
<1>5. QED
  BY <1>1, <1>2, <1>3, <1>4 DEF Next

\* Every variable keeps its type: a poll reports an entry at most once and
\* remembers names of entries only.
THEOREM TypeCorrect == Spec => []TypeOK
  BY InitType, NextType, PTL DEF Spec

-----------------------------------------------------------------------------
(* What a poll finds.                                                       *)

\* No two entries share a name.
Named == \A i, j \in Index : i # j => entries[i].name # entries[j].name

\* What entry i wants at this hour.
Wish(i) == ShouldBe(entries[i], hour)

\* The loop has done the first n entries: their names hold their wishes, the
\* other names what they held, and found are those whose wish was not held.
TurnFollows(n) ==
  /\ \A i \in Index : i <= n =>
       entries[i].name \in DOMAIN Turns[n].last /\ Turns[n].last[entries[i].name] = Wish(i)
  /\ \A i \in Index : i > n =>
       /\ entries[i].name \in DOMAIN Turns[n].last <=> entries[i].name \in DOMAIN lastStates
       /\ entries[i].name \in DOMAIN lastStates =>
            Turns[n].last[entries[i].name] = lastStates[entries[i].name]
  /\ \A i \in Index : (\E k \in DOMAIN Turns[n].found : Turns[n].found[k].index = i)
                        <=> i <= n /\ Reports(lastStates, entries[i].name, Wish(i))

\* Where names are unique the loop treats each entry on its own.
LEMMA TurnsFollow ==
  ASSUME TypeOK, Named
  PROVE  \A n \in 0 .. NumEntries : TurnFollows(n)
<1> USE SchedulerAssumption
<1> DEFINE S == {n \in 0 .. NumEntries : TurnFollows(n)}
<1>1. 0 \in S
  BY TurnsRun DEF TurnFollows, Base, Index
<1>2. ASSUME NEW n \in Index, n - 1 \in S
      PROVE  n \in S
  <2> DEFINE t == Turns[n - 1]
             name == entries[n].name
             entry == [index |-> n, active |-> Wish(n)]
  <2>1. /\ TurnFollows(n - 1) /\ n \in 0 .. NumEntries /\ n - 1 \in 0 .. NumEntries /\ n - 1 < n
        /\ \A i \in Index : (i <= n <=> (i <= n - 1 \/ i = n)) /\ (i > n => i > n - 1) /\ i \in Nat
        /\ \A i \in Index : i # n => entries[i].name # name
    BY <1>2 DEF Index, Named
  <2>2. /\ name \in DOMAIN t.last <=> name \in DOMAIN lastStates
        /\ name \in DOMAIN lastStates => t.last[name] = lastStates[name]
    BY <2>1 DEF TurnFollows
  <2>3. Reports(t.last, name, Wish(n)) <=> Reports(lastStates, name, Wish(n))
    BY <2>2 DEF Reports
  <2>4. CASE Reports(t.last, name, Wish(n))
    <3>1. Turns[n].last = Remembered(t.last, name, Wish(n)) /\ Turns[n].found = Append(t.found, entry)
      BY <2>4, OneTurn DEF Wish
    <3>2. /\ name \in DOMAIN Turns[n].last /\ Turns[n].last[name] = Wish(n)
          /\ \A x : x # name => /\ x \in DOMAIN Turns[n].last <=> x \in DOMAIN t.last
                                /\ x \in DOMAIN t.last => Turns[n].last[x] = t.last[x]
      BY <3>1 DEF Remembered
    <3>3. PICK f \in Seq(Transition) : f = t.found
      BY <2>1, TurnsTyped DEF TurnTyped
    <3>4. \A i \in Index : (\E k \in DOMAIN Append(f, entry) : Append(f, entry)[k].index = i)
                             <=> (\E k \in DOMAIN f : f[k].index = i) \/ i = n
      <4>1. /\ \A k \in DOMAIN f : k \in DOMAIN Append(f, entry) /\ Append(f, entry)[k] = f[k]
            /\ Len(f) + 1 \in DOMAIN Append(f, entry) /\ Append(f, entry)[Len(f) + 1] = entry
            /\ \A k \in DOMAIN Append(f, entry) : k \in DOMAIN f \/ k = Len(f) + 1
        OBVIOUS
      <4>2. entry.index = n
        OBVIOUS
      <4>3. QED
        BY <4>1, <4>2
    <3>5. \A i \in Index : (\E k \in DOMAIN Turns[n].found : Turns[n].found[k].index = i)
                             <=> (\E k \in DOMAIN t.found : t.found[k].index = i) \/ i = n
      BY <3>1, <3>3, <3>4
    <3>6. \A i \in Index : (\E k \in DOMAIN Turns[n].found : Turns[n].found[k].index = i)
                             <=> i <= n /\ Reports(lastStates, entries[i].name, Wish(i))
      BY <2>1, <2>3, <2>4, <3>5 DEF TurnFollows
    <3>7. \A i \in Index : i <= n =>
            entries[i].name \in DOMAIN Turns[n].last /\ Turns[n].last[entries[i].name] = Wish(i)
      BY <2>1, <3>2 DEF TurnFollows
    <3>8. \A i \in Index : i > n =>
            /\ i # n
            /\ entries[i].name \in DOMAIN Turns[n].last <=> entries[i].name \in DOMAIN lastStates
            /\ entries[i].name \in DOMAIN lastStates =>
                 Turns[n].last[entries[i].name] = lastStates[entries[i].name]
      <4>1. \A i \in Index : i > n => i # n
        BY DEF Index
      <4>2. QED
        BY <2>1, <3>2, <4>1 DEF TurnFollows
    <3>9. QED
      BY <2>1, <3>6, <3>7, <3>8 DEF TurnFollows
  <2>5. CASE ~Reports(t.last, name, Wish(n))
    <3>1. Turns[n] = t
      BY <2>5, OneTurn DEF Wish
    <3>2. name \in DOMAIN t.last /\ t.last[name] = Wish(n)
      BY <2>5 DEF Reports
    <3>3. QED
      BY <2>1, <2>3, <2>5, <3>1, <3>2 DEF TurnFollows
  <2>6. QED
    BY <2>4, <2>5
<1> HIDE DEF S
<1>3. 0 .. NumEntries \subseteq S
  BY <1>1, <1>2, EveryTurn
<1>4. QED
  BY <1>3 DEF S

-----------------------------------------------------------------------------
(* The schedule is followed.                                                *)

\* The difference of two hours, round the clock.
LEMMA ModCases ==
  ASSUME NEW H \in Nat \ {0}, NEW x \in Int, -H <= x, x <= H
  PROVE  x % H = IF x = H THEN 0 ELSE IF x >= 0 THEN x ELSE x + H
  BY Z3

\* ScheduleRule.IsActive is the window round the clock: overnight, up to
\* midnight (an end of 24) and all day included.
LEMMA WindowIsCircular ==
  ASSUME NEW start \in 0 .. Hours - 1, NEW end \in 0 .. Hours, NEW h \in 0 .. Hours - 1
  PROVE  IsActive(start, end, h) <=> InWindow(start, end, h)
<1>1. Hours \in Nat \ {0} /\ start \in Int /\ end \in Int /\ h \in Int
  BY SchedulerAssumption
<1>2. (h - start) % Hours = IF h >= start THEN h - start ELSE h - start + Hours
  <2>1. h - start \in Int /\ -Hours <= h - start /\ h - start <= Hours /\ h - start # Hours
        /\ (h - start >= 0 <=> h >= start)
    BY <1>1
  <2>2. QED
    BY <1>1, <2>1, ModCases
<1>3. (end - start) % Hours =
        IF end - start = Hours THEN 0
        ELSE IF end >= start THEN end - start ELSE end - start + Hours
  <2>1. end - start \in Int /\ -Hours <= end - start /\ end - start <= Hours
        /\ (end - start >= 0 <=> end >= start)
    BY <1>1
  <2>2. QED
    BY <1>1, <2>1, ModCases
<1>4. CASE start = end
  BY <1>1, <1>3, <1>4 DEF IsActive, InWindow
<1>5. CASE start < end
  BY <1>1, <1>2, <1>3, <1>5 DEF IsActive, InWindow
<1>6. CASE start > end
  BY <1>1, <1>2, <1>3, <1>6 DEF IsActive, InWindow
<1>7. QED
  BY <1>1, <1>4, <1>5, <1>6

\* What the last poll left: every entry's name holds its wish at that hour, and
\* the group is as it holds, reported now or long ago.
Following ==
  \A i \in Index :
    /\ entries[i].name \in DOMAIN lastStates
    /\ lastStates[entries[i].name] = ShouldBe(entries[i], polled)
    /\ applied[i] = ShouldBe(entries[i], polled)

\* The inductive invariant: ScheduleApplied follows from Following, which a poll
\* restores with the help of what the poll before left in lastStates.
IInv ==
  /\ TypeOK
  /\ Named
  /\ polled = -1 => DOMAIN lastStates = {} /\ again = FALSE
  /\ polled # -1 => Following
  /\ QuietWhenUnchanged

\* After a poll every group is as its entry wishes: reported now, or still as
\* the poll before left it.
LEMMA PollFollows ==
  ASSUME IInv, Poll
  PROVE  IInv'
<1> USE SchedulerAssumption
<1>0. TypeOK /\ Named /\ Poll
  BY DEF IInv
<1>1. PICK r : r = Turns[NumEntries]
  OBVIOUS
<1>2. /\ lastStates' = r.last /\ reported' = r.found /\ polled' = hour
      /\ again' = (polled = hour) /\ UNCHANGED <<entries, hour>>
      /\ applied' = [i \in Index |-> IF \E k \in DOMAIN r.found : r.found[k].index = i
                                     THEN ShouldBe(entries[i], hour) ELSE applied[i]]
  BY <1>1 DEF Poll
<1>3. /\ \A i \in Index : entries[i].name \in DOMAIN r.last /\ r.last[entries[i].name] = Wish(i)
      /\ \A i \in Index : (\E k \in DOMAIN r.found : r.found[k].index = i)
                            <=> Reports(lastStates, entries[i].name, Wish(i))
  <2>1. TurnFollows(NumEntries) /\ \A i \in Index : i <= NumEntries
    BY <1>0, TurnsFollow DEF Index
  <2>2. QED
    BY <1>1, <2>1 DEF TurnFollows
<1>4. hour # -1 /\ r.found \in Seq(Transition)
  BY <1>0, <1>1, TurnsTyped DEF TypeOK, TurnTyped
<1>5. ASSUME NEW i \in Index
      PROVE  applied'[i] = Wish(i)
  <2>1. CASE Reports(lastStates, entries[i].name, Wish(i))
    BY <1>2, <1>3, <2>1 DEF Wish
  <2>2. CASE ~Reports(lastStates, entries[i].name, Wish(i))
    <3>1. entries[i].name \in DOMAIN lastStates /\ lastStates[entries[i].name] = Wish(i)
      BY <2>2 DEF Reports
    <3>2. polled # -1
      BY <3>1 DEF IInv
    <3>3. applied[i] = lastStates[entries[i].name]
      BY <3>2 DEF IInv, Following
    <3>4. QED
      BY <1>2, <1>3, <2>2, <3>1, <3>3
  <2>3. QED
    BY <2>1, <2>2
<1>6. Following'
  BY <1>2, <1>3, <1>5 DEF Following, Wish
<1>7. again' => reported' = <<>>
  <2>1. SUFFICES ASSUME polled = hour
                 PROVE  r.found = <<>>
    BY <1>2
  <2>2. \A i \in Index : ~Reports(lastStates, entries[i].name, Wish(i))
    BY <1>4, <2>1 DEF IInv, Following, Wish, Reports
  <2>3. PICK f \in Seq(Transition) : f = r.found
    BY <1>4
  <2>4. \A k \in DOMAIN f : f[k].index \in Index
    <3>1. \A k \in DOMAIN f : f[k] \in Transition
      OBVIOUS
    <3>2. QED
      BY <3>1 DEF Transition
  <2>5. DOMAIN f = {}
    BY <1>3, <2>2, <2>3, <2>4
  <2>6. f = <<>>
    BY <2>5
  <2>7. QED
    BY <2>3, <2>6
<1>8. TypeOK'
  BY <1>0, NextType DEF Next
<1>9. Named'
  BY <1>0, <1>2 DEF Named
<1>10. polled' # -1
  BY <1>2, <1>4
<1>11. QED
  BY <1>6, <1>7, <1>8, <1>9, <1>10 DEF IInv, QuietWhenUnchanged

LEMMA InitFollows == UniqueNames /\ Init => IInv
<1> SUFFICES ASSUME UniqueNames, Init
             PROVE  IInv
  OBVIOUS
<1>1. Named
  BY DEF Init, Named
<1>2. polled = -1 /\ DOMAIN lastStates = {} /\ again = FALSE
  BY DEF Init, Empty
<1>3. QED
  BY <1>1, <1>2, InitType DEF IInv, QuietWhenUnchanged

LEMMA NextFollows == IInv /\ [Next]_vars => IInv'
<1> SUFFICES ASSUME IInv, [Next]_vars
             PROVE  IInv'
  OBVIOUS
<1>0. TypeOK'
  BY NextType DEF IInv
<1>1. CASE Poll
  BY <1>1, PollFollows
<1>2. CASE Tick
  BY <1>0, <1>2 DEF Tick, IInv, Named, Following, QuietWhenUnchanged
<1>3. CASE Restart
  <2>1. polled' = -1 /\ again' = FALSE /\ DOMAIN lastStates' = {} /\ entries' = entries
    BY <1>3 DEF Restart, Empty
  <2>2. QED
    BY <1>0, <2>1 DEF IInv, Named, QuietWhenUnchanged
<1>4. CASE UNCHANGED vars
  BY <1>0, <1>4 DEF vars, IInv, Named, Following, QuietWhenUnchanged
<1>5. QED
  BY <1>1, <1>2, <1>3, <1>4 DEF Next

\* What Following says of the windows.
LEMMA FollowedApplied == IInv => ScheduleApplied
<1>1. SUFFICES ASSUME IInv, polled # -1, NEW i \in Index
               PROVE  applied[i] = (InWindow(entries[i].start, entries[i].end, polled)
                                      = entries[i].activate)
  BY DEF ScheduleApplied
<1>2. /\ entries[i].start \in 0 .. Hours - 1 /\ entries[i].end \in 0 .. Hours
      /\ entries[i].activate \in BOOLEAN /\ polled \in 0 .. Hours - 1
  BY <1>1, SchedulerAssumption DEF IInv, TypeOK, Entry
<1>3. InWindow(entries[i].start, entries[i].end, polled)
        <=> IsActive(entries[i].start, entries[i].end, polled)
  BY <1>2, WindowIsCircular
<1>4. applied[i] = (IsActive(entries[i].start, entries[i].end, polled) = entries[i].activate)
  BY <1>1 DEF IInv, Following, ShouldBe
<1>5. InWindow(entries[i].start, entries[i].end, polled) \in BOOLEAN
      /\ IsActive(entries[i].start, entries[i].end, polled) \in BOOLEAN
  BY DEF InWindow, IsActive
<1>6. QED
  BY <1>3, <1>4, <1>5

\* A host that only applies what Poll reports has every group as its schedule
\* says at the time of the poll, for any entries with names of their own, any
\* hours, clock changes and restarts.
THEOREM EntriesFollowed == UniqueNames /\ Spec => []ScheduleApplied
<1>1. IInv => ScheduleApplied
  BY FollowedApplied
<1>2. QED
  BY <1>1, InitFollows, NextFollows, PTL DEF Spec

\* A second poll at the hour of the one before reports nothing.
THEOREM SecondPollQuiet == UniqueNames /\ Spec => []QuietWhenUnchanged
<1>1. IInv => QuietWhenUnchanged
  BY DEF IInv
<1>2. QED
  BY <1>1, InitFollows, NextFollows, PTL DEF Spec

=============================================================================
