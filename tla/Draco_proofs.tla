---------------------------- MODULE Draco_proofs ----------------------------
(***************************************************************************)
(* The action and safety properties of Draco, for any tickers, charts,     *)
(* settings and bounds.                                                    *)
(***************************************************************************)
EXTENDS Draco, FoldLemmas, TLAPS

Fields == {"positions", "cooldowns", "regime", "breaker", "scanned", "processed"}

\* The state draco saves is a record, and its dates are those processed.
DatesInv ==
  /\ saved = [f \in Fields |-> saved[f]]
  /\ day \in 1..LastDay
  /\ saved.processed \in Nat /\ saved.processed <= day
  /\ IsFiniteSet(seen) /\ seen \subseteq 1..saved.processed
  /\ saved.processed # 0 => saved.processed \in seen
  /\ trippedOn \in 0..saved.processed

\* A run: what it saves, whichever of its two ends it comes to.
BotRuns(side, drawdown) ==
  Liquidate(side, drawdown) \/ \E quotes \in Downloads : Trade(quotes, side, drawdown)

\* What no run, failure or edit touches.
Rests == UNCHANGED <<saved, observed>>

LEMMA Cases ==
  ASSUME Next
  PROVE  \/ \E side \in Sides \cup {"short"}, drawdown \in BOOLEAN : BotRuns(side, drawdown)
         \/ Rests
  BY Zenon DEF Next, RunDraco, BotRuns, NoData, Allocate, Die, NextDay, EditUniverse, EditLock, Rests

LEMMA RunSaves ==
  ASSUME saved = [f \in Fields |-> saved[f]], NEW side, NEW drawdown, BotRuns(side, drawdown)
  PROVE  /\ saved' = [f \in Fields |-> saved'[f]]
         /\ saved'.processed = day /\ day' = day
         /\ saved'.regime = RegimeAfter(side)
         /\ saved'.breaker = BreakerAfter(drawdown)
         /\ pc' = "allocate" /\ outcome' = "data"
<1>1. CASE Liquidate(side, drawdown)
  BY <1>1 DEF Liquidate, Fields, Observe
<1>2. ASSUME NEW quotes, Trade(quotes, side, drawdown)
      PROVE  /\ saved' = [f \in Fields |-> saved'[f]]
             /\ saved'.processed = day /\ day' = day
             /\ saved'.regime = RegimeAfter(side)
             /\ saved'.breaker = BreakerAfter(drawdown)
             /\ pc' = "allocate" /\ outcome' = "data"
  BY <1>2 DEF Trade, Fields, Observe
<1> QED
  BY <1>1, <1>2 DEF BotRuns

\* While the breaker is active a run holds nothing, and asks for the fallback.
LEMMA BreakerHoldsNothing ==
  ASSUME saved = [f \in Fields |-> saved[f]], NEW side, NEW drawdown, BotRuns(side, drawdown),
         BreakerAfter(drawdown).active
  PROVE  DOMAIN saved'.positions = {}
<1>1. Liquidate(side, drawdown)
  BY DEF BotRuns, Trade, MustLiquidate
<1> QED
  BY <1>1 DEF Liquidate, NoPositions, Fields

LEMMA RunObserves ==
  ASSUME NEW side, NEW drawdown, BotRuns(side, drawdown)
  PROVE  /\ seen' = seen \cup {day}
         /\ trippedOn' = IF BreakerAfter(drawdown).active /\ ~saved.breaker.active THEN day ELSE trippedOn
         /\ streak' = IF ~NewDate \/ side = "short" THEN streak
                      ELSE [side |-> side, length |-> IF side = streak.side THEN streak.length + 1 ELSE 1]
  BY Zenon DEF BotRuns, Liquidate, Trade, Observe

-----------------------------------------------------------------------------
(* The dates. *)

\* The calendar is never turned back.
LEMMA DayGoesOn ==
  ASSUME day \in 1..LastDay, Next
  PROVE  day' \in 1..LastDay /\ day <= day'
<1>1. day' = day \/ (day < LastDay /\ day' = day + 1)
  BY Zenon DEF Next, RunDraco, Liquidate, Trade, NoData, Allocate, Die, NextDay, EditUniverse, EditLock
<1> QED
  BY <1>1, SettingsAssumption

LEMMA DatesInit == Init => DatesInv
<1> SUFFICES ASSUME Init PROVE DatesInv
  OBVIOUS
<1>1. saved = [f \in Fields |-> saved[f]] /\ saved.processed = 0
  BY DEF Init, Fields
<1>2. day = 1 /\ trippedOn = 0 /\ seen = {} /\ IsFiniteSet(seen)
  BY FS_EmptySet DEF Init
<1>3. 1 \in 1..LastDay
  BY SettingsAssumption
<1> QED
  BY <1>1, <1>2, <1>3 DEF DatesInv

LEMMA DatesStep == DatesInv /\ [Next]_vars => DatesInv'
<1> SUFFICES ASSUME DatesInv, [Next]_vars PROVE DatesInv'
  OBVIOUS
<1> USE SettingsAssumption
<1>1. ASSUME NEW side, NEW drawdown, BotRuns(side, drawdown)
      PROVE DatesInv'
  <2>1. saved' = [f \in Fields |-> saved'[f]] /\ saved'.processed = day /\ day' = day
    BY <1>1, RunSaves DEF DatesInv
  <2>2. seen' = seen \cup {day} /\ trippedOn' \in {day, trippedOn}
    BY <1>1, RunObserves
  <2>3. IsFiniteSet(seen')
    BY <2>2, FS_AddElement DEF DatesInv
  <2> QED
    BY <2>1, <2>2, <2>3 DEF DatesInv
<1>2. CASE Rests /\ Next
  <2>1. day' \in 1..LastDay /\ day <= day'
    BY <1>2, DayGoesOn DEF DatesInv
  <2> QED
    BY <1>2, <2>1 DEF Rests, observed, DatesInv
<1>3. CASE UNCHANGED vars
  BY <1>3 DEF vars, observed, DatesInv
<1> QED
  BY <1>1, <1>2, <1>3, Cases

-----------------------------------------------------------------------------
(* The breaker. *)

BreakerInv ==
  saved.breaker.active =>
    /\ DOMAIN saved.positions = {}
    /\ saved.breaker.remaining \in Nat \ {0}
    /\ saved.breaker.remaining + Cardinality({d \in seen : d > trippedOn}) = BreakerDays

LEMMA BreakerInit == Init => BreakerInv
  BY DEF Init, BreakerInv

\* The three ways in which the breaker is active after a run.
LEMMA BreakerCases ==
  ASSUME NEW drawdown, BreakerAfter(drawdown).active
  PROVE  \/ ~NewDate /\ BreakerAfter(drawdown) = saved.breaker
         \/ /\ NewDate /\ saved.breaker.active /\ saved.breaker.remaining > 1
            /\ BreakerAfter(drawdown).remaining = saved.breaker.remaining - 1
         \/ NewDate /\ ~saved.breaker.active /\ BreakerAfter(drawdown).remaining = BreakerDays
         \/ BreakerAfter(drawdown) = saved.breaker /\ ~saved.breaker.active
<1>1. CASE ~CircuitBreaker
  BY <1>1 DEF BreakerAfter
<1>2. CASE CircuitBreaker /\ NewDate /\ saved.breaker.active
  BY <1>2 DEF BreakerAfter, CountedDown
<1>3. CASE CircuitBreaker /\ NewDate /\ ~saved.breaker.active /\ drawdown
  BY <1>3 DEF BreakerAfter
<1>4. CASE CircuitBreaker /\ ~(NewDate /\ (saved.breaker.active \/ drawdown))
  BY <1>4 DEF BreakerAfter
<1> QED
  BY Zenon, <1>1, <1>2, <1>3, <1>4

LEMMA BreakerStep == DatesInv /\ BreakerInv /\ [Next]_vars => BreakerInv'
<1> SUFFICES ASSUME DatesInv, BreakerInv, [Next]_vars PROVE BreakerInv'
  OBVIOUS
<1> USE SettingsAssumption
<1> DEFINE Since(s, d) == {e \in s : e > d}
<1>1. ASSUME NEW side, NEW drawdown, BotRuns(side, drawdown), saved'.breaker.active
      PROVE  /\ DOMAIN saved'.positions = {}
             /\ saved'.breaker.remaining \in Nat \ {0}
             /\ saved'.breaker.remaining + Cardinality(Since(seen', trippedOn')) = BreakerDays
  <2>1. saved'.breaker = BreakerAfter(drawdown)
    BY <1>1, RunSaves DEF DatesInv
  <2>2. BreakerAfter(drawdown).active
    BY <1>1, <2>1
  <2>3. DOMAIN saved'.positions = {}
    BY <1>1, <2>2, BreakerHoldsNothing DEF DatesInv
  <2>4. /\ seen' = seen \cup {day}
        /\ trippedOn' = IF ~saved.breaker.active THEN day ELSE trippedOn
    BY <1>1, <2>2, RunObserves
  <2>5. CASE ~NewDate /\ BreakerAfter(drawdown) = saved.breaker
    <3>1. saved.breaker.active
      BY <2>2, <2>5
    <3>2. seen' = seen /\ trippedOn' = trippedOn
      BY <2>4, <2>5, <3>1 DEF NewDate, DatesInv
    <3> QED
      BY <2>1, <2>3, <2>5, <3>1, <3>2 DEF BreakerInv
  <2>6. CASE /\ NewDate /\ saved.breaker.active /\ saved.breaker.remaining > 1
             /\ BreakerAfter(drawdown).remaining = saved.breaker.remaining - 1
    <3>1. /\ saved.breaker.remaining \in Nat \ {0}
          /\ saved.breaker.remaining + Cardinality(Since(seen, trippedOn)) = BreakerDays
      BY <2>6 DEF BreakerInv
    <3>2. day \notin seen /\ day > trippedOn
      <4>1. /\ saved.processed # day /\ day \in Nat /\ saved.processed \in Nat
            /\ saved.processed <= day /\ seen \subseteq 1..saved.processed
            /\ trippedOn \in 0..saved.processed
        BY <2>6 DEF NewDate, DatesInv
      <4> QED
        BY ONLY <4>1
    <3>3. Since(seen', trippedOn') = Since(seen, trippedOn) \cup {day}
      BY <2>4, <2>6, <3>2
    <3>4. IsFiniteSet(Since(seen, trippedOn)) /\ day \notin Since(seen, trippedOn)
      BY <3>2, FS_Subset DEF DatesInv
    <3>5. Cardinality(Since(seen', trippedOn')) = Cardinality(Since(seen, trippedOn)) + 1
      BY <3>3, <3>4, FS_AddElement
    <3>6. Cardinality(Since(seen, trippedOn)) \in Nat
      BY <3>4, FS_CardinalityType
    <3> HIDE DEF Since
    <3> QED
      BY <2>1, <2>3, <2>6, <3>1, <3>5, <3>6
  <2>7. CASE NewDate /\ ~saved.breaker.active /\ BreakerAfter(drawdown).remaining = BreakerDays
    <3>1. Since(seen', trippedOn') = {}
      BY <2>4, <2>7 DEF DatesInv
    <3>2. Cardinality(Since(seen', trippedOn')) = 0
      BY <3>1, FS_EmptySet
    <3> HIDE DEF Since
    <3> QED
      BY <2>1, <2>3, <2>7, <3>2
  <2> QED
    BY <2>2, <2>5, <2>6, <2>7, BreakerCases
<1>2. CASE Rests
  BY <1>2 DEF Rests, observed, BreakerInv
<1>3. CASE UNCHANGED vars
  BY <1>3 DEF vars, observed, BreakerInv
<1>4. ASSUME NEW side, NEW drawdown, BotRuns(side, drawdown) PROVE BreakerInv'
  BY Zenon, <1>1, <1>4 DEF BreakerInv
<1> QED
  BY <1>2, <1>3, <1>4, Cases

\* The breaker counts trading dates, however many runs each of them has.
THEOREM BreakerCounts == Spec => []BreakerCountsDates
<1>1. Init => DatesInv /\ BreakerInv
  BY DatesInit, BreakerInit
<1>2. DatesInv /\ BreakerInv /\ [Next]_vars => (DatesInv /\ BreakerInv)'
  BY DatesStep, BreakerStep
<1>3. BreakerInv => BreakerCountsDates
  BY Zenon DEF BreakerInv, BreakerCountsDates, Held
<1> QED
  BY <1>1, <1>2, <1>3, PTL DEF Spec

-----------------------------------------------------------------------------
(* The allocation follows the state. *)

\* Between the two transactions the target is what the run asked for.
TargetInv ==
  /\ pc = "allocate" /\ outcome \in {"data", "nodata"} => target = Wanted
  /\ pc = "idle" /\ outcome \in {"data", "nodata"} =>
       alloc = Wanted \ locked \/ Wanted \subseteq locked

LEMMA TargetStep ==
  ASSUME HoldFallback, DatesInv, TargetInv, [Next]_vars
  PROVE  TargetInv'
<1>1. ASSUME NEW side, NEW drawdown, Liquidate(side, drawdown) PROVE TargetInv'
  <2>1. DOMAIN saved'.positions = {}
    BY <1>1 DEF Liquidate, DatesInv, Fields, NoPositions
  <2> QED
    BY <1>1, <2>1 DEF Liquidate, Observe, TargetInv, Wanted, Held
<1>2. ASSUME NEW side, NEW drawdown, NEW quotes, Trade(quotes, side, drawdown) PROVE TargetInv'
  <2> DEFINE kept == Held \ Exiting(quotes)
             entered == Entering(kept, CooldownsAfter(Exiting(quotes)), quotes)
  <2>1. pc' = "allocate" /\ outcome' = "data" /\ target' = TargetOf(kept \cup entered)
    BY <1>2 DEF Trade, Observe
  <2>2. saved'.positions = [t \in kept \cup entered |->
           IF t \in kept THEN saved.positions[t] ELSE PositionAt(quotes[t], day)]
    BY <1>2 DEF Trade
  <2>3. Held' = kept \cup entered
    BY <2>2 DEF Held
  <2> HIDE DEF kept, entered
  <2> QED
    BY <2>1, <2>3 DEF TargetInv, TargetOf, Wanted
<1>3. CASE NoData \/ Die
  BY <1>3 DEF NoData, Die, TargetInv, Wanted
<1>4. CASE Allocate
  <2>1. outcome \in {"data", "nodata"} => target = Wanted
    BY <1>4 DEF Allocate, TargetInv
  <2>2. Wanted' = Wanted /\ pc' = "idle" /\ locked' = locked /\ outcome' = outcome
    BY <1>4 DEF Allocate, Wanted, Held
  <2>3. alloc' = target \ locked \/ target \subseteq locked
    BY <1>4 DEF Allocate, Safe
  <2> QED
    BY <2>1, <2>2, <2>3 DEF TargetInv
<1>5. CASE NextDay \/ (\E t \in Tickers : EditUniverse(t)) \/ (\E s \in Lockable : EditLock(s))
  BY <1>5 DEF NextDay, EditUniverse, EditLock, TargetInv, Wanted, Held
<1>6. CASE UNCHANGED vars
  BY <1>6 DEF vars, TargetInv, Wanted, Held
<1> QED
  BY <1>1, <1>2, <1>3, <1>4, <1>5, <1>6 DEF Next, RunDraco

\* Unless the settings have the bot hold nothing rather than the fallback, the
\* allocation a cycle trades by is what the last run asked for less what is
\* locked, after every run that was not cut off; only when all of it is locked
\* does an earlier one stand.
THEOREM AllocationFollows == ASSUME HoldFallback PROVE Spec => []AllocationCurrent
<1>1. Init => DatesInv /\ TargetInv
  BY DatesInit DEF Init, TargetInv
<1>2. DatesInv /\ TargetInv /\ [Next]_vars => (DatesInv /\ TargetInv)'
  BY DatesStep, TargetStep
<1>3. TargetInv => AllocationCurrent
  BY DEF TargetInv, AllocationCurrent
<1> QED
  BY <1>1, <1>2, <1>3, PTL DEF Spec

-----------------------------------------------------------------------------
(* Cooldowns. *)

\* The calendar goes on with the trading dates.
LEMMA LaterDate ==
  ASSUME NEW d \in 1..LastDay, NEW e \in 1..LastDay, d <= e
  PROVE  Date[d] \in Nat /\ Date[e] \in Nat /\ Date[d] <= Date[e]
<1>1. Date[d] \in Nat /\ Date[e] \in Nat
  BY CalendarAssumption
<1>2. CASE d = e
  BY <1>1, <1>2
<1>3. CASE d < e
  BY <1>1, <1>3, CalendarAssumption
<1> QED
  BY <1>2, <1>3, <1>1

\* An exit's cooldown is kept until it is over.
Waited(t) == saved.processed # 0 /\ Date[saved.processed] >= Date[exited[t]] + ReentryDays

CooldownInv ==
  /\ saved.cooldowns \in [Tickers -> Nat]
  /\ exited \in [Tickers -> 0..LastDay]
  /\ \A t \in Tickers : exited[t] # 0 =>
       saved.cooldowns[t] = Date[exited[t]] + ReentryDays \/ Waited(t)

LEMMA CooldownInit == Init => CooldownInv
  BY SettingsAssumption DEF Init, CooldownInv

\* The tickers a run enters: it scans, and they are neither held nor cooling.
LEMMA EnteredAfterCooldown ==
  ASSUME NEW side, NEW drawdown, NEW quotes \in Downloads, Trade(quotes, side, drawdown),
         NEW t \in DOMAIN saved'.positions \ Held
  PROVE  ScanDay /\ t \in DOMAIN quotes /\ CooldownsAfter(Exiting(quotes))[t] = 0
<1> DEFINE kept == Held \ Exiting(quotes)
           cooldowns == CooldownsAfter(Exiting(quotes))
           entered == Entering(kept, cooldowns, quotes)
<1>1. saved'.positions = [u \in kept \cup entered |->
         IF u \in kept THEN saved.positions[u] ELSE PositionAt(quotes[u], day)]
  BY DEF Trade
<1>2. t \in entered
  BY <1>1
<1> HIDE DEF kept, cooldowns
<1>3. ScanDay
  BY Zenon, <1>2 DEF Entering
<1>4. t \in DOMAIN quotes /\ cooldowns[t] = 0
  BY Zenon, <1>2, <1>3 DEF Entering
<1> QED
  BY <1>3, <1>4 DEF cooldowns

LEMMA Quoted ==
  ASSUME universe \subseteq Tickers, NEW quotes \in Downloads
  PROVE  DOMAIN quotes \subseteq Tickers
  BY DEF Downloads

LEMMA CooldownStep == DatesInv /\ CooldownInv /\ [Next]_vars => CooldownInv'
<1> SUFFICES ASSUME DatesInv, CooldownInv, [Next]_vars PROVE CooldownInv'
  OBVIOUS
<1> USE SettingsAssumption
<1>0. /\ day \in 1..LastDay /\ Date[day] \in Nat
      /\ saved.processed # 0 => Date[saved.processed] \in Nat /\ Date[saved.processed] <= Date[day]
      /\ \A t \in Tickers : exited[t] # 0 => Date[exited[t]] \in Nat
  <2>1. day \in 1..LastDay
    BY DEF DatesInv
  <2>2. saved.processed # 0 => saved.processed \in 1..LastDay /\ saved.processed <= day
    BY DEF DatesInv
  <2>3. \A t \in Tickers : exited[t] # 0 => exited[t] \in 1..LastDay
    BY DEF CooldownInv
  <2> QED
    BY <2>1, <2>2, <2>3, LaterDate
<1>1. ASSUME NEW side, NEW drawdown, Liquidate(side, drawdown) PROVE CooldownInv'
  <2>1. saved'.cooldowns = saved.cooldowns /\ saved'.processed = day
    BY <1>1 DEF Liquidate, DatesInv, Fields
  <2>2. exited' = [t \in Tickers |-> exited[t]]
    BY <1>1 DEF Liquidate, Observe
  <2>3. exited' = exited
    BY <2>2 DEF CooldownInv
  <2>4. \A t \in Tickers : exited[t] # 0 /\ Waited(t) => Waited(t)'
    BY <1>0, <2>1, <2>3 DEF Waited, DatesInv
  <2> QED
    BY <2>1, <2>3, <2>4 DEF CooldownInv
<1>2. ASSUME NEW side, NEW drawdown, NEW quotes, Trade(quotes, side, drawdown) PROVE CooldownInv'
  <2> DEFINE gone == Exiting(quotes)
  <2>1. saved'.cooldowns = CooldownsAfter(gone) /\ saved'.processed = day
    BY <1>2 DEF Trade
  <2>2. exited' = [t \in Tickers |-> IF NewDate /\ t \in gone THEN day ELSE exited[t]]
    BY <1>2 DEF Trade, Observe
  <2> HIDE DEF gone
  <2>3. CASE NewDate
    <3>1. saved'.cooldowns = [t \in Tickers |->
             CASE t \in gone /\ ReentryDays > 0 -> Date[day] + ReentryDays
               [] ~(t \in gone /\ ReentryDays > 0) /\ saved.cooldowns[t] > Date[day] -> saved.cooldowns[t]
               [] OTHER -> 0]
      BY <2>1, <2>3 DEF CooldownsAfter
    <3>2. ASSUME NEW t \in Tickers
          PROVE  /\ saved'.cooldowns[t] \in Nat /\ exited'[t] \in 0..LastDay
                 /\ exited'[t] # 0 => saved'.cooldowns[t] = Date[exited'[t]] + ReentryDays \/ Waited(t)'
      <4>1. CASE t \in gone /\ ReentryDays > 0
        BY <1>0, <2>2, <2>3, <3>1, <4>1
      <4>2. CASE t \in gone /\ ~(ReentryDays > 0)
        <5>1. exited'[t] = day /\ saved'.cooldowns[t] \in Nat
          BY <1>0, <2>2, <2>3, <3>1, <4>2 DEF CooldownInv
        <5>2. Waited(t)'
          BY <1>0, <2>1, <4>2, <5>1 DEF Waited
        <5> QED
          BY <1>0, <5>1, <5>2
      <4>3. CASE t \notin gone
        <5>1. exited'[t] = exited[t] /\ exited[t] \in 0..LastDay /\ saved.cooldowns[t] \in Nat
          BY <2>2, <4>3 DEF CooldownInv
        <5>2. exited[t] # 0 => \/ saved.cooldowns[t] = Date[exited[t]] + ReentryDays
                               \/ Date[day] >= Date[exited[t]] + ReentryDays
          BY <1>0 DEF CooldownInv, Waited
        <5>3. CASE saved.cooldowns[t] > Date[day]
          <6>1. saved'.cooldowns[t] = saved.cooldowns[t]
            BY <3>1, <4>3, <5>3
          <6> QED
            BY <1>0, <2>1, <5>1, <5>2, <6>1 DEF Waited
        <5>4. CASE ~(saved.cooldowns[t] > Date[day])
          <6>1. saved'.cooldowns[t] = 0
            BY <3>1, <4>3, <5>4
          <6>2. exited[t] # 0 => Date[day] >= Date[exited[t]] + ReentryDays
            BY <1>0, <5>1, <5>2, <5>4
          <6> QED
            BY <1>0, <2>1, <5>1, <6>1, <6>2 DEF Waited
        <5> QED
          BY <5>3, <5>4
      <4> QED
        BY <4>1, <4>2, <4>3
    <3> QED
      BY <2>2, <3>1, <3>2 DEF CooldownInv
  <2>4. CASE ~NewDate
    <3>1. saved'.cooldowns = saved.cooldowns /\ exited' = exited
      BY <2>1, <2>2, <2>4 DEF CooldownsAfter, CooldownInv
    <3> QED
      BY <2>1, <2>4, <3>1 DEF CooldownInv, Waited, NewDate
  <2> QED
    BY <2>3, <2>4
<1>3. CASE Rests
  BY <1>3 DEF Rests, observed, CooldownInv, Waited
<1>4. CASE UNCHANGED vars
  BY <1>4 DEF vars, observed, CooldownInv, Waited
<1> QED
  BY <1>1, <1>2, <1>3, <1>4, Cases DEF BotRuns

LEMMA UniverseStays ==
  ASSUME universe \subseteq Tickers, [Next]_vars
  PROVE  universe' \subseteq Tickers
  BY DEF Next, RunDraco, Liquidate, Trade, NoData, Allocate, Die, NextDay, EditUniverse, EditLock, vars

\* A run enters no ticker that left less than ReentryDays ago, and enters
\* only as the first of its date.
Rested(t) ==
  /\ exited[t] # 0 => Date[day] >= Date[exited[t]] + ReentryDays
  /\ day \notin seen

LEMMA EntersRested ==
  ASSUME DatesInv, CooldownInv, universe \subseteq Tickers, [Next]_vars,
         NEW t \in DOMAIN saved'.positions \ Held
  PROVE  Rested(t)
<1> USE SettingsAssumption
<1>1. ASSUME NEW side, NEW drawdown, Liquidate(side, drawdown) PROVE FALSE
  BY <1>1 DEF Liquidate, DatesInv, Fields, NoPositions
<1>2. ASSUME NEW side, NEW drawdown, NEW quotes \in Downloads, Trade(quotes, side, drawdown)
      PROVE  Rested(t)
  <2>1. NewDate /\ t \in Tickers /\ CooldownsAfter(Exiting(quotes))[t] = 0
    BY <1>2, EnteredAfterCooldown, Quoted DEF ScanDay
  <2>2. t \notin Exiting(quotes)
    BY DEF Exiting
  <2>3. day \in 1..LastDay /\ Date[day] \in Nat
    BY CalendarAssumption DEF DatesInv
  <2>4. ~(saved.cooldowns[t] > Date[day])
    BY <2>1, <2>2, <2>3 DEF CooldownsAfter, CooldownInv
  <2>5. day \notin seen
    BY <2>1 DEF NewDate, DatesInv
  <2>6. ASSUME exited[t] # 0 PROVE Date[day] >= Date[exited[t]] + ReentryDays
    <3>1. exited[t] \in 1..LastDay /\ Date[exited[t]] \in Nat
      BY <2>1, <2>6, CalendarAssumption DEF CooldownInv
    <3>2. saved.processed # 0 => Date[saved.processed] \in Nat /\ Date[saved.processed] <= Date[day]
      BY <2>3, LaterDate DEF DatesInv
    <3> QED
      BY <2>1, <2>3, <2>4, <2>6, <3>1, <3>2 DEF CooldownInv, Waited
  <2> QED
    BY <2>5, <2>6 DEF Rested
<1>3. CASE Rests \/ UNCHANGED vars
  BY <1>3 DEF Rests, vars, Held
<1> QED
  BY <1>1, <1>2, <1>3, Cases DEF BotRuns

\* A ticker that left is not entered again for ReentryDays of the calendar, and
\* never on the date it left.
THEOREM ReentryAlwaysWaits == Spec => ReentryWaits
<1> DEFINE Inv == DatesInv /\ CooldownInv /\ universe \subseteq Tickers
<1>1. Init => Inv
  BY DatesInit, CooldownInit DEF Init
<1>2. Inv /\ [Next]_vars => Inv'
  BY DatesStep, CooldownStep, UniverseStays
<1>3. Inv /\ [Next]_vars => [\A t \in DOMAIN saved'.positions \ Held : Rested(t)]_vars
  BY EntersRested
<1> QED
  BY <1>1, <1>2, <1>3, PTL DEF Spec, ReentryWaits, Rested

-----------------------------------------------------------------------------
(* The weekly scan. *)

LEMMA WeekNatural ==
  ASSUME NEW d \in 1..LastDay
  PROVE  Week(d) \in Nat
<1>1. Date[d] \in Nat
  BY CalendarAssumption
<1> QED
  BY <1>1 DEF Week

LEMMA WeeksGoOn ==
  ASSUME NEW d \in 1..LastDay, NEW e \in 1..LastDay, d <= e
  PROVE  Week(d) <= Week(e)
<1>1. Date[d] \in Nat /\ Date[e] \in Nat /\ Date[d] <= Date[e]
  BY LaterDate
<1>2. ASSUME NEW n \in Nat, NEW m \in Nat, n <= m PROVE n \div 7 <= m \div 7
  BY <1>2
<1> QED
  BY <1>1, <1>2 DEF Week

\* Entries happen on scan days, and a scan marks its week.
WeekInv ==
  /\ saved.scanned \in Nat /\ saved.scanned <= Week(day)
  /\ scannedOn \in 0..LastDay
  /\ scannedOn # 0 => Week(scannedOn) <= saved.scanned

LEMMA WeekInit == Init => WeekInv
<1> SUFFICES ASSUME Init PROVE WeekInv
  OBVIOUS
<1>1. day = 1 /\ saved.scanned = 0 /\ scannedOn = 0
  BY DEF Init
<1>2. 1 \in 1..LastDay /\ 0 \in 0..LastDay
  BY SettingsAssumption
<1>3. Week(1) \in Nat
  BY <1>2, WeekNatural
<1>4. Week(day) = Week(1)
  BY <1>1
<1> QED
  BY <1>1, <1>2, <1>3, <1>4 DEF WeekInv

LEMMA ScanStep ==
  ASSUME DatesInv, WeekInv, NEW side, NEW drawdown, NEW quotes, Trade(quotes, side, drawdown)
  PROVE  WeekInv'
<1> DEFINE entered == Entering(Held \ Exiting(quotes), CooldownsAfter(Exiting(quotes)), quotes)
<1>1. saved'.scanned = (IF ScanDay THEN Week(day) ELSE saved.scanned) /\ day' = day
  BY DEF Trade
<1>2. scannedOn' = IF entered # {} THEN day ELSE scannedOn
  BY Zenon DEF Trade, Observe
<1>3. entered # {} => ScanDay
  BY Zenon DEF Entering
<1>4. Week(day) \in Nat /\ day \in 1..LastDay
  BY WeekNatural DEF DatesInv
<1> HIDE DEF entered
<1>5. Week(day)' = Week(day)
  BY <1>1 DEF Week
<1>6. CASE ScanDay
  <2>1. saved'.scanned = Week(day) /\ scannedOn' \in {day, scannedOn}
    BY <1>1, <1>2, <1>6
  <2>2. Week(scannedOn)' = Week(scannedOn')
    BY DEF Week
  <2>3. scannedOn' \in 0..LastDay /\ (scannedOn' # 0 => Week(scannedOn') <= Week(day))
    <3>1. scannedOn # 0 => Week(scannedOn) \in Nat
      BY WeekNatural DEF WeekInv
    <3> QED
      BY <2>1, <1>4, <3>1 DEF WeekInv
  <2> QED
    BY <2>1, <2>2, <2>3, <1>1, <1>4, <1>5 DEF WeekInv
<1>7. CASE ~ScanDay
  BY <1>1, <1>2, <1>3, <1>5, <1>7 DEF WeekInv
<1> QED
  BY <1>6, <1>7

LEMMA WeekStep == DatesInv /\ WeekInv /\ [Next]_vars => WeekInv'
<1> SUFFICES ASSUME DatesInv, WeekInv, [Next]_vars PROVE WeekInv'
  OBVIOUS
<1>1. ASSUME NEW side, NEW drawdown, Liquidate(side, drawdown) PROVE WeekInv'
  <2>1. saved'.scanned = saved.scanned /\ scannedOn' = scannedOn /\ day' = day
    BY <1>1 DEF Liquidate, DatesInv, Fields, Observe
  <2> QED
    BY <2>1 DEF WeekInv, Week
<1>2. ASSUME NEW side, NEW drawdown, NEW quotes, Trade(quotes, side, drawdown) PROVE WeekInv'
  BY <1>2, ScanStep
<1>3. CASE Rests /\ Next
  <2>1. day' \in 1..LastDay /\ day <= day'
    BY <1>3, DayGoesOn DEF DatesInv
  <2>2. Week(day) <= Week(day') /\ Week(day) \in Nat /\ Week(day') \in Nat
    BY <2>1, WeeksGoOn, WeekNatural DEF DatesInv
  <2>3. saved' = saved /\ scannedOn' = scannedOn
    BY <1>3 DEF Rests, observed
  <2> QED
    BY <2>2, <2>3 DEF WeekInv, Week
<1>4. CASE UNCHANGED vars
  BY <1>4 DEF vars, observed, WeekInv, Week
<1> QED
  BY <1>1, <1>2, <1>3, <1>4, Cases DEF BotRuns

LEMMA EntersOnceAWeek ==
  ASSUME WeeklyScan, DatesInv, WeekInv, [Next]_vars, DOMAIN saved'.positions \ Held # {}
  PROVE  scannedOn = 0 \/ Week(scannedOn) < Week(day)
<1>1. ASSUME NEW side, NEW drawdown, Liquidate(side, drawdown) PROVE FALSE
  BY <1>1 DEF Liquidate, DatesInv, Fields, NoPositions
<1>2. ASSUME NEW side, NEW drawdown, NEW quotes \in Downloads, Trade(quotes, side, drawdown)
      PROVE  scannedOn = 0 \/ Week(scannedOn) < Week(day)
  <2>1. PICK t : t \in DOMAIN saved'.positions \ Held
    OBVIOUS
  <2>2. ScanDay
    BY <1>2, <2>1, EnteredAfterCooldown
  <2>3. saved.scanned # Week(day)
    BY <2>2 DEF ScanDay
  <2>4. Week(day) \in Nat /\ (scannedOn # 0 => Week(scannedOn) \in Nat)
    BY WeekNatural DEF DatesInv, WeekInv
  <2> QED
    BY <2>3, <2>4 DEF WeekInv
<1>3. CASE Rests \/ UNCHANGED vars
  BY <1>3 DEF Rests, vars, Held
<1> QED
  BY <1>1, <1>2, <1>3, Cases DEF BotRuns

\* With a weekly scan, positions are entered on one date of a week at most.
THEOREM OneScanAWeek == ASSUME WeeklyScan PROVE Spec => OneScanPerWeek
<1>1. Init => DatesInv /\ WeekInv
  BY DatesInit, WeekInit
<1>2. DatesInv /\ WeekInv /\ [Next]_vars => (DatesInv /\ WeekInv)'
  BY DatesStep, WeekStep
<1>3. DatesInv /\ WeekInv /\ [Next]_vars =>
        [DOMAIN saved'.positions \ Held # {} => scannedOn = 0 \/ Week(scannedOn) < Week(day)]_vars
  BY EntersOnceAWeek
<1> QED
  BY <1>1, <1>2, <1>3, PTL DEF Spec, OneScanPerWeek

-----------------------------------------------------------------------------
(* The regime. *)

\* A pending change has been counted over consecutive dates.
RegimeInv ==
  /\ saved.regime = [f \in {"state", "pending", "count"} |-> saved.regime[f]]
  /\ saved.regime.state \in Sides /\ saved.regime.count \in Nat /\ streak.length \in Nat
  /\ saved.regime.pending # "none" =>
       /\ RegimeFilter
       /\ streak.side = saved.regime.pending /\ streak.length >= saved.regime.count

LEMMA RegimeInit == Init => RegimeInv
  BY DEF Init, RegimeInv, Sides

LEMMA RegimeRuns ==
  ASSUME DatesInv, RegimeInv, NEW side \in Sides \cup {"short"}, NEW drawdown, BotRuns(side, drawdown)
  PROVE  /\ RegimeInv'
         /\ saved.regime.state = "risk_on" /\ saved'.regime.state = "risk_off" =>
              streak'.side = "risk_off" /\ streak'.length >= ConfirmDays
<1> USE SettingsAssumption
<1>1. saved'.regime = RegimeAfter(side)
  BY RunSaves DEF DatesInv
<1>2. streak' = IF ~NewDate \/ side = "short" THEN streak
                ELSE [side |-> side, length |-> IF side = streak.side THEN streak.length + 1 ELSE 1]
  BY RunObserves
<1>3. CASE ~RegimeFilter \/ side = "short"
  <2>1. saved'.regime = [saved.regime EXCEPT !.state = "risk_on"]
    BY <1>1, <1>3 DEF RegimeAfter, RegimeInv, Sides
  <2>2. /\ saved'.regime.state = "risk_on"
        /\ saved'.regime.pending = saved.regime.pending /\ saved'.regime.count = saved.regime.count
        /\ saved'.regime = [f \in {"state", "pending", "count"} |-> saved'.regime[f]]
    BY <2>1 DEF RegimeInv
  <2>3. streak'.length \in Nat /\ (saved.regime.pending # "none" => streak' = streak)
    BY <1>2, <1>3 DEF RegimeInv
  <2> QED
    BY <2>2, <2>3 DEF RegimeInv, Sides
<1>4. CASE RegimeFilter /\ side # "short" /\ ~NewDate
  <2>1. saved'.regime = saved.regime /\ streak' = streak
    BY <1>1, <1>2, <1>4 DEF RegimeAfter
  <2> QED
    BY <2>1 DEF RegimeInv
<1>5. CASE RegimeFilter /\ side # "short" /\ NewDate /\ side = saved.regime.state
  <2>1. saved'.regime = [saved.regime EXCEPT !.pending = "none", !.count = 0]
    BY <1>1, <1>5 DEF RegimeAfter, Sides
  <2>2. /\ saved'.regime.pending = "none" /\ saved'.regime.count = 0
        /\ saved'.regime.state = saved.regime.state
        /\ saved'.regime = [f \in {"state", "pending", "count"} |-> saved'.regime[f]]
    BY <2>1 DEF RegimeInv
  <2>3. streak'.length \in Nat
    BY <1>2 DEF RegimeInv
  <2> QED
    BY <2>2, <2>3 DEF RegimeInv
<1>6. CASE RegimeFilter /\ side # "short" /\ NewDate /\ side # saved.regime.state
  <2> DEFINE n == IF saved.regime.pending = side THEN saved.regime.count + 1 ELSE 1
  <2>1. saved'.regime = IF n >= ConfirmDays THEN [state |-> side, pending |-> "none", count |-> 0]
                        ELSE [saved.regime EXCEPT !.pending = side, !.count = n]
    BY <1>1, <1>6 DEF RegimeAfter, Confirmed
  <2>2. streak'.side = side /\ streak'.length \in Nat /\ n \in Nat /\ streak'.length >= n
    BY <1>2, <1>6 DEF RegimeInv, Sides
  <2> HIDE DEF n
  <2>3. CASE n >= ConfirmDays
    <3>1. saved'.regime = [state |-> side, pending |-> "none", count |-> 0]
      BY <2>1, <2>3
    <3>2. RegimeInv'
      BY <1>6, <2>2, <3>1 DEF RegimeInv, Sides
    <3> QED
      BY <2>2, <2>3, <3>1, <3>2
  <2>4. CASE ~(n >= ConfirmDays)
    <3>1. saved'.regime = [saved.regime EXCEPT !.pending = side, !.count = n]
      BY <2>1, <2>4
    <3>2. /\ saved'.regime.pending = side /\ saved'.regime.count = n
          /\ saved'.regime.state = saved.regime.state
          /\ saved'.regime = [f \in {"state", "pending", "count"} |-> saved'.regime[f]]
      BY <3>1 DEF RegimeInv
    <3> QED
      BY <1>6, <2>2, <3>2 DEF RegimeInv, Sides
  <2> QED
    BY <2>3, <2>4
<1> QED
  BY Zenon, <1>3, <1>4, <1>5, <1>6

\* The regime turns to risk_off only after ConfirmDays consecutive dates below
\* the average, whatever the number of their runs.
THEOREM RegimeAlwaysConfirmed == Spec => RegimeConfirmed
<1>1. Init => DatesInv /\ RegimeInv
  BY DatesInit, RegimeInit
<1>2. ASSUME DatesInv, RegimeInv, [Next]_vars
      PROVE  /\ RegimeInv'
             /\ [saved.regime.state = "risk_on" /\ saved'.regime.state = "risk_off" =>
                   streak'.side = "risk_off" /\ streak'.length >= ConfirmDays]_vars
  <2>1. CASE Rests \/ UNCHANGED vars
    BY <1>2, <2>1 DEF Rests, vars, observed, RegimeInv
  <2> QED
    BY <1>2, <2>1, RegimeRuns, Cases
<1>3. DatesInv /\ [Next]_vars => DatesInv'
  BY DatesStep
<1> QED
  BY <1>1, <1>2, <1>3, PTL DEF Spec, RegimeConfirmed

-----------------------------------------------------------------------------
(* The line locked as a position's target. *)

LEMMA LexTriples ==
  ASSUME NEW a1 \in Int, NEW a2 \in Int, NEW a3 \in Int,
         NEW b1 \in Int, NEW b2 \in Int, NEW b3 \in Int
  PROVE  LexGreater(<<a1, a2, a3>>, <<b1, b2, b3>>)
           <=> \/ a1 > b1
               \/ a1 = b1 /\ a2 > b2
               \/ a1 = b1 /\ a2 = b2 /\ a3 > b3
<1> DEFINE a == <<a1, a2, a3>>
           b == <<b1, b2, b3>>
           Decides(i) == a[i] > b[i] /\ \A j \in 1..(i - 1) : a[j] = b[j]
<1>1. DOMAIN a = {1, 2, 3}
  OBVIOUS
<1>2. LexGreater(a, b) <=> Decides(1) \/ Decides(2) \/ Decides(3)
  <2> HIDE DEF a, b
  <2> QED
    BY <1>1 DEF LexGreater
<1>3. 1..(1 - 1) = {} /\ 1..(2 - 1) = {1} /\ 1..(3 - 1) = {1, 2}
  OBVIOUS
<1>4. Decides(1) <=> a1 > b1
  BY <1>3
<1>5. Decides(2) <=> a2 > b2 /\ a1 = b1
  BY <1>3
<1>6. Decides(3) <=> a3 > b3 /\ a1 = b1 /\ a2 = b2
  BY <1>3
<1> HIDE DEF Decides
<1> QED
  BY <1>2, <1>4, <1>5, <1>6

\* A chart with a line fit for a target has a best one: the longest of those
\* of the best fit and the largest upside.
LEMMA LockedLineFacts ==
  ASSUME NEW c, IsChart(c), TargetLines(c) # {}
  PROVE  /\ LockedLine(c) \in TargetLines(c)
         /\ LockedLine(c) \in DOMAIN c.lines
         /\ IsLine(c.lines[LockedLine(c)], c.price)
<1> DEFINE T == TargetLines(c)
           key == [l \in T |-> <<c.lines[l].r2, Upside(c, l), Lookback[l]>>]
           R == {p \in T \X T : LexGreater(key[p[1]], key[p[2]])}
<1>1. T \subseteq DOMAIN c.lines /\ T \subseteq Labels /\ IsFiniteSet(T)
  BY LookbackAssumption, FS_Subset DEF TargetLines, Rising, Below
<1>2. \A l \in T : /\ c.lines[l].r2 \in Int /\ Upside(c, l) \in Int /\ Lookback[l] \in Int
                   /\ IsLine(c.lines[l], c.price)
  <2> SUFFICES ASSUME NEW l \in T
               PROVE  /\ c.lines[l].r2 \in Int /\ Upside(c, l) \in Int /\ Lookback[l] \in Int
                      /\ IsLine(c.lines[l], c.price)
    OBVIOUS
  <2>1. l \in DOMAIN c.lines /\ l \in Labels
    BY <1>1
  <2> HIDE DEF T, key, R
  <2>2. c.price \in Int /\ IsLine(c.lines[l], c.price)
    BY <2>1 DEF IsChart
  <2>3. Lookback[l] \in Int
    BY <2>1, LookbackAssumption
  <2>4. c.lines[l].fitted \in Int /\ c.lines[l].r2 \in Int
    BY <2>2 DEF IsLine
  <2> QED
    BY <2>2, <2>3, <2>4 DEF Upside
<1>3. \A l, k \in T : <<l, k>> \in R <=> LexGreater(key[l], key[k])
  OBVIOUS
<1>4. \A l, k \in T : LexGreater(key[l], key[k]) <=>
        \/ c.lines[l].r2 > c.lines[k].r2
        \/ c.lines[l].r2 = c.lines[k].r2 /\ Upside(c, l) > Upside(c, k)
        \/ /\ c.lines[l].r2 = c.lines[k].r2 /\ Upside(c, l) = Upside(c, k)
           /\ Lookback[l] > Lookback[k]
  <2> SUFFICES ASSUME NEW l \in T, NEW k \in T
               PROVE  LexGreater(key[l], key[k]) <=>
                        \/ c.lines[l].r2 > c.lines[k].r2
                        \/ c.lines[l].r2 = c.lines[k].r2 /\ Upside(c, l) > Upside(c, k)
                        \/ /\ c.lines[l].r2 = c.lines[k].r2 /\ Upside(c, l) = Upside(c, k)
                           /\ Lookback[l] > Lookback[k]
    OBVIOUS
  <2>1. /\ key[l] = <<c.lines[l].r2, Upside(c, l), Lookback[l]>>
        /\ key[k] = <<c.lines[k].r2, Upside(c, k), Lookback[k]>>
    OBVIOUS
  <2> HIDE DEF T, key
  <2> QED
    BY <1>2, <2>1, LexTriples
<1>5. \A l, k \in T : l # k => <<l, k>> \in R \/ <<k, l>> \in R
  <2>1. \A l, k \in T : l # k => Lookback[l] # Lookback[k]
    BY <1>1, LookbackAssumption
  <2> HIDE DEF T, key, R
  <2> QED
    BY <1>2, <1>3, <1>4, <2>1
<1>6. \A k, l, m \in T : <<k, l>> \in R /\ <<l, m>> \in R => <<k, m>> \in R
  <2> HIDE DEF T, key, R
  <2> QED
    BY <1>2, <1>3, <1>4
<1>7. \E l \in T : \A k \in T \ {l} : <<l, k>> \in R
  <2> HIDE DEF T, key, R
  <2> QED
    BY <1>1, <1>5, <1>6, GreatestExists DEF T
<1>8. \E l \in T : \A k \in T \ {l} :
        LexGreater(<<c.lines[l].r2, Upside(c, l), Lookback[l]>>,
                   <<c.lines[k].r2, Upside(c, k), Lookback[k]>>)
  BY <1>7
<1>9. LockedLine(c) \in T
  BY <1>8 DEF LockedLine
<1> QED
  BY <1>1, <1>2, <1>9

-----------------------------------------------------------------------------
(* Types. *)

\* What TypeOK says beyond the invariants above; the breaker's pause is not
\* over while it is active, and the market was seen at most once a date.
ShapeInv ==
  /\ day <= LastDay
  /\ universe \in SUBSET Tickers
  /\ DOMAIN saved.positions \subseteq Tickers
  /\ saved.positions \in [DOMAIN saved.positions -> Positions]
  /\ saved.regime \in Regimes
  /\ saved.breaker \in Breakers
  /\ saved.breaker.active => saved.breaker.remaining > 0
  /\ pc \in {"idle", "allocate"}
  /\ locks \in SUBSET Symbols /\ locked \in SUBSET Symbols
  /\ target \in SUBSET Symbols
  /\ alloc \in SUBSET Symbols
  /\ streak \in [side : Sides, length : Nat] /\ streak.length <= saved.processed
  /\ exited \in [Tickers -> 0..LastDay]
  /\ scannedOn \in 0..LastDay
  /\ outcome \in {"none", "data", "nodata", "died"}
  /\ budget \in [{"edits", "faults"} -> Nat]

LEMMA ShapeInit == Init => ShapeInv
<1> SUFFICES ASSUME Init PROVE ShapeInv
  OBVIOUS
<1> USE SettingsAssumption
<1>1. /\ saved.positions = NoPositions
      /\ saved.regime = [state |-> "risk_on", pending |-> "none", count |-> 0]
      /\ saved.breaker = [active |-> FALSE, remaining |-> 0]
      /\ saved.processed = 0
  BY DEF Init
<1>2. DOMAIN NoPositions = {} /\ NoPositions \in [DOMAIN NoPositions -> Positions]
  BY DEF NoPositions
<1>3. saved.regime \in Regimes /\ saved.breaker \in Breakers
  BY <1>1 DEF Regimes, Sides, Breakers
<1>4. budget \in [{"edits", "faults"} -> Nat]
  BY DEF Init
<1>5. streak \in [side : Sides, length : Nat] /\ streak.length = 0
  BY DEF Init, Sides
<1>6. /\ locks = {} /\ locked = {} /\ target = {} /\ alloc = {}
      /\ universe = Tickers /\ pc = "idle" /\ outcome = "none" /\ day = 1 /\ scannedOn = 0
      /\ exited = [t \in Tickers |-> 0]
  BY DEF Init
<1>7. day <= LastDay /\ exited \in [Tickers -> 0..LastDay] /\ scannedOn \in 0..LastDay
  BY <1>6
<1>8. DOMAIN saved.positions = {} /\ saved.positions \in [DOMAIN saved.positions -> Positions]
  BY <1>1, <1>2
<1>9. streak.length <= saved.processed /\ ~saved.breaker.active
  BY <1>1, <1>5
<1>10. /\ locks \in SUBSET Symbols /\ locked \in SUBSET Symbols /\ target \in SUBSET Symbols
       /\ alloc \in SUBSET Symbols /\ universe \in SUBSET Tickers
       /\ pc \in {"idle", "allocate"} /\ outcome \in {"none", "data", "nodata", "died"}
  BY <1>6
<1>11. DOMAIN saved.positions \subseteq Tickers /\ (saved.breaker.active => saved.breaker.remaining > 0)
  BY <1>8, <1>9
<1> QED
  BY ONLY <1>3, <1>4, <1>5, <1>7, <1>8, <1>9, <1>10, <1>11 DEF ShapeInv

LEMMA RegimeTyped ==
  ASSUME saved.regime \in Regimes, NEW side \in Sides \cup {"short"}
  PROVE  RegimeAfter(side) \in Regimes
<1>1. PICK r : r = saved.regime
  OBVIOUS
<1>2. ConfirmDays \in Nat \ {0}
  BY SettingsAssumption
<1>3. /\ r.state \in Sides /\ r.pending \in Sides \cup {"none"}
      /\ r.count \in 0..(ConfirmDays - 1)
      /\ r = [state |-> r.state, pending |-> r.pending, count |-> r.count]
  BY <1>1 DEF Regimes
<1>4. \A st \in Sides, pn \in Sides \cup {"none"}, n \in 0..(ConfirmDays - 1) :
        [state |-> st, pending |-> pn, count |-> n] \in Regimes
  BY DEF Regimes
<1>5. CASE ~RegimeFilter \/ side = "short"
  <2>1. RegimeAfter(side) = [r EXCEPT !.state = "risk_on"]
    BY <1>1, <1>3, <1>5 DEF RegimeAfter, Sides
  <2>2. RegimeAfter(side) = [state |-> "risk_on", pending |-> r.pending, count |-> r.count]
    BY <1>3, <2>1
  <2> QED
    BY <1>3, <1>4, <2>2 DEF Sides
<1>6. CASE RegimeFilter /\ side # "short" /\ ~NewDate
  BY <1>6 DEF RegimeAfter
<1>7. CASE RegimeFilter /\ side = r.state /\ NewDate
  <2>1. side # "short"
    BY <1>3, <1>7 DEF Sides
  <2>2. RegimeAfter(side) = [r EXCEPT !.pending = "none", !.count = 0]
    BY <1>1, <1>7, <2>1 DEF RegimeAfter
  <2>3. RegimeAfter(side) = [state |-> r.state, pending |-> "none", count |-> 0]
    BY <1>3, <2>2
  <2> QED
    BY <1>2, <1>3, <1>4, <2>3
<1>8. CASE RegimeFilter /\ side \notin {"short", r.state} /\ NewDate
  <2>1. RegimeAfter(side) = Confirmed(r, side)
    BY <1>1, <1>8 DEF RegimeAfter
  <2>2. PICK n : n = IF r.pending = side THEN r.count + 1 ELSE 1
    OBVIOUS
  <2>3. n \in Nat \ {0} /\ side \in Sides
    BY <1>3, <1>8, <2>2
  <2>4. CASE n >= ConfirmDays
    <3>1. Confirmed(r, side) = [state |-> side, pending |-> "none", count |-> 0]
      BY <2>2, <2>4 DEF Confirmed
    <3> QED
      BY <1>2, <1>4, <2>1, <2>3, <3>1
  <2>5. CASE ~(n >= ConfirmDays)
    <3>1. Confirmed(r, side) = [r EXCEPT !.pending = side, !.count = n]
      BY <2>2, <2>5 DEF Confirmed
    <3>2. Confirmed(r, side) = [state |-> r.state, pending |-> side, count |-> n]
      BY <1>3, <3>1
    <3>3. n \in 0..(ConfirmDays - 1)
      BY <1>2, <2>3, <2>5
    <3> QED
      BY <1>3, <1>4, <2>1, <2>3, <3>2, <3>3
  <2> QED
    BY <2>4, <2>5
<1> QED
  BY <1>1, <1>5, <1>6, <1>7, <1>8

LEMMA BreakerTyped ==
  ASSUME saved.breaker \in Breakers, saved.breaker.active => saved.breaker.remaining > 0,
         NEW drawdown \in BOOLEAN
  PROVE  /\ BreakerAfter(drawdown) \in Breakers
         /\ BreakerAfter(drawdown).active => BreakerAfter(drawdown).remaining > 0
<1>1. BreakerDays \in Nat \ {0}
  BY SettingsAssumption
<1>2. CASE ~CircuitBreaker
  BY <1>1, <1>2 DEF BreakerAfter, Breakers
<1>3. CASE CircuitBreaker /\ NewDate /\ saved.breaker.active
  <2>1. BreakerAfter(drawdown) = [active |-> saved.breaker.remaining > 1,
                                  remaining |-> saved.breaker.remaining - 1]
    BY <1>3 DEF BreakerAfter, CountedDown
  <2>2. saved.breaker.remaining \in 1..BreakerDays
    BY <1>3 DEF Breakers
  <2>3. PICK k \in 1..BreakerDays : k = saved.breaker.remaining
    BY <2>2
  <2>4. [active |-> k > 1, remaining |-> k - 1] \in Breakers
    <3>1. (k > 1) \in BOOLEAN /\ k - 1 \in 0..BreakerDays
      BY <1>1
    <3> QED
      BY Zenon, <3>1 DEF Breakers
  <2>5. [active |-> k > 1, remaining |-> k - 1].active => k - 1 > 0
    <3>1. \A a, n : [active |-> a, remaining |-> n].active = a
      OBVIOUS
    <3>2. (k > 1) => k - 1 > 0
      OBVIOUS
    <3> QED
      BY Zenon, <3>1, <3>2
  <2> QED
    BY <2>1, <2>3, <2>4, <2>5
<1>4. CASE CircuitBreaker /\ NewDate /\ ~saved.breaker.active /\ drawdown
  BY <1>1, <1>4 DEF BreakerAfter, Breakers
<1>5. CASE CircuitBreaker /\ ~(NewDate /\ (saved.breaker.active \/ drawdown))
  BY <1>5 DEF BreakerAfter
<1> QED
  BY <1>2, <1>3, <1>4, <1>5

LEMMA StreakTyped ==
  ASSUME DatesInv, ShapeInv, NEW side \in Sides \cup {"short"}, NEW drawdown, BotRuns(side, drawdown)
  PROVE  streak' \in [side : Sides, length : Nat] /\ streak'.length <= day
<1>1. streak' = IF ~NewDate \/ side = "short" THEN streak
                ELSE [side |-> side, length |-> IF side = streak.side THEN streak.length + 1 ELSE 1]
  BY RunObserves
<1>2. CASE ~NewDate \/ side = "short"
  BY <1>1, <1>2 DEF ShapeInv, DatesInv
<1>3. CASE NewDate /\ side # "short"
  <2>1. saved.processed + 1 <= day /\ saved.processed \in Nat
    BY <1>3 DEF NewDate, DatesInv
  <2>2. PICK n : n = IF side = streak.side THEN streak.length + 1 ELSE 1
    OBVIOUS
  <2>3. n \in Nat /\ n <= day /\ streak' = [side |-> side, length |-> n]
    BY <1>1, <1>3, <2>1, <2>2 DEF ShapeInv, DatesInv
  <2> QED
    BY <1>3, <2>3
<1> QED
  BY <1>2, <1>3

\* A position entered is what the chart and its locked line show.
LEMMA EnteredTyped ==
  ASSUME day \in 1..LastDay, NEW quotes \in Downloads, NEW kept, NEW cooldowns,
         NEW t \in Entering(kept, cooldowns, quotes)
  PROVE  t \in DOMAIN quotes /\ PositionAt(quotes[t], day) \in Positions
<1>1. t \in DOMAIN quotes /\ IsCandidate(quotes[t])
  <2>1. ScanDay
    BY Zenon DEF Entering
  <2> QED
    BY Zenon, <2>1 DEF Entering
<1>2. quotes[t] \in Charts
  BY <1>1 DEF Downloads
<1>3. PICK c : c = quotes[t]
  OBVIOUS
<1>4. IsChart(c) /\ TargetLines(c) # {}
  BY <1>1, <1>2, <1>3, ChartsAssumption DEF IsCandidate
<1>5. c.price \in Int /\ c.lines[LockedLine(c)].fitted \in Int /\ c.lines[LockedLine(c)].slope \in Int
  BY <1>4, LockedLineFacts DEF IsChart, IsLine
<1>6. PositionAt(c, day) = [entry |-> day, price |-> c.price,
                            fitted |-> c.lines[LockedLine(c)].fitted,
                            slope |-> c.lines[LockedLine(c)].slope]
  BY DEF PositionAt
<1>7. PositionAt(c, day) \in Positions
  BY <1>5, <1>6 DEF Positions
<1> QED
  BY <1>1, <1>3, <1>7

\* What every run leaves typed.
LEMMA RunShapes ==
  ASSUME DatesInv, ShapeInv, NEW side \in Sides \cup {"short"}, NEW drawdown \in BOOLEAN,
         BotRuns(side, drawdown)
  PROVE  /\ day' = day /\ saved'.processed = day /\ pc' = "allocate" /\ outcome' = "data"
         /\ saved'.regime \in Regimes
         /\ saved'.breaker \in Breakers
         /\ saved'.breaker.active => saved'.breaker.remaining > 0
         /\ streak' \in [side : Sides, length : Nat] /\ streak'.length <= saved'.processed
<1>1. /\ saved'.processed = day /\ day' = day
      /\ saved'.regime = RegimeAfter(side) /\ saved'.breaker = BreakerAfter(drawdown)
      /\ pc' = "allocate" /\ outcome' = "data"
  BY RunSaves DEF DatesInv
<1> QED
  BY <1>1, RegimeTyped, BreakerTyped, StreakTyped DEF ShapeInv

LEMMA ShapeStep == DatesInv /\ ShapeInv /\ [Next]_vars => ShapeInv'
<1> SUFFICES ASSUME DatesInv, ShapeInv, [Next]_vars PROVE ShapeInv'
  OBVIOUS
<1> USE SettingsAssumption
<1>0. day \in 1..LastDay
  BY DEF DatesInv, ShapeInv
<1>1. ASSUME NEW side \in Sides \cup {"short"}, NEW drawdown \in BOOLEAN,
             Liquidate(side, drawdown)
      PROVE  ShapeInv'
  <2>1. BotRuns(side, drawdown)
    BY <1>1 DEF BotRuns
  <2>2. saved'.positions = NoPositions
    BY <1>1 DEF Liquidate, DatesInv, Fields
  <2>3. DOMAIN NoPositions = {} /\ NoPositions \in [DOMAIN NoPositions -> Positions]
    BY DEF NoPositions
  <2>4. /\ target' = {Fallback} /\ scannedOn' = scannedOn
        /\ locked' = locks /\ UNCHANGED <<day, universe, locks, alloc, budget>>
        /\ exited' = [t \in Tickers |-> exited[t]]
    BY <1>1 DEF Liquidate, Observe
  <2>5. exited' \in [Tickers -> 0..LastDay]
    BY <2>4 DEF ShapeInv
  <2>6. /\ locks' \in SUBSET Symbols /\ locked' \in SUBSET Symbols /\ target' \in SUBSET Symbols
        /\ alloc' \in SUBSET Symbols /\ universe' \in SUBSET Tickers /\ scannedOn' \in 0..LastDay
        /\ budget' \in [{"edits", "faults"} -> Nat] /\ day' <= LastDay
    BY <1>0, <2>4 DEF ShapeInv, Symbols
  <2>7. DOMAIN saved'.positions = {} /\ saved'.positions \in [DOMAIN saved'.positions -> Positions]
    BY <2>2, <2>3
  <2>8. /\ pc' = "allocate" /\ outcome' = "data"
        /\ saved'.regime \in Regimes /\ saved'.breaker \in Breakers
        /\ saved'.breaker.active => saved'.breaker.remaining > 0
        /\ streak' \in [side : Sides, length : Nat] /\ streak'.length <= saved'.processed
    BY <1>1, <2>1, RunShapes
  <2> QED
    BY ONLY <2>5, <2>6, <2>7, <2>8 DEF ShapeInv
<1>2. ASSUME NEW side \in Sides \cup {"short"}, NEW drawdown \in BOOLEAN,
             NEW quotes \in Downloads, Trade(quotes, side, drawdown)
      PROVE  ShapeInv'
  <2> DEFINE gone == Exiting(quotes)
             kept == Held \ gone
             entered == Entering(kept, CooldownsAfter(gone), quotes)
  <2>1. BotRuns(side, drawdown)
    BY <1>2 DEF BotRuns
  <2>2. /\ saved'.positions = [t \in kept \cup entered |->
               IF t \in kept THEN saved.positions[t] ELSE PositionAt(quotes[t], day)]
        /\ target' = TargetOf(kept \cup entered)
        /\ locked' = locks /\ UNCHANGED <<universe, locks, alloc, budget>>
    BY <1>2 DEF Trade
  <2>3. /\ exited' = [t \in Tickers |-> IF NewDate /\ t \in gone THEN day ELSE exited[t]]
        /\ scannedOn' = IF entered # {} THEN day ELSE scannedOn
    BY Zenon, <1>2 DEF Trade, Observe
  <2>4. kept \subseteq Held /\ \A t \in kept : saved.positions[t] \in Positions /\ t \in Tickers
    BY DEF ShapeInv, Held
  <2>5. \A t \in entered : PositionAt(quotes[t], day) \in Positions /\ t \in Tickers
    <3>1. DOMAIN quotes \subseteq Tickers
      BY <1>2, Quoted DEF ShapeInv
    <3> QED
      BY <1>0, <3>1, EnteredTyped
  <2> HIDE DEF gone, kept, entered
  <2>6. /\ DOMAIN saved'.positions = kept \cup entered
        /\ saved'.positions \in [kept \cup entered -> Positions]
        /\ kept \cup entered \subseteq Tickers
    BY <2>2, <2>4, <2>5
  <2>7. target' \in SUBSET Symbols
    BY <2>2, <2>6 DEF TargetOf, Symbols
  <2>8. exited' \in [Tickers -> 0..LastDay]
    BY <1>0, <2>3 DEF ShapeInv
  <2>9. scannedOn' \in 0..LastDay
    BY <1>0, <2>3 DEF ShapeInv
  <2>10. /\ day' = day /\ pc' = "allocate" /\ outcome' = "data"
         /\ saved'.regime \in Regimes /\ saved'.breaker \in Breakers
         /\ saved'.breaker.active => saved'.breaker.remaining > 0
         /\ streak' \in [side : Sides, length : Nat] /\ streak'.length <= saved'.processed
    BY <1>2, <2>1, RunShapes
  <2>11. /\ locked' = locks /\ UNCHANGED <<universe, locks, alloc, budget>> /\ day \in 1..LastDay
         /\ locks \in SUBSET Symbols
         /\ alloc \in SUBSET Symbols /\ universe \in SUBSET Tickers
         /\ budget \in [{"edits", "faults"} -> Nat]
    BY <1>0, <2>2 DEF ShapeInv
  <2> QED
    BY ONLY <2>6, <2>7, <2>8, <2>9, <2>10, <2>11, SettingsAssumption DEF ShapeInv
<1>3. CASE NoData \/ Die
  <2>1. budget' \in [{"edits", "faults"} -> Nat]
    BY <1>3 DEF NoData, Die, Spend, ShapeInv
  <2> QED
    BY <1>3, <2>1 DEF NoData, Die, ShapeInv, observed, Symbols
<1>4. CASE Allocate
  BY <1>4 DEF Allocate, Safe, ShapeInv, observed
<1>5. CASE NextDay
  BY <1>5 DEF NextDay, ShapeInv, observed, DatesInv
<1>6. ASSUME NEW t \in Tickers, EditUniverse(t) PROVE ShapeInv'
  <2>1. budget' \in [{"edits", "faults"} -> Nat] /\ universe' \in SUBSET Tickers
    BY <1>6 DEF EditUniverse, Spend, ShapeInv
  <2> QED
    BY <1>6, <2>1 DEF EditUniverse, ShapeInv, observed
<1>7. ASSUME NEW s \in Lockable, EditLock(s) PROVE ShapeInv'
  <2>1. budget' \in [{"edits", "faults"} -> Nat] /\ locks' \in SUBSET Symbols
    BY <1>7, LockableAssumption DEF EditLock, Spend, ShapeInv, Symbols
  <2> QED
    BY <1>7, <2>1 DEF EditLock, ShapeInv, observed
<1>8. CASE UNCHANGED vars
  BY <1>8 DEF vars, ShapeInv, observed
<1> QED
  BY <1>1, <1>2, <1>3, <1>4, <1>5, <1>6, <1>7, <1>8 DEF Next, RunDraco

\* Every state is well typed: a run never enters a position without a line to
\* lock as its target, and never saves a counter beyond the limit it counts to.
THEOREM TypeCorrect == Spec => []TypeOK
<1> DEFINE Inv == DatesInv /\ CooldownInv /\ WeekInv /\ ShapeInv
<1>1. Init => Inv
  BY DatesInit, CooldownInit, WeekInit, ShapeInit
<1>2. Inv /\ [Next]_vars => Inv'
  BY DatesStep, CooldownStep, WeekStep, ShapeStep
<1>3. Inv => TypeOK
  <2> SUFFICES ASSUME Inv PROVE TypeOK
    OBVIOUS
  <2> USE SettingsAssumption
  <2>1. saved.processed \in 0..LastDay /\ day \in 1..LastDay
    BY DEF DatesInv, ShapeInv
  <2>2. saved.scanned \in Nat /\ saved.cooldowns \in [Tickers -> Nat]
    BY DEF WeekInv, CooldownInv
  <2>3. saved \in [positions : {saved.positions}, cooldowns : [Tickers -> Nat],
                   regime : Regimes, breaker : Breakers,
                   scanned : Nat, processed : 0..LastDay]
    <3>1. saved = [positions |-> saved.positions, cooldowns |-> saved.cooldowns,
                   regime |-> saved.regime, breaker |-> saved.breaker,
                   scanned |-> saved.scanned, processed |-> saved.processed]
      BY DEF DatesInv, Fields
    <3>2. saved.regime \in Regimes /\ saved.breaker \in Breakers
      BY DEF ShapeInv
    <3> QED
      BY <2>1, <2>2, <3>1, <3>2
  <2>4. /\ trippedOn \in 0..LastDay
        /\ seen \in SUBSET (1..LastDay)
        /\ streak \in [side : Sides, length : 0..LastDay]
    BY <2>1 DEF DatesInv, ShapeInv
  <2> QED
    BY <2>1, <2>3, <2>4 DEF TypeOK, ShapeInv
<1> QED
  BY <1>1, <1>2, <1>3, PTL DEF Spec

=============================================================================
