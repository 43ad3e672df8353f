-------------------------------- MODULE Draco --------------------------------
(***************************************************************************)
(* draco across runs: the worker calls run_draco several times a trading   *)
(* day with the state it returned last time, stores the state it returns,  *)
(* and then, in another transaction, the allocation it asks for less what  *)
(* the owner locked.  The regime filter and the circuit breaker count      *)
(* trading dates, not runs; the re-entry cooldowns and the weekly scan go  *)
(* by the calendar.  A download may fail, or lack a ticker; the worker may *)
(* die between the two transactions; the owner may lock a symbol or drop a *)
(* ticker of the universe.                                                 *)
(*                                                                         *)
(* Days are trading dates, the last one that downloads show, by number;    *)
(* Date gives their place in the calendar.  Whether the equity history     *)
(* shows a drawdown and on which side of its average the market is are the *)
(* environment's choices.                                                  *)
(***************************************************************************)
EXTENDS DracoMath

CONSTANTS
  Tickers,        \* whatever the universe of this bot may hold
  Place,          \* the position of a ticker in the universe list
  Fallback,       \* fallback_ticker
  Lockable,       \* the symbols the owner may lock
  Charts,         \* the charts downloads may show
  MaxPositions, MaxNew,           \* max_positions, max_new_positions_per_scan
  ReentryDays,    \* symbol_reentry_cooldown_days, calendar days
  ConfirmDays,    \* regime_confirmation_days
  BreakerDays,    \* circuit_breaker_cooldown_trading_days
  WeeklyScan, RegimeFilter, LiquidateInRiskOff, CircuitBreaker, HoldFallback,
  PartialDownloads,  \* a download may lack tickers of the universe
  Date,           \* trading date -> calendar day, 0 a Monday
  LastDay,        \* bound on days
  Edits, Faults   \* bounds on the owner's edits, on failed runs

ASSUME TickersAssumption == IsFiniteSet(Tickers) /\ Fallback \notin Tickers
ASSUME LockableAssumption == Lockable \subseteq Tickers \cup {Fallback}
ASSUME PlaceAssumption ==
  /\ Place \in [Tickers -> Nat]
  /\ \A t, u \in Tickers : Place[t] = Place[u] => t = u
ASSUME SettingsAssumption ==
  /\ {MaxPositions, MaxNew, ConfirmDays, BreakerDays} \subseteq Nat \ {0}
  /\ ReentryDays \in Nat
  /\ {WeeklyScan, RegimeFilter, LiquidateInRiskOff, CircuitBreaker, HoldFallback,
      PartialDownloads} \subseteq BOOLEAN
  /\ LastDay \in Nat \ {0} /\ {Edits, Faults} \subseteq Nat
ASSUME CalendarAssumption ==
  /\ Date \in [1..LastDay -> Nat]
  /\ \A d, e \in 1..LastDay : d < e => Date[d] < Date[e]
ASSUME ChartsAssumption == \A c \in Charts : IsChart(c)

VARIABLES
  day,        \* the last trading date
  universe,   \* the tickers the settings name
  locks,      \* manual_holdings: the symbols the owner keeps for himself
  saved,      \* bot_state: what run_draco returned last
  pc,         \* "idle", or "allocate" once the state is stored
  locked,     \* the locks the cycle of the last run has read
  target,     \* target_weights of the run under way; they are equal
  alloc,      \* the last portfolio_allocation
  \* observations
  trippedOn,  \* the date the breaker last tripped, 0 if it never did
  seen,       \* the trading dates runs have processed
  streak,     \* side of the market on the last dates, and on how many of them
  exited,     \* per ticker the date of its last exit, as decided by a date's first run
  scannedOn,  \* the date of the last entries
  outcome,    \* how the last run went: "none" yet, "data", "nodata", "died"
  budget

observed == <<trippedOn, seen, streak, exited, scannedOn>>
vars == <<day, universe, locks, saved, pc, locked, target, alloc, observed, outcome, budget>>

Spend(what) == budget[what] > 0 /\ budget' = [budget EXCEPT ![what] = @ - 1]

Symbols     == Tickers \cup {Fallback}
NoPositions == [t \in {} |-> 0]
Positions   == [entry : 1..LastDay, price : Int, fitted : Int, slope : Int]
Sides       == {"risk_on", "risk_off"}
Regimes     == [state : Sides, pending : Sides \cup {"none"}, count : 0..(ConfirmDays - 1)]
Breakers    == [active : BOOLEAN, remaining : 0..BreakerDays]

TypeOK ==
  /\ day \in 1..LastDay
  /\ universe \in SUBSET Tickers
  /\ locks \in SUBSET Symbols /\ locked \in SUBSET Symbols
  /\ saved.positions \in [DOMAIN saved.positions -> Positions]
  /\ DOMAIN saved.positions \subseteq Tickers
  /\ saved \in [positions : {saved.positions}, cooldowns : [Tickers -> Nat],
                regime : Regimes, breaker : Breakers,
                scanned : Nat, processed : 0..LastDay]
  /\ pc \in {"idle", "allocate"}
  /\ target \in SUBSET Symbols /\ alloc \in SUBSET Symbols
  /\ trippedOn \in 0..LastDay
  /\ seen \in SUBSET (1..LastDay)
  /\ streak \in [side : Sides, length : 0..LastDay]
  /\ exited \in [Tickers -> 0..LastDay]
  /\ scannedOn \in 0..LastDay
  /\ outcome \in {"none", "data", "nodata", "died"}
  /\ budget \in [{"edits", "faults"} -> Nat]

-----------------------------------------------------------------------------
Held == DOMAIN saved.positions

\* isocalendar()[:2]
Week(d) == 1 + Date[d] \div 7

\* Mutant: every run is taken for a new date's.
CountsEveryRun == TRUE

\* is_new_trading_date.
NewDate == saved.processed # day

-----------------------------------------------------------------------------
\* Mutants: the operators as plausible mistakes would have them.

ScansEveryDate == NewDate

CooldownsSwapped(gone) ==
  IF NewDate
  THEN [t \in Tickers |-> CASE t \in gone -> Date[day]
                            [] t \notin gone /\ saved.cooldowns[t] > Date[day] -> saved.cooldowns[t]
                            [] OTHER -> 0]
  ELSE saved.cooldowns

NeverConfirmed(r, side) ==
  IF r.pending = side THEN [r EXCEPT !.count = r.count + 1]
                      ELSE [r EXCEPT !.pending = side, !.count = 1]

LockedToo == target

-----------------------------------------------------------------------------
\* is_entry_scan_eligible.
ScanDay == NewDate /\ (WeeklyScan => saved.scanned # Week(day))

\* _update_market_regime.  Short of history the filter is off: "short".
Confirmed(r, side) ==
  LET n == IF r.pending = side THEN r.count + 1 ELSE 1
  IN IF n >= ConfirmDays THEN [state |-> side, pending |-> "none", count |-> 0]
                         ELSE [r EXCEPT !.pending = side, !.count = n]

RegimeAfter(side) ==
  LET r == saved.regime
  IN CASE ~RegimeFilter \/ side = "short" -> [r EXCEPT !.state = "risk_on"]
       [] RegimeFilter /\ side # "short" /\ ~NewDate -> r
       [] RegimeFilter /\ side = r.state /\ NewDate -> [r EXCEPT !.pending = "none", !.count = 0]
       [] RegimeFilter /\ side \notin {"short", r.state} /\ NewDate -> Confirmed(r, side)

\* _update_circuit_breaker: on a new date it either counts down or looks.
CountedDown(b) == [active |-> b.remaining > 1, remaining |-> b.remaining - 1]

BreakerAfter(drawdown) ==
  LET b == saved.breaker
  IN CASE ~CircuitBreaker -> [active |-> FALSE, remaining |-> 0]
       [] CircuitBreaker /\ NewDate /\ b.active -> CountedDown(b)
       [] CircuitBreaker /\ NewDate /\ ~b.active /\ drawdown ->
            [active |-> TRUE, remaining |-> BreakerDays]
       [] CircuitBreaker /\ ~(NewDate /\ (b.active \/ drawdown)) -> b

MustLiquidate(side, drawdown) ==
  \/ BreakerAfter(drawdown).active
  \/ RegimeAfter(side).state = "risk_off" /\ LiquidateInRiskOff

\* The exits of a run: a position whose ticker was not downloaded stays.
Exiting(quotes) ==
  {t \in Held \cap DOMAIN quotes :
     MustExit(saved.positions[t], quotes[t].price, day - saved.positions[t].entry)}

\* Cooldowns start, and end, on the first run of a date only, and last for
\* calendar days.
CooldownsAfter(gone) ==
  IF NewDate
  THEN [t \in Tickers |-> CASE t \in gone /\ ReentryDays > 0 -> Date[day] + ReentryDays
                            [] ~(t \in gone /\ ReentryDays > 0) /\ saved.cooldowns[t] > Date[day] ->
                                 saved.cooldowns[t]
                            [] OTHER -> 0]
  ELSE saved.cooldowns

\* free_slots, capped.
Slots(kept) == Min({MaxPositions - Cardinality(kept), MaxNew})

\* The entry scan: the best candidates, ties in the order of the universe.
Entering(kept, cooldowns, quotes) ==
  LET candidates == {t \in DOMAIN quotes \ kept : cooldowns[t] = 0 /\ IsCandidate(quotes[t])}
      Ahead(t, u) == \/ LexGreater(Merit(quotes[t]), Merit(quotes[u]))
                     \/ Merit(quotes[t]) = Merit(quotes[u]) /\ Place[t] < Place[u]
  IN IF ScanDay
     THEN {t \in candidates : Cardinality({u \in candidates : Ahead(u, t)}) < Slots(kept)}
     ELSE {}

TargetOf(positions) ==
  CASE positions # {} -> positions
    [] positions = {} /\ HoldFallback -> {Fallback}
    [] OTHER -> {}

Observe(side, drawdown, gone, entered) ==
  /\ seen' = seen \cup {day}
  /\ trippedOn' = IF BreakerAfter(drawdown).active /\ ~saved.breaker.active THEN day ELSE trippedOn
  /\ streak' = IF ~NewDate \/ side = "short" THEN streak
               ELSE [side |-> side, length |-> IF side = streak.side THEN streak.length + 1 ELSE 1]
  /\ exited' = [t \in Tickers |-> IF NewDate /\ t \in gone THEN day ELSE exited[t]]
  /\ scannedOn' = IF entered # {} THEN day ELSE scannedOn
  /\ outcome' = "data"

\* run_draco to the end; bot_states.save.
Trade(quotes, side, drawdown) ==
  LET gone      == Exiting(quotes)
      kept      == Held \ gone
      cooldowns == CooldownsAfter(gone)
      entered   == Entering(kept, cooldowns, quotes)
  IN /\ pc = "idle"
     /\ ~MustLiquidate(side, drawdown)
     /\ saved' = [positions |-> [t \in kept \cup entered |->
                                   IF t \in kept THEN saved.positions[t] ELSE PositionAt(quotes[t], day)],
                  cooldowns |-> cooldowns,
                  regime    |-> RegimeAfter(side),
                  breaker   |-> BreakerAfter(drawdown),
                  scanned   |-> IF ScanDay THEN Week(day) ELSE saved.scanned,
                  processed |-> day]
     /\ target' = TargetOf(kept \cup entered)
     /\ pc' = "allocate" /\ locked' = locks
     /\ Observe(side, drawdown, gone, entered)
     /\ UNCHANGED <<day, universe, locks, alloc, budget>>

\* The early return of run_draco with the breaker active or the market down.
Liquidate(side, drawdown) ==
  /\ pc = "idle"
  /\ MustLiquidate(side, drawdown)
  /\ saved' = [saved EXCEPT !.positions = NoPositions,
                            !.regime = RegimeAfter(side),
                            !.breaker = BreakerAfter(drawdown),
                            !.processed = day]
  /\ target' = {Fallback}
  /\ pc' = "allocate" /\ locked' = locks
  /\ Observe(side, drawdown, {}, {})
  /\ UNCHANGED <<day, universe, locks, alloc, budget>>

\* The download fails or lacks the market's ticker: the state is returned as it came.
NoData ==
  /\ pc = "idle"
  /\ Spend("faults")
  /\ target' = {Fallback}
  /\ pc' = "allocate" /\ locked' = locks
  /\ outcome' = "nodata"
  /\ UNCHANGED <<day, universe, locks, saved, alloc, observed>>

\* exclude_locked_symbols: the rest share the weight of what is dropped.
Safe == target \ locked

\* allocations.replace, unless the signal is HOLD or all of the target locked:
\* then the last allocation stands.
Allocate ==
  /\ pc = "allocate"
  /\ alloc' = IF Safe = {} THEN alloc ELSE Safe
  /\ pc' = "idle"
  /\ UNCHANGED <<day, universe, locks, saved, locked, target, observed, outcome, budget>>

\* The worker dies between the two transactions.
Die ==
  /\ pc = "allocate"
  /\ Spend("faults")
  /\ pc' = "idle"
  /\ outcome' = "died"
  /\ UNCHANGED <<day, universe, locks, saved, locked, target, alloc, observed>>

\* The next session's prices appear in downloads.
NextDay ==
  /\ day < LastDay
  /\ day' = day + 1
  /\ UNCHANGED <<universe, locks, saved, pc, locked, target, alloc, observed, outcome, budget>>

\* The settings of the bot change: params_json with another universe.
EditUniverse(t) ==
  /\ Spend("edits")
  /\ universe' = IF t \in universe THEN universe \ {t} ELSE universe \cup {t}
  /\ UNCHANGED <<day, locks, saved, pc, locked, target, alloc, observed, outcome>>

\* The owner locks a symbol, or gives it back.
EditLock(s) ==
  /\ Spend("edits")
  /\ locks' = IF s \in locks THEN locks \ {s} ELSE locks \cup {s}
  /\ UNCHANGED <<day, universe, saved, pc, locked, target, alloc, observed, outcome>>

\* What download_draco_prices may answer: some of the universe has a column.
Downloads ==
  UNION {[shown -> Charts] :
           shown \in IF PartialDownloads THEN SUBSET universe ELSE {universe}}

RunDraco ==
  \E side \in Sides \cup {"short"}, drawdown \in BOOLEAN :
    \/ Liquidate(side, drawdown)
    \/ \E quotes \in Downloads : Trade(quotes, side, drawdown)

\* _empty_state.
Init ==
  /\ day = 1
  /\ universe = Tickers /\ locks = {} /\ locked = {}
  /\ saved = [positions |-> NoPositions, cooldowns |-> [t \in Tickers |-> 0],
              regime |-> [state |-> "risk_on", pending |-> "none", count |-> 0],
              breaker |-> [active |-> FALSE, remaining |-> 0],
              scanned |-> 0, processed |-> 0]
  /\ pc = "idle" /\ target = {} /\ alloc = {}
  /\ trippedOn = 0 /\ seen = {} /\ streak = [side |-> "risk_on", length |-> 0]
  /\ exited = [t \in Tickers |-> 0]
  /\ scannedOn = 0 /\ outcome = "none"
  /\ budget = [edits |-> Edits, faults |-> Faults]

Next ==
  \/ RunDraco \/ NoData \/ Allocate \/ Die \/ NextDay
  \/ \E t \in Tickers : EditUniverse(t)
  \/ \E s \in Lockable : EditLock(s)

Spec == Init /\ [][Next]_vars

-----------------------------------------------------------------------------

\* Invariant: the breaker counts trading dates, however many runs each has:
\* while it is active nothing is held, and what remains of its pause is the
\* full pause less the dates processed since it tripped.
BreakerCountsDates ==
  saved.breaker.active =>
    /\ Held = {}
    /\ saved.breaker.remaining + Cardinality({d \in seen : d > trippedOn}) = BreakerDays

\* What the last run that was not cut off asked for.
Wanted == IF outcome = "nodata" \/ Held = {} THEN {Fallback} ELSE Held

\* Invariant: once a run is through, the allocation the cycle trades by is the
\* positions its state holds less what was locked when the cycle began, or the
\* fallback: when nothing is held, and after a failed download, although the
\* positions are kept.  An earlier allocation stands only if all of that was
\* locked, or the worker died between the two transactions, and no longer
\* than until the next run.
AllocationCurrent ==
  pc = "idle" /\ outcome \in {"data", "nodata"} =>
    alloc = Wanted \ locked \/ Wanted \subseteq locked

\* Action property: a ticker that left in the first run of a date is not
\* entered again for ReentryDays of the calendar, whatever runs, liquidations
\* and failures lie in between.  One that left in a later run or a liquidation
\* has no cooldown, but is not entered on the date it left: only a date's first
\* run enters.
ReentryWaits ==
  [][\A t \in DOMAIN saved'.positions \ Held :
       /\ exited[t] # 0 => Date[day] >= Date[exited[t]] + ReentryDays
       /\ day \notin seen]_vars

\* Action property: positions are entered on one date of a week at most.
OneScanPerWeek ==
  [][DOMAIN saved'.positions \ Held # {} => scannedOn = 0 \/ Week(scannedOn) < Week(day)]_vars

\* Action property: the regime turns to risk_off only after ConfirmDays
\* consecutive dates below the average, whatever the number of their runs.
RegimeConfirmed ==
  [][saved.regime.state = "risk_on" /\ saved'.regime.state = "risk_off" =>
       streak'.side = "risk_off" /\ streak'.length >= ConfirmDays]_vars

\* Invariant the code violates: exits are evaluated in every run that has its
\* prices, so that nothing is held beyond maximum_holding_trading_days.
NoOverstay ==
  pc = "idle" /\ outcome = "data" =>
    \A t \in Held : saved.processed - saved.positions[t].entry < MaxHold

=============================================================================
