-------------------------------- MODULE Audit --------------------------------
(***************************************************************************)
(* The cycle-replay audit (audit.py) beside the rows it reads: the owner   *)
(* may run it at any moment, and it only reads, so its verdicts are state  *)
(* functions of the device's tables.  The worker writes these tables: its  *)
(* heartbeats, and in a cycle signals, states, allocations and one order   *)
(* after the other, which takes time.  Cycles are scheduled, but one also  *)
(* runs at once after a restart and on the owner's request.  A bot may     *)
(* fail anywhere in its run, and the worker die anywhere in a cycle.       *)
(*                                                                         *)
(* A quantity is worth one money unit; a position changes its value by     *)
(* Drift.  What a bot's algorithm answers is a function of the bars of the *)
(* moment and, for a stateful bot, of the state of its last run.  The rows *)
(* of a table are a sequence in the order they were written.               *)
(***************************************************************************)
EXTENDS Rebalance, FiniteSets, SequencesExt, FiniteSetsExt

CONSTANTS
  Stateful,        \* bots outside STATELESS_BOT_TYPES
  States,          \* what bot_state may hold, 0 for none
  Answer(_, _, _), \* a bot's target_weights on some bars, in some state
  NextState(_, _), \* the state a stateful bot returns
  CorrelationWindow,  \* CORRELATION_WINDOW_SECONDS
  Tolerance,       \* DOLLAR_TOLERANCE
  Slots,           \* scheduled_cycle_times_et of the day
  StartCash, StartPositions,
  LastTime,        \* bound on the clock
  Events           \* bound on what fails, dies, moves and is edited or asked for

ASSUME AuditConstants ==
  /\ Stateful \subseteq Bots
  /\ {CorrelationWindow, Tolerance, StartCash, LastTime, Events} \cup Slots \subseteq Nat
  /\ StartPositions \in [Symbols -> Nat]
ASSUME AlgorithmAssumption ==
  /\ 0 \in States
  /\ \A version \in 0..Events, state \in States :
       NextState(version, state) \in States /\ \A b \in Bots : IsPortfolio(Answer(b, version, state))

VARIABLES
  minute,     \* the clock; a pass of the worker's loop takes a unit at least
  bars,       \* a version of the market data, and of the bots' params
  cash, pos,  \* the broker's books
  locks,      \* symbols of manual_holding rows
  active,     \* bots of active strategy_config rows
  lastCycle,  \* last_cycle_at of the worker's process, NotYet before its first
  wanted,     \* whether a run-now request is pending
  beats,      \* position_snapshot: one entry per heartbeat
  accounts,   \* account_snapshot
  signals,    \* signal rows of each bot
  states,     \* bot_state, 0 for none
  allocs,     \* portfolio_allocation rows of each bot
  orders,     \* order rows
  plan,       \* orders the cycle under way has still to submit
  cycles,     \* what each cycle saw and meant to do (observation)
  events

tables == <<beats, accounts, signals, states, allocs, orders>>
world == <<minute, bars, locks, active, wanted>>
auditVars == <<world, lastCycle, cash, pos, tables, plan, cycles, events>>

NotYet == -1
Happen(n) == events + n <= Events /\ events' = events + n
Event == Happen(1)

\* Mutant: a symbol once held keeps a row of zero.
EverySymbol(p) == p

\* The positions the broker lists.
Held(p) == Restrict(p, {s \in Symbols : p[s] > 0})
Equity == cash + SumFunction(pos)

OrderPlanned == [sym : Symbols, side : {"buy", "sell"}, amount : Nat]

AuditTypeOK ==
  /\ minute \in 0..LastTime /\ events \in 0..Events /\ bars \in 0..events
  /\ cash \in Int /\ pos \in [Symbols -> Nat] /\ locks \in SUBSET Symbols
  /\ active \in SUBSET Bots /\ lastCycle \in NotYet..minute /\ wanted \in BOOLEAN
  /\ \A i \in DOMAIN beats : beats[i].ts \in 0..minute /\ IsPortfolio(beats[i].rows)
  /\ accounts \in Seq([ts : 0..minute, equity : Int])
  /\ states \in [Bots -> States]
  /\ \A b \in Bots :
       /\ \A i \in DOMAIN signals[b] :
            signals[b][i].ts \in 0..minute /\ IsPortfolio(signals[b][i].answer)
       /\ \A i \in DOMAIN allocs[b] :
            allocs[b][i].ts \in 0..minute /\ IsPortfolio(allocs[b][i].weights)
  /\ orders \in Seq([ts : 0..minute, sym : Symbols, side : {"buy", "sell"}, amount : Nat])
  /\ plan \in SUBSET OrderPlanned
  /\ \A k \in DOMAIN cycles :
       /\ cycles[k].at \in 0..minute /\ IsPortfolio(cycles[k].saw) /\ cycles[k].locks \in SUBSET Symbols
       /\ cycles[k].bars \in 0..bars /\ cycles[k].states \in [Bots -> States]
       /\ cycles[k].active \in SUBSET Bots /\ cycles[k].answered \in SUBSET cycles[k].active
       /\ cycles[k].whole \in BOOLEAN

-----------------------------------------------------------------------------
\* The rows of a table up to some time; as_of is the newest of them.
UpTo(rows, ts) == {i \in DOMAIN rows : rows[i].ts <= ts}
AsOf(rows, ts) == rows[Max(UpTo(rows, ts))]

\* positions.as_of: the newest row of each symbol, however old it is.
PositionsAsOf(ts) ==
  LET With(s) == {i \in UpTo(beats, ts) : s \in DOMAIN beats[i].rows}
  IN [s \in {x \in Symbols : With(x) # {}} |-> beats[Max(With(s))].rows[s]]

\* _account_snapshot_as_of; no row counts as an equity of 0.
EquityAsOf(ts) == IF UpTo(accounts, ts) = {} THEN 0 ELSE AsOf(accounts, ts).equity

\* allocations.as_of, or nothing.
AllocationAsOf(b, ts) ==
  IF UpTo(allocs[b], ts) = {} THEN NoSymbols ELSE AsOf(allocs[b], ts).weights

\* Mutant: rows of the very edge of the window form a cycle of their own.
EdgeSplits(out, t) ==
  IF out # <<>> /\ Last(out) - t < CorrelationWindow THEN out ELSE Append(out, t)

\* _cluster_order_timestamps: from the newest on, whatever is within the
\* window of a cluster's latest member belongs to it.
ClusteredWith(out, t) ==
  IF out # <<>> /\ Last(out) - t <= CorrelationWindow THEN out ELSE Append(out, t)
Clusters(times) == FoldLeft(ClusteredWith, <<>>, Reverse(times))

\* list_recent_cycles.
Listed == Clusters([i \in DOMAIN orders |-> orders[i].ts])

-----------------------------------------------------------------------------
\* The first half of audit_execution_layer: the plan as of a cycle, by the
\* locks and the active bots of today.
ExpectedPlan(ts) ==
  LET values  == PositionsAsOf(ts)
      free    == Restrict(values, DOMAIN values \ locks)
      locked  == SumFunction(Restrict(values, DOMAIN values \cap locks))
      equity  == Max({EquityAsOf(ts) - locked, 0})
      desired == [b \in active |-> ExcludeLocked(AllocationAsOf(b, ts), locks)]
  IN OrderPlan(CombinedTarget(desired, equity), free, equity)

\* orders.in_window around the cycle.
ActualOrders(ts) ==
  {i \in DOMAIN orders : orders[i].ts \in (ts - CorrelationWindow)..(ts + CorrelationWindow)}

\* Mutant: an expected order that is not there goes unmentioned.
OnlyThoseThere(expected, actual) ==
  \A i \in actual : \E e \in expected :
    e.sym = orders[i].sym /\ e.side = orders[i].side /\ Abs(e.amount - orders[i].amount) <= Tolerance

\* _diff_orders, all lines "match": of two orders with one symbol and side
\* the later counts.
KeyOf(o) == <<o.sym, o.side>>
AllMatch(expected, actual) ==
  LET Under(key) == {i \in actual : KeyOf(orders[i]) = key}
  IN /\ {KeyOf(e) : e \in expected} = {KeyOf(orders[i]) : i \in actual}
     /\ \A e \in expected : Abs(e.amount - orders[Max(Under(KeyOf(e)))].amount) <= Tolerance

\* audit_execution_layer.
ExecutionVerdict(ts) ==
  CASE ExpectedPlan(ts) = {} /\ ActualOrders(ts) = {} -> "no_orders_expected_or_found"
    [] AllMatch(ExpectedPlan(ts), ActualOrders(ts)) /\ ActualOrders(ts) # {} -> "match"
    [] OTHER -> "mismatch"

-----------------------------------------------------------------------------
\* Mutant: any cycle of a stateful bot is replayed from nothing.
NeverEarlier(b, ts) == TRUE

\* _is_first_signal, of the row recorded at or before ts.
IsFirstSignal(b, ts) == Cardinality(UpTo(signals[b], ts)) = 1

\* audit_algorithm_layer, of one bot.
AlgorithmVerdict(b, ts) ==
  CASE UpTo(signals[b], ts) = {} -> "skipped"
    [] UpTo(signals[b], ts) # {} /\ b \in Stateful /\ ~IsFirstSignal(b, ts) -> "skipped"
    [] OTHER -> IF Answer(b, bars, 0) = AsOf(signals[b], ts).answer THEN "match" ELSE "mismatch"

-----------------------------------------------------------------------------
\* A pass of the worker's loop: time has passed since the last one wrote.
Pass ==
  /\ plan = {}
  /\ \A i \in DOMAIN orders : orders[i].ts < minute
  /\ \A k \in DOMAIN cycles : cycles[k].at < minute

\* _record_snapshots: a row per position held, none for one that is closed.
\* The loop takes it before the cycle of its pass, never after.
Heartbeat ==
  /\ Pass
  /\ \A i \in DOMAIN beats : beats[i].ts < minute
  /\ beats' = Append(beats, [ts |-> minute, rows |-> Held(pos)])
  /\ accounts' = Append(accounts, [ts |-> minute, equity |-> Equity])
  /\ UNCHANGED <<world, lastCycle, cash, pos, signals, states, allocs, orders, plan, cycles, events>>

\* A cycle runs for a scheduled time since the last one of this process, for
\* any after a restart, and when it is asked for; the market is open.
Due == Pass /\ (wanted \/ \E s \in Slots : lastCycle < s /\ s <= minute)

\* How far _run_one_bot gets with each bot before it raises, or the worker dies.
Outcomes ==
  {got \in [Bots -> {"nothing", "signal", "state", "all"}] :
     \A b \in Bots \ active : got[b] = "nothing"}
Failing(got) == {b \in active : got[b] # "all"}

Stored(rows, answer) ==
  IF rows # <<>> /\ Last(rows).answer = answer THEN rows
  ELSE Append(rows, [ts |-> minute, answer |-> answer])

Safe(b) == ExcludeLocked(Answer(b, bars, states[b]), locks)
Allots(got, b) == got[b] = "all" /\ Safe(b) # NoSymbols

\* What of a cycle reaches the tables before its plan: the account, and of
\* every bot its signal, its state and its allocation.
RunBots(got, whole) ==
  /\ accounts' = Append(accounts, [ts |-> minute, equity |-> Equity])
  /\ signals' = [b \in Bots |-> IF got[b] = "nothing" THEN signals[b]
                                ELSE Stored(signals[b], Answer(b, bars, states[b]))]
  /\ states' = [b \in Bots |-> IF b \in Stateful /\ got[b] \in {"state", "all"}
                               THEN NextState(bars, states[b]) ELSE states[b]]
  /\ allocs' = [b \in Bots |-> IF Allots(got, b)
                               THEN Append(allocs[b], [ts |-> minute, weights |-> Safe(b)])
                               ELSE allocs[b]]
  /\ cycles' = Append(cycles, [at |-> minute, saw |-> Held(pos), locks |-> locks,
                               active |-> active, bars |-> bars, states |-> states,
                               answered |-> {b \in Bots : got[b] # "nothing"},
                               whole |-> whole])
  /\ UNCHANGED <<world, cash, pos, beats, orders>>

CyclePlan(got) ==
  LET free    == Restrict(Held(pos), DOMAIN Held(pos) \ locks)
      equity  == Max({Equity - SumFunction(Restrict(pos, locks)), 0})
      desired == [b \in active |->
                    CASE Allots(got, b) -> Safe(b)
                      [] ~Allots(got, b) /\ allocs[b] # <<>> ->
                           ExcludeLocked(Last(allocs[b]).weights, locks)
                      [] OTHER -> NoSymbols]
  IN OrderPlan(CombinedTarget(desired, equity), free, equity)

RunCycle(got) ==
  /\ Due
  /\ Happen(Cardinality(Failing(got)))
  /\ RunBots(got, TRUE)
  /\ plan' = CyclePlan(got)
  /\ lastCycle' = minute

\* run_cycle raises before it has a plan, or the worker dies in it.
CycleBreaks(got) ==
  /\ Due
  /\ Event
  /\ RunBots(got, FALSE)
  /\ lastCycle' \in {minute, NotYet}
  /\ UNCHANGED plan

Fill(o) ==
  LET signed == IF o.side = "buy" THEN o.amount ELSE -o.amount
  IN pos' = [pos EXCEPT ![o.sym] = @ + signed] /\ cash' = cash - signed

\* An order is submitted, filled and recorded; orders of a plan come sells
\* and buys mixed, in the order of the symbols.
SubmitOrder(o) ==
  /\ o \in plan
  /\ plan' = plan \ {o}
  /\ orders' = Append(orders, [ts |-> minute, sym |-> o.sym, side |-> o.side, amount |-> o.amount])
  /\ Fill(o)
  /\ UNCHANGED <<world, lastCycle, beats, accounts, signals, states, allocs, cycles, events>>

\* A submission raises, or the worker dies: what is left of the plan is
\* dropped.  The broker may have filled an order that is not recorded.
PlanBreaks ==
  /\ plan # {}
  /\ Event
  /\ plan' = {}
  /\ cycles' = [cycles EXCEPT ![Len(cycles)].whole = FALSE]
  /\ lastCycle' \in {lastCycle, NotYet}
  /\ UNCHANGED <<cash, pos>> \/ \E o \in plan : Fill(o)
  /\ UNCHANGED <<world, tables>>

\* The worker is restarted between two passes.
RestartWorker ==
  /\ plan = {}
  /\ Event
  /\ lastCycle' = NotYet
  /\ UNCHANGED <<world, cash, pos, tables, plan, cycles>>

\* The clock (external).
Tick ==
  /\ minute < LastTime
  /\ minute' = minute + 1
  /\ UNCHANGED <<bars, locks, active, wanted, lastCycle, cash, pos, tables, plan, cycles, events>>

\* The market (external).
Drift(s) ==
  /\ pos[s] > 0
  /\ Event
  /\ pos' = [pos EXCEPT ![s] = @ + 2]
  /\ UNCHANGED <<world, lastCycle, cash, tables, plan, cycles>>

BarsMove ==
  /\ Event
  /\ bars' = bars + 1
  /\ UNCHANGED <<minute, locks, active, wanted, lastCycle, cash, pos, tables, plan, cycles>>

\* The owner locks or unlocks a symbol, activates or deactivates a bot, or
\* asks for a run.
EditLock(s) ==
  /\ Event
  /\ locks' = IF s \in locks THEN locks \ {s} ELSE locks \cup {s}
  /\ UNCHANGED <<minute, bars, active, wanted, lastCycle, cash, pos, tables, plan, cycles>>

SwitchBot(b) ==
  /\ Event
  /\ active' = IF b \in active THEN active \ {b} ELSE active \cup {b}
  /\ UNCHANGED <<minute, bars, locks, wanted, lastCycle, cash, pos, tables, plan, cycles>>

AskForRun ==
  /\ ~wanted
  /\ Event
  /\ wanted' = TRUE
  /\ UNCHANGED <<minute, bars, locks, active, lastCycle, cash, pos, tables, plan, cycles>>

\* ack_run_request, between a cycle and the next: as its answer may be lost,
\* a request may outlive any number of cycles.
RequestDone ==
  /\ plan = {} /\ wanted
  /\ wanted' = FALSE
  /\ UNCHANGED <<minute, bars, locks, active, lastCycle, cash, pos, tables, plan, cycles, events>>

AuditInit ==
  /\ minute = 0 /\ bars = 0
  /\ cash = StartCash /\ pos = StartPositions
  /\ locks = {} /\ active = Bots /\ lastCycle = NotYet /\ wanted = FALSE
  /\ beats = <<>> /\ accounts = <<>> /\ orders = <<>>
  /\ signals = [b \in Bots |-> <<>>] /\ allocs = [b \in Bots |-> <<>>]
  /\ states = [b \in Bots |-> 0]
  /\ plan = {} /\ cycles = <<>>
  /\ events = 0

AuditNext ==
  \/ Heartbeat \/ PlanBreaks \/ RestartWorker \/ Tick \/ BarsMove \/ AskForRun \/ RequestDone
  \/ \E got \in Outcomes : RunCycle(got) \/ CycleBreaks(got)
  \/ \E o \in plan : SubmitOrder(o)
  \/ \E s \in Symbols : Drift(s) \/ EditLock(s)
  \/ \E b \in Bots : SwitchBot(b)

AuditSpec == AuditInit /\ [][AuditNext]_auditVars

-----------------------------------------------------------------------------
\* A cycle's orders, and the time the audit knows it by.
OrdersOf(k) ==
  {i \in DOMAIN orders :
     orders[i].ts >= cycles[k].at /\ (k < Len(cycles) => orders[i].ts < cycles[k + 1].at)}
Anchor(k) == Max({orders[i].ts : i \in OrdersOf(k)})
Traders == {k \in DOMAIN cycles : OrdersOf(k) # {} /\ (k = Len(cycles) => plan = {})}

\* Whether another cycle's orders follow within the window, as they do where a
\* restart or a request makes the worker run again at once, and whether a
\* cycle's own orders all lie within the window of its last.
Within(t) == (t - CorrelationWindow)..t
Followed(k) == \E i \in DOMAIN orders : orders[i].ts > Anchor(k) /\ Anchor(k) \in Within(orders[i].ts)
Together(k) == \A i \in OrdersOf(k) : orders[i].ts \in Within(Anchor(k))

\* Invariant: the time of a cycle's last order is listed unless another cycle
\* followed within the window, and then no other time of its orders is listed
\* if they lie together.  No order is left out: each lies in the window of a
\* listed time.
CyclesListed ==
  plan = {} =>
    LET listed == ToSet(Listed) IN
    \A k \in Traders :
      /\ ~Followed(k) =>
           /\ Anchor(k) \in listed
           /\ Together(k) =>
                \A i \in OrdersOf(k) : orders[i].ts \in listed => orders[i].ts = Anchor(k)
      /\ \A i \in OrdersOf(k) : \E t \in listed : orders[i].ts \in Within(t)

\* Invariant: where the tables still say what a cycle saw (the same locks and
\* active bots, heartbeats that show its positions) and the window holds its
\* orders and no others, the audit of a cycle that submitted orders says
\* "match" exactly if the cycle submitted its whole plan, whichever bots
\* failed in it and whatever the broker did with an order left unrecorded.
AuditTellsTruth ==
  \A k \in Traders :
    /\ locks = cycles[k].locks /\ active = cycles[k].active
    /\ PositionsAsOf(Anchor(k)) = cycles[k].saw
    /\ ActualOrders(Anchor(k)) = OrdersOf(k)
    => ExecutionVerdict(Anchor(k)) = IF cycles[k].whole THEN "match" ELSE "mismatch"

\* Invariant: as long as the bars are those of the cycle, an active bot is
\* reported to differ only by a row of an earlier cycle, in two cases: it
\* stored no signal in this one, because it failed before or was not active;
\* or it is stateful, entered the cycle with a state, is taken for new and
\* answered what it had answered before.  None is that is stateless and
\* answered, or answered something new, or lost its state between its signal
\* and its save.
NoFalseAlarm ==
  \A k \in Traders : bars = cycles[k].bars =>
    \A b \in active : AlgorithmVerdict(b, Anchor(k)) = "mismatch" =>
      /\ AsOf(signals[b], Anchor(k)).ts < cycles[k].at
      /\ b \in cycles[k].answered => b \in Stateful /\ cycles[k].states[b] # 0

=============================================================================
