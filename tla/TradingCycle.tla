---------------------------- MODULE TradingCycle ----------------------------
(***************************************************************************)
(* One tick of the trading worker against a live broker while the owner    *)
(* edits the device: reconcile_manual_holdings buys what the locked        *)
(* holdings lack, then run_cycle reads the account, the locks and the      *)
(* positions, runs every active bot, blends their portfolios into one      *)
(* order plan and submits it.                                              *)
(*                                                                         *)
(* Each database or network call the code makes is a step, so the owner's  *)
(* edits (portfolio_web, a different process) and the broker's fills land  *)
(* between any two of them.  Every network call may fail before or after   *)
(* it took effect, and the process may die anywhere; MaxFaults bounds how  *)
(* often.  Share prices are one money unit and do not move, so that        *)
(* quantities and values coincide.                                         *)
(***************************************************************************)
EXTENDS Rebalance

CONSTANTS
  Signals,      \* the portfolios each bot's algorithm may ask for
  LockTargets,  \* target quantities the owner may enter
  InitCash, InitPos,  \* the account when the device is connected to it
  Margin,       \* what the broker lends beyond the cash
  PromptFills,  \* whether orders are filled before the next cycle starts
  MaxEdits, MaxSignals, MaxFaults   \* bounds

ASSUME SignalsAssumption == \A b \in Bots : \A w \in Signals[b] : IsPortfolio(w)
ASSUME LockTargetsAssumption == LockTargets \subseteq Nat \ {0}
ASSUME AccountAssumption == InitCash \in Int /\ InitPos \in [Symbols -> Nat]
ASSUME BrokerAssumption == Margin \in Nat /\ PromptFills \in BOOLEAN
ASSUME BoundsAssumption == MaxEdits \in Nat /\ MaxSignals \in Nat /\ MaxFaults \in Nat

VARIABLES
  locks,      \* manual_holding: target_qty of each locked symbol
  active,     \* bots with an active strategy_config row
  alloc,      \* the latest portfolio_allocation of each bot
  cash, pos,  \* the broker's books
  buying, selling,  \* quantities ordered and not yet filled
  pc,         \* the worker's next call
  list,       \* holdings as reconcile_manual_holdings read them
  seen,       \* positions as last read
  left,       \* holdings still to be bought
  open,       \* purchases open when it read the positions (observation)
  account,    \* equity as read
  lockSnap,   \* locked_symbols
  todo,       \* active rows still to run
  desired,    \* contributions: each bot's desired weights
  plan,       \* orders still to be submitted
  recorded,   \* orders_submitted
  told,       \* events published by this tick
  taken,      \* what the broker accepted from this tick's plan (observation)
  unseen,     \* bought but not yet held when positions were read (observation)
  edits, signals, faults   \* counters of the bounds

device == <<locks, active, alloc>>
broker == <<cash, pos, buying, selling>>
reconciling == <<list, left, open>>
reading == <<account, lockSnap, unseen>>
blending == <<todo, desired>>
submitting == <<plan, recorded, taken>>
counters == <<edits, signals, faults>>
vars == <<device, broker, pc, seen, reconciling, reading, blending,
          submitting, told, counters>>

Nothing == [s \in Symbols |-> 0]
Silence == [trades |-> {}, fatal |-> FALSE]
Equity == cash + SumFunction(pos)
Pending == {s \in Symbols : buying[s] + selling[s] > 0}
Fault == faults < MaxFaults /\ faults' = faults + 1

Init ==
  /\ locks = NoSymbols /\ active = Bots /\ alloc = [b \in Bots |-> NoSymbols]
  /\ cash = InitCash /\ pos = InitPos /\ buying = Nothing /\ selling = Nothing
  /\ pc = "idle" /\ list = NoSymbols /\ seen = Nothing /\ left = {} /\ open = Nothing
  /\ account = 0 /\ lockSnap = {} /\ unseen = 0
  /\ todo = {} /\ desired = NoSymbols
  /\ plan = {} /\ recorded = {} /\ taken = {} /\ told = Silence
  /\ edits = 0 /\ signals = 0 /\ faults = 0

-----------------------------------------------------------------------------
\* Mutants of the definitions below.

OnlyUnheld == {s \in DOMAIN list : pos[s] = 0}
ForgetOnFailure(b) == NoSymbols
LastKnownAsStored(b) == alloc[b]
SubmittedButKept(o) ==
  UNCHANGED plan /\ recorded' = recorded \cup {o.sym} /\ taken' = taken \cup {o.sym}
AbandonSilently == pc' = "announce" /\ plan' = {} /\ UNCHANGED told

-----------------------------------------------------------------------------
\* The broker (external).

MayBuy(n) == n \in Nat \ {0} /\ n <= cash + Margin - SumFunction(buying)
MaySell(s, n) == n \in Nat \ {0} /\ n <= pos[s] - selling[s]

PlaceBuy(s, n) ==
  MayBuy(n) /\ buying' = [buying EXCEPT ![s] = @ + n] /\ UNCHANGED <<cash, pos, selling>>
PlaceSell(s, n) ==
  MaySell(s, n) /\ selling' = [selling EXCEPT ![s] = @ + n] /\ UNCHANGED <<cash, pos, buying>>

FillBuy(s) ==
  /\ buying[s] > 0
  /\ pos' = [pos EXCEPT ![s] = @ + buying[s]]
  /\ cash' = cash - buying[s]
  /\ buying' = [buying EXCEPT ![s] = 0]
  /\ UNCHANGED <<selling, device, pc, seen, reconciling, reading, blending,
                 submitting, told, counters>>

FillSell(s) ==
  /\ selling[s] > 0
  /\ pos' = [pos EXCEPT ![s] = @ - selling[s]]
  /\ cash' = cash + selling[s]
  /\ selling' = [selling EXCEPT ![s] = 0]
  /\ UNCHANGED <<buying, device, pc, seen, reconciling, reading, blending,
                 submitting, told, counters>>

\* Orders are good for the day (TimeInForce.DAY): what is not filled by the
\* close is gone before the next cycle.
Lapse(s) ==
  /\ pc = "idle" /\ s \in Pending
  /\ Fault
  /\ buying' = [buying EXCEPT ![s] = 0]
  /\ selling' = [selling EXCEPT ![s] = 0]
  /\ UNCHANGED <<cash, pos, device, pc, seen, reconciling, reading, blending,
                 submitting, told, edits, signals>>

-----------------------------------------------------------------------------
\* The owner, on the device's portfolio page.

Edit == edits < MaxEdits /\ edits' = edits + 1

AddHolding(s, n) ==
  /\ Edit
  /\ locks' = [t \in DOMAIN locks \cup {s} |-> IF t = s THEN n ELSE locks[t]]
  /\ UNCHANGED <<active, alloc, broker, pc, seen, reconciling, reading, blending,
                 submitting, told, signals, faults>>

RemoveHolding(s) ==
  /\ Edit
  /\ s \in DOMAIN locks
  /\ locks' = Restrict(locks, DOMAIN locks \ {s})
  /\ UNCHANGED <<active, alloc, broker, pc, seen, reconciling, reading, blending,
                 submitting, told, signals, faults>>

\* The page writes one row after the other.
SwitchBot(b) ==
  /\ Edit
  /\ active' = IF b \in active THEN active \ {b} ELSE active \cup {b}
  /\ UNCHANGED <<locks, alloc, broker, pc, seen, reconciling, reading, blending,
                 submitting, told, signals, faults>>

-----------------------------------------------------------------------------
\* reconcile_manual_holdings.

BeginTick ==
  /\ pc = "idle"
  /\ PromptFills => Pending = {}
  /\ list' = locks
  /\ pc' = IF locks = NoSymbols THEN "account" ELSE "held"
  /\ told' = Silence
  /\ UNCHANGED <<device, broker, seen, left, open, reading, blending, submitting, counters>>

\* Whatever is raised in it is logged, and the cycle runs all the same.
LeaveReconcile ==
  pc' = "account" /\ left' = {} /\ list' = NoSymbols /\ open' = Nothing /\ seen' = Nothing

Shortfalls == {s \in DOMAIN list : list[s] > pos[s]}

ReadHeld ==
  /\ pc = "held"
  /\ IF Shortfalls = {}
       THEN LeaveReconcile
       ELSE /\ pc' = "buying" /\ left' = Shortfalls
            /\ seen' = pos /\ open' = buying
            /\ UNCHANGED list
  /\ UNCHANGED <<device, broker, reading, blending, submitting, told, counters>>

ReadHeldFails ==
  /\ pc = "held"
  /\ Fault
  /\ LeaveReconcile
  /\ UNCHANGED <<device, broker, reading, blending, submitting, told, edits, signals>>

\* shortfall
Lacking(s) == list[s] - seen[s]

ManualBuy(s) ==
  /\ pc = "buying" /\ s \in left
  /\ PlaceBuy(s, Lacking(s))
  /\ IF left = {s}
       THEN LeaveReconcile
       ELSE left' = left \ {s} /\ UNCHANGED <<pc, list, open, seen>>
  /\ UNCHANGED <<device, reading, blending, submitting, told, counters>>

\* Refused, or the call failed: the holdings after this one get no order.
ManualBuyFails(s) ==
  /\ pc = "buying" /\ s \in left
  /\ IF MayBuy(Lacking(s)) THEN Fault ELSE UNCHANGED faults
  /\ LeaveReconcile
  /\ UNCHANGED <<device, broker, reading, blending, submitting, told, edits, signals>>

\* The broker took the order and its answer was lost.
ManualBuyUnanswered(s) ==
  /\ pc = "buying" /\ s \in left
  /\ Fault
  /\ PlaceBuy(s, Lacking(s))
  /\ LeaveReconcile
  /\ UNCHANGED <<device, reading, blending, submitting, told, edits, signals>>

-----------------------------------------------------------------------------
\* run_cycle.

ReadAccountAndLocks ==
  /\ pc = "account"
  /\ account' = Equity
  /\ lockSnap' = DOMAIN locks
  /\ pc' = "positions"
  /\ UNCHANGED <<device, broker, seen, reconciling, unseen, blending, submitting,
                 told, counters>>

ReadPositions ==
  /\ pc = "positions"
  /\ seen' = pos
  /\ unseen' = SumFunction(buying)
  /\ todo' = active
  /\ pc' = "bots"
  /\ UNCHANGED <<device, broker, reconciling, account, lockSnap, desired, submitting,
                 told, counters>>

\* What run_cycle leaves behind when it ends, however it ends.
ForgetCycle ==
  /\ pc' = "idle"
  /\ seen' = Nothing /\ list' = NoSymbols /\ left' = {} /\ open' = Nothing
  /\ account' = 0 /\ lockSnap' = {} /\ unseen' = 0
  /\ todo' = {} /\ desired' = NoSymbols
  /\ plan' = {} /\ recorded' = {} /\ taken' = {}

\* The loop around run_cycle turns an exception into a FATAL_ERROR event.
ReadFails ==
  /\ pc \in {"account", "positions"}
  /\ Fault
  /\ ForgetCycle
  /\ told' = [told EXCEPT !.fatal = TRUE]
  /\ UNCHANGED <<device, broker, edits, signals>>

LastKnown(b) == ExcludeLocked(alloc[b], lockSnap)

Contribute(b, w) ==
  /\ todo' = todo \ {b}
  /\ desired' = [c \in DOMAIN desired \cup {b} |-> IF c = b THEN w ELSE desired[c]]

\* The algorithm asks for w, or for locked symbols only.
BotRebalances(b, w) ==
  /\ pc = "bots" /\ b \in todo
  /\ signals < MaxSignals /\ signals' = signals + 1
  /\ LET safe == ExcludeLocked(w, lockSnap) IN
       IF safe = NoSymbols
         THEN Contribute(b, LastKnown(b)) /\ UNCHANGED alloc
         ELSE Contribute(b, safe) /\ alloc' = [alloc EXCEPT ![b] = safe]
  /\ UNCHANGED <<locks, active, broker, pc, seen, reconciling, reading, submitting,
                 told, edits, faults>>

\* HOLD, an empty target or an exception: the bot stands by its last portfolio.
BotStands(b) ==
  /\ pc = "bots" /\ b \in todo
  /\ Contribute(b, LastKnown(b))
  /\ UNCHANGED <<device, broker, pc, seen, reconciling, reading, submitting,
                 told, counters>>

Manageable == {s \in Symbols \ lockSnap : seen[s] > 0}

ManageableEquity ==
  LET rest == account - SumFunction(Restrict(seen, lockSnap)) IN
  IF rest > 0 THEN rest ELSE 0

PlanOrders ==
  /\ pc = "bots" /\ todo = {}
  /\ plan' = OrderPlan(CombinedTarget(desired, ManageableEquity),
                       Restrict(seen, Manageable), ManageableEquity)
  /\ pc' = "submit"
  /\ UNCHANGED <<device, broker, seen, reconciling, reading, blending, recorded,
                 taken, told, counters>>

\* Sells go first.
Due(o) == o \in plan /\ (o.side = "buy" => \A p \in plan : p.side = "buy")

Place(o) == IF o.side = "buy" THEN PlaceBuy(o.sym, o.amount) ELSE PlaceSell(o.sym, o.amount)
May(o) == IF o.side = "buy" THEN MayBuy(o.amount) ELSE MaySell(o.sym, o.amount)

Taken(o) ==
  /\ plan' = plan \ {o}
  /\ recorded' = recorded \cup {o.sym}
  /\ taken' = taken \cup {o.sym}

SubmitOrder(o) ==
  /\ pc = "submit" /\ Due(o)
  /\ Place(o)
  /\ Taken(o)
  /\ UNCHANGED <<device, pc, seen, reconciling, reading, blending, told, counters>>

AbandonPlan == pc' = "announce" /\ plan' = {} /\ told' = [told EXCEPT !.fatal = TRUE]

SubmitFails(o) ==
  /\ pc = "submit" /\ Due(o)
  /\ IF May(o) THEN Fault ELSE UNCHANGED faults
  /\ AbandonPlan
  /\ UNCHANGED <<device, broker, seen, reconciling, reading, blending, recorded, taken,
                 edits, signals>>

SubmitUnanswered(o) ==
  /\ pc = "submit" /\ Due(o)
  /\ Fault
  /\ Place(o)
  /\ taken' = taken \cup {o.sym}
  /\ AbandonPlan
  /\ UNCHANGED <<device, seen, reconciling, reading, blending, recorded, edits, signals>>

PlanSubmitted ==
  /\ pc = "submit" /\ plan = {}
  /\ pc' = "announce"
  /\ UNCHANGED <<device, broker, seen, reconciling, reading, blending, submitting,
                 told, counters>>

Announce ==
  /\ pc = "announce"
  /\ told' = [told EXCEPT !.trades = recorded]
  /\ ForgetCycle
  /\ UNCHANGED <<device, broker, counters>>

\* The process dies and systemd starts it again.
Crash ==
  /\ pc # "idle"
  /\ Fault
  /\ ForgetCycle
  /\ UNCHANGED <<device, broker, told, edits, signals>>

-----------------------------------------------------------------------------

Broker == \E s \in Symbols : FillBuy(s) \/ FillSell(s) \/ Lapse(s)

OwnerEdits ==
  \/ \E s \in Symbols, n \in LockTargets : AddHolding(s, n)
  \/ \E s \in Symbols : RemoveHolding(s)
  \/ \E b \in Bots : SwitchBot(b)

Reconcile ==
  \/ ReadHeld \/ ReadHeldFails
  \/ \E s \in left : ManualBuy(s) \/ ManualBuyFails(s) \/ ManualBuyUnanswered(s)

RunCycle ==
  \/ ReadAccountAndLocks \/ ReadPositions \/ ReadFails
  \/ \E b \in todo : BotStands(b) \/ \E w \in Signals[b] : BotRebalances(b, w)
  \/ PlanOrders
  \/ \E o \in plan : SubmitOrder(o) \/ SubmitFails(o) \/ SubmitUnanswered(o)
  \/ PlanSubmitted \/ Announce

Worker == BeginTick \/ Reconcile \/ RunCycle

Next == Worker \/ Crash \/ Broker \/ OwnerEdits

Spec == Init /\ [][Next]_vars

\* Cycles keep coming (six are scheduled on each trading day, and systemd
\* restarts the process), and a market order is filled in the end.
FairSpec ==
  /\ Spec
  /\ WF_vars(Worker)
  /\ \A s \in Symbols : WF_vars(FillBuy(s)) /\ WF_vars(FillSell(s))

-----------------------------------------------------------------------------
\* Types of everything but the amounts a plan computes, which the broker
\* tests, and the two sums account and unseen.
TypeOK ==
  /\ IsPortfolio(locks) /\ IsPortfolio(list)
  /\ active \subseteq Bots /\ todo \subseteq Bots
  /\ DOMAIN alloc = Bots /\ \A b \in Bots : IsPortfolio(alloc[b])
  /\ cash \in Int /\ pos \in [Symbols -> Nat] /\ seen \in [Symbols -> Nat]
  /\ buying \in [Symbols -> Nat] /\ selling \in [Symbols -> Nat]
  /\ \A s \in Symbols : selling[s] <= pos[s]
  /\ pc \in {"idle", "held", "buying", "account", "positions", "bots", "submit", "announce"}
  /\ left \subseteq DOMAIN list /\ open \in [Symbols -> Nat]
  /\ lockSnap \subseteq Symbols
  /\ DOMAIN desired \subseteq Bots /\ \A b \in DOMAIN desired : IsPortfolio(desired[b])
  /\ \A o \in plan : o.sym \in Symbols /\ o.side \in {"buy", "sell"}
  /\ recorded \subseteq Symbols /\ taken \subseteq Symbols
  /\ told \in [trades : SUBSET Symbols, fatal : BOOLEAN]
  /\ edits \in 0..MaxEdits /\ signals \in 0..MaxSignals /\ faults \in 0..MaxFaults

\* run_cycle never orders a symbol it read as locked, whatever the bots ask for
\* now or asked for before the lock; nothing but reconcile_manual_holdings
\* buys such a symbol, and nothing sells it.
OrdersAvoidLocks ==
  \A s \in Symbols :
    /\ selling'[s] > selling[s] => pc = "submit" /\ s \notin lockSnap
    /\ buying'[s] > buying[s] => \/ pc = "submit" /\ s \notin lockSnap
                                 \/ pc = "buying" /\ s \in DOMAIN list
LockedUntouched == [][OrdersAvoidLocks]_vars

\* "only ever buys up to target_qty": a purchase for a locked holding brings
\* what is held and ordered above the target read in the same tick by no more
\* than what was already on order when the positions were read.  get_positions
\* does not tell of open orders, so that much is bought twice.
BuysUpToTarget ==
  \A s \in Symbols :
    pc = "buying" /\ buying'[s] > buying[s] => pos[s] + buying'[s] <= list[s] + open[s]
ManualBuysStopAtTarget == [][BuysUpToTarget]_vars

\* Netting: the broker can fill every sell of the plan, so no bot's sell
\* collides with another's ("insufficient qty").
SellsFit ==
  pc = "submit" =>
    \A o \in plan : o.side = "sell" => o.amount <= pos[o.sym] - selling[o.sym]

PlanTotal(side) ==
  SumFunction([o \in {p \in plan : p.side = side} |-> o.amount])

Dust == (MinTrade - 1) * SumFunction([s \in Symbols |-> 1])

\* "so a same-cycle sell can fund a buy": the plan pays for itself, up to the
\* sells too small to submit and the manual buys that had not been filled
\* when the positions were read.
PlanPaysForItself ==
  pc = "submit" /\ ManageableEquity > 0 =>
    cash - SumFunction(buying) + SumFunction(selling)
      + PlanTotal("sell") - PlanTotal("buy") >= -(Dust + unseen)

\* A cycle that ends tells of every order the broker took, or of a failure.
TellsAtTheEnd ==
  pc = "announce" /\ pc' = "idle" /\ faults' = faults =>
    told'.trades \subseteq taken /\ (told'.trades = taken \/ told'.fatal)
NothingUntold == [][TellsAtTheEnd]_vars

\* What the device would order now if no bot had anything new to say.
Drift ==
  LET free == Symbols \ DOMAIN locks
      stored == [b \in active |-> ExcludeLocked(alloc[b], DOMAIN locks)]
      equity == cash + SumFunction(Restrict(pos, free))
  IN  OrderPlan(CombinedTarget(stored, equity),
                Restrict(pos, {s \in free : pos[s] > 0}), equity)

\* Once the owner and the bots are quiet and calls stop failing, the account
\* reaches the blend of the bots' stored portfolios and stays there.
Converges == <>[](Drift = {} /\ Pending = {})

\* Every locked holding is eventually held in full.
HoldingsAcquired == <>[](\A s \in DOMAIN locks : pos[s] >= locks[s])

=============================================================================
