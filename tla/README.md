# MonstraPro Box in TLA+

A MonstraPro Box is a small computer that trades its owner's Alpaca account.
Five programs run on it under systemd and share one SQLite database: the
trading worker, the display, the Wi-Fi agent, the local portfolio page and the
updater. This directory specifies the parts of it whose behaviour depends on
the order in which things happen and on what fails in between, model-checks
them with TLC on small instances and proves the most important results with
TLAPS for every instance.

Paths below are relative to the repository. `loop.py`, `rebalance.py`,
`manual_holdings.py`, `main.py`, `activation.py`, ... without a directory are
those of `services/trading_worker/src/trading_worker/`.

## Inventory

| component | state it keeps | operations | what makes it hard |
|---|---|---|---|
| trading cycle (`loop.py`, `rebalance.py`, `manual_holdings.py`) | `portfolio_allocation`, `manual_holding`, `strategy_config`, the broker's books | reconcile locked holdings, read account and positions, run bots, net, plan, submit, announce | the owner edits and the broker fills between any two calls; a call fails before or after it took effect; the process dies |
| release updater (`services/updater`) | `releases/`, the `current` symlink, `software_release` | verify, extract, swap, activate, restart, check, prune, roll back | a run is killed anywhere; services die and are restarted by systemd; the server repeats offers |
| strategy selection (`bot_selection_sync.py`, updater `strategy_sync.py`, portfolio page) | `strategy_config` | mirror the website's selection, merge pushed parameters, switch a bot locally | three processes write whole rows they read earlier |
| worker session (`main.py`, `activation.py`, `alpaca_sync.py`, `run_request.py`) | `device` row, broker credentials, `last_cycle_at` | register, poll, recheck, deactivate, fetch credentials, schedule, run now, acknowledge | answers are lost; the owner disconnects at any time; restarts forget the schedule |
| display screen (`services/display`) | `device_event` queue, the state machine in memory | poll, advance, mark consumed, render | events of several publishers interleave; a restart loses the screen that consumed events led to |
| draco (`packages/strategy_engine`) | `bot_state`: positions, cooldowns, regime, breaker | one run per cycle | several runs a day over day-based counters; failed downloads; state and allocation saved apart |
| force (`alpha1.py`) | none | rank, choose, weigh, defend the incumbents | a comparator with margins that is not transitive |
| aptet (`aptet.py`) | none: its state is replayed from the download | replay, search its parameters, choose | decisions of the past must not see the future |
| market data provider (`market_data/provider.py`) | cached settings | fetch pages, assemble a frame | pages come while the market moves; holes |
| portfolio page (`services/portfolio_web`) | sessions in memory; writes `manual_holding` and `strategy_config` | log in, add and remove holdings, switch bots | threaded server, a second process on the database |
| Wi-Fi onboarding (`services/device_agent`) | access point, submission queue | start, poll, connect | its screen competes with the worker's events |
| cycle audit (`audit.py`) | reads the ledgers | cluster orders, replay, compare | guesses which rows belong to one cycle |
| rendering, image scripts, database plumbing | caches, files | input, output | little ordering of their own |

How they interact: every program writes its part of the database in short
transactions (`Database.session`, one per repository call) and tells the
display through `device_event`. The worker calls Alpaca and monstra.pro. The
updater replaces the code of all of them and restarts the worker and the
display. The portfolio page is a second process that edits what the worker
reads.

What makes each part correct:

- *trading cycle*: locked symbols are left alone; locked holdings are bought up
  to their target and not beyond; a plan's sells can all be filled and pay for
  its buys; what the broker took is reported; the account reaches what the bots
  ask for.
- *updater*: only trusted code is stored or run; there is always a release to
  go back to; symlink, ledger and running services agree; a failed release is
  not tried again; a sound one is applied.
- *strategy selection*: what the owner set locally is never overwritten; a bot
  removed on the website stops; a bot that runs has its engine and weight.
- *worker session*: no cycle after a disconnect the device was told of; one
  cycle per scheduled time; every run-now request is followed by a cycle; the
  account traded is the paired owner's.
- *display and Wi-Fi onboarding*: no event is consumed unseen; the screen says
  what the device waits for, and stops saying it when the wait is over.
- *draco*: confirmation and breaker count trading dates and not runs, cooldowns
  and the weekly scan go by the calendar; what the bot believes to hold is what
  is allocated, less what the owner locked.
- *force and aptet*: an incumbent is displaced only by a clear margin; as many
  names are held as are asked for; a change of parameters rests; the replayed
  past is settled.
- *cycle audit*: no order is outside every listed cycle, and a cycle that no
  other followed within the window is listed by its last order; a whole plan is
  told from a broken one; no bot raises a false alarm but one that stored no
  row and a stateful one taken for new.

## Modules

| module | models | code it stands for |
|---|---|---|
| `Rebalance` | the arithmetic: `exclude_locked_symbols`, the blend at the end of `run_cycle`, `compute_order_plan` | `rebalance.py`, `loop.py` 233-254 |
| `TradingCycle` | one tick of the worker with the broker, the owner and failures; EXTENDS `Rebalance` | `loop.py`, `manual_holdings.py`, `main.py` 377-391 |
| `ReleaseSlot` | abstract: one release in place, one kept to fall back on | |
| `Updater` | the updater's run, the services, systemd, the server; implements `ReleaseSlot` | `services/updater`, `software_release.py`, unit files |
| `Session` | the worker around its cycles: activation, credentials, schedule, run-now requests, restarts | `main.py`, `activation.py`, `alpaca_sync.py`, `run_request.py`, `repositories/device.py` |
| `StrategySync` | the three writers of `strategy_config` | `bot_selection_sync.py`, updater `strategy_sync.py`, `repositories/strategy_config.py`, `portfolio_web/server.py` |
| `DracoMath`, `Draco` | the draco bot: what it reads off regression lines; its state across runs, days, failures and edits | `draco_math.py`, `draco.py`, `loop.py` 90-170 |
| `Ordering` | Python's `sorted`, by a key and by a comparison, and picking places of a list | the interpreter's, as `alpha1.py` and `aptet.py` use it |
| `MarketData` | the provider's choice, a download, the frame made of it, trailing returns; EXTENDS `Ordering` | `market_data/provider.py` |
| `Force`, `Aptet` | the two stateless bots as operators; EXTEND `MarketData` | `alpha1.py`, `aptet.py` |
| `Signals` | both bots in the worker's cycle, downloads under way while the market moves; EXTENDS `Force`, `Aptet` | their callers in `loop.py` |
| `Audit` | the audit over tables that a simplified worker writes; EXTENDS `Rebalance` | `audit.py`, the `as_of` queries of the repositories |
| `StateMachine`, `Screen` | the display's state machine; the event queue with its publishers, the display process and the Wi-Fi agent | `display/state.py`, `display/main.py`, `repositories/device_event.py`, `services/device_agent` |

`MC` modules (`MCTradingCycle`, `MCUpdater`, `MCSession`, `MCStrategySync`,
`MCDraco`, `MCSignals`, `MCAudit`, `MCScreen`) hold the values of the instances
TLC checks; `_proofs` modules hold the theorems, each about the modules it is
named after. `UpdaterSync_proofs` is about both jobs of the updater service, its
releases and the rows it pushes; `SessionAudit_proofs` about the worker's session
and the audit of the cycles that session runs. So that such pairs can be extended
together, `StrategySync` and `Audit` prefix the names every specification has
(`SyncInit`, `SyncNext`, `SyncSpec`, `AuditInit`, `AuditTypeOK`, ...). `FoldLemmas`
holds lemmas about folds, sorting and sums, `RebalanceLemmas` those about the
arithmetic of a plan, which the proofs of `TradingCycle` and of `Audit` share.

### TradingCycle and Rebalance

A Python dict from symbols is a function whose domain is the dict's keys. Money
is whole units and a share costs one unit, so that a quantity is its value.
`Weight` is `equity_weight`; a portfolio is kept as whole positive weights and
its shares are the weights over their sum, so `ExcludeLocked` is a restriction
of the domain and the renormalisation of the code is implicit in the division
of `TargetDollars`.

The worker's `pc` names its next call: `idle`, `held` and `buying` are
`reconcile_manual_holdings`; `account`, `positions`, `bots`, `submit`,
`announce` are `run_cycle`. Each step makes one call to Alpaca or to the
database and what follows it up to the next one. `list` is what `list_all`
returned, `seen` the positions last read, `lockSnap` the `locked_symbols` of
this cycle, `desired` the contributions, `plan` the orders still to be
submitted, `recorded` the orders for which the broker's answer came back. The
variables `taken` and `unseen` are observations and guide no step.

| action | code |
|---|---|
| `BeginTick`, `ReadHeld`, `ManualBuy`, `LeaveReconcile` | `manual_holdings.py` 33-61, and the `except` of `main.py` 378-381 |
| `ReadAccountAndLocks`, `ReadPositions` | `loop.py` 187-201 |
| `BotRebalances` | `_run_one_bot` answered REBALANCE; `portfolio_allocation` is written when something unlocked is left |
| `BotStands` | HOLD, an empty target, or an exception: the last stored allocation, excluded again |
| `PlanOrders` | `loop.py` 233-254 and `compute_order_plan` |
| `SubmitOrder`, `SubmitFails`, `SubmitUnanswered` | the submission loop, 257-277: taken and answered; not taken; taken and unanswered |
| `Announce` | 279-284 |
| `Crash` | the process dies, systemd starts it again |
| `AddHolding`, `RemoveHolding`, `SwitchBot` | the portfolio page's POST handlers |
| `FillBuy`, `FillSell`, `Lapse`, `MayBuy`, `MaySell` | Alpaca (external) |

The order of manual buys, and of the buys among themselves, is fixed by the
code (sorted by symbol); the model allows any order.

### Updater and ReleaseSlot

`pc` names the run's next call. `disk`, `current` and `status` are the release
directories, the symlink and the ledger; `running` and `up` say from which
release each service was started and whether it is alive; `firstboot` is
whether systemd regards `monstrapro-firstboot.service` as active. `Publish`,
`ServiceDies` and `RunDies` are the environment; `ServiceReturns` is
`Restart=on-failure` and starts a service from whatever `current` points at.
`clean` is an observation: no run was interrupted since one last came to its
end.

`ReleaseSlot` is what the updater is for, in three variables: the stored
releases, the one in place, and the fallback. `KeepsPromises` reads the
fallback off the run: from the swap to the end of the health check, or of the
rollback, it is `previous_version`; otherwise it is the release in place.

### Session

Registrations are numbered: n stands for the n-th bearer token and for the
pairing code issued with it. `paired`, `connected`, `issued`, `good`, `live` and
`asked` are monstra.pro's; `activated`, `token`, `code`, `expired`, `creds`,
`bots` and `shown` are in the device's database (`shown` is the code of the last
`awaiting_activation` event); `market`, `last`, `now`, `open` and `run` are in
the worker's memory and lost with it. A step is one HTTP call with what the code
does with the answer, or one local write.

| action | code |
|---|---|
| `Register`, `RegisterFails`, `Poll`, `Activate`, `PublishAwaiting` | `_wait_for_activation` and `HTTPActivationClient.check_status` of a device not activated |
| `BeginTrading` | `_configure_market_data` and the first lines of `_run_trading_loop` |
| `Recheck`, `RecheckFails` | `_recheck_activated`, `deactivate` included |
| `HasCredentials`, `FetchCredentials`, `NoCredentials` | `_build_alpaca_client`, `sync_alpaca_credentials_if_missing` |
| `SyncBots` | whose selection is mirrored; how is `StrategySync` |
| `ReadMarket`, `CheckRequest` | `is_market_open`, the due time, `check_run_requested`, the discard |
| `BeginCycle`, `EndCycle`, `Acknowledge` | `run_cycle` (which is `TradingCycle`), `last_cycle_at`, `ack_run_request` |
| `Crash`, `Restart` | the process dies, also by an exception of `is_market_open`, which nothing catches; systemd |
| `Pair`, `Connect`, `Disconnect`, `RunNow` | the owner at monstra.pro (external) |
| `CodeExpires`, `ClockMoves` | time |

The clock is in minutes and moves from one mark of the day to the next: midnight,
the opening, the scheduled times, the close. It moves while the worker is off, or
when it has ended two rounds (polls or ticks) since it last moved; a round is a
minute and the marks are further apart than that. A disconnect burns the code and
the pending request, and revokes the token or leaves it valid: the client handles
both answers. `rounds` and `excused` are observations.

### StrategySync

`rows` is the table, `site` the selection on the website. A row's settings are
`bot_type` and `equity_weight`, as a revision number; parameters and names are
left out, since none of the three writers decides anything by them. The worker's
locals are `answer`, `todo`, `inHand`, `selected`, `listed`; the updater's
`pushing`, `merging`, `existing`; the page's `switching`, `ticked`. The reads
and the whole-row `upsert`s are steps of their own, because each is a
transaction of its own. `chosen`, `raced` and `merged` are observations. The
order in which a writer takes the bots is fixed by the code (the answer's, the
manifest's, the registry's) and arbitrary in the model; one form is handled at a
time.

### DracoMath and Draco

Prices are logarithms, as in the regression, so a line is straight and a
relative change is a difference. The least-squares fit is not modelled: `IsLine`
says what its results are like, and the environment chooses charts that satisfy
it. From there on the entry score, the target lines, the ranking and the exits
are those of the code.

| action | code |
|---|---|
| `Trade`, `Liquidate`, `NoData` | the three ends of `run_draco`, with `bot_states.save` |
| `Allocate` | `exclude_locked_symbols`, the guard on what is left, and `allocations.replace`, a transaction of its own |
| `Die` | the worker is killed between the two |
| `NextDay`, `EditUniverse`, `EditLock` | a trading session; `params_json` edited; `manual_holding` edited |

Whether the equity history shows a drawdown and on which side of its average
the market is are choices of the environment. `saved` is `bot_state`; `locked` is
what `run_cycle` read of the owner's `locks` before the bot ran. A day is the
number of a trading date, which is what holding periods count; `Date` is its
calendar day, which is what cooldowns and ISO weeks count. The
variables of `observed` and `outcome` guide no step.

### MarketData, Force, Aptet and Signals

A frame of prices is a sequence of rows, a row a function from tickers, 0 a
hole; returns are whole percents, rounded down. `sorted()` is modelled as the
interpreter does it on short lists (`PythonSorted` of `Ordering`: a run, then
binary insertion), because the order it is given is not transitive and its result
depends on the algorithm. In `Aptet` three numeric judgements are parameters of
the module: the score of a name within a window, whether two names are too
correlated, and the score of a simulated path; what the bot does with them is
the code's. `Signals` runs the two in the worker's order; a download is one step
(yfinance) or a page at a time (alpaca), and days and intraday moves come in
between.

### Audit

The audit only reads, so its verdicts are state functions (`Listed`,
`ExecutionVerdict`, `AlgorithmVerdict`) of the tables. Beside it a simplified
worker writes these tables. `Pass` is a pass of its loop, `Heartbeat` the snapshots
it begins with, `Due` what makes a cycle run: a scheduled time since the last cycle
of this process, any past one after a restart (`lastCycle` is `NotYet`, `main.py`
325), or a request of the owner (`wanted`), which outlives a cycle when its
acknowledgement is lost. So cycles may follow each other as closely as the
loop comes round; nothing keeps them further apart than the audit's window.

`RunBots` is what of a cycle reaches the tables before its plan. `got` says how far
each active bot gets (`Outcomes`): nothing, its signal, its state, or all, by the
order of `_run_one_bot`. A bot that raises leaves the rest of the cycle alone
and counts with its last allocation (`loop.py` 220-229); nothing else of the code
after the save can fail without being of that kind. `RunCycle` goes on to the plan,
`Rebalance`'s, the one `TradingCycle` uses; `CycleBreaks` does not, because `run_cycle`
raised or the worker died: then `got` says which rows were written. `SubmitOrder`
sends one order at a time, while clock and market move; `PlanBreaks` drops the rest, by
a refusal or a death, and the broker may have filled an order that has no row.

`cycles` is an observation: what each cycle saw, which bots answered, and whether
its plan was sent whole. `minute` is the clock; a unit of it is no longer than a pass
of the loop. What a bot's algorithm answers is a parameter, `Answer`, of the bars and
of the state it enters the cycle with; `NextState` is the state it returns, one of
`States`. `AlgorithmAssumption` says only that answers are portfolios and states are
states. The owner's edits the audit reads as of today are locks (`EditLock`) and
active bots (`SwitchBot`); an edit of a bot's parameters changes its answers and is
a step of `bars`. Edits of `equity_weight` are left out: what they do to a verdict
is what `SwitchBot` does. The market is open throughout, and the broker's equity
is its books.

### StateMachine and Screen

`StateMachine` is `advance` as a fold over the polled events. A time "until" is
kept as what is left of it. In `Screen` the display (`StartDisplay`, `Poll`,
`Mark`, `Render`), the agent (`StartAgent` to `StopHotspot`) and the worker
(`AwaitActivation` to `HearDisconnected`) write and read the queue; `Update` and
`Trade` stand for whatever else is published. `DisplayDies`, `AgentDies`,
`Reboot` and `JoinTimesOut` are the faults: whatever was in memory is gone, the
consumed rows too. The hotspot survives a killed agent, as NetworkManager's
connection does. The worker is that of `Session`, reduced to what it publishes.

## Runs

| run | what it shows |
|---|---|
| `trading_cycle` | locks, netting, funding, reporting and convergence over ticks with a lost call or a crash |
| `updater` | services, second tries, sound offers, and the refinement of `ReleaseSlot`, over two killed runs or power cuts |
| `updates_after_reboot` (violation) | after a reboot the updater never runs |
| `session` | consent, pairing, schedule and requests over a day of trading with one fault |
| `former_owners_account` (violation) | a device paired with another owner trades the first owner's account |
| `strategy_rows` | three writers of two rows in every interleaving |
| `draco` | four trading dates with any number of runs each, 175 496 states |
| `draco_overstays` (violation) | a held ticker taken out of the universe is never sold |
| `signals` | both bots over downloads, days and settings, 63 216 states |
| `audit` | the audit asked at every moment of cycles that follow each other at once or later, 247 574 states |
| `screen` | publishers, display and agent with kills and power cuts, 384 521 states |
| `setup_screen_lost` (violation) | the Wi-Fi setup screen is replaced while the agent waits |

### Properties of TradingCycle

- `LockedUntouched`: the plan never names a symbol read as locked. It takes a
  bot that rebalanced before the lock and holds afterwards to violate it.
- `SellsFit`: at every moment of the submission, with fills arriving, the
  broker can fill every sell that is left; two bots with the same symbol never
  ask for more than is held.
- `PlanPaysForItself`: sells, cash and open orders cover the buys, up to the
  sells below the minimum trade and the manual buys in flight when the positions
  were read. The bound is what the code achieves, not zero.
- `NothingUntold`: a cycle that ends has announced all the orders the broker
  took, or has published FATAL_ERROR.
- `Converges` and `HoldingsAcquired`: when owner, bots and failures are done,
  the account stays at the blend of the stored portfolios, and locked holdings
  are held in full.
- `ManualBuysStopAtTarget`, proved only, with and without `PromptFills`: a
  manual buy brings position and open orders above the target by no more than
  what was on order when the positions were read, which `get_positions` does not
  tell (`manual_holdings.py` 43). A shortfall still open at the next tick is
  bought again; one that is not, never.

### Properties of Updater

- `ServicesRunCurrent`: between uninterrupted runs every service runs the
  release the symlink points at. One exception, which the run reaches: nothing
  under `src/` writes a ledger row for the release a device comes with, so the
  rollback to it is not recorded and the services are not restarted. Then a
  service may run the release the ledger still calls active, and no other.
- `NoSecondTry`: a version that failed is not switched to again, although the
  server goes on offering it, whether the ledger calls it rolled back or, after
  a rollback that could not be recorded, still active.
- `SoundOfferApplied`: on the first boot, a sound offer that is not on disk yet
  is applied, unless the server replaces it or the run is interrupted, and
  whatever was interrupted before.
- `KeepsPromises`: the updater implements `ReleaseSlot`.
- `OneActive`, `OnlyTrustedCode`, `RollbackPossible`, proved only.

### Properties of Session

- `ConsentBounded`: after a disconnect the device runs at most the cycle it had
  decided on, and one more for every recheck that got no answer.
- `StoppedBeforePaired`: no one is paired with the device while it still acts as
  activated for the owner who left.
- `SlotServed`: while the worker keeps running no scheduled time of an open
  market passes without a cycle at or after it.
- `PairingHeeded`, `RequestEnds`: a pairing and a request made at monstra.pro
  are noticed in the end, although answers are lost, codes expire and the worker
  restarts.
- `MarketDataFollows`, proved only: market data comes from the credentials
  traded with.

### Properties of StrategySync

- `OnlyChosenBots`: no push, drop or late write activates a bot the owner never
  chose.
- `LocalOnlyRaced`: a row of the page is lost only to a process that had read it
  before the page wrote it.
- `FollowsWebsite`: when the owner leaves the selection alone, the rows become
  and stay the selection.
- `MirrorsAnswer`, proved only: after a successful sync the active mirrored rows
  are the selection it was answered, but for rows the updater wrote since.

### Properties of Draco

- `BreakerCountsDates`: while the breaker is active nothing is held, and its
  pause is the full one less the trading dates processed since it tripped.
- `AllocationCurrent`: after a run the allocation is what the state holds less
  what was locked when the cycle began, or the fallback if nothing is held. A
  failed download is in the property as what it is: the fallback, although the
  positions are kept. An earlier allocation stands when all that is wanted is
  locked, or when the worker died between the two transactions, until the next
  run.
- `ReentryWaits`: a ticker that left in a date's first run stays out for the
  cooldown, in days of the calendar. One that left in a later run or in a
  liquidation has no cooldown, but stays out until a later date: only a date's
  first run enters.
- `OneScanPerWeek`: liquidations and failures open no second scan in a week.
- `RegimeConfirmed`, proved only: the regime turns only after the confirming
  dates.

### Properties of Signals

- `FirstHeldStays`: the incumbent of the first rank is displaced only by a rival
  that clears its margin. For lower ranks this does not hold, the comparator
  being intransitive.
- `HoldsAsAsked`: Aptet holds as many names as its parameters ask for, or all
  that can be ranked, however correlated the best are.
- `ParametersRest`: a change of parameters rests for the review period and moves
  the number of holdings by one at most.
- `NoLookahead`: what was replayed from a shorter download is replayed alike
  from a longer one.

### Properties of Audit

- `CyclesListed`: a cycle that ordered is listed by its last order unless another
  cycle's orders followed within the window, and by no other of its orders if they
  lie within the window of the last. Every order lies in the window of a listed
  time, so none is lost.
- `AuditTellsTruth`: where the tables still say what the cycle saw (locks, active
  bots, positions) and the window around its last order holds its orders and no
  others, the verdict is "match" exactly for a plan submitted whole, whichever bots
  failed in the cycle.
- `NoFalseAlarm`: on unchanged bars an active bot is reported to differ only by a row
  of an earlier cycle, in two cases: it stored no signal in this cycle, because it
  failed before that or was not active; or it is stateful, entered the cycle with a
  state, is taken for new and answered what it had answered before. No stateless bot
  that answered is, nor one that died between its signal and its state.

### Properties of Screen

- `NothingUnseen`: a row leaves the queue only after a state machine was advanced
  over it.
- `PairingScreenFollows`: while no activation is known the pairing screen comes
  back again and again; when the worker trades for good it is gone for good.
- `SetupScreenEnds`: after the announcement that the Wi-Fi was joined the setup
  screen ends.

### Bounds, and why they are enough

`TradingCycle.cfg`: three symbols (one only one bot wants, one both can hold or
want, one held from the start), two bots of different weight with two
portfolios each, two owner edits, two rebalances, one failure. A violation of
the properties needs at most a lock, a rebalance before it, a hold after it, and
one failure; two bots are enough to collide on a symbol. Minimum trade 2 makes
dust possible. `Margin` 7 lets the broker take every order the properties are
about. The counters `edits`, `signals` and `faults` bound only the environment.

`Updater.cfg`: six versions: the installed one, four that can be applied, one
of them broken, one forged. Two releases are kept, so that pruning happens
while a rollback may be needed (the code keeps three). Two interruptions cover a
killed run after a killed run, or after a power cut. `UpdaterReboot.cfg` has one.

`Session.cfg`: one owner, half a trading day with two scheduled cycles (the
regular minute and the one before the close), one disconnect, one request, one
live code that expires, one fault; enough for two registrations, two pairings
and a cycle in hand at the disconnect. `SessionOwners.cfg` has two owners.

`StrategySync.cfg`: a bot that page and website offer and one only the website
has, two settings, two changes of the selection, two forms, one manifest, one
fault. A row is lost with one form and one sync; two of each let a race be
followed by a repair.

`Draco.cfg`: two tickers for two positions of which one is filled per scan, three
charts (two kinds of candidate, collapsed) on two timeframes, four dates
(Wednesday to Friday and the next Monday), a confirmation and a pause of two
dates: each counter starts, runs out and starts again, with any number of runs
in a date. The cooldown is four calendar days, so that one that starts on
Thursday is over on Monday, two trading dates before it would be by counting
trading dates, and one that starts on Friday is not. One edit, of the universe or of the
lock on a ticker, and one fault. `DracoOverstay.cfg` has the same values but for
downloads, which never lack a ticker, so that only the edit can cause the
violation.

`Signals.cfg`: three stocks and a fund, three kinds of rows (level, apart, with
a hole) over two histories of seven rows to which one is added; look-backs of
two and three rows and a review after two, so that the replay reviews several
times. Two settings of each bot, a sound one and one out of range. One intraday
move and one failed download.

`Audit.cfg`: scheduled times 0 and 2 on a clock of 0 to 2, a correlation window of
one unit. Within two events (a failing bot, a broken cycle or plan, a restart, a
request, a drift, moved bars, an edited lock, a switched bot) cycles run a unit
apart, which the window merges, and further apart, which it keeps apart; the
orders of a cycle may be spread over the whole clock, wider than the window. One
stateless and one stateful bot, two symbols. The stateful bot settles on one answer,
whatever its first was, so that its second cycle may store no row.

`Screen.cfg`: a list limit of one, a queue of two, so that a poll leaves rows
behind; one fault, one other event, two passwords.

### Fairness

`TradingCycle`: weak fairness of the worker as a whole (the loop comes round
every minute, the schedule names six times a day, systemd restarts a dead
process) and of the broker's fills of market orders. Nothing is assumed of the
owner, the bots or the failures; bots may hold for ever.
`Updater`: the timer fires every hour, a started run goes on, systemd restarts
failed services. Nothing is assumed of the server.
`Session`: the worker goes on (its loop, and systemd) and codes expire. Nothing is
assumed of the clock or the owners; faults are bounded.
`StrategySync`: the worker's loop comes round; the updater and the page may stop
in the middle of their writes.
`Screen`: display, agent and worker each go on, since systemd keeps them running,
and time passes. Nothing is assumed of the customer, the website or the updater.
`Draco`, `Signals` and `Audit` state safety only.

CHECK_DEADLOCK is off for the updater, where nothing is left to do once the
newest release runs and nothing fails, and for the audit, whose clock is bounded.

## Proofs

Every safety property the passing runs check is proved for every value of the
constants. The assumptions are the ASSUMEs of the modules, which TLC evaluates on
every run, and what a theorem states itself.

`FoldLemmas` is the library underneath. The induction theorems that come with the
prover take a predicate as a parameter, which the backends cannot instantiate;
here induction over finite sets and over 0..n is stated of a set (`every number
is in it`), and a proof names the set of cases that are right. From it follow
what `SumFunction` adds up to (splitting, swapping and bounding sums), that a
`FoldLeft` is the last of a chain of values, one an element, what `InOrder` lists,
and what `PythonSorted` returns whatever the comparison is: each element it was
given, and first the one that compares as less than every other, though the
comparison of the others be no order. Binary search ends at a place within the
list, insertion keeps what is there, and that element never gives way.

`RebalanceLemmas` (for every set of symbols and bots and all weights): taking
symbols out of a portfolio leaves a portfolio without them, a plan is finite,
orders a symbol once and sells no more than is held. `TargetsWithinEquity`: the
blend's targets add up to no more than the equity they divide, however many bots
share a symbol, after normalising twice and rounding down. The double sum over
bots and symbols is swapped, and each bot gets at most its weight's part.

`TradingCycle_proofs` (for every set of symbols and bots, all weights, signals
and bounds that satisfy the ASSUMEs of the modules):

- `TypeCorrect`, `LocksHonoured`, `EndsTold` and `NoOverbuying`. The first lemma is `Spec => []Inv`, where `Inv` adds three facts
  to `TypeOK`: holdings are left to buy only in `buying` (`NothingLeft`);
  nothing is desired before the bots run and planned only during the
  submission, and neither a contribution nor an order names a symbol of
  `lockSnap` (`PlanAvoidsLocks`), because `LastKnown` excludes again; what is
  recorded was taken, during the submission all that was taken is recorded, and
  at the announcement that holds or `fatal` is set (`Reported`). None of the
  properties is inductive alone: an order's symbol is safe because the
  contribution it was computed from was.
- `NoOverbuying` needs a further invariant, `NothingMoreOpen`: while holdings are
  reconciled, position and open purchases of a holding still to be looked at add
  up to no more than the position read and the purchases open then, because
  fills keep the sum and sells lower it.
- `PlanAffordable` (`PlanPaysForItself`) builds on `TargetsWithinEquity`.
  `PlanSized` says a plan is finite and orders a symbol once; `BooksRead` that
  what the worker read is still covered when it plans: cash and open orders are
  worth the equity read less the positions read, up to the purchases not seen
  among these.
- `NoSellCollides` (`SellsFit`), from `SellsSettled`: until the plan is made nothing
  is being sold and what was read as held is held. It assumes `PromptFills`: a
  sell still open at the next cycle would be planned again.

`UpdaterSync_proofs`, of `Updater` (for every set of versions and services):

- `TypeCorrect`, `OneActiveAlways`, `TrustedAlways` need no assumption on the
  server. `TrustInv` says of the candidate what `OnlyTrustedCode` says of the
  disk, from the moment its signature is checked.
- `RollbackAlwaysPossible` and `PromisesKept` assume `~Retracts`: the server
  only ever offers newer releases. The invariant is `UndoInv`: from its
  extraction on the candidate is newer than everything else on disk, the release
  in place and the fallback are on disk. Pruning keeps the newest `Keep >= 1`
  (`NewestKept`) and comes after a healthy update only, when the release in
  place is the newest; without the assumption it can remove the release in
  place.
- `PromisesKept` is the refinement of `ReleaseSlot`, step by step.
- `FailedOnce`, under the same assumption, from `TriedInv`: an active row is of a
  release on disk, and a version that failed is neither in place nor the one to
  go back to, and is still on disk or older than both; a candidate is not active,
  since it is newer than the active row.
- `CurrentIsRun`, from `PlaceInv` and `RestartedInv`. `PlaceInv` says that a
  release in place without a row is still on disk (so that it cannot be the
  candidate, which would give it one), and that from the activation on the
  candidate is active; `RestartedInv` says which services already run the
  release in place at each step, and that when the rollback is to be recorded
  the others run the candidate.

Of `StrategySync` (for all bots and bounds): `SyncTypeCorrect`, `OnlyChosenBotsRun`,
`SyncMirrors` and `LocalRowsLostOnlyInRaces`. `WhoWrites`
says which four steps write a row and what; `ChosenInv` extends the claim to
what the processes hold; `MirrorInv` says that mirrored bots stay as answered
and that every other active mirrored row is on the list to drop; `RacedInv`
that a held row which is local was switched in between.

`SessionAudit_proofs`, of `Session` (for all owners, trading hours, days and
bounds): `TypeCorrect`, and

- `ConsentRespected`, from `ConsentInv`: a tick that has passed its recheck may
  still run a cycle, so while such a tick is under way one is in hand.
- `MarketDataAlwaysFollows`, from `MarketInv`: past the credentials of a tick
  market data is configured with them, between ticks if there are any.
- `NeverPairedWhileActing`, from `PairingInv`: a device activated or about to be,
  but not paired, has no live code. It holds because the device asks for a new
  code only when it is not activated.
- `EverySlotServed`, from `SlotInv`: a tick begun after the clock moved reads the
  present time and market, and after a whole tick in an open market all due
  times have had their cycle.

Of `Audit` (for all symbols, bots, weights, algorithms, windows, schedules and bounds
that satisfy the ASSUMEs): `RowsTypeCorrect`, `AllCyclesListed`, `VerdictIsTrue` and
`AlarmsAreTrue`, the four invariants of its run, from one inductive invariant
(`TablesKeepCycles`). It has five parts, because a verdict is computed from rows
written long before it is asked for:

- `AuditTyped`, which says what `AuditTypeOK` says, in the form of sets of
  functions and sequences; `RowsPast`: no row is later than the clock.
- `Timed`: a cycle starts after the one before, orders are in the order of their
  times, each is of a cycle, a cycle with orders left is the last one, and every
  signal is of the time of a cycle. Nothing is said of how far apart cycles lie.
  `AllCyclesListed` follows from `ClustersSpaced`, an invariant of the fold over the
  reversed times: those it keeps lie apart by more than the window, and every time
  seen is in the window of one kept. So a last order that no other order has in
  its window can only be kept itself.
- `Covered`: a plan orders a symbol once and sells what is held, so that no
  position becomes negative while the orders of a plan are filled one by one.
- `Kept`, about each cycle that planned something. `Quiet`: between a cycle's start
  and its last order no account, allocation or signal is written, so that what
  `as_of` finds at the time the audit knows the cycle by is what the cycle wrote.
  `Divided`: the plan that follows from these rows is divided into what was sent
  and what is left; it is all there while the cycle counts as whole, and something
  is missing once the plan was broken off. `VerdictIsTrue` compares that plan with
  the orders in the window. `Replayable`: the newest signal as of a cycle is the
  bot's answer on the cycle's bars in the state it entered with, or an older one if
  it did not answer, and a state other than none comes with a signal of an earlier
  cycle. So the only wrong replays are those of a bot without a row of its own in
  the cycle and of a stateful bot with one row, which is an earlier cycle's.

`Draco_proofs` (for all tickers, charts, settings and bounds that satisfy the
ASSUMEs):

- `TypeCorrect`, from `ShapeInv`: an active breaker has something left of its pause,
  every position is of a known ticker, and no streak is longer than the dates
  processed.
- `BreakerCounts`, from `DatesInv` (the dates processed are those up to the last
  one, which is not after today) and `BreakerInv`, which adds that an active
  breaker has something left: the set of dates counted grows by one exactly when
  the pause shrinks by one, and by none in a second run of a date.
- `AllocationFollows`, from `TargetInv` (between the two transactions the target is
  what the run asked for), assumes that the bot holds the fallback when empty;
  without it the HOLD that is answered never reaches the allocation. Nothing is
  assumed about downloads and locks.
- `ReentryAlwaysWaits`, from `CooldownInv`: either the cooldown of the last exit
  is still stored or it was over on the last date processed; runs that skip the
  cooldowns keep them. All it needs of the calendar is that it goes on with the
  trading dates (`CalendarAssumption`).
- `OneScanAWeek`, which assumes weekly scans, from `WeekInv`: the week of the last
  entry is not after the week last scanned.
- `RegimeAlwaysConfirmed`, from `RegimeInv`: the pending count never exceeds the
  observed streak of that side.

`Screen_proofs` (for any list limit and bounds): `NothingLostUnseen`, from
`MarkInv`: what the display has still to mark is at the head of the queue and
seen. Publishers append and so keep the head; a death forgets what was to be
marked. `TypeCorrect` says in particular that the state machine stays one
through the fold over whatever events a poll returned.

`Signals_proofs` (for all tickers, rows, downloads, settings, whatever the
correlations and the scores of simulated paths are):

- `FirstHeldFirst` (`FirstHeldStays`). The comparator is not transitive, so nothing
  is said of the order as a whole. But the incumbent that no rival beats by the
  margin compares as less than each of them, and so the lemma about
  `PythonSorted` puts it first.
- `DownloadCorrect`: `DownloadInv` says that the market and what was fetched or read
  are rows of whole prices, whenever the market moves or the download fails, and
  that `aptet` is what `RunAptet` makes of the frame read. The next three rest
  on it.
- `ParametersKept` (`ParametersRest`). `History` is the invariant of the replay,
  proved row by row: the returns remembered are at most `ReviewDays` and were all
  earned under the parameters of the last decision. Only a search after
  `ReviewDays` returns changes the parameters, and a change starts the returns
  anew, so they rest.
- `PastSettled` (`NoLookahead`). A row is replayed from the rows up to it, so the
  log of a longer download begins with that of the shorter (`LogsGrow`).
- `HeldAsAsked` (`HoldsAsAsked`), which is what the comment of `aptet.py` 447-452
  claims. `TakenSoFar` is the invariant of the greedy choice: those picked and
  those passed over are different candidates and, while there is room, all of
  the candidates so far. When room is left at the end the passed over fill it
  up.
- `TypeCorrect`: what is answered is a set of the universe's tickers, each of
  Force's with a weight.

The last two assume `ScoresAreNumbers`: the score of a name in a window in which
all names scored have prices is a number. `Signals` leaves the score a parameter;
the code makes it one by returning 0 where the deviation is zero or not finite
(`_zscore`, `aptet.py` 425-444).

Only model-checked: the liveness properties (`Converges`, `HoldingsAcquired`,
`SoundOfferApplied`, `PairingHeeded`, `RequestEnds`, `FollowsWebsite`,
`PairingScreenFollows`, `SetupScreenEnds`), because fairness and ENABLED are out of
the prover's reach. Nothing is proved of the violation runs: TLC's counterexample
is the result.

## What the code does that the docs do not say

The violation runs:

- `updates_after_reboot`: `Requisite=` on the first-boot unit.
- `former_owners_account`: deactivation leaves the broker credentials in place,
  and they are fetched only when there are none.
- `draco_overstays`: only tickers of today's universe have prices, and a held
  ticker without one is skipped (`draco.py` 391).
- `setup_screen_lost`: `awaiting_activation`, published every minute even while
  the device is offline, replaces any screen (`display/state.py` 134).

Other behaviours met while modelling, without a run:

- *trading*: a lock added while a cycle runs is not seen by it (`loop.py` 190). A
  manual buy still open at the next cycle is repeated: open orders are not part
  of the shortfall (`manual_holdings.py` 43). A request to run now is discarded
  only by a poll in a closed market, so one of yesterday can run today
  (`main.py` 366-372). With no margin at the broker the bots invest all cash and
  a locked holding can wait for ever; with no active bot everything unlocked is
  sold. When all names of a bot are locked its last allocation stands
  (`rebalance.py` 46), and drift below the minimum trade is left
  (`rebalance.py` 78).
- *updater*: a rollback to the release the device came with is not finished.
  It has no ledger row (`install.sh` lays the release out without one, and
  only `stage` adds rows), so `rollback_to` raises (`software_release.py` 61-63)
  after the symlink was swapped back: the services go on running the failed
  release until they die or the device reboots, and the ledger calls it active,
  against `ARCHITECTURE.md` 270-272 ("flip the
  `current` symlink back to the previous release and restart again"). This is
  the case `ServicesRunCurrent` names. A run
  killed between extraction and activation leaves a directory that makes
  `extract_release` refuse that version for ever; a power cut in the grace
  period keeps a broken release. Only the worker and the display are restarted:
  the agent and the page go on from a release that may later be pruned.
- *strategy selection*: the check for a local row and the write over it are two
  transactions (`bot_selection_sync.py` 72). A pushed update resets `bot_type` and
  `equity_weight` until the next selection sync, which replaces the pushed
  parameters in turn.
- *draco*: an exit in a later run of a date starts no cooldown (`draco.py` 417). A
  failed download answers REBALANCE to the fallback and keeps the positions
  (346), so all is sold and bought back. With `hold_fallback_when_empty` off, the
  HOLD of an empty state leaves the old allocation, and so does a target of
  which everything is locked (`loop.py` 152-166): with the fallback locked, a
  liquidation leaves the allocation at the positions it gave up. `target_gross_exposure` is
  undone by the blend's renormalisation. A short history of the market's ticker
  makes the regime risk_on (130). `equity_history` is the last 400 snapshots, one
  a minute, so the drawdown looks back less than seven hours.
- *force, aptet, data*: the comparator is not transitive (`alpha1.py` 352). One
  missing bar evicts a name for a whole window. With holes Aptet may hold fewer
  than `ABSOLUTE_MIN_HOLDINGS`. Of two tickers with one request symbol one is lost
  (`provider.py` 216).
- *audit*: a closed position counts for ever (`position_snapshot.py` 78-98). A
  restart in the middle of a cycle, or after one, runs the next at once
  (`last_cycle_at` is None, `main.py` 325, 363; `RestartSec=5`), and Run Now one a
  pass later; two cycles within 90 seconds are merged, against `audit.py` 29-30
  ("a cluster of them unambiguously marks one real cycle") and 153-160. Of the two the
  earlier may not be listed, and either may read "mismatch" although its plan was
  submitted whole; `CyclesListed` and `AuditTellsTruth` say what is still true. Orders of
  one cycle that are sent over more than 90 seconds are listed twice. Of two orders
  with the same symbol and side the later counts (`audit.py` 316). A bot whose run
  raises stores no signal (`loop.py` 220-229), and the audit replays its row of an
  earlier cycle as if it were this one's. An unchanged signal is not stored again
  (`repositories/signals.py` 44-57), so a stateful bot's later cycle may have no row
  but the first; the audit takes it for the first (`audit.py` 111) and replays it
  from no state, where `audit.py` 45-49 says every later cycle is skipped.
  `NoFalseAlarm` excepts exactly these two.
- *display and Wi-Fi*: an agent killed with its hotspot up takes the hotspot for
  a connection when it restarts and exits (`network.py` 79). Killed between the
  join and its announcement it leaves the setup screen. A failed join may leave
  no hotspot. The banner of an update stays when the release is refused or rolled
  back (`display/state.py` 74). `WIFI_DISCONNECTED` and `ALPACA_DISCONNECTED` have
  no publisher.

## Not modelled

- *Display rendering*: layout, drawing, and what the idle screen rotates through.
- *Numerics*: the regression fit, moving averages, drawdowns, Sharpe-like scores,
  correlations. Their results are chosen by the environment or are parameters.
- *Login and sessions of the portfolio page*: a dictionary in one process; its
  writes to the database are the owner's edits of `TradingCycle` and
  `StrategySync`.
- *Migrations, encryption, provisioning scripts, packaging*: run once, in one
  pass, with nothing beside them.
- *Latest quotes, bar caches of the display, chart data, snapshots beyond those
  the audit reads*: output.

## Plan

Done: `TradingCycle`, `ReleaseSlot` and `Updater`, `Session`, `StrategySync`,
`DracoMath` and `Draco`, `MarketData`, `Force`, `Aptet` and `Signals`, `Audit`,
`StateMachine` and `Screen`, with their proofs.

Left, in this order:

1. `Session` and `TradingCycle` composed: a lock and a disconnect while a cycle of
   several minutes runs.
2. The portfolio page's login, once more than one browser matters.
