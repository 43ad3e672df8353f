------------------------------- MODULE Session -------------------------------
(***************************************************************************)
(* The trading worker around its cycles: main() waits for activation, then *)
(* ticks once a minute until monstra.pro disowns the device.  A tick       *)
(* rechecks the activation, fetches broker credentials if none are stored, *)
(* mirrors the selected bots, asks whether a cycle is due or requested,    *)
(* and runs it.  TradingCycle is what happens inside `cycling`.            *)
(*                                                                         *)
(* Each step is one HTTP call with what the code does with its answer, or  *)
(* one local write.  A call may fail before or after the server heard it.  *)
(* Registrations are numbered: number n stands for the n-th bearer token   *)
(* and for the pairing code issued with it.  Time is minutes since the     *)
(* midnight of day 0 and moves from one mark of the day to the next.       *)
(* Snapshots and chart data are left out.                                  *)
(***************************************************************************)
EXTENDS Integers

CONSTANTS
  Owners,        \* accounts at monstra.pro
  NoOwner,
  Opens, Closes, \* MARKET_OPEN_TIME and MARKET_CLOSE_TIME in minutes
  Days,          \* bound: days 0..Days-1
  Disconnects,   \* bound on disconnects by the owner
  Requests,      \* bound on run-now requests
  Expiries,      \* bound on pairing codes that expire before they are used
  Faults         \* bound on failed calls and crashes

DayMinutes == 1440

ASSUME OwnersAssumption == NoOwner \notin Owners
ASSUME HoursAssumption ==
  Opens \in 1..DayMinutes-1 /\ Closes \in 1..DayMinutes-1 /\ Opens < Closes
ASSUME BoundsAssumption ==
  Days \in Nat /\ Disconnects \in Nat /\ Requests \in Nat /\ Expiries \in Nat /\ Faults \in Nat

VARIABLES
  \* monstra.pro
  paired,      \* the owner the device is paired with
  connected,   \* owners whose Alpaca account is connected there
  issued,      \* registrations answered so far
  good,        \* the bearer token the server accepts, 0 for none
  live,        \* the pairing code it accepts, 0 for none
  asked,       \* the run-now flag
  \* the device's database and its screen
  activated,   \* activated_at is set
  token,       \* device_token_encrypted, 0 for none
  code,        \* pairing_code, 0 for none
  expired,     \* pairing_code_expired
  creds,       \* whose broker credentials are stored
  bots,        \* whose bot selection strategy_config mirrors
  shown,       \* the code in the last awaiting_activation event
  \* the worker's memory
  pc,
  market,      \* whose credentials market data was configured with
  last,        \* last_cycle_at
  now,         \* now_et
  open,        \* market_open
  run,         \* run_requested
  \* the clock, observations and bounds
  clock,
  rounds,      \* polls or ticks ended since the clock moved or trading began, up to 2
  excused,     \* cycles an unpaired device may still run
  budget       \* what is left of the bounds

server == <<paired, connected, issued, good, live, asked>>
device == <<activated, token, code, expired, creds, bots, shown>>
memory == <<market, last, now, open, run>>
worker == <<pc, memory>>
watch  == <<clock, rounds, excused>>
vars   == <<server, device, worker, watch, budget>>

Never == -1

Budgets == {"disconnects", "requests", "expiries", "faults"}

Spend(what) == budget[what] > 0 /\ budget' = [budget EXCEPT ![what] = @ - 1]
Fault == Spend("faults")

(* The schedule ----------------------------------------------------------*)

HourMarks == { h \in {60 * k : k \in 1..24} : Opens < h /\ h < Closes }

CycleMinute(h) == IF h + 60 >= Closes THEN Closes - 20 ELSE h + 5

CycleMinutes == { CycleMinute(h) : h \in HourMarks } \cap Opens..Closes-1

Day(t) == t \div DayMinutes

ScheduledTimes(d) == { d * DayMinutes + m : m \in CycleMinutes }

DueTimes(t) == { s \in ScheduledTimes(Day(t)) : s <= t }

IsMarketOpen(t) == t % DayMinutes \in Opens..Closes-1

(* Mutants of definitions below ------------------------------------------*)

EarliestDue == DueTimes(now) # {} /\ \A s \in DueTimes(now) : s > last
RegistersAnyway == token = 0 \/ expired
SaysConnected == token = good /\ paired \in connected
KeepsCode == UNCHANGED <<code, expired>>
TrustsFlag == FALSE
NeverDiscards(r) == FALSE

Init ==
  /\ paired = NoOwner /\ connected = {}
  /\ issued = 0 /\ good = 0 /\ live = 0 /\ asked = FALSE
  /\ activated = FALSE /\ token = 0 /\ code = 0 /\ expired = TRUE
  /\ creds = NoOwner /\ bots = NoOwner /\ shown = 0
  /\ pc = "wait" /\ market = NoOwner /\ last = Never /\ now = Never
  /\ open = FALSE /\ run = FALSE
  /\ clock = 0 /\ rounds = 0 /\ excused = 0
  /\ budget = [what \in Budgets |-> CASE what = "disconnects" -> Disconnects
                                     [] what = "requests" -> Requests
                                     [] what = "expiries" -> Expiries
                                     [] what = "faults" -> Faults]

\* cycle_due: the latest of the due times is later than the last cycle
CycleDue == \E s \in DueTimes(now) : s > last

(* Waiting for activation ------------------------------------------------*)

Goto(p) == pc' = p /\ UNCHANGED memory

EndRound == rounds' = IF rounds < 2 THEN rounds + 1 ELSE rounds

MustRegister == ~activated /\ (token = 0 \/ expired)

\* the answer of /api/devices/status
SaysActivated == token = good /\ paired # NoOwner

BurnCode == code' = 0 /\ expired' = TRUE

Register ==
  /\ pc = "wait" /\ MustRegister
  /\ issued' = issued + 1 /\ good' = issued' /\ live' = issued'
  /\ \/ /\ token' = issued' /\ code' = issued' /\ expired' = FALSE
        /\ Goto("poll") /\ UNCHANGED budget
     \/ /\ Fault /\ UNCHANGED <<token, code, expired>>
        /\ Goto(IF token = 0 THEN "publish" ELSE "poll")
  /\ UNCHANGED <<paired, connected, asked, activated, creds, bots, shown, watch>>

RegisterFails ==
  /\ pc = "wait" /\ MustRegister
  /\ Fault
  /\ Goto(IF token = 0 THEN "publish" ELSE "poll")
  /\ UNCHANGED <<server, device, watch>>

Poll ==
  /\ pc = "poll" \/ (pc = "wait" /\ ~activated /\ ~MustRegister)
  /\ \/ Goto(IF SaysActivated THEN "activate" ELSE "publish") /\ UNCHANGED budget
     \/ Goto("publish") /\ Fault
  /\ UNCHANGED <<server, device, watch>>

Activate ==
  /\ pc = "activate"
  /\ activated' = TRUE /\ BurnCode
  /\ Goto("begin") /\ rounds' = 0
  /\ UNCHANGED <<server, token, creds, bots, shown, clock, excused, budget>>

PublishAwaiting ==
  /\ pc = "publish"
  /\ shown' = code
  /\ Goto("wait") /\ EndRound
  /\ UNCHANGED <<server, activated, token, code, expired, creds, bots, clock, excused, budget>>

\* DEVICE_ACTIVATED, _configure_market_data, a new _run_trading_loop
BeginTrading ==
  /\ pc = "begin"
  /\ market' = IF creds = NoOwner THEN market ELSE creds
  /\ last' = Never
  /\ pc' = "loop"
  /\ UNCHANGED <<server, device, now, open, run, watch, budget>>

(* Rechecking ------------------------------------------------------------*)

\* a 401, or an answer that says `activated: false`
Disowned == token # good \/ paired = NoOwner

Deactivate ==
  /\ activated' = FALSE /\ token' = 0 /\ code' = 0 /\ expired' = TRUE
  /\ UNCHANGED <<creds, bots, shown>>

StaysActivated == Goto(IF pc = "wait" THEN "begin" ELSE "creds")

Recheck ==
  /\ pc \in {"wait", "loop"} /\ activated
  /\ IF Disowned
       THEN Deactivate /\ Goto(IF pc = "wait" THEN "publish" ELSE "wait")
       ELSE StaysActivated /\ UNCHANGED device
  /\ UNCHANGED <<server, watch, budget>>

\* no answer, or one that is neither 200 nor 401
RecheckFails ==
  /\ pc \in {"wait", "loop"} /\ activated
  /\ Fault
  /\ StaysActivated
  /\ excused' = IF paired = NoOwner THEN excused + 1 ELSE excused
  /\ UNCHANGED <<server, device, clock, rounds>>

(* A tick ----------------------------------------------------------------*)

EndTick ==
  /\ pc' = "loop"
  /\ now' = Never /\ open' = FALSE /\ run' = FALSE
  /\ EndRound
  /\ UNCHANGED <<clock, market>>

HasCredentials ==
  /\ pc = "creds" /\ creds # NoOwner
  /\ now' = clock /\ pc' = "sync"
  /\ UNCHANGED <<server, device, market, last, open, run, watch, budget>>

FetchCredentials ==
  /\ pc = "creds" /\ creds = NoOwner
  /\ token = good /\ paired \in connected
  /\ creds' = paired /\ market' = paired
  /\ now' = clock /\ pc' = "sync" /\ rounds' = 0
  /\ UNCHANGED <<server, activated, token, code, expired, bots, shown, last, open, run,
                 clock, excused, budget>>

NoCredentials ==
  /\ pc = "creds" /\ creds = NoOwner
  /\ \/ ~(token = good /\ paired \in connected) /\ UNCHANGED budget
     \/ Fault
  /\ Goto("loop") /\ EndRound
  /\ UNCHANGED <<server, device, clock, excused>>

SyncBots ==
  /\ pc = "sync"
  /\ \/ bots' = (IF token = good /\ paired # NoOwner THEN paired ELSE bots) /\ UNCHANGED budget
     \/ Fault /\ UNCHANGED bots
  /\ Goto("market")
  /\ UNCHANGED <<server, activated, token, code, expired, creds, shown, watch>>

\* is_market_open; when the broker's clock cannot be read it raises out of
\* main(), which is Crash.
ReadMarket ==
  /\ pc = "market"
  /\ open' = IsMarketOpen(clock)
  /\ pc' = "request"
  /\ UNCHANGED <<server, device, market, last, now, run, watch, budget>>

MustDiscard(r) == r /\ ~open

\* check_run_requested and the decisions that follow it
CheckRequest ==
  /\ pc = "request"
  /\ \E r \in BOOLEAN :
       /\ \/ r = (token = good /\ asked) /\ UNCHANGED budget
          \/ ~r /\ Fault
       /\ \/ /\ MustDiscard(r)
             /\ pc' = "ack" /\ UNCHANGED <<memory, clock, rounds>>
          \/ /\ open /\ (CycleDue \/ r)
             /\ pc' = "cycle" /\ run' = r /\ UNCHANGED <<market, last, now, open, clock, rounds>>
          \/ /\ ~MustDiscard(r) /\ ~(open /\ (CycleDue \/ r))
             /\ EndTick /\ UNCHANGED last
  /\ UNCHANGED <<server, device, excused>>

BeginCycle ==
  /\ pc = "cycle"
  /\ Goto("cycling")
  /\ excused' = IF paired = NoOwner THEN excused - 1 ELSE excused
  /\ UNCHANGED <<server, device, clock, rounds, budget>>

EndCycle ==
  /\ pc = "cycling"
  /\ IF run THEN Goto("ack") /\ UNCHANGED <<clock, rounds>>
            ELSE EndTick /\ last' = now
  /\ UNCHANGED <<server, device, excused, budget>>

\* after a cycle, or to discard a request while the market is closed
Acknowledge ==
  /\ pc = "ack"
  /\ \/ asked' = (asked /\ token # good) /\ UNCHANGED budget
     \/ Fault /\ asked' \in {asked, asked /\ token # good}
  /\ EndTick /\ last' = IF run THEN now ELSE last
  /\ UNCHANGED <<paired, connected, issued, good, live, device, excused>>

(* Crashes ---------------------------------------------------------------*)

Crash ==
  /\ pc # "off"
  /\ Fault
  /\ pc' = "off" /\ market' = NoOwner /\ last' = Never /\ now' = Never
  /\ open' = FALSE /\ run' = FALSE /\ rounds' = 0
  /\ UNCHANGED <<server, device, clock, excused>>

Restart ==
  /\ pc = "off"
  /\ Goto("wait")
  /\ UNCHANGED <<server, device, watch, budget>>

(* The owners, the codes and the clock ------------------------------------*)

\* an owner types the code on the screen
Pair(o) ==
  /\ paired = NoOwner /\ live # 0 /\ shown = live
  /\ paired' = o /\ live' = 0 /\ excused' = 0
  /\ UNCHANGED <<connected, issued, good, asked, device, worker, clock, rounds, budget>>

\* The token is revoked, the code and the request go with the pairing.  The
\* recheck also copes with a server that leaves the token valid.
Disconnect ==
  /\ paired # NoOwner
  /\ Spend("disconnects")
  /\ paired' = NoOwner /\ good' \in {0, good} /\ live' = 0 /\ asked' = FALSE /\ excused' = 1
  /\ UNCHANGED <<connected, issued, device, worker, clock, rounds>>

Connect(o) ==
  /\ o \notin connected
  /\ connected' = connected \cup {o}
  /\ UNCHANGED <<paired, issued, good, live, asked, device, worker, watch, budget>>

RunNow ==
  /\ paired # NoOwner /\ IsMarketOpen(clock)
  /\ Spend("requests")
  /\ asked' = TRUE
  /\ UNCHANGED <<paired, connected, issued, good, live, device, worker, watch>>

CodeExpires ==
  /\ code # 0 /\ ~expired
  /\ expired' = TRUE
  /\ IF live = code THEN Spend("expiries") /\ live' = 0 ELSE UNCHANGED <<budget, live>>
  /\ UNCHANGED <<paired, connected, issued, good, asked,
                 activated, token, code, creds, bots, shown, worker, watch>>

Trading == pc # "off" /\ activated /\ creds # NoOwner

\* The marks are further apart than two rounds: a worker that is up has ended
\* two of them, the second one begun after the clock moved.
ClockMoves ==
  /\ pc # "off" => rounds = 2
  /\ LET marks == { d * DayMinutes + m : d \in 0..Days-1,
                                         m \in {0, Opens, Closes} \cup CycleMinutes }
     IN \E t \in marks :
          /\ clock < t /\ \A u \in marks : clock < u => t <= u
          /\ clock' = t
  /\ rounds' = 0
  /\ UNCHANGED <<server, device, worker, excused, budget>>

Worker ==
  \/ Register \/ RegisterFails \/ Poll \/ Activate \/ PublishAwaiting \/ BeginTrading
  \/ Recheck \/ RecheckFails
  \/ HasCredentials \/ FetchCredentials \/ NoCredentials \/ SyncBots \/ ReadMarket
  \/ CheckRequest \/ BeginCycle \/ EndCycle \/ Acknowledge
  \/ Restart

Environment ==
  \/ Crash
  \/ \E o \in Owners : Pair(o) \/ Connect(o)
  \/ Disconnect \/ RunNow \/ CodeExpires \/ ClockMoves

Next == Worker \/ Environment

Spec == Init /\ [][Next]_vars

\* The worker's loop goes on, systemd restarts it, codes expire.
FairSpec == Spec /\ WF_vars(Worker) /\ WF_vars(CodeExpires)

(* Properties ------------------------------------------------------------*)

\* Every variable has its type; a stored code was issued with the stored token,
\* and an activated device has a token and no code.
TypeOK ==
  /\ paired \in Owners \cup {NoOwner} /\ connected \subseteq Owners
  /\ issued \in Nat /\ good \in 0..issued /\ live \in 0..issued
  /\ asked \in BOOLEAN
  /\ activated \in BOOLEAN /\ expired \in BOOLEAN
  /\ token \in 0..issued /\ code \in {0, token} /\ shown \in 0..issued
  /\ activated => token # 0 /\ code = 0
  /\ creds \in Owners \cup {NoOwner} /\ bots \in Owners \cup {NoOwner}
  /\ market \in Owners \cup {NoOwner}
  /\ pc \in {"off", "wait", "poll", "activate", "publish", "begin", "loop", "creds", "sync",
             "market", "request", "cycle", "cycling", "ack"}
  /\ last \in Int /\ now \in Int /\ open \in BOOLEAN /\ run \in BOOLEAN
  /\ clock \in Nat /\ rounds \in 0..2 /\ excused \in Int
  /\ budget \in [Budgets -> Nat]

\* After a disconnect the device runs at most the cycle it had already decided
\* on, and one more for every recheck that got no answer.
ConsentBounded == excused >= 0

\* The device is paired anew only after it has stopped trading for the owner
\* who disconnected it: no code is accepted while it still acts as activated.
StoppedBeforePaired ==
  [][paired = NoOwner /\ paired' # NoOwner => ~activated]_vars

\* Whenever the worker trades, its market data comes from the credentials it
\* trades with, across restarts, late connections and new pairings.
MarketDataFollows == pc \in {"sync", "market", "request", "cycle", "cycling"} => market = creds

\* No scheduled time of a trading day passes without a cycle, whatever else
\* the worker did in that hour, as long as it kept running.
SlotServed ==
  [][clock' # clock /\ IsMarketOpen(clock) /\ Trading
       => \A s \in DueTimes(clock) : s <= last]_vars

\* A paired device finds out, also when answers were lost and codes expired.
PairingHeeded == (paired # NoOwner) ~> (activated \/ paired = NoOwner)

\* A run-now request does not stay pending: it is run or discarded.
RequestEnds == asked /\ activated /\ creds # NoOwner ~> ~asked

\* A cycle trades the account of the owner the device is paired with.
OwnersAccount == [][BeginCycle /\ paired # NoOwner => creds = paired]_vars

=============================================================================
