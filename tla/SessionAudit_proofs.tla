------------------------- MODULE SessionAudit_proofs -------------------------
(***************************************************************************)
(* Proofs about the worker's session (Session), for any owners, trading    *)
(* hours, number of days and of disconnects, requests, lost calls and      *)
(* crashes, and about the audit of the cycles it runs (Audit), for any     *)
(* symbols, bots, algorithms, windows, schedules and bounds.               *)
(***************************************************************************)
EXTENDS Session, Audit, RebalanceLemmas, TLAPS

-----------------------------------------------------------------------------
(* Session.                                                                *)

\* The steps, named for the case splits below.
LEMMA Steps ==
  ASSUME [Next]_vars
  PROVE  \/ UNCHANGED vars
         \/ Register \/ RegisterFails \/ Poll \/ Activate \/ PublishAwaiting \/ BeginTrading
         \/ Recheck \/ RecheckFails
         \/ HasCredentials \/ FetchCredentials \/ NoCredentials \/ SyncBots \/ ReadMarket
         \/ CheckRequest \/ BeginCycle \/ EndCycle \/ Acknowledge \/ Restart \/ Crash
         \/ \E o \in Owners : Pair(o) \/ Connect(o)
         \/ Disconnect \/ RunNow \/ CodeExpires \/ ClockMoves
  BY DEF Next, Worker, Environment

\* Spending leaves every budget a natural number.
LEMMA SpendTyped ==
  ASSUME budget \in [Budgets -> Nat], NEW what \in Budgets, Spend(what)
  PROVE  budget' \in [Budgets -> Nat]
  BY DEF Spend

-----------------------------------------------------------------------------
\* TypeOK by parts: the server, the device, the worker's memory, the bounds.
ServerTyped ==
  /\ paired \in Owners \cup {NoOwner} /\ connected \subseteq Owners
  /\ issued \in Nat /\ good \in 0..issued /\ live \in 0..issued

\* A poll is only sent with a token.
DeviceTyped ==
  /\ token \in 0..issued /\ code \in {0, token} /\ shown \in 0..issued
  /\ activated => token # 0 /\ code = 0
  /\ creds \in Owners \cup {NoOwner} /\ bots \in Owners \cup {NoOwner}
  /\ pc \in {"poll", "activate"} => token # 0

MemoryTyped ==
  /\ market \in Owners \cup {NoOwner}
  /\ pc \in {"off", "wait", "poll", "activate", "publish", "begin", "loop", "creds", "sync",
             "market", "request", "cycle", "cycling", "ack"}
  /\ last \in Int /\ now \in Int

WatchTyped == clock \in Nat /\ rounds \in 0..2 /\ excused \in Int

FlagsTyped ==
  /\ asked \in BOOLEAN /\ activated \in BOOLEAN /\ expired \in BOOLEAN
  /\ open \in BOOLEAN /\ run \in BOOLEAN

TypeInv == FlagsTyped /\ ServerTyped /\ DeviceTyped /\ MemoryTyped /\ WatchTyped /\ budget \in [Budgets -> Nat]

LEMMA InitTyped == Init => TypeInv
<1> SUFFICES ASSUME Init PROVE TypeInv
  OBVIOUS
<1>1. FlagsTyped
  BY DEF Init, FlagsTyped
<1>2. ServerTyped /\ DeviceTyped /\ MemoryTyped /\ WatchTyped
  BY DEF Init, ServerTyped, DeviceTyped, MemoryTyped, WatchTyped, Never
<1>3. budget \in [Budgets -> Nat]
  BY BoundsAssumption DEF Init, Budgets
<1>4. QED
  BY <1>1, <1>2, <1>3 DEF TypeInv

\* What changes monstra.pro's side.
LEMMA ServerSteps ==
  ASSUME [Next]_vars
  PROVE  \/ server' = server \/ Register \/ Acknowledge
         \/ \E o \in Owners : Pair(o) \/ Connect(o)
         \/ Disconnect \/ RunNow \/ CodeExpires
<1>1. RegisterFails \/ Poll \/ Activate \/ PublishAwaiting \/ BeginTrading => server' = server
  BY DEF RegisterFails, Poll, Activate, PublishAwaiting, BeginTrading
<1>2. Recheck \/ RecheckFails \/ HasCredentials \/ FetchCredentials \/ NoCredentials
        => server' = server
  BY DEF Recheck, RecheckFails, HasCredentials, FetchCredentials, NoCredentials
<1>3. SyncBots \/ ReadMarket \/ CheckRequest \/ BeginCycle \/ EndCycle => server' = server
  BY DEF SyncBots, ReadMarket, CheckRequest, BeginCycle, EndCycle
<1>4. Restart \/ Crash \/ ClockMoves \/ UNCHANGED vars => server' = server
  BY DEF Restart, Crash, ClockMoves, vars
<1>5. QED
  BY <1>1, <1>2, <1>3, <1>4, Steps

LEMMA ServerNext == TypeInv /\ [Next]_vars => ServerTyped'
<1> SUFFICES ASSUME TypeInv, [Next]_vars PROVE ServerTyped'
  OBVIOUS
<1> USE DEF TypeInv, ServerTyped
<1>1. CASE server' = server
  BY <1>1 DEF server
<1>2. CASE Register
  BY <1>2 DEF Register
<1>3. CASE Acknowledge
  BY <1>3 DEF Acknowledge
<1>4. ASSUME NEW o \in Owners, Pair(o) \/ Connect(o) PROVE ServerTyped'
  BY <1>4 DEF Pair, Connect
<1>5. CASE Disconnect
  BY <1>5 DEF Disconnect
<1>6. CASE RunNow
  <2>1. Day(clock) \in Int
    BY DEF Day, DayMinutes, WatchTyped
  <2>2. QED
    BY <1>6, <2>1 DEF RunNow
<1>7. CASE CodeExpires
  BY <1>7 DEF CodeExpires
<1>8. QED
  BY <1>1, <1>2, <1>3, <1>4, <1>5, <1>6, <1>7, ServerSteps

LEMMA DeviceNext == TypeInv /\ [Next]_vars => DeviceTyped'
<1> SUFFICES ASSUME TypeInv, [Next]_vars PROVE DeviceTyped'
  OBVIOUS
<1> USE DEF TypeInv, DeviceTyped, ServerTyped, device
<1>1. CASE Register
  <2>1. issued' = issued + 1 /\ ~activated /\ UNCHANGED <<activated, creds, bots, shown>>
    BY <1>1 DEF Register, MustRegister
  <2>2. \/ token' = issued' /\ code' = issued'
        \/ UNCHANGED <<token, code>> /\ pc' = IF token = 0 THEN "publish" ELSE "poll"
    BY <1>1 DEF Register, Goto
  <2>3. QED
    BY <2>1, <2>2
<1>2. CASE RegisterFails \/ Poll
  BY <1>2 DEF RegisterFails, Poll, Goto, MustRegister, server
<1>3. CASE Activate \/ PublishAwaiting \/ BeginTrading
  BY <1>3 DEF Activate, PublishAwaiting, BeginTrading, BurnCode, Goto, server
<1>4. CASE Recheck \/ RecheckFails
  BY <1>4 DEF Recheck, RecheckFails, Deactivate, StaysActivated, Goto, server
<1>5. CASE HasCredentials \/ FetchCredentials \/ NoCredentials
  BY <1>5 DEF HasCredentials, FetchCredentials, NoCredentials, Goto, server
<1>6. CASE SyncBots \/ ReadMarket
  BY <1>6 DEF SyncBots, ReadMarket, Goto, server
<1>7. CASE CheckRequest
  BY <1>7 DEF CheckRequest, EndTick, server
<1>8. CASE BeginCycle \/ EndCycle \/ Acknowledge
  BY <1>8 DEF BeginCycle, EndCycle, Acknowledge, EndTick, Goto, server
<1>9. CASE Crash \/ Restart
  BY <1>9 DEF Crash, Restart, Goto, server
<1>10. ASSUME NEW o \in Owners, Pair(o) \/ Connect(o) PROVE DeviceTyped'
  BY <1>10 DEF Pair, Connect, worker
<1>11. CASE Disconnect \/ RunNow \/ CodeExpires \/ ClockMoves
  BY <1>11 DEF Disconnect, RunNow, CodeExpires, ClockMoves, worker, server
<1>12. CASE UNCHANGED vars
  BY <1>12 DEF vars, server, worker
<1>13. QED
  BY <1>1, <1>2, <1>3, <1>4, <1>5, <1>6, <1>7, <1>8, <1>9, <1>10, <1>11, <1>12, Steps

LEMMA MemoryNext == TypeInv /\ [Next]_vars => MemoryTyped'
<1> SUFFICES ASSUME TypeInv, [Next]_vars PROVE MemoryTyped'
  OBVIOUS
<1> USE DEF TypeInv, MemoryTyped, memory
<1>1. CASE Register \/ RegisterFails \/ Poll
  BY <1>1 DEF Register, RegisterFails, Poll, Goto
<1>2. CASE Activate \/ PublishAwaiting \/ BeginTrading
  BY <1>2 DEF Activate, PublishAwaiting, BeginTrading, Goto, DeviceTyped, Never
<1>3. CASE Recheck \/ RecheckFails
  BY <1>3 DEF Recheck, RecheckFails, StaysActivated, Goto
<1>4. CASE HasCredentials \/ FetchCredentials \/ NoCredentials
  BY <1>4 DEF HasCredentials, FetchCredentials, NoCredentials, Goto, WatchTyped, ServerTyped
<1>5. CASE SyncBots \/ ReadMarket
  BY <1>5 DEF SyncBots, ReadMarket, IsMarketOpen, Goto
<1>6. CASE CheckRequest
  BY <1>6 DEF CheckRequest, EndTick, Never
<1>7. CASE BeginCycle \/ EndCycle \/ Acknowledge
  BY <1>7 DEF BeginCycle, EndCycle, Acknowledge, EndTick, Goto, Never
<1>8. CASE Crash \/ Restart
  BY <1>8 DEF Crash, Restart, Goto, Never
<1>9. CASE worker' = worker
  BY <1>9 DEF worker
<1>10. \A o \in Owners : Pair(o) \/ Connect(o) => worker' = worker
  BY DEF Pair, Connect
<1>11. Disconnect \/ RunNow \/ CodeExpires \/ ClockMoves \/ UNCHANGED vars => worker' = worker
  BY DEF Disconnect, RunNow, CodeExpires, ClockMoves, vars
<1>12. QED
  BY <1>1, <1>2, <1>3, <1>4, <1>5, <1>6, <1>7, <1>8, <1>9, <1>10, <1>11, Steps

LEMMA FlagsNext == TypeInv /\ [Next]_vars => FlagsTyped'
<1> SUFFICES ASSUME TypeInv, [Next]_vars PROVE FlagsTyped'
  OBVIOUS
<1> USE DEF TypeInv, FlagsTyped
<1>1. CASE Register
  BY <1>1 DEF Register, Goto, memory
<1>2. CASE RegisterFails \/ Poll
  BY <1>2 DEF RegisterFails, Poll, Goto, memory, server, device
<1>3. CASE Activate \/ PublishAwaiting \/ BeginTrading
  BY <1>3 DEF Activate, PublishAwaiting, BeginTrading, BurnCode, Goto, memory, server, device
<1>4. CASE Recheck \/ RecheckFails
  BY <1>4 DEF Recheck, RecheckFails, Deactivate, StaysActivated, Goto, memory, server, device
<1>5. CASE HasCredentials \/ FetchCredentials \/ NoCredentials
  BY <1>5 DEF HasCredentials, FetchCredentials, NoCredentials, Goto, memory, server, device
<1>6. CASE SyncBots \/ ReadMarket
  <2>1. IsMarketOpen(clock) \in BOOLEAN
    BY DEF IsMarketOpen
  <2>2. QED
    BY <1>6, <2>1 DEF SyncBots, ReadMarket, Goto, memory, server, device
<1>7. CASE CheckRequest
  BY <1>7 DEF CheckRequest, EndTick, memory, server, device
<1>8. CASE BeginCycle \/ EndCycle \/ Acknowledge
  BY <1>8 DEF BeginCycle, EndCycle, Acknowledge, EndTick, Goto, memory, server, device
<1>9. CASE Crash \/ Restart
  BY <1>9 DEF Crash, Restart, Goto, memory, server, device
<1>10. ASSUME NEW o \in Owners, Pair(o) \/ Connect(o) PROVE FlagsTyped'
  BY <1>10 DEF Pair, Connect, worker, memory, device
<1>11. CASE Disconnect \/ RunNow \/ CodeExpires \/ ClockMoves
  <2>1. /\ asked' = asked \/ asked' = TRUE \/ asked' = FALSE
        /\ expired' = expired \/ expired' = TRUE
        /\ UNCHANGED <<activated, open, run>>
    BY <1>11 DEF Disconnect, RunNow, CodeExpires, ClockMoves, worker, memory, server, device
  <2>2. QED
    BY <2>1
<1>12. CASE UNCHANGED vars
  BY <1>12 DEF vars, server, device, worker, memory
<1>13. QED
  BY <1>1, <1>2, <1>3, <1>4, <1>5, <1>6, <1>7, <1>8, <1>9, <1>10, <1>11, <1>12, Steps

LEMMA ClockTyped == TypeInv /\ ClockMoves => clock' \in Nat
<1> SUFFICES ASSUME TypeInv, ClockMoves PROVE clock' \in Nat
  OBVIOUS
<1>1. PICK d \in 0..Days-1, m \in {0, Opens, Closes} \cup CycleMinutes :
        clock' = d * DayMinutes + m
  BY DEF ClockMoves
<1>2. m \in Nat
  BY HoursAssumption DEF CycleMinutes, DayMinutes
<1>3. QED
  BY <1>1, <1>2, BoundsAssumption DEF DayMinutes

LEMMA WatchNext == TypeInv /\ [Next]_vars => WatchTyped'
<1> SUFFICES ASSUME TypeInv, [Next]_vars PROVE WatchTyped'
  OBVIOUS
<1> USE DEF TypeInv, WatchTyped, watch
<1>1. CASE watch' = watch
  BY <1>1
<1>2. CASE Activate \/ PublishAwaiting \/ FetchCredentials \/ NoCredentials
  BY <1>2 DEF Activate, PublishAwaiting, FetchCredentials, NoCredentials, EndRound
<1>3. CASE RecheckFails \/ BeginCycle \/ Crash \/ Disconnect
  BY <1>3 DEF RecheckFails, BeginCycle, Crash, Disconnect
<1>4. CASE CheckRequest
  BY <1>4 DEF CheckRequest, EndTick, EndRound
<1>5. CASE EndCycle \/ Acknowledge
  BY <1>5 DEF EndCycle, Acknowledge, EndTick, EndRound
<1>6. ASSUME NEW o \in Owners, Pair(o) \/ Connect(o) PROVE WatchTyped'
  BY <1>6 DEF Pair, Connect
<1>7. CASE ClockMoves
  BY <1>7, ClockTyped DEF ClockMoves
<1>8. \/ watch' = watch \/ Activate \/ PublishAwaiting \/ FetchCredentials \/ NoCredentials
      \/ RecheckFails \/ BeginCycle \/ Crash \/ Disconnect \/ CheckRequest \/ EndCycle
      \/ Acknowledge \/ ClockMoves \/ \E o \in Owners : Pair(o) \/ Connect(o)
  BY Steps DEF vars, Register, RegisterFails, Poll, BeginTrading, Recheck, HasCredentials,
     SyncBots, ReadMarket, Restart, RunNow, CodeExpires
<1>9. QED
  BY <1>1, <1>2, <1>3, <1>4, <1>5, <1>6, <1>7, <1>8

LEMMA BudgetNext == TypeInv /\ [Next]_vars => (budget \in [Budgets -> Nat])'
<1> SUFFICES ASSUME TypeInv, [Next]_vars PROVE budget' \in [Budgets -> Nat]
  OBVIOUS
<1> DEFINE Spends == \E what \in Budgets : Spend(what)
<1> USE DEF Fault, Budgets
<1>1. Register \/ RegisterFails \/ Poll \/ Activate \/ PublishAwaiting \/ BeginTrading
        => budget' = budget \/ Spends
  BY DEF Register, RegisterFails, Poll, Activate, PublishAwaiting, BeginTrading
<1>2. Recheck \/ RecheckFails \/ HasCredentials \/ FetchCredentials \/ NoCredentials
        => budget' = budget \/ Spends
  BY DEF Recheck, RecheckFails, HasCredentials, FetchCredentials, NoCredentials
<1>3. SyncBots \/ ReadMarket \/ CheckRequest \/ BeginCycle \/ EndCycle \/ Acknowledge
        => budget' = budget \/ Spends
  BY DEF SyncBots, ReadMarket, CheckRequest, BeginCycle, EndCycle, Acknowledge
<1>4. Restart \/ Crash \/ Disconnect \/ RunNow \/ CodeExpires \/ ClockMoves \/ UNCHANGED vars
        => budget' = budget \/ Spends
  BY DEF Restart, Crash, Disconnect, RunNow, CodeExpires, ClockMoves, vars
<1>5. \A o \in Owners : Pair(o) \/ Connect(o) => budget' = budget
  BY DEF Pair, Connect
<1>6. QED
  BY <1>1, <1>2, <1>3, <1>4, <1>5, Steps, SpendTyped DEF TypeInv

LEMMA Typed == Spec => []TypeInv
<1>1. TypeInv /\ [Next]_vars => TypeInv'
  BY FlagsNext, ServerNext, DeviceNext, MemoryNext, WatchNext, BudgetNext DEF TypeInv
<1>2. QED
  BY <1>1, InitTyped, PTL DEF Spec

\* Every reachable state is well typed: a stored code belongs to the stored
\* token, and an activated device has a token and no code.
THEOREM TypeCorrect == Spec => []TypeOK
<1>1. TypeInv => TypeOK
  BY DEF TypeInv, TypeOK, FlagsTyped, ServerTyped, DeviceTyped, MemoryTyped, WatchTyped, Budgets
<1>2. QED
  BY <1>1, Typed, PTL

-----------------------------------------------------------------------------
InTick == pc \in {"sync", "market", "request", "cycle", "cycling", "ack"}

\* Within a tick market data is configured; between ticks it is if there are
\* credentials at all.
MarketInv ==
  /\ InTick => market = creds
  /\ pc \in {"loop", "creds"} => creds = NoOwner \/ market = creds

LEMMA MarketNext == MarketInv /\ [Next]_vars => MarketInv'
<1> SUFFICES ASSUME MarketInv, [Next]_vars PROVE MarketInv'
  OBVIOUS
<1> USE DEF MarketInv, InTick, memory
<1>1. CASE Register \/ RegisterFails \/ Poll
  BY <1>1 DEF Register, RegisterFails, Poll, Goto, device
<1>2. CASE Activate \/ PublishAwaiting \/ BeginTrading
  BY <1>2 DEF Activate, PublishAwaiting, BeginTrading, Goto, device
<1>3. CASE Recheck \/ RecheckFails
  BY <1>3 DEF Recheck, RecheckFails, StaysActivated, Deactivate, Goto, device
<1>4. CASE HasCredentials \/ FetchCredentials \/ NoCredentials
  BY <1>4 DEF HasCredentials, FetchCredentials, NoCredentials, Goto, device
<1>5. CASE SyncBots \/ ReadMarket \/ CheckRequest
  BY <1>5 DEF SyncBots, ReadMarket, CheckRequest, EndTick, Goto, device
<1>6. CASE BeginCycle \/ EndCycle \/ Acknowledge
  BY <1>6 DEF BeginCycle, EndCycle, Acknowledge, EndTick, Goto, device
<1>7. CASE Crash \/ Restart
  BY <1>7 DEF Crash, Restart, Goto
<1>8. \A o \in Owners : Pair(o) \/ Connect(o) => UNCHANGED <<creds, worker>>
  BY DEF Pair, Connect, device
<1>9. Disconnect \/ RunNow \/ CodeExpires \/ ClockMoves \/ UNCHANGED vars
        => UNCHANGED <<creds, worker>>
  BY DEF Disconnect, RunNow, CodeExpires, ClockMoves, vars, device
<1>10. QED
  BY <1>1, <1>2, <1>3, <1>4, <1>5, <1>6, <1>7, <1>8, <1>9, Steps DEF worker

\* A cycle's market data comes from the account it trades, whatever order of
\* restarts, connections and pairings led to it.
THEOREM MarketDataAlwaysFollows == Spec => []MarketDataFollows
<1>1. Init => MarketInv
  BY DEF Init, MarketInv, InTick
<1>2. MarketInv => MarketDataFollows
  BY DEF MarketInv, InTick, MarketDataFollows
<1>3. QED
  BY <1>1, <1>2, MarketNext, PTL DEF Spec

-----------------------------------------------------------------------------
\* A tick that has passed its recheck may still run a cycle: one is in hand.
ConsentInv ==
  /\ excused >= 0
  /\ paired = NoOwner /\ pc \in {"creds", "sync", "market", "request", "cycle"} => excused >= 1

LEMMA ConsentNext == TypeInv /\ ConsentInv /\ [Next]_vars => ConsentInv'
<1> SUFFICES ASSUME WatchTyped, ConsentInv, [Next]_vars PROVE ConsentInv'
  BY DEF TypeInv
<1> USE DEF WatchTyped, ConsentInv, server, watch
<1>1. CASE Register \/ RegisterFails \/ Poll \/ Activate \/ PublishAwaiting \/ BeginTrading
  BY <1>1 DEF Register, RegisterFails, Poll, Activate, PublishAwaiting, BeginTrading, Goto
<1>2. CASE Recheck
  BY <1>2 DEF Recheck, StaysActivated, Disowned, Goto
<1>3. CASE RecheckFails
  BY <1>3 DEF RecheckFails, StaysActivated, Goto
<1>4. CASE HasCredentials \/ FetchCredentials \/ NoCredentials
  BY <1>4 DEF HasCredentials, FetchCredentials, NoCredentials, Goto
<1>5. CASE SyncBots \/ ReadMarket \/ CheckRequest
  BY <1>5 DEF SyncBots, ReadMarket, CheckRequest, EndTick, Goto
<1>6. CASE BeginCycle \/ EndCycle \/ Acknowledge
  BY <1>6 DEF BeginCycle, EndCycle, Acknowledge, EndTick, Goto
<1>7. CASE Crash \/ Restart
  BY <1>7 DEF Crash, Restart, Goto
<1>8. ASSUME NEW o \in Owners, Pair(o) \/ Connect(o) PROVE ConsentInv'
  <2>1. CASE Pair(o)
    BY <2>1, OwnersAssumption DEF Pair
  <2>2. CASE Connect(o)
    BY <2>2 DEF Connect, worker
  <2>3. QED
    BY <1>8, <2>1, <2>2
<1>9. CASE Disconnect
  BY <1>9 DEF Disconnect
<1>10. CASE RunNow \/ CodeExpires \/ ClockMoves \/ UNCHANGED vars
  BY <1>10 DEF RunNow, CodeExpires, ClockMoves, vars, worker
<1>11. QED
  BY <1>1, <1>2, <1>3, <1>4, <1>5, <1>6, <1>7, <1>8, <1>9, <1>10, Steps

\* After a disconnect no cycle is run but the one in hand and one per recheck
\* without an answer.
THEOREM ConsentRespected == Spec => []ConsentBounded
<1>1. Init => ConsentInv
  BY DEF Init, ConsentInv
<1>2. ConsentInv => ConsentBounded
  BY DEF ConsentInv, ConsentBounded
<1>3. QED
  BY <1>1, <1>2, Typed, ConsentNext, PTL DEF Spec

-----------------------------------------------------------------------------
\* While the device is or is about to become activated, a disconnect leaves no
\* code by which it could be paired.
PairingInv == (activated \/ pc = "activate") /\ paired = NoOwner => live = 0

LEMMA PairingNext == FlagsTyped /\ PairingInv /\ [Next]_vars => PairingInv'
<1> SUFFICES ASSUME FlagsTyped, PairingInv, [Next]_vars PROVE PairingInv'
  OBVIOUS
<1> USE DEF FlagsTyped, PairingInv, server, device
<1>1. CASE Register \/ RegisterFails
  BY <1>1 DEF Register, RegisterFails, MustRegister, Goto
<1>2. CASE Poll
  BY <1>2 DEF Poll, SaysActivated, Goto
<1>3. CASE Activate \/ PublishAwaiting \/ BeginTrading
  BY <1>3 DEF Activate, PublishAwaiting, BeginTrading, Goto
<1>4. CASE Recheck \/ RecheckFails
  BY <1>4 DEF Recheck, RecheckFails, Deactivate, StaysActivated, Goto
<1>5. CASE HasCredentials \/ FetchCredentials \/ NoCredentials \/ SyncBots \/ ReadMarket
  BY <1>5 DEF HasCredentials, FetchCredentials, NoCredentials, SyncBots, ReadMarket, Goto
<1>6. CASE CheckRequest \/ BeginCycle \/ EndCycle \/ Acknowledge
  BY <1>6 DEF CheckRequest, BeginCycle, EndCycle, Acknowledge, EndTick, Goto
<1>7. CASE Crash \/ Restart
  BY <1>7 DEF Crash, Restart, Goto
<1>8. ASSUME NEW o \in Owners, Pair(o) \/ Connect(o) PROVE PairingInv'
  BY <1>8 DEF Pair, Connect, worker
<1>9. CASE Disconnect \/ RunNow \/ CodeExpires
  BY <1>9 DEF Disconnect, RunNow, CodeExpires, worker
<1>10. CASE ClockMoves \/ UNCHANGED vars
  BY <1>10 DEF ClockMoves, vars, worker
<1>11. QED
  BY <1>1, <1>2, <1>3, <1>4, <1>5, <1>6, <1>7, <1>8, <1>9, <1>10, Steps

\* Nobody is paired with a device that still acts for the owner who left it.
THEOREM NeverPairedWhileActing == Spec => StoppedBeforePaired
<1> DEFINE Stopped == paired = NoOwner /\ paired' # NoOwner => ~activated
<1>1. Init => PairingInv
  BY DEF Init, PairingInv
<1>2. TypeInv => FlagsTyped
  BY DEF TypeInv
<1>3. PairingInv /\ [Next]_vars => [Stopped]_vars
  <2> SUFFICES ASSUME PairingInv, [Next]_vars, paired = NoOwner, paired' # NoOwner
               PROVE  ~activated
    OBVIOUS
  <2>1. PICK o \in Owners : Pair(o)
    <3>1. Register \/ Acknowledge \/ RunNow \/ CodeExpires \/ server' = server => paired' = paired
      BY DEF Register, Acknowledge, RunNow, CodeExpires, server
    <3>2. Disconnect => paired' = NoOwner
      BY DEF Disconnect
    <3>3. \A o \in Owners : Connect(o) => paired' = paired
      BY DEF Connect
    <3>4. QED
      BY <3>1, <3>2, <3>3, ServerSteps
  <2>2. QED
    BY <2>1 DEF Pair, PairingInv
<1>4. QED
  BY <1>1, <1>2, <1>3, Typed, PairingNext, PTL DEF Spec, StoppedBeforePaired

-----------------------------------------------------------------------------
LEMMA DueTimesPast ==
  ASSUME NEW t \in Int PROVE \A s \in DueTimes(t) : s \in Int /\ s <= t
<1>1. CycleMinutes \subseteq Int
  BY HoursAssumption DEF CycleMinutes, DayMinutes
<1>2. Day(t) \in Int
  BY DEF Day, DayMinutes
<1>3. ASSUME NEW s \in ScheduledTimes(Day(t)) PROVE s \in Int
  <2>1. PICK m \in CycleMinutes : s = Day(t) * DayMinutes + m
    BY DEF ScheduledTimes
  <2>2. QED
    BY <1>1, <1>2, <2>1 DEF DayMinutes
<1>4. QED
  BY <1>3 DEF DueTimes

AllServed == \A s \in DueTimes(clock) : s <= last

\* A tick begun after the clock moved reads the time and the market as they
\* are, a session starts with no round ended, and once a whole tick has ended
\* in an open market every scheduled time up to now has had its cycle.
SlotInv ==
  /\ rounds >= 1 /\ InTick => now = clock
  /\ rounds >= 1 /\ pc \in {"request", "cycle", "cycling", "ack"} => (IsMarketOpen(clock) => open)
  /\ pc = "ack" => run \/ ~open
  /\ pc \in {"poll", "publish"} => ~activated
  /\ pc \in {"off", "begin"} \/ (pc = "wait" /\ activated) => rounds = 0
  /\ Trading /\ rounds = 2 /\ IsMarketOpen(clock) => AllServed

\* A tick that ends has served what was due when it began.
LEMMA TickServes ==
  ASSUME TypeInv, SlotInv, EndTick,
         UNCHANGED <<activated, creds>>, pc \in {"request", "cycling", "ack"},
         \/ last' = now
         \/ last' = last /\ ~(open /\ CycleDue)
  PROVE  SlotInv'
<1>1. rounds' = 2 => rounds >= 1
  BY DEF EndTick, EndRound, TypeInv, WatchTyped
<1>2. clock' = clock /\ pc' = "loop"
  BY DEF EndTick
<1>3. ASSUME rounds' = 2, IsMarketOpen(clock) PROVE AllServed'
  <2>1. now = clock /\ open
    BY <1>1, <1>3 DEF SlotInv, InTick
  <2>2. \A s \in DueTimes(clock) : s \in Int /\ s <= clock
    BY DueTimesPast DEF TypeInv, WatchTyped
  <2>3. CASE last' = now
    BY <1>2, <2>1, <2>2, <2>3 DEF AllServed
  <2>4. CASE last' = last /\ ~(open /\ CycleDue)
    <3>1. \A s \in DueTimes(clock) : ~(s > last)
      BY <2>1, <2>4 DEF CycleDue
    <3>2. QED
      BY <1>2, <2>2, <2>4, <3>1 DEF AllServed, TypeInv, MemoryTyped
  <2>5. QED
    BY <2>3, <2>4
<1>4. QED
  BY <1>2, <1>3 DEF SlotInv, InTick

LEMMA SlotNext == TypeInv /\ SlotInv /\ [Next]_vars => SlotInv'
<1> SUFFICES ASSUME TypeInv, SlotInv, [Next]_vars PROVE SlotInv'
  OBVIOUS
<1> USE DEF memory, device, watch
<1>1. CASE Register
  BY <1>1 DEF Register, MustRegister, Goto, SlotInv, InTick, Trading, AllServed
<1>2. CASE RegisterFails \/ Poll
  BY <1>2 DEF RegisterFails, Poll, MustRegister, Goto, SlotInv, InTick, Trading, AllServed
<1>3. CASE Activate \/ BeginTrading
  BY <1>3 DEF Activate, BeginTrading, Goto, SlotInv, InTick, Trading, AllServed
<1>4. CASE PublishAwaiting
  BY <1>4 DEF PublishAwaiting, Goto, SlotInv, InTick, Trading, AllServed
<1>5. CASE Recheck
  <2>1. CASE Disowned
    BY <1>5, <2>1 DEF Recheck, Deactivate, Goto, SlotInv, InTick, Trading, AllServed
  <2>2. CASE ~Disowned
    BY <1>5, <2>2 DEF Recheck, StaysActivated, Goto, SlotInv, InTick, Trading, AllServed
  <2>3. QED
    BY <2>1, <2>2
<1>6. CASE RecheckFails
  BY <1>6 DEF RecheckFails, StaysActivated, Goto, SlotInv, InTick, Trading, AllServed
<1>7. CASE HasCredentials \/ FetchCredentials
  BY <1>7 DEF HasCredentials, FetchCredentials, SlotInv, InTick, Trading, AllServed
<1>8. CASE NoCredentials
  BY <1>8 DEF NoCredentials, Goto, SlotInv, InTick, Trading, AllServed
<1>9. CASE SyncBots \/ ReadMarket
  BY <1>9 DEF SyncBots, ReadMarket, Goto, SlotInv, InTick, Trading, AllServed
<1>10. CASE CheckRequest
  <2>1. PICK r \in BOOLEAN :
           \/ MustDiscard(r) /\ pc' = "ack" /\ UNCHANGED <<memory, clock, rounds>>
           \/ /\ open /\ pc' = "cycle" /\ run' = r
              /\ UNCHANGED <<market, last, now, open, clock, rounds>>
           \/ ~(open /\ CycleDue) /\ EndTick /\ last' = last
    BY <1>10 DEF CheckRequest
  <2>2. pc = "request" /\ UNCHANGED device
    BY <1>10 DEF CheckRequest
  <2>3. CASE MustDiscard(r) /\ pc' = "ack" /\ UNCHANGED <<memory, clock, rounds>>
    BY <2>2, <2>3 DEF MustDiscard, SlotInv, InTick, Trading, AllServed
  <2>4. CASE open /\ pc' = "cycle" /\ UNCHANGED <<market, last, now, open, clock, rounds>>
    BY <2>2, <2>4 DEF SlotInv, InTick, Trading, AllServed
  <2>5. CASE ~(open /\ CycleDue) /\ EndTick /\ last' = last
    BY <2>2, <2>5, TickServes
  <2>6. QED
    BY <2>1, <2>3, <2>4, <2>5
<1>11. CASE BeginCycle
  BY <1>11 DEF BeginCycle, Goto, SlotInv, InTick, Trading, AllServed
<1>12. CASE EndCycle
  <2>1. CASE run
    BY <1>12, <2>1 DEF EndCycle, Goto, SlotInv, InTick, Trading, AllServed
  <2>2. CASE ~run
    BY <1>12, <2>2, TickServes DEF EndCycle
  <2>3. QED
    BY <2>1, <2>2
<1>13. CASE Acknowledge
  <2>1. EndTick /\ pc = "ack" /\ UNCHANGED <<activated, creds>>
    BY <1>13 DEF Acknowledge
  <2>2. last' = now \/ (last' = last /\ ~open)
    BY <1>13, <2>1 DEF Acknowledge, SlotInv
  <2>3. QED
    BY <2>1, <2>2, TickServes
<1>14. CASE Crash \/ Restart
  BY <1>14 DEF Crash, Restart, Goto, SlotInv, InTick, Trading
<1>15. CASE ClockMoves
  BY <1>15 DEF ClockMoves, worker, SlotInv, InTick, Trading
<1>16. \A o \in Owners : Pair(o) \/ Connect(o) => UNCHANGED <<activated, creds, worker, clock, rounds>>
  BY DEF Pair, Connect
<1>17. Disconnect \/ RunNow \/ CodeExpires \/ UNCHANGED vars
         => UNCHANGED <<activated, creds, worker, clock, rounds>>
  BY DEF Disconnect, RunNow, CodeExpires, vars
<1>18. CASE UNCHANGED <<activated, creds, worker, clock, rounds>>
  BY <1>18 DEF worker, SlotInv, InTick, Trading, AllServed
<1>19. QED
  BY <1>1, <1>2, <1>3, <1>4, <1>5, <1>6, <1>7, <1>8, <1>9, <1>10, <1>11, <1>12, <1>13, <1>14,
     <1>15, <1>16, <1>17, <1>18, Steps

\* No scheduled time of a trading day passes a worker that keeps running.
THEOREM EverySlotServed == Spec => SlotServed
<1> DEFINE Served == clock' # clock /\ IsMarketOpen(clock) /\ Trading
                       => \A s \in DueTimes(clock) : s <= last
<1>1. Init => SlotInv
  BY DEF Init, SlotInv, InTick
<1>2. SlotInv /\ [Next]_vars => [Served]_vars
  <2> SUFFICES ASSUME SlotInv, [Next]_vars, clock' # clock, IsMarketOpen(clock), Trading
               PROVE  AllServed
    BY DEF AllServed
  <2>1. ClockMoves
    <3>1. \A o \in Owners : Pair(o) \/ Connect(o) => clock' = clock
      BY DEF Pair, Connect, watch
    <3>2. Register \/ RegisterFails \/ Poll \/ Activate \/ PublishAwaiting \/ BeginTrading
            => clock' = clock
      BY DEF Register, RegisterFails, Poll, Activate, PublishAwaiting, BeginTrading, watch
    <3>3. Recheck \/ RecheckFails \/ HasCredentials \/ FetchCredentials \/ NoCredentials
            => clock' = clock
      BY DEF Recheck, RecheckFails, HasCredentials, FetchCredentials, NoCredentials, watch
    <3>4. SyncBots \/ ReadMarket \/ CheckRequest \/ BeginCycle \/ EndCycle \/ Acknowledge
            => clock' = clock
      BY DEF SyncBots, ReadMarket, CheckRequest, BeginCycle, EndCycle, Acknowledge, EndTick, watch
    <3>5. Restart \/ Crash \/ Disconnect \/ RunNow \/ CodeExpires \/ UNCHANGED vars
            => clock' = clock
      BY DEF Restart, Crash, Disconnect, RunNow, CodeExpires, vars, watch
    <3>6. QED
      BY <3>1, <3>2, <3>3, <3>4, <3>5, Steps
  <2>2. pc # "off" /\ rounds = 2
    BY <2>1 DEF ClockMoves, Trading
  <2>3. QED
    BY <2>2 DEF SlotInv
<1>3. QED
  BY <1>1, <1>2, Typed, SlotNext, PTL DEF Spec, SlotServed

-----------------------------------------------------------------------------
(* Audit.                                                                  *)

-----------------------------------------------------------------------------
(* Tables.                                                                 *)

LEMMA UpToFacts ==
  ASSUME NEW S, NEW rows \in Seq(S), NEW ts
  PROVE  /\ UpTo(rows, ts) \subseteq 1..Len(rows) /\ IsFiniteSet(UpTo(rows, ts))
         /\ UpTo(rows, ts) # {} =>
              /\ Max(UpTo(rows, ts)) \in UpTo(rows, ts)
              /\ \A i \in UpTo(rows, ts) : i <= Max(UpTo(rows, ts))
<1>1. PICK U : U = UpTo(rows, ts)
  OBVIOUS
<1>2. U \subseteq 1..Len(rows) /\ Len(rows) \in Nat
  BY <1>1 DEF UpTo
<1>3. IsFiniteSet(U) /\ \A x \in U : x \in Int
  <2>1. PICK I : I = 1..Len(rows)
    OBVIOUS
  <2>2. IsFiniteSet(I) /\ U \subseteq I /\ \A x \in I : x \in Int
    BY <1>2, <2>1, FS_Interval
  <2> QED
    BY <2>2, FS_Subset
<1>4. U # {} => Max(U) \in U /\ \A y \in U : Max(U) >= y
  BY <1>3, MaxInSet
<1>5. U # {} => Max(U) \in Int /\ \A y \in U : y <= Max(U)
  BY <1>3, <1>4
<1> QED
  BY <1>1, <1>2, <1>3, <1>4, <1>5

\* A row of later changes nothing as of a time.
LEMMA LaterRow ==
  ASSUME NEW S, NEW rows \in Seq(S), NEW r \in S, NEW ts, ~(r.ts <= ts),
         NEW more, more = Append(rows, r)
  PROVE  /\ UpTo(more, ts) = UpTo(rows, ts)
         /\ UpTo(rows, ts) # {} => AsOf(more, ts) = AsOf(rows, ts)
<1>1. PICK n : n = Len(rows)
  OBVIOUS
<1>2. /\ n \in Nat /\ DOMAIN rows = 1..n /\ DOMAIN more = 1..(n + 1) /\ more[n + 1] = r
      /\ \A i \in 1..n : more[i] = rows[i]
  BY <1>1
<1>3. \A i \in 1..(n + 1) : i \in 1..n \/ i = n + 1
  BY <1>2
<1>4. UpTo(more, ts) = UpTo(rows, ts)
  BY <1>2, <1>3 DEF UpTo
<1>5. ASSUME UpTo(rows, ts) # {} PROVE AsOf(more, ts) = AsOf(rows, ts)
  <2>1. PICK m : m = Max(UpTo(rows, ts))
    OBVIOUS
  <2>2. m \in 1..n
    BY <1>1, <1>5, <2>1, UpToFacts
  <2> QED
    BY <1>2, <1>4, <2>1, <2>2 DEF AsOf
<1> QED
  BY <1>4, <1>5

\* Once every row counts, the last one is the newest.
LEMMA NewestRow ==
  ASSUME NEW S, NEW rows \in Seq(S), rows # <<>>, NEW ts, \A i \in DOMAIN rows : rows[i].ts <= ts
  PROVE  /\ UpTo(rows, ts) = 1..Len(rows) /\ UpTo(rows, ts) # {}
         /\ AsOf(rows, ts) = rows[Len(rows)] /\ Last(rows) = rows[Len(rows)]
<1>1. PICK n : n = Len(rows)
  OBVIOUS
<1>2. n \in Nat \ {0} /\ DOMAIN rows = 1..n
  BY <1>1
<1>3. UpTo(rows, ts) = 1..n
  BY <1>2 DEF UpTo
<1>4. Max(1..n) = n
  BY <1>2, MaxUpTo
<1>5. n \in 1..n
  BY <1>2
<1> QED
  BY <1>1, <1>3, <1>4, <1>5 DEF AsOf, Last

\* What is as of a time is one of the rows, and of no later.
LEMMA AsOfRow ==
  ASSUME NEW S, NEW rows \in Seq(S), NEW ts, UpTo(rows, ts) # {}
  PROVE  AsOf(rows, ts) \in S /\ AsOf(rows, ts).ts <= ts
<1>1. PICK m : m = Max(UpTo(rows, ts))
  OBVIOUS
<1>2. m \in UpTo(rows, ts) /\ m \in 1..Len(rows)
  BY <1>1, UpToFacts
<1> QED
  BY <1>1, <1>2 DEF AsOf, UpTo

\* Between two times no row lies: it is all the same as of both.
LEMMA NoRowBetween ==
  ASSUME NEW rows, NEW t \in Int, NEW u \in Int, t <= u,
         \A i \in DOMAIN rows : rows[i].ts \in Int /\ (rows[i].ts > t => rows[i].ts > u)
  PROVE  UpTo(rows, u) = UpTo(rows, t) /\ AsOf(rows, u) = AsOf(rows, t)
<1>1. \A i \in DOMAIN rows : rows[i].ts <= u <=> rows[i].ts <= t
  <2> SUFFICES ASSUME NEW i \in DOMAIN rows PROVE rows[i].ts <= u <=> rows[i].ts <= t
    OBVIOUS
  <2>1. PICK x \in Int : x = rows[i].ts
    OBVIOUS
  <2>2. x > t => x > u
    BY <2>1
  <2>3. x <= u <=> x <= t
    BY <2>1, <2>2
  <2> QED
    BY <2>1, <2>3
<1>2. UpTo(rows, u) = UpTo(rows, t)
  BY <1>1 DEF UpTo
<1> QED
  BY <1>2 DEF AsOf

-----------------------------------------------------------------------------
(* Clusters.                                                               *)

LEMMA ClusteredTyped ==
  ASSUME NEW out \in Seq(Int), NEW t \in Int
  PROVE  ClusteredWith(out, t) \in Seq(Int)
BY DEF ClusteredWith

Clustering(seq, g) ==
  g = [s \in SUBSET (DOMAIN seq) |->
         IF s = {} THEN <<>> ELSE ClusteredWith(g[s \ {Max(s)}], seq[Max(s)])]

LEMMA ClustersExpanded ==
  ASSUME NEW seq
  PROVE  FoldLeft(ClusteredWith, <<>>, seq) = (CHOOSE g : Clustering(seq, g))[DOMAIN seq]
BY Zenon DEF FoldLeft, MapThenFoldSet, Clustering

\* h starts with no cluster, takes a time at each step and ends with all in.
ClustersThrough(h, n, seq) ==
  /\ h[0] = <<>>
  /\ \A k \in 1..n : h[k] = ClusteredWith(h[k - 1], seq[k])
  /\ FoldLeft(ClusteredWith, <<>>, seq) = h[n]

LEMMA ClusterChain ==
  ASSUME NEW n \in Nat, NEW seq, DOMAIN seq = 1..n, \A i \in 1..n : seq[i] \in Int
  PROVE  \E h : ClustersThrough(h, n, seq)
<1>1. PICK V, I, base : V = Seq(Int) /\ I = 1..n /\ base = <<>>
  OBVIOUS
<1>2. \A v \in V : \A i \in I : ClusteredWith(v, seq[i]) \in V
  BY <1>1, ClusteredTyped
<1>3. base \in V
  BY <1>1
<1>4. PICK step : step = [p \in I \X V |-> ClusteredWith(p[2], seq[p[1]])]
  OBVIOUS
<1>5. step \in [I \X V -> V]
  BY <1>2, <1>4
<1>6. IsFiniteSet(I) /\ \A x \in I : x \in Int
  BY <1>1, FS_Interval
<1>7. PICK g : GoesThrough(g, I, V, base, step)
  BY ONLY <1>3, <1>5, <1>6, SequenceFoldExists
<1>8. ASSUME NEW s \in SUBSET I, s # {} PROVE Max(s) \in s
  <2>1. IsFiniteSet(s) /\ \A x \in s : x \in Int
    BY <1>6, FS_Subset
  <2> QED
    BY <1>8, <2>1, MaxInSet
<1>9. ASSUME NEW s \in SUBSET I, s # {}
      PROVE  step[<<Max(s), g[s \ {Max(s)}]>>] = ClusteredWith(g[s \ {Max(s)}], seq[Max(s)])
  <2>1. Max(s) \in I /\ g[s \ {Max(s)}] \in V
    BY <1>7, <1>8, <1>9 DEF GoesThrough
  <2> QED
    BY <1>4, <2>1
<1>10. Clustering(seq, g)
  <2>1. \A s \in SUBSET I : g[s] = IF s = {} THEN <<>> ELSE ClusteredWith(g[s \ {Max(s)}], seq[Max(s)])
    BY <1>1, <1>7, <1>9 DEF GoesThrough
  <2>2. g = [s \in SUBSET I |-> g[s]]
    BY <1>7 DEF GoesThrough
  <2> QED
    BY <1>1, <2>1, <2>2 DEF Clustering
<1>11. PICK f : f = CHOOSE e : Clustering(seq, e)
  OBVIOUS
<1>12. Clustering(seq, f)
  BY <1>10, <1>11
<1>13. PICK h : h = [k \in 0..n |-> f[1..k]]
  OBVIOUS
<1>14. h[0] = <<>>
  <2>1. 1..0 = {} /\ {} \in SUBSET (1..n) /\ h[0] = f[1..0]
    BY <1>13
  <2> QED
    BY <1>12, <2>1 DEF Clustering
<1>15. ASSUME NEW k \in 1..n PROVE h[k] = ClusteredWith(h[k - 1], seq[k])
  <2>1. Max(1..k) = k
    BY MaxUpTo
  <2>2. PICK s, r : s = 1..k /\ r = 1..(k - 1)
    OBVIOUS
  <2>3. s \in SUBSET (1..n) /\ s # {} /\ s \ {k} = r /\ k - 1 \in 0..n /\ k \in 0..n
    BY <2>2, UpToParts
  <2>4. h[k] = f[s] /\ h[k - 1] = f[r]
    BY <1>13, <2>2, <2>3
  <2>5. f[s] = ClusteredWith(f[s \ {Max(s)}], seq[Max(s)])
    BY <1>12, <2>3 DEF Clustering
  <2> QED
    BY <2>1, <2>2, <2>3, <2>4, <2>5
<1>16. FoldLeft(ClusteredWith, <<>>, seq) = h[n]
  <2>1. h[n] = f[1..n]
    BY <1>13
  <2> QED
    BY <1>11, <2>1, ClustersExpanded
<1> QED
  BY <1>14, <1>15, <1>16 DEF ClustersThrough

\* A time outside the window of the last cluster opens one, any other none.
LEMMA NextTime ==
  ASSUME NEW out \in Seq(Int), NEW t \in Int, NEW q, q = ClusteredWith(out, t)
  PROVE  /\ q \in Seq(Int) /\ q # <<>>
         /\ out = <<>> \/ Last(out) - t > CorrelationWindow =>
              ToSet(q) = ToSet(out) \cup {t} /\ Last(q) = t
         /\ out # <<>> /\ Last(out) - t <= CorrelationWindow => q = out
<1>1. CorrelationWindow \in Int
  BY AuditConstants
<1>2. CASE out # <<>> /\ Last(out) - t <= CorrelationWindow
  <2>1. q = out /\ Last(out) \in Int
    BY <1>2 DEF ClusteredWith, Last
  <2>2. ~(Last(out) - t > CorrelationWindow)
    BY <1>1, <1>2, <2>1
  <2> QED
    BY <1>2, <2>1, <2>2
<1>3. CASE ~(out # <<>> /\ Last(out) - t <= CorrelationWindow)
  <2>1. q = Append(out, t)
    BY <1>3 DEF ClusteredWith
  <2>2. PICK n : n = Len(out)
    OBVIOUS
  <2>3. /\ n \in Nat /\ DOMAIN out = 1..n /\ q \in Seq(Int) /\ Len(q) = n + 1 /\ DOMAIN q = 1..(n + 1)
        /\ q[n + 1] = t /\ \A i \in 1..n : q[i] = out[i]
    BY <2>1, <2>2
  <2>4. \A i \in 1..(n + 1) : i \in 1..n \/ i = n + 1
    BY <2>3
  <2>5. q # <<>> /\ Last(q) = t
    BY <2>3 DEF Last
  <2>6. ToSet(q) = ToSet(out) \cup {t}
    <3>1. \A i \in 1..n : i \in 1..(n + 1)
      BY <2>3
    <3>2. n + 1 \in 1..(n + 1)
      BY <2>3
    <3>3. ToSet(q) = {q[i] : i \in 1..(n + 1)} /\ ToSet(out) = {out[i] : i \in 1..n}
      BY <2>3 DEF ToSet
    <3>4. \A x : x \in {q[i] : i \in 1..(n + 1)} <=> x \in {out[i] : i \in 1..n} \cup {t}
      BY <2>3, <2>4, <3>1, <3>2
    <3> QED
      BY <3>3, <3>4
  <2> QED
    BY <1>3, <2>3, <2>5, <2>6
<1> QED
  BY <1>2, <1>3

\* Of the times T so far, all at or after its last member, out lists some that
\* lie apart, and every time is in the window of one.
Spaced(out, T) ==
  /\ out \in Seq(Int) /\ ToSet(out) \subseteq T
  /\ T # {} => out # <<>>
  /\ out # <<>> => Last(out) \in ToSet(out) /\ \A r \in ToSet(out) : Last(out) <= r
  /\ \A t \in T : \E r \in ToSet(out) : t \in Within(r)
  /\ \A r, s \in ToSet(out) : r < s => r \notin Within(s)

LEMMA SpacedStep ==
  ASSUME NEW T \in SUBSET Int, NEW t \in Int, \A u \in T : t <= u,
         NEW out, Spaced(out, T), NEW q, q = ClusteredWith(out, t)
  PROVE  Spaced(q, T \cup {t})
<1>0. CorrelationWindow \in Nat
  BY AuditConstants
<1>1. /\ out \in Seq(Int) /\ ToSet(out) \subseteq T
      /\ out # <<>> => Last(out) \in ToSet(out) /\ \A r \in ToSet(out) : Last(out) <= r
      /\ \A u \in T : \E r \in ToSet(out) : u \in Within(r)
      /\ \A r, s \in ToSet(out) : r < s => r \notin Within(s)
      /\ T # {} => out # <<>>
  BY DEF Spaced
<1>2. /\ q \in Seq(Int) /\ q # <<>>
      /\ out = <<>> \/ Last(out) - t > CorrelationWindow =>
           ToSet(q) = ToSet(out) \cup {t} /\ Last(q) = t
      /\ out # <<>> /\ Last(out) - t <= CorrelationWindow => q = out
  BY <1>1, NextTime
<1>3. PICK L, M : L = ToSet(out) /\ M = ToSet(q)
  OBVIOUS
<1>4. CASE out # <<>> /\ Last(out) - t <= CorrelationWindow
  <2>1. Last(out) \in L /\ Last(out) \in Int /\ t <= Last(out) /\ q = out /\ M = L
    BY <1>1, <1>2, <1>3, <1>4
  <2>2. t \in Within(Last(out))
    BY <1>0, <1>4, <2>1 DEF Within
  <2> QED
    BY <1>1, <1>3, <2>1, <2>2 DEF Spaced
<1>5. CASE ~(out # <<>> /\ Last(out) - t <= CorrelationWindow)
  <2>1. \A r \in L : r \in Int /\ t <= r
    BY <1>1, <1>3
  <2>2. \A r \in L : r - t > CorrelationWindow
    <3>1. CASE out = <<>>
      <4>1. L = {}
        BY <1>3, <3>1 DEF ToSet
      <4> QED
        BY <4>1
    <3>2. CASE out # <<>>
      <4>1. PICK l \in Int : l = Last(out)
        BY <1>1, <3>2
      <4>2. ~(l - t <= CorrelationWindow) /\ \A r \in L : l <= r
        BY <1>1, <1>3, <1>5, <3>2, <4>1
      <4> QED
        BY <1>0, <2>1, <4>1, <4>2
    <3> QED
      BY <3>1, <3>2
  <2>3. M = L \cup {t} /\ Last(q) = t
    <3>1. out = <<>> \/ Last(out) - t > CorrelationWindow
      BY <1>1, <1>3, <2>2
    <3> QED
      BY <1>2, <1>3, <3>1
  <2>4. t \in Within(t)
    BY <1>0 DEF Within
  <2>5. \A r, s \in M : r < s => r \notin Within(s)
    <3>1. ASSUME NEW s \in L, t < s PROVE t \notin Within(s)
      BY <1>0, <2>1, <2>2, <3>1 DEF Within
    <3>2. ASSUME NEW r \in L PROVE ~(r < t)
      BY <2>1
    <3>3. ~(t < t)
      OBVIOUS
    <3> QED
      BY <1>1, <1>3, <2>3, <3>1, <3>2, <3>3
  <2>6. \A r \in M : t <= r
    BY <2>1, <2>3
  <2> QED
    BY <1>1, <1>2, <1>3, <2>3, <2>4, <2>5, <2>6 DEF Spaced
<1> QED
  BY <1>4, <1>5

LEMMA ClustersSpaced ==
  ASSUME NEW times \in Seq(Int), NEW n, n = Len(times),
         \A i, j \in 1..n : i <= j => times[i] <= times[j]
  PROVE  Spaced(Clusters(times), {times[i] : i \in 1..n})
<1>1. n \in Nat /\ \A i \in 1..n : times[i] \in Int
  OBVIOUS
<1>2. PICK back : back = Reverse(times)
  OBVIOUS
<1>3. DOMAIN back = 1..n /\ \A k \in 1..n : back[k] = times[n - k + 1]
  BY <1>2 DEF Reverse
<1>4. \A k \in 1..n : back[k] \in Int
  <2> SUFFICES ASSUME NEW k \in 1..n PROVE back[k] \in Int
    OBVIOUS
  <2>1. n - k + 1 \in 1..n
    BY <1>1
  <2> QED
    BY <1>1, <1>3, <2>1
<1>5. PICK h : ClustersThrough(h, n, back)
  BY <1>1, <1>3, <1>4, ClusterChain
<1> DEFINE From(i) == {times[j] : j \in i..n}
<1> HIDE DEF From
<1> DEFINE Reached(k) == Spaced(h[k], From(n - k + 1))
<1>6. PICK P : P = {k \in 0..n : Reached(k)}
  OBVIOUS
<1>7. 0 \in P
  <2>1. h[0] = <<>> /\ h[0] \in Seq(Int)
    BY <1>5 DEF ClustersThrough
  <2>2. From(n - 0 + 1) = {}
    BY <1>1 DEF From
  <2>3. ToSet(<<>>) = {}
    BY DEF ToSet
  <2>4. Spaced(h[0], {})
    BY <2>1, <2>3 DEF Spaced
  <2>5. Reached(0)
    BY <2>2, <2>4, Zenon
  <2> HIDE DEF Reached
  <2> QED
    BY <1>1, <1>6, <2>5
<1>8. ASSUME NEW k \in 0..(n - 1), k \in P PROVE k + 1 \in P
  <2>1. PICK i : i = n - k
    OBVIOUS
  <2>2. i \in 1..n /\ n - (k + 1) + 1 = i /\ n - k + 1 = i + 1 /\ k + 1 \in 1..n /\ (k + 1) - 1 = k
    BY <1>1, <2>1
  <2>3. h[k + 1] = ClusteredWith(h[k], times[i])
    BY <1>3, <1>5, <2>2 DEF ClustersThrough
  <2>4. Spaced(h[k], From(i + 1))
    BY <1>6, <1>8, <2>2
  <2>5. \A j : j \in i..n <=> j = i \/ j \in (i + 1)..n
    BY <1>1, <2>2
  <2>6. From(i) = From(i + 1) \cup {times[i]}
    BY <2>5 DEF From
  <2>7. From(i + 1) \in SUBSET Int /\ \A u \in From(i + 1) : times[i] <= u
    BY <1>1, <2>2 DEF From
  <2>8. PICK T, t, out, q : T = From(i + 1) /\ t = times[i] /\ out = h[k] /\ q = h[k + 1]
    OBVIOUS
  <2>9. /\ T \in SUBSET Int /\ t \in Int /\ Spaced(out, T) /\ q = ClusteredWith(out, t)
        /\ \A u \in T : t <= u
    BY <1>1, <2>2, <2>3, <2>4, <2>7, <2>8
  <2>10. Spaced(q, T \cup {t})
    BY ONLY <2>9, SpacedStep
  <2>11. Reached(k + 1)
    BY <2>2, <2>6, <2>8, <2>10, Zenon
  <2> HIDE DEF Reached
  <2> QED
    BY <1>1, <1>6, <2>2, <2>11
<1>9. \A k \in 0..n : k \in P
  BY <1>1, <1>7, <1>8, UpToInduction
<1>10. Spaced(h[n], From(n - n + 1)) /\ n - n + 1 = 1
  BY <1>1, <1>6, <1>9
<1>11. Clusters(times) = h[n]
  BY <1>2, <1>5 DEF Clusters, ClustersThrough
<1> QED
  BY <1>10, <1>11 DEF From

-----------------------------------------------------------------------------
(* Types.                                                                  *)

Portfolios == UNION {[D -> Nat \ {0}] : D \in SUBSET Symbols}
Beat       == [ts : Nat, rows : Portfolios]
Account    == [ts : Nat, equity : Int]
Signal     == [ts : Nat, answer : Portfolios]
Allocation == [ts : Nat, weights : Portfolios]
OrderRow   == [ts : Nat, sym : Symbols, side : {"buy", "sell"}, amount : Nat]
Cycle      == [at : Nat, saw : Portfolios, locks : SUBSET Symbols, active : SUBSET Bots,
               bars : 0..Events, states : [Bots -> States], answered : SUBSET Bots, whole : BOOLEAN]

AuditTyped ==
  /\ minute \in 0..LastTime /\ events \in 0..Events /\ bars \in 0..events
  /\ cash \in Int /\ pos \in [Symbols -> Nat] /\ locks \in SUBSET Symbols
  /\ active \in SUBSET Bots /\ lastCycle \in NotYet..minute /\ wanted \in BOOLEAN
  /\ beats \in Seq(Beat) /\ accounts \in Seq(Account)
  /\ signals \in [Bots -> Seq(Signal)] /\ allocs \in [Bots -> Seq(Allocation)]
  /\ states \in [Bots -> States]
  /\ orders \in Seq(OrderRow) /\ plan \in SUBSET OrderPlanned
  /\ cycles \in Seq(Cycle)
  /\ \A k \in DOMAIN cycles : cycles[k].answered \subseteq cycles[k].active

\* No row is later than the clock, nor a cycle's bars than the market's.
AllBy(rows, t) == \A i \in DOMAIN rows : rows[i].ts <= t
RowsPast ==
  /\ AllBy(beats, minute) /\ AllBy(accounts, minute) /\ AllBy(orders, minute)
  /\ \A b \in Bots : AllBy(signals[b], minute) /\ AllBy(allocs[b], minute)
  /\ \A k \in DOMAIN cycles : cycles[k].at <= minute /\ cycles[k].bars <= bars

\* A plan orders a symbol once, and sells what is held.
Covered ==
  /\ \A o, p \in plan : o.sym = p.sym => o = p
  /\ \A o \in plan : o.side = "sell" => o.amount <= pos[o.sym]

LEMMA PortfolioMember == ASSUME NEW w PROVE w \in Portfolios <=> IsPortfolio(w)
<1>1. ASSUME IsPortfolio(w) PROVE w \in Portfolios
  <2>1. PICK D : D = DOMAIN w
    OBVIOUS
  <2>2. D \in SUBSET Symbols /\ w \in [D -> Nat \ {0}]
    BY <1>1, <2>1 DEF IsPortfolio
  <2> QED
    BY <2>2 DEF Portfolios
<1>2. ASSUME w \in Portfolios PROVE IsPortfolio(w)
  <2>1. PICK D \in SUBSET Symbols : w \in [D -> Nat \ {0}]
    BY <1>2 DEF Portfolios
  <2>2. DOMAIN w = D
    BY <2>1
  <2> QED
    BY <2>1, <2>2 DEF IsPortfolio
<1> QED
  BY <1>1, <1>2

LEMMA Retyped ==
  ASSUME NEW S, NEW s \in Seq(S), NEW T, \A i \in DOMAIN s : s[i] \in T
  PROVE  s \in Seq(T)
OBVIOUS

LEMMA BarsTyped ==
  ASSUME AuditTyped
  PROVE  /\ bars \in 0..Events /\ bars \in Nat /\ minute \in Nat
         /\ events \in Nat /\ Events \in Nat /\ LastTime \in Nat
<1>1. minute \in 0..LastTime /\ events \in 0..Events /\ bars \in 0..events
  BY DEF AuditTyped
<1>2. LastTime \in Nat /\ Events \in Nat
  BY AuditConstants
<1> QED
  BY <1>1, <1>2

LEMMA TypedOK == AuditTyped /\ RowsPast => AuditTypeOK
<1> SUFFICES ASSUME AuditTyped, RowsPast PROVE AuditTypeOK
  OBVIOUS
<1> USE DEF AuditTyped, RowsPast, AllBy
<1>1. minute \in Nat /\ bars \in Nat
  BY BarsTyped
<1>2. ASSUME NEW i \in DOMAIN beats PROVE beats[i].ts \in 0..minute /\ IsPortfolio(beats[i].rows)
  <2>1. beats[i] \in Beat
    OBVIOUS
  <2> QED
    BY <1>1, <2>1, PortfolioMember DEF Beat
<1>3. accounts \in Seq([ts : 0..minute, equity : Int])
  <2>1. PICK T : T = [ts : 0..minute, equity : Int]
    OBVIOUS
  <2>2. ASSUME NEW i \in DOMAIN accounts PROVE accounts[i] \in T
    <3>1. accounts[i] \in Account /\ accounts[i].ts <= minute
      OBVIOUS
    <3> QED
      BY <1>1, <2>1, <3>1 DEF Account
  <2>3. accounts \in Seq(Account)
    OBVIOUS
  <2>4. accounts \in Seq(T)
    BY ONLY <2>2, <2>3, Retyped
  <2> QED
    BY ONLY <2>1, <2>4
<1>4. orders \in Seq([ts : 0..minute, sym : Symbols, side : {"buy", "sell"}, amount : Nat])
  <2>1. PICK T : T = [ts : 0..minute, sym : Symbols, side : {"buy", "sell"}, amount : Nat]
    OBVIOUS
  <2>2. ASSUME NEW i \in DOMAIN orders PROVE orders[i] \in T
    <3>1. orders[i] \in OrderRow /\ orders[i].ts <= minute
      OBVIOUS
    <3> QED
      BY <1>1, <2>1, <3>1 DEF OrderRow
  <2>3. orders \in Seq(OrderRow)
    OBVIOUS
  <2>4. orders \in Seq(T)
    BY ONLY <2>2, <2>3, Retyped
  <2> QED
    BY ONLY <2>1, <2>4
<1>5. ASSUME NEW b \in Bots, NEW i \in DOMAIN signals[b]
      PROVE  signals[b][i].ts \in 0..minute /\ IsPortfolio(signals[b][i].answer)
  <2>1. signals[b][i] \in Signal
    OBVIOUS
  <2> QED
    BY <1>1, <2>1, PortfolioMember DEF Signal
<1>6. ASSUME NEW b \in Bots, NEW i \in DOMAIN allocs[b]
      PROVE  allocs[b][i].ts \in 0..minute /\ IsPortfolio(allocs[b][i].weights)
  <2>1. allocs[b][i] \in Allocation
    OBVIOUS
  <2> QED
    BY <1>1, <2>1, PortfolioMember DEF Allocation
<1>7. ASSUME NEW k \in DOMAIN cycles
      PROVE  /\ cycles[k].at \in 0..minute /\ IsPortfolio(cycles[k].saw) /\ cycles[k].locks \in SUBSET Symbols
             /\ cycles[k].bars \in 0..bars /\ cycles[k].states \in [Bots -> States]
             /\ cycles[k].active \in SUBSET Bots /\ cycles[k].answered \in SUBSET cycles[k].active
             /\ cycles[k].whole \in BOOLEAN
  <2>1. cycles[k] \in Cycle /\ cycles[k].bars <= bars /\ cycles[k].at <= minute
    OBVIOUS
  <2>2. IsPortfolio(cycles[k].saw)
    BY <2>1, PortfolioMember DEF Cycle
  <2>3. cycles[k].at \in 0..minute /\ cycles[k].bars \in 0..bars
    BY <1>1, <2>1, BarsTyped DEF Cycle
  <2> QED
    BY <2>1, <2>2, <2>3 DEF Cycle
<1> QED
  BY <1>2, <1>3, <1>4, <1>5, <1>6, <1>7 DEF AuditTypeOK

-----------------------------------------------------------------------------
(* The plan of a cycle.                                                    *)

LEMMA AnswerTyped ==
  ASSUME AuditTyped, NEW b \in Bots
  PROVE  /\ IsPortfolio(Answer(b, bars, states[b]))
         /\ NextState(bars, states[b]) \in States
         /\ IsPortfolio(Safe(b))
<1>0. bars \in 0..Events
  BY BarsTyped
<1>1. bars \in 0..Events /\ states[b] \in States
  BY <1>0 DEF AuditTyped
<1>2. IsPortfolio(Answer(b, bars, states[b])) /\ NextState(bars, states[b]) \in States
  BY <1>1, AlgorithmAssumption
<1> QED
  BY <1>2, ExcludeLockedFacts DEF Safe

LEMMA HeldFacts ==
  ASSUME AuditTyped
  PROVE  /\ IsPortfolio(Held(pos)) /\ DOMAIN Held(pos) = {s \in Symbols : pos[s] > 0}
         /\ \A s \in DOMAIN Held(pos) : Held(pos)[s] = pos[s]
         /\ Equity \in Int
<1>1. DOMAIN Held(pos) = {s \in Symbols : pos[s] > 0} /\ \A s \in DOMAIN Held(pos) : Held(pos)[s] = pos[s]
  BY DEF Held, Restrict
<1>2. \A s \in Symbols : pos[s] \in Nat
  BY DEF AuditTyped
<1>3. IsPortfolio(Held(pos))
  BY <1>1, <1>2 DEF IsPortfolio, Held, Restrict
<1>4. SumFunction(pos) \in Int
  <2>1. DOMAIN pos = Symbols
    BY DEF AuditTyped
  <2>2. SumFunctionOnSet(pos, Symbols) \in Nat
    BY <1>2, FiniteAssumption, SumNat
  <2> QED
    BY <2>1, <2>2 DEF SumFunction
<1>5. Equity \in Int
  BY <1>4 DEF AuditTyped, Equity
<1> QED
  BY <1>1, <1>3, <1>5

\* What is locked is worth the same, whether what is not held counts or not.
LEMMA LockedWorth ==
  ASSUME AuditTyped
  PROVE  /\ SumFunction(Restrict(pos, locks)) \in Nat
         /\ SumFunction(Restrict(pos, locks))
              = SumFunction(Restrict(Held(pos), DOMAIN Held(pos) \cap locks))
<1> DEFINE T == DOMAIN Held(pos) \cap locks
           f == Restrict(pos, locks)
           g == Restrict(Held(pos), T)
<1>1. IsFiniteSet(locks) /\ T \in SUBSET locks /\ IsFiniteSet(T)
  BY FiniteAssumption, FS_Subset DEF AuditTyped
<1>2. DOMAIN f = locks /\ \A s \in locks : f[s] = pos[s] /\ f[s] \in Nat
  BY DEF AuditTyped, Restrict
<1>3. \A s \in locks \ T : f[s] = 0
  BY <1>2, HeldFacts DEF AuditTyped
<1>4. DOMAIN g = T /\ \A s \in T : g[s] = f[s]
  BY <1>2, HeldFacts DEF Restrict
<1> HIDE DEF T, f, g
<1>5. SumFunctionOnSet(f, locks) = SumFunctionOnSet(f, T) /\ SumFunctionOnSet(f, locks) \in Nat
  <2>1. \A s \in locks : f[s] \in Int
    BY <1>2
  <2> QED
    BY <1>1, <1>2, <1>3, <2>1, SumNonzero, SumNat
<1>6. SumFunctionOnSet(f, T) = SumFunctionOnSet(g, T)
  <2>1. \A s \in T : g[s] \in Int /\ g[s] = f[s]
    BY <1>1, <1>2, <1>4
  <2> QED
    BY <1>1, <2>1, SumSame
<1> QED
  BY <1>2, <1>4, <1>5, <1>6 DEF SumFunction, T, f, g

\* The plan that positions, locks, an account's equity and allocations lead to.
Managed(values, locked, account) ==
  Max({account - SumFunction(Restrict(values, DOMAIN values \cap locked)), 0})
PlanFrom(values, locked, account, weights) ==
  OrderPlan(CombinedTarget([b \in DOMAIN weights |-> ExcludeLocked(weights[b], locked)],
                           Managed(values, locked, account)),
            Restrict(values, DOMAIN values \ locked), Managed(values, locked, account))

LEMMA PlanFromFacts ==
  ASSUME NEW values, IsPortfolio(values), NEW locked, NEW account \in Int,
         NEW weights, DOMAIN weights \subseteq Bots, \A b \in DOMAIN weights : IsPortfolio(weights[b]),
         Managed(values, locked, account) \in Nat
  PROVE  /\ PlanFrom(values, locked, account, weights) \in SUBSET OrderPlanned
         /\ \A o \in PlanFrom(values, locked, account, weights) :
              o.side = "sell" => o.sym \in DOMAIN values /\ o.amount <= values[o.sym]
<1>1. PICK d : d = [b \in DOMAIN weights |-> ExcludeLocked(weights[b], locked)]
  OBVIOUS
<1>2. PICK c : c = Restrict(values, DOMAIN values \ locked)
  OBVIOUS
<1>3. PICK e \in Nat : e = Managed(values, locked, account)
  OBVIOUS
<1>4. PICK t : t = CombinedTarget(d, e)
  OBVIOUS
<1>5. PlanFrom(values, locked, account, weights) = OrderPlan(t, c, e)
  BY <1>1, <1>2, <1>3, <1>4 DEF PlanFrom
<1>6. Desires(d)
  BY <1>1, ExcludeLockedFacts DEF Desires
<1>7. Dollars(t)
  <2>1. UNION {DOMAIN d[b] : b \in DOMAIN d} \subseteq Symbols
    BY <1>6 DEF Desires, IsPortfolio
  <2>2. \A s \in Symbols : TargetDollars(d, e, s) \in Nat
    BY <1>6, TargetIsSpread
  <2> QED
    BY <1>4, <2>1, <2>2 DEF CombinedTarget, Dollars
<1>8. Dollars(c) /\ DOMAIN c \subseteq DOMAIN values /\ \A s \in DOMAIN c : c[s] = values[s]
  BY <1>2 DEF Dollars, Restrict, IsPortfolio
<1>9. ASSUME NEW o \in OrderPlan(t, c, e)
      PROVE  /\ o \in OrderPlanned
             /\ o.side = "sell" => o.sym \in DOMAIN values /\ o.amount <= values[o.sym]
  <2>1. o.amount \in Nat /\ (o.side = "sell" => o.sym \in DOMAIN c /\ o.amount <= c[o.sym])
    BY <1>7, <1>8, PlanFacts
  <2>2. PICK s \in Traded(t, c) : o = Order(t, c, s)
    BY DEF OrderPlan
  <2>3. s \in Symbols
    BY <1>7, <1>8, <2>2 DEF Traded, Dollars
  <2>4. o \in OrderPlanned
    BY <2>1, <2>2, <2>3 DEF Order, OrderPlanned
  <2> QED
    BY <1>8, <2>1, <2>4
<1> QED
  BY <1>5, <1>9

LEMMA PlanFromOnce ==
  ASSUME NEW values, NEW locked, NEW account, NEW weights,
         NEW o \in PlanFrom(values, locked, account, weights),
         NEW p \in PlanFrom(values, locked, account, weights), o.sym = p.sym
  PROVE  o = p
<1>1. PICK t, c, e : PlanFrom(values, locked, account, weights) = OrderPlan(t, c, e)
  BY DEF PlanFrom
<1>2. PICK s, u : o = Order(t, c, s) /\ p = Order(t, c, u)
  BY <1>1 DEF OrderPlan
<1> QED
  BY <1>2 DEF Order

\* What the tables give a bot once the cycle has stored its allocation.
Granted(got) ==
  [b \in active |-> IF Allots(got, b) THEN Safe(b)
                    ELSE IF allocs[b] # <<>> THEN Last(allocs[b]).weights ELSE NoSymbols]

LEMMA CyclePlanFrom ==
  ASSUME AuditTyped, NEW got
  PROVE  CyclePlan(got) = PlanFrom(Held(pos), locks, Equity, Granted(got))
<1> DEFINE d(b) == CASE Allots(got, b) -> Safe(b)
                     [] ~Allots(got, b) /\ allocs[b] # <<>> -> ExcludeLocked(Last(allocs[b]).weights, locks)
                     [] OTHER -> NoSymbols
<1>1. ASSUME NEW b \in active
      PROVE  ExcludeLocked(Granted(got)[b], locks) = d(b)
  <2>1. ExcludeLocked(Safe(b), locks) = Safe(b)
    <3>1. PICK w : w = Answer(b, bars, states[b])
      OBVIOUS
    <3>2. Restrict(Restrict(w, DOMAIN w \ locks), DOMAIN Restrict(w, DOMAIN w \ locks) \ locks)
          = Restrict(w, DOMAIN w \ locks)
      BY DEF Restrict
    <3> QED
      BY <3>1, <3>2 DEF Safe, ExcludeLocked
  <2>2. ExcludeLocked(NoSymbols, locks) = NoSymbols
    BY DEF ExcludeLocked, Restrict, NoSymbols
  <2>3. CASE Allots(got, b)
    <3>1. Granted(got)[b] = Safe(b)
      BY <2>3 DEF Granted
    <3> QED
      BY <2>1, <2>3, <3>1
  <2>4. CASE ~Allots(got, b) /\ allocs[b] # <<>>
    <3>1. Granted(got)[b] = Last(allocs[b]).weights
      BY <2>4 DEF Granted
    <3> QED
      BY <2>4, <3>1
  <2>5. CASE ~Allots(got, b) /\ allocs[b] = <<>>
    <3>1. Granted(got)[b] = NoSymbols
      BY <2>5 DEF Granted
    <3> QED
      BY <2>2, <2>5, <3>1
  <2> QED
    BY <2>3, <2>4, <2>5
<1>2. Max({Equity - SumFunction(Restrict(pos, locks)), 0}) = Managed(Held(pos), locks, Equity)
  BY LockedWorth DEF Managed
<1>3. [b \in active |-> ExcludeLocked(Granted(got)[b], locks)] = [b \in active |-> d(b)]
  BY <1>1
<1>4. DOMAIN Granted(got) = active
  BY DEF Granted
<1> QED
  BY <1>2, <1>3, <1>4 DEF CyclePlan, PlanFrom

LEMMA CyclePlanFacts ==
  ASSUME AuditTyped, NEW got
  PROVE  /\ CyclePlan(got) \in SUBSET OrderPlanned
         /\ \A o, p \in CyclePlan(got) : o.sym = p.sym => o = p
         /\ \A o \in CyclePlan(got) : o.side = "sell" => o.amount <= pos[o.sym]
<1>1. IsPortfolio(Held(pos)) /\ Equity \in Int /\ \A s \in DOMAIN Held(pos) : Held(pos)[s] = pos[s]
  BY HeldFacts
<1>0. DOMAIN Granted(got) = active /\ active \subseteq Bots
  BY DEF Granted, AuditTyped
<1>2. ASSUME NEW b \in active PROVE IsPortfolio(Granted(got)[b])
  <2>1. ASSUME allocs[b] # <<>> PROVE IsPortfolio(Last(allocs[b]).weights)
    <3>1. PICK rows, n : rows = allocs[b] /\ n = Len(rows)
      OBVIOUS
    <3>2. rows \in Seq(Allocation) /\ n \in DOMAIN rows
      BY <1>0, <2>1, <3>1 DEF AuditTyped
    <3>3. rows[n] \in Allocation
      BY <3>2
    <3> QED
      BY <3>1, <3>3, PortfolioMember DEF Last, Allocation
  <2> QED
    BY <1>0, <2>1, AnswerTyped, NoSymbolsIsPortfolio DEF Granted
<1>3. Managed(Held(pos), locks, Equity) \in Nat
  <2>1. PICK x \in Int : x = Equity - SumFunction(Restrict(Held(pos), DOMAIN Held(pos) \cap locks))
    BY <1>1, LockedWorth
  <2>2. Max({x, 0}) = IF x >= 0 THEN x ELSE 0
    BY MaxOfTwo
  <2> QED
    BY <2>1, <2>2 DEF Managed
<1>4. PICK g : g = Granted(got)
  OBVIOUS
<1>5. DOMAIN g \subseteq Bots /\ \A b \in DOMAIN g : IsPortfolio(g[b])
  BY <1>0, <1>2, <1>4
<1>6. /\ PlanFrom(Held(pos), locks, Equity, g) \in SUBSET OrderPlanned
      /\ \A o \in PlanFrom(Held(pos), locks, Equity, g) :
           o.side = "sell" => o.sym \in DOMAIN Held(pos) /\ o.amount <= Held(pos)[o.sym]
  BY <1>1, <1>3, <1>5, PlanFromFacts
<1>7. CyclePlan(got) = PlanFrom(Held(pos), locks, Equity, g)
  BY <1>4, CyclePlanFrom
<1>8. \A o \in CyclePlan(got) : o.side = "sell" => o.amount <= pos[o.sym]
  BY <1>1, <1>6, <1>7
<1>9. \A o, p \in CyclePlan(got) : o.sym = p.sym => o = p
  BY <1>7, PlanFromOnce
<1> QED
  BY <1>6, <1>7, <1>8, <1>9

-----------------------------------------------------------------------------
(* Type correctness.                                                       *)

\* A step that leaves the cycles, their orders and most tables alone.
Elsewhere == UNCHANGED <<accounts, signals, states, allocs, orders, plan, cycles>>
Outside ==
  \/ Tick \/ BarsMove \/ AskForRun \/ RequestDone \/ RestartWorker
  \/ \E s \in Symbols : Drift(s) \/ EditLock(s)
  \/ \E b \in Bots : SwitchBot(b)
  \/ UNCHANGED auditVars

LEMMA OutsideFacts ==
  ASSUME Outside, AuditTyped
  PROVE  /\ Elsewhere /\ beats' = beats
         /\ minute' \in 0..LastTime /\ minute <= minute'
         /\ events' \in 0..Events /\ bars' \in 0..events' /\ bars <= bars'
         /\ cash' = cash /\ pos' \in [Symbols -> Nat] /\ locks' \in SUBSET Symbols
         /\ active' \in SUBSET Bots /\ wanted' \in BOOLEAN /\ lastCycle' \in NotYet..minute'
         /\ \A s \in Symbols : pos[s] <= pos'[s]
<1>0. /\ minute \in Nat /\ LastTime \in Nat /\ Events \in Nat /\ events \in Nat /\ bars \in Nat
      /\ events \in 0..Events /\ bars \in 0..events /\ minute \in 0..LastTime
      /\ lastCycle \in NotYet..minute /\ NotYet \in NotYet..minute /\ lastCycle \in NotYet..(minute + 1)
  BY BarsTyped DEF AuditTyped, NotYet
<1>1. /\ locks \in SUBSET Symbols /\ active \in SUBSET Bots /\ wanted \in BOOLEAN
      /\ pos \in [Symbols -> Nat] /\ \A s \in Symbols : pos[s] <= pos[s]
  BY DEF AuditTyped
<1>2. CASE Tick
  BY <1>0, <1>1, <1>2 DEF Tick, Elsewhere, tables
<1>3. ASSUME NEW s \in Symbols, Drift(s)
      PROVE  pos' \in [Symbols -> Nat] /\ \A x \in Symbols : pos[x] <= pos'[x]
  <2>1. pos' = [pos EXCEPT ![s] = @ + 2]
    BY <1>3 DEF Drift
  <2>2. \A x \in Symbols : pos'[x] = IF x = s THEN pos[s] + 2 ELSE pos[x]
    BY <1>1, <2>1
  <2> QED
    BY <1>1, <2>1, <2>2
<1>4. CASE \E s \in Symbols : Drift(s)
  <2>1. pos' \in [Symbols -> Nat] /\ \A x \in Symbols : pos[x] <= pos'[x]
    BY <1>3, <1>4
  <2>2. /\ Elsewhere /\ events + 1 <= Events /\ events' = events + 1
        /\ UNCHANGED <<beats, minute, bars, cash, locks, active, wanted, lastCycle>>
    BY <1>4 DEF Drift, Event, Happen, Elsewhere, tables, world
  <2> QED
    BY <1>0, <1>1, <2>1, <2>2
<1>5. ASSUME \/ BarsMove \/ AskForRun \/ RestartWorker
             \/ \E s \in Symbols : EditLock(s)
             \/ \E b \in Bots : SwitchBot(b)
      PROVE  /\ Elsewhere /\ events + 1 <= Events /\ events' = events + 1
             /\ UNCHANGED <<beats, minute, cash, pos>> /\ bars' \in {bars, bars + 1}
             /\ locks' \in SUBSET Symbols /\ active' \in SUBSET Bots /\ wanted' \in BOOLEAN
             /\ lastCycle' \in {lastCycle, NotYet}
  <2>1. CASE BarsMove \/ AskForRun \/ RestartWorker
    BY <1>1, <2>1 DEF BarsMove, AskForRun, RestartWorker, Event, Happen, Elsewhere, tables, world
  <2>2. CASE \E s \in Symbols : EditLock(s)
    BY <1>1, <2>2 DEF EditLock, Event, Happen, Elsewhere, tables
  <2>3. CASE \E b \in Bots : SwitchBot(b)
    BY <1>1, <2>3 DEF SwitchBot, Event, Happen, Elsewhere, tables
  <2> QED
    BY <1>5, <2>1, <2>2, <2>3
<1>6. CASE \/ BarsMove \/ AskForRun \/ RestartWorker
           \/ \E s \in Symbols : EditLock(s)
           \/ \E b \in Bots : SwitchBot(b)
  <2>1. /\ Elsewhere /\ events + 1 <= Events /\ events' = events + 1
        /\ UNCHANGED <<beats, minute, cash, pos>> /\ bars' \in {bars, bars + 1}
        /\ locks' \in SUBSET Symbols /\ active' \in SUBSET Bots /\ wanted' \in BOOLEAN
        /\ lastCycle' \in {lastCycle, NotYet}
    BY <1>5, <1>6
  <2>2. events' \in 0..Events /\ bars' \in 0..events' /\ bars <= bars' /\ minute <= minute'
    BY <1>0, <2>1
  <2>3. lastCycle' \in NotYet..minute' /\ minute' \in 0..LastTime
    BY <1>0, <2>1
  <2> QED
    BY <1>1, <2>1, <2>2, <2>3
<1>7. CASE RequestDone
  <2>1. /\ UNCHANGED <<minute, bars, locks, active, lastCycle, cash, pos, events, beats>>
        /\ Elsewhere /\ wanted' = FALSE
    BY <1>7 DEF RequestDone, Elsewhere, tables
  <2>2. minute <= minute' /\ bars <= bars'
    BY <1>0, <2>1
  <2> QED
    BY <1>0, <1>1, <2>1, <2>2
<1>8. CASE UNCHANGED auditVars
  BY <1>0, <1>1, <1>8 DEF auditVars, Elsewhere, tables, world
<1> QED
  BY <1>2, <1>4, <1>6, <1>7, <1>8 DEF Outside

\* A cycle, as far as its bots and itself get.
Cycling(got, whole) ==
  /\ Due /\ RunBots(got, whole) /\ Happen(IF whole THEN Cardinality(Failing(got)) ELSE 1)
  /\ plan' = IF whole THEN CyclePlan(got) ELSE {}
  /\ lastCycle' \in {minute, NotYet}

LEMMA AuditSteps ==
  ASSUME [AuditNext]_auditVars
  PROVE  \/ Outside \/ PlanBreaks \/ Heartbeat
         \/ \E got \in Outcomes, whole \in BOOLEAN : Cycling(got, whole)
         \/ \E o \in plan : SubmitOrder(o)
<1>1. ASSUME NEW got \in Outcomes, RunCycle(got) PROVE Cycling(got, TRUE)
  BY <1>1 DEF RunCycle, Cycling
<1>2. ASSUME NEW got \in Outcomes, CycleBreaks(got) PROVE Cycling(got, FALSE)
  BY <1>2 DEF CycleBreaks, Cycling, Event, Due, Pass
<1> QED
  BY <1>1, <1>2 DEF AuditNext, Outside

LEMMA OutcomesFacts ==
  ASSUME NEW got \in Outcomes, AuditTyped
  PROVE  /\ \A b \in Bots : got[b] # "nothing" => b \in active
         /\ {b \in Bots : got[b] # "nothing"} \in SUBSET active
         /\ Cardinality(Failing(got)) \in Nat
<1>1. \A b \in Bots : got[b] # "nothing" => b \in active
  BY DEF Outcomes
<1>2. IsFiniteSet(active)
  BY FiniteAssumption, FS_Subset DEF AuditTyped
<1>3. IsFiniteSet(Failing(got))
  BY <1>2, FS_Subset DEF Failing
<1> QED
  BY <1>1, <1>3, FS_CardinalityType

\* The rows the steps add.
CycleOf(got, whole) ==
  [at |-> minute, saw |-> Held(pos), locks |-> locks, active |-> active, bars |-> bars, states |-> states,
   answered |-> {b \in Bots : got[b] # "nothing"}, whole |-> whole]

LEMMA CycleRow ==
  ASSUME AuditTyped, NEW got, NEW w \in BOOLEAN
  PROVE  CycleOf(got, w) \in Cycle
<1>1. Held(pos) \in Portfolios
  BY HeldFacts, PortfolioMember
<1>2. minute \in Nat /\ locks \in SUBSET Symbols /\ active \in SUBSET Bots /\ states \in [Bots -> States]
  BY BarsTyped DEF AuditTyped
<1>3. bars \in 0..Events
  BY BarsTyped
<1>4. {b \in Bots : got[b] # "nothing"} \in SUBSET Bots
  OBVIOUS
<1> QED
  BY <1>1, <1>2, <1>3, <1>4 DEF Cycle, CycleOf

LEMMA RowsTyped ==
  ASSUME AuditTyped, NEW b \in Bots
  PROVE  /\ [ts |-> minute, equity |-> Equity] \in Account
         /\ [ts |-> minute, rows |-> Held(pos)] \in Beat
         /\ [ts |-> minute, answer |-> Answer(b, bars, states[b])] \in Signal
         /\ [ts |-> minute, weights |-> Safe(b)] \in Allocation
         /\ Stored(signals[b], Answer(b, bars, states[b])) \in Seq(Signal)
<1>1. minute \in Nat
  BY BarsTyped
<1>2. Equity \in Int /\ Held(pos) \in Portfolios
  BY HeldFacts, PortfolioMember
<1>3. Answer(b, bars, states[b]) \in Portfolios /\ Safe(b) \in Portfolios
  BY AnswerTyped, PortfolioMember
<1>4. [ts |-> minute, answer |-> Answer(b, bars, states[b])] \in Signal
  BY <1>1, <1>3 DEF Signal
<1>5. Stored(signals[b], Answer(b, bars, states[b])) \in Seq(Signal)
  <2>1. signals[b] \in Seq(Signal)
    BY DEF AuditTyped
  <2> QED
    BY <1>4, <2>1 DEF Stored
<1>6. [ts |-> minute, equity |-> Equity] \in Account /\ [ts |-> minute, rows |-> Held(pos)] \in Beat
  BY <1>1, <1>2 DEF Account, Beat
<1>7. [ts |-> minute, weights |-> Safe(b)] \in Allocation
  BY <1>1, <1>3 DEF Allocation
<1> QED
  BY <1>4, <1>5, <1>6, <1>7

LEMMA AuditInitTyped == AuditInit => AuditTyped
<1> SUFFICES ASSUME AuditInit PROVE AuditTyped
  OBVIOUS
<1>1. 0 \in 0..LastTime /\ 0 \in 0..Events /\ StartCash \in Int /\ 0 \in States
  BY AuditConstants, AlgorithmAssumption
<1>2. /\ signals \in [Bots -> Seq(Signal)] /\ allocs \in [Bots -> Seq(Allocation)]
      /\ states \in [Bots -> States]
  BY <1>1 DEF AuditInit
<1>3. NotYet \in NotYet..0
  BY DEF NotYet
<1>4. cash \in Int /\ pos \in [Symbols -> Nat] /\ minute = 0 /\ events = 0 /\ bars = 0
  BY <1>1, AuditConstants DEF AuditInit
<1>5. /\ locks \in SUBSET Symbols /\ active \in SUBSET Bots /\ wanted \in BOOLEAN
      /\ lastCycle = NotYet /\ plan \in SUBSET OrderPlanned
  BY DEF AuditInit
<1>6. /\ beats \in Seq(Beat) /\ accounts \in Seq(Account) /\ orders \in Seq(OrderRow)
      /\ cycles \in Seq(Cycle) /\ DOMAIN cycles = {}
  BY DEF AuditInit
<1> QED
  BY <1>1, <1>2, <1>3, <1>4, <1>5, <1>6 DEF AuditTyped

LEMMA AppendFacts ==
  ASSUME NEW S, NEW s \in Seq(S), NEW x \in S, NEW q, q = Append(s, x)
  PROVE  /\ q \in Seq(S) /\ Len(s) \in Nat /\ Len(q) = Len(s) + 1 /\ q # <<>>
         /\ DOMAIN s = 1..Len(s) /\ DOMAIN q = 1..(Len(s) + 1)
         /\ q[Len(s) + 1] = x /\ \A i \in 1..Len(s) : q[i] = s[i]
OBVIOUS

LEMMA AppendBy ==
  ASSUME NEW S, NEW rows \in Seq(S), NEW r \in S, NEW t, r.ts <= t, AllBy(rows, t)
  PROVE  AllBy(Append(rows, r), t)
<1>1. PICK q : q = Append(rows, r)
  OBVIOUS
<1>2. PICK n : n = Len(rows)
  OBVIOUS
<1>3. /\ n \in Nat /\ DOMAIN rows = 1..n /\ DOMAIN q = 1..(n + 1) /\ q[n + 1] = r
      /\ \A i \in 1..n : q[i] = rows[i]
  BY <1>1, <1>2, AppendFacts
<1>4. \A i \in 1..(n + 1) : i \in 1..n \/ i = n + 1
  BY <1>3
<1> QED
  BY <1>1, <1>3, <1>4 DEF AllBy

\* What a new cycle adds, however far it gets.
LEMMA CycleAdded ==
  ASSUME AuditTyped, NEW got \in Outcomes, NEW whole \in BOOLEAN, Cycling(got, whole)
  PROVE  /\ plan = {} /\ UNCHANGED <<minute, bars, cash, pos, locks, active, wanted, beats, orders>>
         /\ Len(cycles) \in Nat /\ Len(cycles') = Len(cycles) + 1 /\ cycles' # <<>>
         /\ cycles' \in Seq(Cycle)
         /\ DOMAIN cycles = 1..Len(cycles) /\ DOMAIN cycles' = 1..(Len(cycles) + 1)
         /\ \A k \in 1..Len(cycles) :
              cycles'[k] = cycles[k] /\ cycles[k] \in Cycle /\ cycles[k].at < minute
         /\ cycles'[Len(cycles) + 1] = CycleOf(got, whole)
         /\ cycles'[Len(cycles) + 1].at = minute /\ cycles'[Len(cycles) + 1].bars = bars
         /\ cycles'[Len(cycles) + 1].whole = whole
         /\ \A i \in DOMAIN orders : orders[i].ts < minute
         /\ whole => plan' = CyclePlan(got)
         /\ ~whole => plan' = {}
         /\ accounts' = Append(accounts, [ts |-> minute, equity |-> Equity])
<1>1. PICK c : c = CycleOf(got, whole)
  OBVIOUS
<1>2. c \in Cycle
  BY <1>1, CycleRow
<1>3. cycles \in Seq(Cycle) /\ cycles' = Append(cycles, c)
  BY <1>1 DEF AuditTyped, Cycling, RunBots, CycleOf
<1>4. /\ Len(cycles) \in Nat /\ Len(cycles') = Len(cycles) + 1 /\ cycles' # <<>> /\ cycles' \in Seq(Cycle)
      /\ DOMAIN cycles = 1..Len(cycles) /\ DOMAIN cycles' = 1..(Len(cycles) + 1)
      /\ cycles'[Len(cycles) + 1] = c /\ \A i \in 1..Len(cycles) : cycles'[i] = cycles[i]
  BY ONLY <1>2, <1>3, AppendFacts
<1>5. /\ plan = {} /\ UNCHANGED <<minute, bars, cash, pos, locks, active, wanted, beats, orders>>
      /\ accounts' = Append(accounts, [ts |-> minute, equity |-> Equity])
      /\ \A k \in DOMAIN cycles : cycles[k].at < minute
      /\ \A i \in DOMAIN orders : orders[i].ts < minute
      /\ whole => plan' = CyclePlan(got)
      /\ ~whole => plan' = {}
  BY DEF Cycling, RunBots, Due, Pass, world
<1>6. \A k \in 1..Len(cycles) : cycles[k] \in Cycle
  BY <1>3
<1>7. c.at = minute /\ c.bars = bars /\ c.whole = whole
  BY <1>1 DEF CycleOf
<1> QED
  BY <1>1, <1>4, <1>5, <1>6, <1>7

LEMMA CycleTyped ==
  ASSUME AuditTyped, NEW got \in Outcomes, NEW whole \in BOOLEAN, Cycling(got, whole)
  PROVE  AuditTyped'
<1>1. /\ UNCHANGED <<minute, bars, cash, pos, locks, active, wanted, beats, orders>>
      /\ cycles' \in Seq(Cycle)
  BY CycleAdded
<1>2. accounts' \in Seq(Account)
  <2>1. PICK r : r = [ts |-> minute, equity |-> Equity]
    OBVIOUS
  <2>2. r \in Account
    BY <2>1, BarsTyped, HeldFacts DEF Account
  <2>3. accounts' = Append(accounts, r) /\ accounts \in Seq(Account)
    BY <2>1, CycleAdded DEF AuditTyped
  <2> QED
    BY <2>2, <2>3
<1>3. signals' \in [Bots -> Seq(Signal)]
  <2>1. \A b \in Bots : /\ Stored(signals[b], Answer(b, bars, states[b])) \in Seq(Signal)
                        /\ signals[b] \in Seq(Signal)
    BY RowsTyped DEF AuditTyped
  <2> QED
    BY <2>1 DEF Cycling, RunBots
<1>4. states' \in [Bots -> States]
  <2>1. \A b \in Bots : NextState(bars, states[b]) \in States /\ states[b] \in States
    BY AnswerTyped DEF AuditTyped
  <2> QED
    BY <2>1 DEF Cycling, RunBots
<1>5. allocs' \in [Bots -> Seq(Allocation)]
  <2>1. ASSUME NEW b \in Bots
        PROVE  (IF Allots(got, b) THEN Append(allocs[b], [ts |-> minute, weights |-> Safe(b)])
                ELSE allocs[b]) \in Seq(Allocation)
    <3>1. PICK row : row = [ts |-> minute, weights |-> Safe(b)]
      OBVIOUS
    <3>2. row \in Allocation /\ allocs[b] \in Seq(Allocation)
      BY <3>1, RowsTyped DEF AuditTyped
    <3>3. Append(allocs[b], row) \in Seq(Allocation)
      BY <3>2
    <3> QED
      BY <3>1, <3>2, <3>3
  <2> QED
    BY <2>1 DEF Cycling, RunBots
<1>6. plan' \in SUBSET OrderPlanned
  BY CycleAdded, CyclePlanFacts
<1>7. \A k \in DOMAIN cycles' : cycles'[k].answered \subseteq cycles'[k].active
  <2>1. PICK n : n = Len(cycles)
    OBVIOUS
  <2>2. /\ DOMAIN cycles = 1..n /\ DOMAIN cycles' = 1..(n + 1) /\ n \in Nat
        /\ \A k \in 1..n : cycles'[k] = cycles[k]
        /\ cycles'[n + 1] = CycleOf(got, whole)
    BY <2>1, CycleAdded
  <2>3. cycles'[n + 1].answered \subseteq cycles'[n + 1].active
    BY <2>2, OutcomesFacts DEF CycleOf
  <2>4. \A k \in 1..n : cycles[k].answered \subseteq cycles[k].active
    BY <2>2 DEF AuditTyped
  <2>5. \A k \in 1..(n + 1) : k \in 1..n \/ k = n + 1
    BY <2>2
  <2> QED
    BY <2>2, <2>3, <2>4, <2>5
<1>8. events' \in 0..Events /\ bars' \in 0..events'
  <2>1. PICK m \in Nat : m = IF whole THEN Cardinality(Failing(got)) ELSE 1
    BY OutcomesFacts
  <2>2. events + m <= Events /\ events' = events + m
    BY <2>1 DEF Cycling, Happen
  <2>3. events \in 0..Events /\ bars \in 0..events /\ Events \in Nat
    BY BarsTyped DEF AuditTyped
  <2> QED
    BY <1>1, <2>2, <2>3
<1>9. lastCycle' \in NotYet..minute'
  <2>1. minute \in Nat /\ lastCycle' \in {minute, NotYet}
    BY BarsTyped DEF Cycling
  <2> QED
    BY <1>1, <2>1 DEF NotYet
<1> QED
  BY <1>1, <1>2, <1>3, <1>4, <1>5, <1>6, <1>7, <1>8, <1>9 DEF AuditTyped

\* An order of the plan that is filled.
LEMMA FillTyped ==
  ASSUME NEW o \in plan, AuditTyped, Covered, Fill(o)
  PROVE  /\ pos' \in [Symbols -> Nat] /\ cash' \in Int
         /\ o \in OrderPlanned /\ \A s \in Symbols : s # o.sym => pos'[s] = pos[s]
<1>1. o \in OrderPlanned
  BY DEF AuditTyped
<1>2. PICK d : d = IF o.side = "buy" THEN o.amount ELSE -o.amount
  OBVIOUS
<1>3. d \in Int /\ o.sym \in Symbols /\ o.amount \in Nat /\ o.side \in {"buy", "sell"}
  BY <1>1, <1>2 DEF OrderPlanned
<1>4. pos' = [pos EXCEPT ![o.sym] = @ + d] /\ cash' = cash - d
  BY <1>2 DEF Fill
<1>5. pos[o.sym] + d \in Nat
  <2>1. PICK h, a : h = pos[o.sym] /\ a = o.amount
    OBVIOUS
  <2>2. h \in Nat /\ a \in Nat /\ (o.side = "sell" => a <= h)
    BY <1>3, <2>1 DEF Covered, AuditTyped
  <2>3. (o.side = "buy" /\ d = a) \/ (o.side = "sell" /\ d = -a)
    BY <1>2, <1>3, <2>1
  <2>4. h + d \in Nat
    BY <2>2, <2>3
  <2> QED
    BY <2>1, <2>4
<1> QED
  BY <1>1, <1>3, <1>4, <1>5 DEF AuditTyped

LEMMA OrderTyped ==
  ASSUME NEW o \in plan, AuditTyped, Covered, SubmitOrder(o)
  PROVE  AuditTyped'
<1>1. /\ UNCHANGED <<minute, bars, locks, active, wanted, lastCycle>>
      /\ UNCHANGED <<beats, accounts, signals, states, allocs, cycles, events>>
  BY DEF SubmitOrder, world
<1>2. pos' \in [Symbols -> Nat] /\ cash' \in Int /\ o \in OrderPlanned
  BY FillTyped DEF SubmitOrder
<1>3. orders' \in Seq(OrderRow)
  <2>1. [ts |-> minute, sym |-> o.sym, side |-> o.side, amount |-> o.amount] \in OrderRow
    BY <1>2, BarsTyped DEF OrderRow, OrderPlanned
  <2> QED
    BY <2>1 DEF SubmitOrder, AuditTyped
<1>4. plan' \in SUBSET OrderPlanned
  BY DEF SubmitOrder, AuditTyped
<1> QED
  BY <1>1, <1>2, <1>3, <1>4 DEF AuditTyped

\* The cycle under way loses the rest of its plan.
Broken(c) == [c EXCEPT !.whole = FALSE]

LEMMA BrokenTyped ==
  ASSUME AuditTyped, Covered, PlanBreaks, cycles # <<>>
  PROVE  /\ AuditTyped'
         /\ cycles' = [cycles EXCEPT ![Len(cycles)] = Broken(cycles[Len(cycles)])]
<1>1. /\ UNCHANGED <<minute, bars, locks, active, wanted>>
      /\ UNCHANGED <<beats, accounts, signals, states, allocs, orders>>
      /\ plan' = {}
  BY DEF PlanBreaks, world, tables
<1>2. events' \in 0..Events /\ bars' \in 0..events'
  <2>1. events + 1 <= Events /\ events' = events + 1
    BY DEF PlanBreaks, Event, Happen
  <2>2. Events \in Nat /\ events \in 0..Events /\ bars \in 0..events
    BY BarsTyped DEF AuditTyped
  <2> QED
    BY <1>1, <2>1, <2>2
<1>3. PICK n : n = Len(cycles)
  OBVIOUS
<1>4. n \in DOMAIN cycles /\ n \in 1..Len(cycles) /\ cycles[n] \in Cycle /\ DOMAIN cycles = 1..n
  BY <1>3 DEF AuditTyped
<1>5. cycles' = [cycles EXCEPT ![n] = Broken(cycles[n])]
  BY <1>3 DEF PlanBreaks, Broken
<1>6. Broken(cycles[n]) \in Cycle /\ Broken(cycles[n]).answered \subseteq Broken(cycles[n]).active
  <2>1. cycles[n].answered \subseteq cycles[n].active
    BY <1>4 DEF AuditTyped
  <2>2. PICK c \in Cycle : c = cycles[n]
    BY <1>4
  <2>3. Broken(c) \in Cycle /\ Broken(c).answered = c.answered /\ Broken(c).active = c.active
    BY DEF Broken, Cycle
  <2> QED
    BY <2>1, <2>2, <2>3
<1>7. cycles' \in Seq(Cycle)
  BY <1>4, <1>5, <1>6 DEF AuditTyped
<1>8. \A k \in DOMAIN cycles' : cycles'[k].answered \subseteq cycles'[k].active
  <2>1. DOMAIN cycles' = 1..n /\ \A k \in 1..n : cycles'[k] = IF k = n THEN Broken(cycles[n]) ELSE cycles[k]
    BY <1>4, <1>5
  <2> QED
    BY <1>4, <1>6, <2>1 DEF AuditTyped
<1>9. pos' \in [Symbols -> Nat] /\ cash' \in Int
  BY FillTyped DEF PlanBreaks, AuditTyped
<1>10. lastCycle' \in NotYet..minute'
  <2>1. minute \in Nat /\ lastCycle \in NotYet..minute /\ lastCycle' \in {lastCycle, NotYet}
    BY BarsTyped DEF PlanBreaks, AuditTyped
  <2> QED
    BY <1>1, <2>1 DEF NotYet
<1> QED
  BY <1>1, <1>2, <1>3, <1>5, <1>7, <1>8, <1>9, <1>10 DEF AuditTyped

LEMMA HeartbeatTyped == AuditTyped /\ Heartbeat => AuditTyped'
<1> SUFFICES ASSUME AuditTyped, Heartbeat PROVE AuditTyped'
  OBVIOUS
<1>1. /\ UNCHANGED <<minute, bars, locks, active, wanted, lastCycle>>
      /\ UNCHANGED <<cash, pos, signals, states, allocs, orders, plan, cycles, events>>
  BY DEF Heartbeat, world
<1>2. [ts |-> minute, equity |-> Equity] \in Account /\ [ts |-> minute, rows |-> Held(pos)] \in Beat
  BY HeldFacts, PortfolioMember, BarsTyped DEF Account, Beat
<1>3. accounts' \in Seq(Account) /\ beats' \in Seq(Beat)
  BY <1>2 DEF Heartbeat, AuditTyped
<1> QED
  BY <1>1, <1>3 DEF AuditTyped

-----------------------------------------------------------------------------
(* The clock.                                                              *)

\* What a cycle has still to submit, and the cycles that set out to submit.
Left(k) == IF k = Len(cycles) THEN plan ELSE {}
Busy    == {k \in DOMAIN cycles : OrdersOf(k) # {} \/ Left(k) # {}}

\* Cycles follow each other, orders are in time, each of one cycle, a cycle
\* under way is the last one, and signals are those of cycles.
Apart      == \A j, k \in DOMAIN cycles : j < k => cycles[j].at < cycles[k].at
EachOf     == \A i \in DOMAIN orders : \E k \in DOMAIN cycles : i \in OrdersOf(k)
InTime     == \A i, j \in DOMAIN orders : i <= j => orders[i].ts <= orders[j].ts
UnderWay   == plan # {} => cycles # <<>> /\ cycles[Len(cycles)].whole
FromCycles == \A b \in Bots : \A i \in DOMAIN signals[b] :
                \E k \in DOMAIN cycles : signals[b][i].ts = cycles[k].at
Timed      == Apart /\ EachOf /\ InTime /\ UnderWay /\ FromCycles

LEMMA OrderAdded ==
  ASSUME AuditTyped, NEW o \in plan, SubmitOrder(o)
  PROVE  /\ o \in OrderPlanned /\ plan # {} /\ plan' = plan \ {o}
         /\ UNCHANGED <<minute, bars, locks, active, beats, accounts, signals, states, allocs, cycles>>
         /\ Len(orders) \in Nat /\ DOMAIN orders = 1..Len(orders) /\ DOMAIN orders' = 1..(Len(orders) + 1)
         /\ \A i \in 1..Len(orders) : orders'[i] = orders[i]
         /\ orders'[Len(orders) + 1].ts = minute /\ orders'[Len(orders) + 1].sym = o.sym
         /\ orders'[Len(orders) + 1].side = o.side /\ orders'[Len(orders) + 1].amount = o.amount
<1>1. PICK r : r = [ts |-> minute, sym |-> o.sym, side |-> o.side, amount |-> o.amount]
  OBVIOUS
<1>2. o \in OrderPlanned /\ orders \in Seq(OrderRow)
  BY DEF AuditTyped
<1>3. r \in OrderRow
  BY <1>1, <1>2, BarsTyped DEF OrderRow, OrderPlanned
<1>4. orders' = Append(orders, r)
  BY <1>1 DEF SubmitOrder
<1>5. /\ Len(orders) \in Nat /\ DOMAIN orders = 1..Len(orders) /\ DOMAIN orders' = 1..(Len(orders) + 1)
      /\ orders'[Len(orders) + 1] = r /\ \A i \in 1..Len(orders) : orders'[i] = orders[i]
  BY ONLY <1>2, <1>3, <1>4, AppendFacts
<1>6. /\ plan # {} /\ plan' = plan \ {o}
      /\ UNCHANGED <<minute, bars, locks, active, beats, accounts, signals, states, allocs, cycles>>
  BY DEF SubmitOrder, world
<1> QED
  BY <1>1, <1>2, <1>5, <1>6

LEMMA PlanDropped ==
  ASSUME AuditTyped, Covered, UnderWay, PlanBreaks
  PROVE  /\ plan # {} /\ plan' = {} /\ cycles # <<>>
         /\ UNCHANGED <<minute, bars, locks, active, beats, accounts, signals, states, allocs, orders>>
         /\ Len(cycles) \in Nat /\ DOMAIN cycles = 1..Len(cycles) /\ DOMAIN cycles' = DOMAIN cycles
         /\ Len(cycles) \in DOMAIN cycles /\ Len(cycles') = Len(cycles)
         /\ \A k \in DOMAIN cycles :
              /\ cycles'[k].at = cycles[k].at /\ cycles'[k].saw = cycles[k].saw
              /\ cycles'[k].locks = cycles[k].locks /\ cycles'[k].active = cycles[k].active
              /\ cycles'[k].bars = cycles[k].bars /\ cycles'[k].states = cycles[k].states
              /\ cycles'[k].answered = cycles[k].answered
              /\ cycles'[k].whole = IF k = Len(cycles) THEN FALSE ELSE cycles[k].whole
<1>1. plan # {} /\ cycles # <<>>
  BY DEF PlanBreaks, UnderWay
<1>2. /\ plan' = {}
      /\ UNCHANGED <<minute, bars, locks, active, beats, accounts, signals, states, allocs, orders>>
  BY DEF PlanBreaks, world, tables
<1>3. PICK n : n = Len(cycles)
  OBVIOUS
<1>4. cycles \in Seq(Cycle) /\ n \in Nat /\ DOMAIN cycles = 1..n /\ n \in 1..n
  BY <1>1, <1>3 DEF AuditTyped
<1>5. cycles' = [cycles EXCEPT ![n] = Broken(cycles[n])]
  BY <1>1, <1>3, BrokenTyped
<1>6. DOMAIN cycles' = 1..n /\ Len(cycles') = n
  BY <1>4, <1>5
<1>7. ASSUME NEW k \in DOMAIN cycles
      PROVE  /\ cycles'[k].at = cycles[k].at /\ cycles'[k].saw = cycles[k].saw
             /\ cycles'[k].locks = cycles[k].locks /\ cycles'[k].active = cycles[k].active
             /\ cycles'[k].bars = cycles[k].bars /\ cycles'[k].states = cycles[k].states
             /\ cycles'[k].answered = cycles[k].answered
             /\ cycles'[k].whole = IF k = n THEN FALSE ELSE cycles[k].whole
  <2>1. PICK c \in Cycle : c = cycles[k]
    BY <1>4
  <2>2. CASE k = n
    <3>1. cycles'[k] = Broken(c)
      BY <1>4, <1>5, <2>1, <2>2
    <3>2. /\ Broken(c).at = c.at /\ Broken(c).saw = c.saw /\ Broken(c).locks = c.locks
          /\ Broken(c).active = c.active /\ Broken(c).bars = c.bars /\ Broken(c).states = c.states
          /\ Broken(c).answered = c.answered /\ Broken(c).whole = FALSE
      BY DEF Broken, Cycle
    <3> QED
      BY <2>1, <2>2, <3>1, <3>2
  <2>3. CASE k # n
    BY <1>4, <1>5, <2>3
  <2> QED
    BY <2>2, <2>3
<1> QED
  BY <1>1, <1>2, <1>3, <1>4, <1>6, <1>7

\* Times are whole numbers, and no cycle is of the future.
LEMMA Times ==
  ASSUME AuditTyped
  PROVE  /\ minute \in Nat /\ CorrelationWindow \in Nat
         /\ \A k \in DOMAIN cycles : cycles[k] \in Cycle /\ cycles[k].at \in Nat
         /\ \A i \in DOMAIN orders : orders[i] \in OrderRow /\ orders[i].ts \in Nat
         /\ Len(cycles) \in Nat /\ DOMAIN cycles = 1..Len(cycles)
         /\ Len(orders) \in Nat /\ DOMAIN orders = 1..Len(orders)
<1>1. minute \in Nat /\ CorrelationWindow \in Nat
  BY BarsTyped, AuditConstants
<1>2. \A k \in DOMAIN cycles : cycles[k] \in Cycle /\ cycles[k].at \in Nat
  <2>1. \A k \in DOMAIN cycles : cycles[k] \in Cycle
    BY DEF AuditTyped
  <2> QED
    BY <2>1 DEF Cycle
<1>3. \A i \in DOMAIN orders : orders[i] \in OrderRow /\ orders[i].ts \in Nat
  <2>1. \A i \in DOMAIN orders : orders[i] \in OrderRow
    BY DEF AuditTyped
  <2> QED
    BY <2>1 DEF OrderRow
<1>4. /\ Len(cycles) \in Nat /\ DOMAIN cycles = 1..Len(cycles)
      /\ Len(orders) \in Nat /\ DOMAIN orders = 1..Len(orders)
  BY DEF AuditTyped
<1> QED
  BY <1>1, <1>2, <1>3, <1>4

-----------------------------------------------------------------------------
(* Rows of the past, the clock, and cover, step by step.                   *)

LEMMA OutsideSteady ==
  ASSUME AuditTyped, RowsPast, Timed, Covered, Outside
  PROVE  AuditTyped' /\ RowsPast' /\ Timed' /\ Covered'
<1>1. /\ UNCHANGED <<accounts, signals, states, allocs, orders, plan, cycles, beats>>
      /\ minute <= minute' /\ minute' \in 0..LastTime /\ bars <= bars' /\ events' \in 0..Events /\ bars' \in 0..events'
      /\ active' \in SUBSET Bots /\ wanted' \in BOOLEAN /\ lastCycle' \in NotYet..minute'
      /\ cash' = cash /\ pos' \in [Symbols -> Nat] /\ locks' \in SUBSET Symbols
      /\ \A s \in Symbols : pos[s] <= pos'[s]
  BY OutsideFacts DEF Elsewhere
<1>2. minute \in Nat /\ minute' \in Nat /\ bars \in Nat /\ bars' \in Nat
  <2>1. events' \in Nat
    BY <1>1
  <2> QED
    BY <1>1, <2>1, BarsTyped
<1>3. AuditTyped'
  BY <1>1 DEF AuditTyped
<1>4. RowsPast'
  <2>1. ASSUME NEW S, NEW rows \in Seq(S), \A i \in DOMAIN rows : rows[i].ts \in Nat, AllBy(rows, minute)
        PROVE  AllBy(rows, minute')
    BY <1>1, <1>2, <2>1 DEF AllBy
  <2>2. AllBy(beats, minute') /\ AllBy(accounts, minute') /\ AllBy(orders, minute')
    <3>1. \A i \in DOMAIN beats : beats[i].ts \in Nat
      <4>1. \A i \in DOMAIN beats : beats[i] \in Beat
        BY DEF AuditTyped
      <4> QED
        BY <4>1 DEF Beat
    <3>2. \A i \in DOMAIN accounts : accounts[i].ts \in Nat
      <4>1. \A i \in DOMAIN accounts : accounts[i] \in Account
        BY DEF AuditTyped
      <4> QED
        BY <4>1 DEF Account
    <3>3. \A i \in DOMAIN orders : orders[i].ts \in Nat
      BY Times
    <3> QED
      BY <2>1, <3>1, <3>2, <3>3 DEF AuditTyped, RowsPast
  <2>3. ASSUME NEW b \in Bots PROVE AllBy(signals[b], minute') /\ AllBy(allocs[b], minute')
    <3>1. signals[b] \in Seq(Signal) /\ allocs[b] \in Seq(Allocation)
      BY DEF AuditTyped
    <3>2. \A i \in DOMAIN signals[b] : signals[b][i].ts \in Nat
      <4>1. \A i \in DOMAIN signals[b] : signals[b][i] \in Signal
        BY <3>1
      <4> QED
        BY <4>1 DEF Signal
    <3>3. \A i \in DOMAIN allocs[b] : allocs[b][i].ts \in Nat
      <4>1. \A i \in DOMAIN allocs[b] : allocs[b][i] \in Allocation
        BY <3>1
      <4> QED
        BY <4>1 DEF Allocation
    <3> QED
      BY <2>1, <3>1, <3>2, <3>3 DEF RowsPast
  <2>4. ASSUME NEW k \in DOMAIN cycles PROVE cycles[k].at <= minute' /\ cycles[k].bars <= bars'
    <3>1. cycles[k].at \in Nat /\ cycles[k].bars \in Nat
      <4>1. cycles[k] \in Cycle
        BY Times
      <4> QED
        BY <4>1, BarsTyped DEF Cycle
    <3>2. cycles[k].at <= minute /\ cycles[k].bars <= bars
      BY DEF RowsPast
    <3> QED
      BY <1>1, <1>2, <3>1, <3>2
  <2> QED
    BY <1>1, <2>2, <2>3, <2>4 DEF RowsPast
<1>5. Timed'
  BY <1>1 DEF Timed, Apart, EachOf, InTime, UnderWay, FromCycles, OrdersOf
<1>6. Covered'
  <2>1. ASSUME NEW o \in plan, o.side = "sell" PROVE o.amount <= pos'[o.sym]
    <3>1. o.sym \in Symbols /\ o.amount \in Nat
      BY DEF AuditTyped, OrderPlanned
    <3>2. pos[o.sym] \in Nat /\ pos'[o.sym] \in Nat /\ pos[o.sym] <= pos'[o.sym]
      BY <1>1, <3>1 DEF AuditTyped
    <3>3. o.amount <= pos[o.sym]
      BY <2>1 DEF Covered
    <3> QED
      BY <3>1, <3>2, <3>3
  <2> QED
    BY <1>1, <2>1 DEF Covered
<1> QED
  BY <1>3, <1>4, <1>5, <1>6

LEMMA HeartbeatSteady ==
  ASSUME AuditTyped, RowsPast, Timed, Covered, Heartbeat
  PROVE  AuditTyped' /\ RowsPast' /\ Timed' /\ Covered'
<1>1. /\ UNCHANGED <<minute, bars, cash, pos, locks, signals, states, allocs, orders, plan, cycles, events>>
      /\ beats' = Append(beats, [ts |-> minute, rows |-> Held(pos)])
      /\ accounts' = Append(accounts, [ts |-> minute, equity |-> Equity])
  BY DEF Heartbeat, world
<1>2. AuditTyped'
  BY HeartbeatTyped
<1>3. [ts |-> minute, equity |-> Equity] \in Account /\ [ts |-> minute, rows |-> Held(pos)] \in Beat /\ minute \in Nat
  BY HeldFacts, PortfolioMember, BarsTyped DEF Account, Beat
<1>4. AllBy(accounts', minute)
  BY <1>1, <1>3, AppendBy DEF AuditTyped, RowsPast
<1>5. AllBy(beats', minute)
  BY <1>1, <1>3, AppendBy DEF AuditTyped, RowsPast
<1>6. RowsPast'
  BY <1>1, <1>4, <1>5 DEF RowsPast
<1>7. Timed' /\ Covered'
  BY <1>1 DEF Timed, Apart, EachOf, InTime, UnderWay, FromCycles, OrdersOf, Covered
<1> QED
  BY <1>2, <1>6, <1>7

\* A table that grows by rows of a moment only.
Grown(S, old, new, t) == new = old \/ \E r \in S : r.ts = t /\ new = Append(old, r)

LEMMA GrownFacts ==
  ASSUME NEW S, NEW old \in Seq(S), NEW new, NEW t \in Int, Grown(S, old, new, t)
  PROVE  /\ new \in Seq(S)
         /\ \A i \in DOMAIN new : i \notin DOMAIN old => new[i].ts = t
         /\ \A i \in DOMAIN old : i \in DOMAIN new /\ new[i] = old[i]
         /\ AllBy(old, t) => AllBy(new, t)
         /\ \A u \in Int : u < t => /\ UpTo(new, u) = UpTo(old, u)
                                    /\ UpTo(old, u) # {} => AsOf(new, u) = AsOf(old, u)
<1>1. CASE new = old
  BY <1>1
<1>2. ASSUME NEW r \in S, r.ts = t, new = Append(old, r)
      PROVE  /\ new \in Seq(S)
             /\ \A i \in DOMAIN new : i \notin DOMAIN old => new[i].ts = t
             /\ \A i \in DOMAIN old : i \in DOMAIN new /\ new[i] = old[i]
             /\ AllBy(old, t) => AllBy(new, t)
             /\ \A u \in Int : u < t => /\ UpTo(new, u) = UpTo(old, u)
                                        /\ UpTo(old, u) # {} => AsOf(new, u) = AsOf(old, u)
  <2>1. PICK n : n = Len(old)
    OBVIOUS
  <2>2. /\ new \in Seq(S) /\ n \in Nat /\ DOMAIN old = 1..n /\ DOMAIN new = 1..(n + 1)
        /\ new[n + 1] = r /\ \A i \in 1..n : new[i] = old[i]
    BY ONLY <1>2, <2>1, AppendFacts
  <2>3. \A i \in 1..(n + 1) : i \in 1..n \/ i = n + 1
    BY <2>2
  <2>4. \A i \in 1..n : i \in 1..(n + 1)
    BY <2>2
  <2>5. r.ts <= t
    BY <1>2
  <2>6. AllBy(old, t) => AllBy(new, t)
    BY ONLY <1>2, <2>5, AppendBy
  <2>7. ASSUME NEW u \in Int, u < t
        PROVE  /\ UpTo(new, u) = UpTo(old, u)
               /\ UpTo(old, u) # {} => AsOf(new, u) = AsOf(old, u)
    <3>1. ~(r.ts <= u)
      BY <1>2, <2>7
    <3>2. old \in Seq(S) /\ r \in S /\ new = Append(old, r)
      BY <1>2
    <3> QED
      BY ONLY <3>1, <3>2, LaterRow
  <2>8. \A i \in DOMAIN new : i \notin DOMAIN old => new[i].ts = t
    BY <1>2, <2>2, <2>3
  <2>9. \A i \in DOMAIN old : i \in DOMAIN new /\ new[i] = old[i]
    BY <2>2, <2>4
  <2> QED
    BY <2>2, <2>6, <2>7, <2>8, <2>9
<1> QED
  BY <1>1, <1>2 DEF Grown

LEMMA CycleStores ==
  ASSUME AuditTyped, NEW got \in Outcomes, NEW whole \in BOOLEAN, Cycling(got, whole), NEW b \in Bots
  PROVE  /\ Grown(Signal, signals[b], signals'[b], minute)
         /\ Grown(Allocation, allocs[b], allocs'[b], minute)
         /\ got[b] # "nothing" => signals'[b] # <<>> /\ Last(signals'[b]).answer = Answer(b, bars, states[b])
         /\ got[b] = "nothing" => signals'[b] = signals[b]
<1>0. signals[b] \in Seq(Signal) /\ allocs[b] \in Seq(Allocation) /\ minute \in Nat
  BY BarsTyped DEF AuditTyped
<1>1. PICK ans : ans = Answer(b, bars, states[b])
  OBVIOUS
<1>2. PICK r : r = [ts |-> minute, answer |-> ans]
  OBVIOUS
<1>3. r \in Signal /\ r.ts = minute /\ r.answer = ans
  BY <1>1, <1>2, RowsTyped
<1>4. /\ Grown(Signal, signals[b], Stored(signals[b], ans), minute)
      /\ Stored(signals[b], ans) # <<>> /\ Last(Stored(signals[b], ans)).answer = ans
  <2>1. CASE signals[b] # <<>> /\ Last(signals[b]).answer = ans
    BY <2>1 DEF Stored, Grown
  <2>2. CASE ~(signals[b] # <<>> /\ Last(signals[b]).answer = ans)
    <3>1. PICK q, n : q = Append(signals[b], r) /\ n = Len(signals[b])
      OBVIOUS
    <3>2. Stored(signals[b], ans) = q
      BY <1>2, <2>2, <3>1 DEF Stored
    <3>3. q # <<>> /\ q[n + 1] = r /\ Len(q) = n + 1
      BY <1>0, <1>3, <3>1
    <3>4. Last(q) = r
      BY <3>3 DEF Last
    <3>5. Grown(Signal, signals[b], q, minute)
      BY <1>3, <3>1 DEF Grown
    <3> QED
      BY <1>3, <3>2, <3>3, <3>4, <3>5
  <2> QED
    BY <2>1, <2>2
<1>5. Grown(Signal, signals[b], signals[b], minute)
  BY DEF Grown
<1>6. signals'[b] = IF got[b] = "nothing" THEN signals[b] ELSE Stored(signals[b], ans)
  BY <1>1 DEF Cycling, RunBots
<1>7. Grown(Allocation, allocs[b], allocs'[b], minute)
  <2>1. PICK w : w = [ts |-> minute, weights |-> Safe(b)]
    OBVIOUS
  <2>2. w \in Allocation /\ w.ts = minute
    BY <2>1, RowsTyped
  <2>3. allocs'[b] = IF Allots(got, b) THEN Append(allocs[b], w) ELSE allocs[b]
    BY <2>1 DEF Cycling, RunBots
  <2> QED
    BY <2>2, <2>3 DEF Grown
<1> QED
  BY <1>1, <1>4, <1>5, <1>6, <1>7

\* The orders of the cycles of before are as they were, and the new one has
\* none yet.
LEMMA CycleOwns ==
  ASSUME AuditTyped, NEW got \in Outcomes, NEW whole \in BOOLEAN, Cycling(got, whole), NEW n, n = Len(cycles)
  PROVE  /\ \A k \in DOMAIN cycles : OrdersOf(k)' = OrdersOf(k) /\ Left(k)' = {} /\ Left(k) = {}
         /\ OrdersOf(n + 1)' = {} /\ Left(n + 1)' = plan'
<1>1. /\ plan = {} /\ orders' = orders
      /\ n \in Nat /\ Len(cycles') = n + 1 /\ DOMAIN cycles = 1..n
      /\ \A k \in 1..n : cycles'[k] = cycles[k] /\ cycles[k].at < minute
      /\ cycles'[n + 1].at = minute
      /\ \A i \in DOMAIN orders : orders[i].ts < minute
  BY CycleAdded
<1>2. minute \in Nat /\ \A i \in DOMAIN orders : orders[i].ts \in Nat
  BY Times
<1>3. ASSUME NEW k \in DOMAIN cycles PROVE OrdersOf(k)' = OrdersOf(k) /\ Left(k)' = {} /\ Left(k) = {}
  <2>1. k \in 1..n /\ cycles'[k] = cycles[k] /\ k # n + 1 /\ k < n + 1
    BY <1>1, <1>3
  <2>2. Left(k)' = {} /\ Left(k) = {}
    BY <1>1, <2>1 DEF Left
  <2>3. OrdersOf(k)' = {i \in DOMAIN orders : orders[i].ts >= cycles[k].at /\ orders[i].ts < cycles'[k + 1].at}
    BY <1>1, <2>1 DEF OrdersOf
  <2>4. OrdersOf(k) = {i \in DOMAIN orders : orders[i].ts >= cycles[k].at /\ (k < n => orders[i].ts < cycles[k + 1].at)}
    BY <1>1 DEF OrdersOf
  <2>5. CASE k < n
    <3>1. k + 1 \in 1..n /\ cycles'[k + 1] = cycles[k + 1]
      BY <1>1, <2>1, <2>5
    <3> QED
      BY <2>2, <2>3, <2>4, <2>5, <3>1
  <2>6. CASE k = n
    <3>1. ~(k < n) /\ cycles'[k + 1].at = minute
      BY <1>1, <2>6
    <3> QED
      BY <1>1, <2>2, <2>3, <2>4, <3>1
  <2> QED
    BY <1>1, <2>1, <2>5, <2>6
<1>4. OrdersOf(n + 1)' = {}
  <2>1. \A i \in DOMAIN orders : ~(orders[i].ts >= minute)
    BY <1>1, <1>2
  <2> QED
    BY <1>1, <2>1 DEF OrdersOf
<1>5. Left(n + 1)' = plan'
  BY <1>1 DEF Left
<1> QED
  BY <1>3, <1>4, <1>5

LEMMA CycleSteady ==
  ASSUME AuditTyped, RowsPast, Timed, Covered,
         NEW got \in Outcomes, NEW whole \in BOOLEAN, Cycling(got, whole)
  PROVE  AuditTyped' /\ RowsPast' /\ Timed' /\ Covered'
<1>1. PICK n : n = Len(cycles)
  OBVIOUS
<1>2. /\ plan = {} /\ UNCHANGED <<minute, bars, cash, pos, locks, beats, orders>>
      /\ n \in Nat /\ Len(cycles') = n + 1 /\ cycles' # <<>>
      /\ DOMAIN cycles = 1..n /\ DOMAIN cycles' = 1..(n + 1)
      /\ \A k \in 1..n : cycles'[k] = cycles[k] /\ cycles[k] \in Cycle /\ cycles[k].at < minute
      /\ cycles'[n + 1].at = minute /\ cycles'[n + 1].bars = bars
      /\ cycles'[n + 1].whole = whole
      /\ whole => plan' = CyclePlan(got)
      /\ ~whole => plan' = {}
      /\ accounts' = Append(accounts, [ts |-> minute, equity |-> Equity])
  BY <1>1, CycleAdded
<1>3. minute \in Nat /\ bars \in Nat
  BY BarsTyped
<1>4. AuditTyped'
  BY CycleTyped
<1>5. \A k \in 1..(n + 1) : k \in 1..n \/ k = n + 1
  BY <1>2
<1>6. RowsPast'
  <2>1. AllBy(accounts', minute)
    <3>1. PICK r : r = [ts |-> minute, equity |-> Equity]
      OBVIOUS
    <3>2. r \in Account /\ r.ts <= minute /\ accounts \in Seq(Account) /\ AllBy(accounts, minute)
      BY <1>3, <3>1, HeldFacts DEF Account, AuditTyped, RowsPast
    <3>3. AllBy(Append(accounts, r), minute)
      BY ONLY <3>2, AppendBy
    <3> QED
      BY <1>2, <3>1, <3>3
  <2>2. ASSUME NEW b \in Bots PROVE AllBy(signals'[b], minute) /\ AllBy(allocs'[b], minute)
    <3>1. signals[b] \in Seq(Signal) /\ allocs[b] \in Seq(Allocation) /\ minute \in Int
      BY <1>3 DEF AuditTyped
    <3>2. AllBy(signals[b], minute) /\ AllBy(allocs[b], minute)
      BY DEF RowsPast
    <3>3. Grown(Signal, signals[b], signals'[b], minute) /\ Grown(Allocation, allocs[b], allocs'[b], minute)
      BY CycleStores
    <3>4. AllBy(signals'[b], minute)
      BY <3>1, <3>2, <3>3, GrownFacts
    <3>5. AllBy(allocs'[b], minute)
      BY <3>1, <3>2, <3>3, GrownFacts
    <3> QED
      BY <3>4, <3>5
  <2>3. ASSUME NEW k \in 1..(n + 1) PROVE cycles'[k].at <= minute /\ cycles'[k].bars <= bars
    <3>1. CASE k \in 1..n
      BY <1>2, <3>1 DEF RowsPast
    <3>2. CASE k = n + 1
      BY <1>2, <1>3, <3>2
    <3> QED
      BY <1>5, <3>1, <3>2
  <2> QED
    BY <1>2, <2>1, <2>2, <2>3 DEF RowsPast
<1>7. Apart'
  <2>1. ASSUME NEW j \in 1..(n + 1), NEW k \in 1..(n + 1), j < k
        PROVE  cycles'[j].at < cycles'[k].at
    <3>1. j \in 1..n
      BY <1>2, <2>1
    <3>2. CASE k \in 1..n
      BY <1>2, <2>1, <3>1, <3>2 DEF Timed, Apart
    <3>3. CASE k = n + 1
      BY <1>2, <3>1, <3>3
    <3> QED
      BY <1>5, <3>2, <3>3
  <2> QED
    BY <1>2, <2>1 DEF Apart
<1>8. EachOf'
  <2>1. ASSUME NEW i \in DOMAIN orders PROVE \E k \in DOMAIN cycles' : i \in OrdersOf(k)'
    <3>1. PICK k \in DOMAIN cycles : i \in OrdersOf(k)
      BY DEF Timed, EachOf
    <3>2. k \in DOMAIN cycles'
      BY <1>2
    <3> QED
      BY <1>1, <3>1, <3>2, CycleOwns
  <2> QED
    BY <1>2, <2>1 DEF EachOf
<1>9. InTime' /\ UnderWay'
  BY <1>2 DEF Timed, InTime, UnderWay
<1>10. FromCycles'
  <2>1. ASSUME NEW b \in Bots, NEW i \in DOMAIN signals'[b]
        PROVE  \E k \in 1..(n + 1) : signals'[b][i].ts = cycles'[k].at
    <3>1. PICK old, new : old = signals[b] /\ new = signals'[b]
      OBVIOUS
    <3>2. Grown(Signal, old, new, minute) /\ old \in Seq(Signal) /\ minute \in Int
      BY <1>3, <3>1, CycleStores DEF AuditTyped
    <3>3. /\ i \notin DOMAIN old => new[i].ts = minute
          /\ i \in DOMAIN old => new[i] = old[i]
      BY <2>1, <3>1, <3>2, GrownFacts
    <3>4. CASE i \in DOMAIN old
      <4>1. PICK k \in DOMAIN cycles : signals[b][i].ts = cycles[k].at
        BY <3>1, <3>4 DEF Timed, FromCycles
      <4> QED
        BY <1>2, <3>1, <3>3, <3>4, <4>1
    <3>5. CASE i \notin DOMAIN old
      BY <1>2, <3>1, <3>3, <3>5
    <3> QED
      BY <3>4, <3>5
  <2> QED
    BY <1>2, <2>1 DEF FromCycles
<1>11. Covered'
  <2>1. CASE whole
    BY <1>2, <2>1, CyclePlanFacts DEF Covered
  <2>2. CASE ~whole
    BY <1>2, <2>2 DEF Covered
  <2> QED
    BY <2>1, <2>2
<1> QED
  BY <1>4, <1>6, <1>7, <1>8, <1>9, <1>10, <1>11 DEF Timed

\* The new order is one of the cycle under way, and of no other.
LEMMA OrderOwned ==
  ASSUME AuditTyped, RowsPast, Timed, NEW o \in plan, SubmitOrder(o), NEW n, n = Len(cycles), NEW m, m = Len(orders) + 1
  PROVE  /\ n \in DOMAIN cycles /\ OrdersOf(n)' = OrdersOf(n) \cup {m} /\ m \notin OrdersOf(n)
         /\ Left(n) = plan /\ Left(n)' = plan \ {o}
         /\ \A k \in DOMAIN cycles \ {n} : OrdersOf(k)' = OrdersOf(k) /\ Left(k)' = Left(k) /\ Left(k) = {}
<1>1. /\ plan # {} /\ plan' = plan \ {o} /\ cycles' = cycles
      /\ Len(orders) \in Nat /\ DOMAIN orders = 1..Len(orders) /\ DOMAIN orders' = 1..m
      /\ \A i \in 1..Len(orders) : orders'[i] = orders[i]
      /\ orders'[m].ts = minute
  BY OrderAdded
<1>2. n \in DOMAIN cycles /\ DOMAIN cycles = 1..n
  BY <1>1, Times DEF Timed, UnderWay, AuditTyped
<1>3. \A i : i \in DOMAIN orders' <=> i \in DOMAIN orders \/ i = m
  BY <1>1
<1>4. m \notin DOMAIN orders
  BY <1>1
<1>5. ASSUME NEW k \in DOMAIN cycles
      PROVE  OrdersOf(k)' = IF minute >= cycles[k].at /\ (k < n => minute < cycles[k + 1].at)
                            THEN OrdersOf(k) \cup {m} ELSE OrdersOf(k)
  <2>1. OrdersOf(k)' = {i \in DOMAIN orders' : orders'[i].ts >= cycles[k].at /\ (k < n => orders'[i].ts < cycles[k + 1].at)}
    BY <1>1 DEF OrdersOf
  <2>2. OrdersOf(k) = {i \in DOMAIN orders : orders[i].ts >= cycles[k].at /\ (k < n => orders[i].ts < cycles[k + 1].at)}
    BY DEF OrdersOf
  <2>3. \A i \in DOMAIN orders : orders'[i] = orders[i]
    BY <1>1
  <2> QED
    BY <1>1, <1>3, <1>4, <2>1, <2>2, <2>3
<1>6. minute >= cycles[n].at /\ ~(n < n)
  <2>1. cycles[n].at \in Nat /\ cycles[n].at <= minute /\ minute \in Nat /\ n \in Nat
    BY <1>2, Times DEF RowsPast
  <2> QED
    BY <2>1
<1>7. ASSUME NEW k \in DOMAIN cycles, k # n PROVE k < n /\ ~(minute < cycles[k + 1].at)
  <2>1. k < n /\ k + 1 \in DOMAIN cycles
    BY <1>2, <1>7, Times
  <2>2. cycles[k + 1].at \in Nat /\ cycles[k + 1].at <= minute /\ minute \in Nat
    BY <2>1, Times DEF RowsPast
  <2> QED
    BY <2>1, <2>2
<1>8. m \notin OrdersOf(n)
  BY <1>4 DEF OrdersOf
<1> QED
  BY <1>1, <1>2, <1>5, <1>6, <1>7, <1>8 DEF Left

LEMMA OrderSteady ==
  ASSUME AuditTyped, RowsPast, Timed, Covered, NEW o \in plan, SubmitOrder(o)
  PROVE  AuditTyped' /\ RowsPast' /\ Timed' /\ Covered'
<1>1. PICK m, n : m = Len(orders) + 1 /\ n = Len(cycles)
  OBVIOUS
<1>2. /\ o \in OrderPlanned /\ plan # {} /\ plan' = plan \ {o}
      /\ UNCHANGED <<minute, bars, locks, beats, accounts, signals, states, allocs, cycles>>
      /\ Len(orders) \in Nat /\ DOMAIN orders = 1..Len(orders) /\ DOMAIN orders' = 1..m
      /\ \A i \in 1..Len(orders) : orders'[i] = orders[i]
      /\ orders'[m].ts = minute
  BY <1>1, OrderAdded
<1>3. AuditTyped'
  BY OrderTyped
<1>4. \A i \in DOMAIN orders' : i \in DOMAIN orders \/ i = m
  BY <1>1, <1>2
<1>5. minute \in Nat
  BY Times
<1>6. RowsPast'
  <2>1. \A i \in DOMAIN orders' : orders'[i].ts <= minute
    BY <1>2, <1>4, <1>5 DEF RowsPast, AllBy
  <2> QED
    BY <1>2, <2>1 DEF RowsPast, AllBy
<1>7. Timed'
  <2>1. Apart' /\ FromCycles' /\ UnderWay'
    BY <1>2 DEF Timed, Apart, FromCycles, UnderWay
  <2>2. EachOf'
    <3>1. ASSUME NEW i \in DOMAIN orders' PROVE \E k \in DOMAIN cycles : i \in OrdersOf(k)'
      <4>1. CASE i \in DOMAIN orders
        <5>1. PICK k \in DOMAIN cycles : i \in OrdersOf(k)
          BY <4>1 DEF Timed, EachOf
        <5>2. i \in OrdersOf(k)'
          BY <1>1, <5>1, OrderOwned
        <5> QED
          BY <5>2
      <4>2. CASE i = m
        BY <1>1, <4>2, OrderOwned
      <4> QED
        BY <1>4, <4>1, <4>2
    <3> QED
      BY <1>2, <3>1 DEF EachOf
  <2>3. InTime'
    <3>1. ASSUME NEW i \in DOMAIN orders', NEW j \in DOMAIN orders', i <= j
          PROVE  orders'[i].ts <= orders'[j].ts
      <4>1. CASE i \in DOMAIN orders /\ j \in DOMAIN orders
        BY <1>2, <3>1, <4>1 DEF Timed, InTime
      <4>2. CASE j = m
        <5>1. orders'[i].ts <= minute
          BY <1>6, <1>2, <3>1 DEF RowsPast, AllBy
        <5> QED
          BY <1>2, <4>2, <5>1
      <4>3. CASE i = m /\ j \in DOMAIN orders
        BY <1>1, <1>2, <3>1, <4>3
      <4> QED
        BY <1>4, <4>1, <4>2, <4>3
    <3> QED
      BY <3>1 DEF InTime
  <2> QED
    BY <2>1, <2>2, <2>3 DEF Timed
<1>8. Covered'
  <2>1. ASSUME NEW p \in plan, p # o, p.side = "sell" PROVE p.amount <= pos'[p.sym]
    <3>1. p.sym # o.sym /\ p.amount <= pos[p.sym] /\ p.sym \in Symbols
      BY <2>1 DEF Covered, AuditTyped, OrderPlanned
    <3>2. pos'[p.sym] = pos[p.sym]
      BY <3>1, FillTyped DEF SubmitOrder
    <3> QED
      BY <3>1, <3>2
  <2> QED
    BY <1>2, <2>1 DEF Covered
<1> QED
  BY <1>3, <1>6, <1>7, <1>8

LEMMA BreakSteady ==
  ASSUME AuditTyped, RowsPast, Timed, Covered, PlanBreaks
  PROVE  /\ AuditTyped' /\ RowsPast' /\ Timed' /\ Covered'
         /\ \A k \in DOMAIN cycles : OrdersOf(k)' = OrdersOf(k) /\ Left(k)' = {}
<1>1. /\ plan' = {} /\ cycles # <<>>
      /\ UNCHANGED <<minute, bars, locks, beats, accounts, signals, states, allocs, orders>>
      /\ DOMAIN cycles' = DOMAIN cycles /\ DOMAIN cycles = 1..Len(cycles) /\ Len(cycles) \in Nat
      /\ Len(cycles') = Len(cycles)
      /\ \A k \in DOMAIN cycles : cycles'[k].at = cycles[k].at /\ cycles'[k].bars = cycles[k].bars
  BY PlanDropped DEF Timed
<1>2. AuditTyped'
  BY <1>1, BrokenTyped
<1>3. RowsPast'
  BY <1>1 DEF RowsPast
<1>4. ASSUME NEW k \in DOMAIN cycles PROVE OrdersOf(k)' = OrdersOf(k) /\ Left(k)' = {}
  <2>1. k < Len(cycles) => cycles'[k + 1].at = cycles[k + 1].at
    <3>1. k < Len(cycles) => k + 1 \in DOMAIN cycles
      BY <1>1
    <3> QED
      BY <1>1, <3>1
  <2> QED
    BY <1>1, <2>1 DEF OrdersOf, Left
<1>5. Apart' /\ InTime' /\ UnderWay' /\ FromCycles'
  BY <1>1 DEF Timed, Apart, InTime, UnderWay, FromCycles
<1>6. EachOf'
  BY <1>1, <1>4 DEF Timed, EachOf
<1>7. Covered'
  BY <1>1 DEF Covered
<1> QED
  BY <1>2, <1>3, <1>4, <1>5, <1>6, <1>7 DEF Timed

-----------------------------------------------------------------------------
(* What the tables keep of a cycle.                                        *)

AsOrder(o) == [sym |-> o.sym, side |-> o.side, amount |-> o.amount]
Sent(k)    == {AsOrder(orders[i]) : i \in OrdersOf(k)}
SentAt(k)  == {orders[i].ts : i \in OrdersOf(k)}
Meant(k)   == PlanFrom(cycles[k].saw, cycles[k].locks, EquityAsOf(cycles[k].at),
                       [b \in cycles[k].active |-> AllocationAsOf(b, cycles[k].at)])

\* Nothing is written to a table between a plan and its last order.
Clear(rows, at, left, times) ==
  \A j \in DOMAIN rows : rows[j].ts > at => left = {} /\ \A t \in times : t < rows[j].ts
Quiet ==
  \A k \in Busy :
    /\ Clear(accounts, cycles[k].at, Left(k), SentAt(k))
    /\ \A b \in Bots : /\ Clear(allocs[b], cycles[k].at, Left(k), SentAt(k))
                       /\ Clear(signals[b], cycles[k].at, Left(k), SentAt(k))

\* A plan is divided into what has been sent, what is left of it, and what
\* was dropped.
Divided(k) ==
  /\ Sent(k) \subseteq Meant(k) /\ Left(k) \subseteq Meant(k) /\ Sent(k) \cap Left(k) = {}
  /\ \A i, j \in OrdersOf(k) : orders[i].sym = orders[j].sym => i = j
  /\ cycles[k].whole => Meant(k) = Sent(k) \cup Left(k)
  /\ ~cycles[k].whole => Left(k) = {} /\ Meant(k) # Sent(k)

\* What a bot answered in a cycle is its newest signal as of then; one that
\* did not answer has at most older ones; and only a stateful one with a signal
\* of earlier enters a cycle with a state.
Answered(k, b) ==
  IF b \in cycles[k].answered
  THEN /\ UpTo(signals[b], cycles[k].at) # {}
       /\ AsOf(signals[b], cycles[k].at).answer = Answer(b, cycles[k].bars, cycles[k].states[b])
  ELSE UpTo(signals[b], cycles[k].at) # {} => AsOf(signals[b], cycles[k].at).ts < cycles[k].at
Entered(k, b) ==
  cycles[k].states[b] # 0 => b \in Stateful /\ signals[b] # <<>> /\ signals[b][1].ts < cycles[k].at
Remembers(b) == states[b] # 0 => b \in Stateful /\ signals[b] # <<>>
Replayable ==
  /\ \A k \in DOMAIN cycles, b \in Bots : Answered(k, b) /\ Entered(k, b)
  /\ \A b \in Bots : Remembers(b)

Kept == Quiet /\ (\A k \in Busy : Divided(k)) /\ Replayable

LEMMA GrownClear ==
  ASSUME NEW S, NEW old \in Seq(S), NEW new, NEW t \in Int, Grown(S, old, new, t),
         NEW at, NEW left, NEW times, Clear(old, at, left, times), left = {}, \A x \in times : x < t
  PROVE  Clear(new, at, {}, times)
<1>1. /\ \A i \in DOMAIN new : i \notin DOMAIN old => new[i].ts = t
      /\ \A i \in DOMAIN old : new[i] = old[i]
  BY GrownFacts
<1>2. ASSUME NEW j \in DOMAIN new, new[j].ts > at, NEW x \in times PROVE x < new[j].ts
  <2>1. CASE j \in DOMAIN old
    BY <1>1, <1>2, <2>1 DEF Clear
  <2>2. CASE j \notin DOMAIN old
    BY <1>1, <2>2
  <2> QED
    BY <2>1, <2>2
<1> QED
  BY <1>2 DEF Clear

\* The tables as of a cycle of the past do not change.
LEMMA Frozen ==
  ASSUME AuditTyped, NEW k \in DOMAIN cycles, cycles[k].at < minute,
         cycles'[k].at = cycles[k].at, cycles'[k].saw = cycles[k].saw, cycles'[k].locks = cycles[k].locks,
         cycles'[k].active = cycles[k].active,
         Grown(Account, accounts, accounts', minute),
         \A b \in Bots : Grown(Allocation, allocs[b], allocs'[b], minute)
  PROVE  Meant(k)' = Meant(k)
<1>1. minute \in Int /\ cycles[k].at \in Int
  BY Times
<1>2. accounts \in Seq(Account) /\ \A b \in Bots : allocs[b] \in Seq(Allocation)
  BY DEF AuditTyped
<1>3. PICK t \in Int : t = cycles[k].at
  BY <1>1
<1>4. EquityAsOf(cycles[k].at)' = EquityAsOf(cycles[k].at)
  <2>1. /\ UpTo(accounts', t) = UpTo(accounts, t)
        /\ UpTo(accounts, t) # {} => AsOf(accounts', t) = AsOf(accounts, t)
    BY <1>1, <1>2, <1>3, GrownFacts
  <2> QED
    BY <1>3, <2>1 DEF EquityAsOf
<1>5. ASSUME NEW b \in Bots PROVE AllocationAsOf(b, cycles[k].at)' = AllocationAsOf(b, cycles[k].at)
  <2>1. PICK old, new : old = allocs[b] /\ new = allocs'[b]
    OBVIOUS
  <2>2. Grown(Allocation, old, new, minute) /\ old \in Seq(Allocation)
    BY <1>2, <2>1
  <2>3. UpTo(new, t) = UpTo(old, t) /\ (UpTo(old, t) # {} => AsOf(new, t) = AsOf(old, t))
    BY <1>1, <1>3, <2>2, GrownFacts
  <2> QED
    BY <1>3, <2>1, <2>3 DEF AllocationAsOf
<1>6. cycles[k].active \subseteq Bots
  BY Times DEF Cycle
<1>7. [b \in cycles[k].active |-> AllocationAsOf(b, cycles[k].at)']
      = [b \in cycles[k].active |-> AllocationAsOf(b, cycles[k].at)]
  BY <1>5, <1>6
<1> QED
  BY <1>4, <1>7 DEF Meant

LEMMA AnsweredStill ==
  ASSUME AuditTyped, NEW k \in DOMAIN cycles, NEW b \in Bots, cycles[k].at < minute, cycles'[k] = cycles[k],
         Grown(Signal, signals[b], signals'[b], minute), Answered(k, b)
  PROVE  Answered(k, b)'
<1>1. minute \in Int /\ cycles[k].at \in Int
  BY Times
<1>2. PICK t \in Int : t = cycles[k].at
  BY <1>1
<1>3. PICK old, new : old = signals[b] /\ new = signals'[b]
  OBVIOUS
<1>4. Grown(Signal, old, new, minute) /\ old \in Seq(Signal)
  BY <1>3 DEF AuditTyped
<1>5. UpTo(new, t) = UpTo(old, t) /\ (UpTo(old, t) # {} => AsOf(new, t) = AsOf(old, t))
  BY <1>1, <1>2, <1>4, GrownFacts
<1> QED
  BY <1>2, <1>3, <1>5 DEF Answered

LEMMA OutsideKept ==
  ASSUME AuditTyped, Kept, Outside
  PROVE  Kept'
<1>1. UNCHANGED <<accounts, signals, states, allocs, orders, plan, cycles>>
  BY OutsideFacts DEF Elsewhere
<1>2. \A k : OrdersOf(k)' = OrdersOf(k) /\ Left(k)' = Left(k) /\ Sent(k)' = Sent(k) /\ SentAt(k)' = SentAt(k)
  BY <1>1 DEF OrdersOf, Left, Sent, SentAt
<1>3. Busy' = Busy
  BY <1>1, <1>2 DEF Busy
<1>4. \A k : Meant(k)' = Meant(k)
  BY <1>1 DEF Meant, EquityAsOf, AllocationAsOf
<1>5. \A k : Divided(k) => Divided(k)'
  BY <1>1, <1>2, <1>4 DEF Divided
<1>6. Quiet'
  BY <1>1, <1>2, <1>3 DEF Kept, Quiet
<1>7. Replayable'
  BY <1>1, <1>3 DEF Kept, Replayable, Answered, Entered, Remembers
<1> QED
  BY <1>3, <1>5, <1>6, <1>7 DEF Kept

LEMMA HeartbeatKept ==
  ASSUME AuditTyped, RowsPast, Timed, Kept, Heartbeat
  PROVE  Kept'
<1>1. /\ UNCHANGED <<minute, bars, signals, states, allocs, orders, plan, cycles>>
      /\ accounts' = Append(accounts, [ts |-> minute, equity |-> Equity])
      /\ plan = {} /\ \A i \in DOMAIN orders : orders[i].ts < minute
      /\ \A k \in DOMAIN cycles : cycles[k].at < minute
  BY DEF Heartbeat, Pass, world
<1>2. \A k : OrdersOf(k)' = OrdersOf(k) /\ Left(k)' = Left(k) /\ Sent(k)' = Sent(k) /\ SentAt(k)' = SentAt(k)
  BY <1>1 DEF OrdersOf, Left, Sent, SentAt
<1>3. Busy' = Busy
  BY <1>1, <1>2 DEF Busy
<1>4. Grown(Account, accounts, accounts', minute)
  <2>1. [ts |-> minute, equity |-> Equity] \in Account
    BY HeldFacts DEF Account, AuditTyped
  <2> QED
    BY <1>1, <2>1 DEF Grown
<1>5. \A b \in Bots : Grown(Allocation, allocs[b], allocs'[b], minute)
  BY <1>1 DEF Grown
<1>6. minute \in Nat /\ \A i \in DOMAIN orders : orders[i].ts \in Nat
  BY Times
<1>7. ASSUME NEW k \in Busy
      PROVE  /\ k \in DOMAIN cycles /\ cycles[k].at < minute /\ Left(k) = {}
             /\ \A x \in SentAt(k) : x < minute
  <2>1. k \in DOMAIN cycles /\ Left(k) = {}
    BY <1>1, <1>7 DEF Busy, Left
  <2>2. \A x \in SentAt(k) : x < minute
    BY <1>1 DEF SentAt, OrdersOf
  <2> QED
    BY <1>1, <2>1, <2>2
<1>8. ASSUME NEW k \in Busy PROVE Meant(k)' = Meant(k)
  BY <1>1, <1>4, <1>5, <1>7, <1>8, Frozen
<1>9. \A k \in Busy : Divided(k) => Divided(k)'
  BY <1>1, <1>2, <1>8 DEF Divided
<1>10. ASSUME NEW k \in Busy PROVE Clear(accounts', cycles[k].at, {}, SentAt(k))
  <2>1. PICK left, at, times : left = Left(k) /\ at = cycles[k].at /\ times = SentAt(k)
    OBVIOUS
  <2>2. PICK new : new = accounts'
    OBVIOUS
  <2>3. /\ Clear(accounts, at, left, times) /\ left = {} /\ \A x \in times : x < minute
        /\ accounts \in Seq(Account) /\ Grown(Account, accounts, new, minute) /\ minute \in Int
    BY <1>4, <1>6, <1>7, <1>10, <2>1, <2>2 DEF Kept, Quiet, AuditTyped
  <2>4. Clear(new, at, {}, times)
    BY ONLY <2>3, GrownClear
  <2> QED
    BY <2>1, <2>2, <2>4
<1>11. Quiet'
  BY <1>1, <1>2, <1>3, <1>7, <1>10 DEF Kept, Quiet
<1>12. Replayable'
  BY <1>1, <1>3 DEF Kept, Replayable, Answered, Entered, Remembers
<1> QED
  BY <1>3, <1>9, <1>11, <1>12 DEF Kept

LEMMA BreakKept ==
  ASSUME AuditTyped, RowsPast, Timed, Covered, Kept, PlanBreaks
  PROVE  Kept'
<1>1. /\ plan # {} /\ plan' = {}
      /\ UNCHANGED <<minute, bars, accounts, signals, states, allocs, orders>>
      /\ DOMAIN cycles' = DOMAIN cycles
      /\ Len(cycles) \in DOMAIN cycles /\ Len(cycles') = Len(cycles)
      /\ \A k \in DOMAIN cycles :
           /\ cycles'[k].at = cycles[k].at /\ cycles'[k].saw = cycles[k].saw
           /\ cycles'[k].locks = cycles[k].locks /\ cycles'[k].active = cycles[k].active
           /\ cycles'[k].answered = cycles[k].answered /\ cycles'[k].bars = cycles[k].bars
           /\ cycles'[k].states = cycles[k].states
           /\ cycles'[k].whole = IF k = Len(cycles) THEN FALSE ELSE cycles[k].whole
  BY PlanDropped DEF Timed
<1>2. \A k \in DOMAIN cycles : OrdersOf(k)' = OrdersOf(k) /\ Left(k)' = {}
  BY BreakSteady
<1>3. \A k \in DOMAIN cycles : Sent(k)' = Sent(k) /\ SentAt(k)' = SentAt(k)
  BY <1>1, <1>2 DEF Sent, SentAt
<1>4. Busy' \subseteq Busy /\ \A k \in Busy : k \in DOMAIN cycles
  BY <1>1, <1>2 DEF Busy
<1>5. ASSUME NEW k \in DOMAIN cycles PROVE Meant(k)' = Meant(k)
  BY <1>1, <1>5 DEF Meant, EquityAsOf, AllocationAsOf
<1>6. ASSUME NEW k \in Busy, k \in DOMAIN cycles PROVE Divided(k)'
  <2>1. Divided(k)
    BY <1>6 DEF Kept
  <2>2. /\ Sent(k)' = Sent(k) /\ Meant(k)' = Meant(k) /\ Left(k)' = {} /\ OrdersOf(k)' = OrdersOf(k)
    BY <1>2, <1>3, <1>5, <1>6
  <2>3. CASE k = Len(cycles)
    <3>1. cycles[k].whole /\ Left(k) = plan
      BY <1>1, <2>3 DEF Timed, UnderWay, Left
    <3>2. Meant(k) = Sent(k) \cup plan /\ Sent(k) \cap plan = {}
      BY <2>1, <3>1 DEF Divided
    <3>3. Meant(k) # Sent(k)
      BY <1>1, <3>2
    <3>4. ~cycles'[k].whole
      BY <1>1, <2>3
    <3> QED
      BY <1>1, <2>1, <2>2, <3>3, <3>4 DEF Divided
  <2>4. CASE k # Len(cycles)
    <3>1. Left(k) = {} /\ cycles'[k].whole = cycles[k].whole
      BY <1>1, <1>6, <2>4 DEF Left
    <3> QED
      BY <1>1, <2>1, <2>2, <3>1 DEF Divided
  <2> QED
    BY <2>3, <2>4
<1>7. Quiet'
  <2>1. ASSUME NEW rows, NEW k \in Busy, Clear(rows, cycles[k].at, Left(k), SentAt(k))
        PROVE  Clear(rows, cycles[k].at, {}, SentAt(k))
    BY <2>1 DEF Clear
  <2>2. ASSUME NEW k \in Busy, k \in DOMAIN cycles
        PROVE  /\ cycles'[k].at = cycles[k].at /\ Left(k)' = {} /\ SentAt(k)' = SentAt(k)
               /\ Clear(accounts, cycles[k].at, {}, SentAt(k))
               /\ \A b \in Bots : /\ Clear(allocs[b], cycles[k].at, {}, SentAt(k))
                                  /\ Clear(signals[b], cycles[k].at, {}, SentAt(k))
    BY <1>1, <1>2, <1>3, <2>1, <2>2 DEF Kept, Quiet
  <2> QED
    BY <1>1, <1>4, <2>2 DEF Quiet
<1>8. Replayable'
  <2>1. \A k \in DOMAIN cycles', b \in Bots : Answered(k, b)'
    BY <1>1 DEF Kept, Replayable, Answered
  <2>2. \A k \in DOMAIN cycles', b \in Bots : Entered(k, b)'
    BY <1>1 DEF Kept, Replayable, Entered
  <2>3. \A b \in Bots : Remembers(b)'
    BY <1>1 DEF Kept, Replayable, Remembers
  <2> QED
    BY <2>1, <2>2, <2>3 DEF Replayable
<1> QED
  BY <1>4, <1>6, <1>7, <1>8 DEF Kept

LEMMA OrderKept ==
  ASSUME AuditTyped, RowsPast, Timed, Covered, Kept, NEW o \in plan, SubmitOrder(o)
  PROVE  Kept'
<1>1. PICK m, n : m = Len(orders) + 1 /\ n = Len(cycles)
  OBVIOUS
<1>2. /\ o \in OrderPlanned /\ plan # {} /\ plan' = plan \ {o}
      /\ UNCHANGED <<minute, bars, locks, beats, accounts, signals, states, allocs, cycles>>
      /\ Len(orders) \in Nat /\ DOMAIN orders = 1..Len(orders) /\ DOMAIN orders' = 1..m
      /\ \A i \in 1..Len(orders) : orders'[i] = orders[i]
      /\ orders'[m].ts = minute /\ orders'[m].sym = o.sym
      /\ orders'[m].side = o.side /\ orders'[m].amount = o.amount
  BY <1>1, OrderAdded
<1>3. /\ n \in DOMAIN cycles /\ OrdersOf(n)' = OrdersOf(n) \cup {m} /\ m \notin OrdersOf(n)
      /\ Left(n) = plan /\ Left(n)' = plan \ {o}
      /\ \A k \in DOMAIN cycles \ {n} : OrdersOf(k)' = OrdersOf(k) /\ Left(k)' = Left(k) /\ Left(k) = {}
  BY <1>1, OrderOwned
<1>4. \A k : \A i \in OrdersOf(k) : orders'[i] = orders[i] /\ i \in DOMAIN orders
  BY <1>2 DEF OrdersOf
<1>5. ASSUME NEW k \in DOMAIN cycles, k # n PROVE Sent(k)' = Sent(k) /\ SentAt(k)' = SentAt(k)
  BY <1>3, <1>4, <1>5 DEF Sent, SentAt
<1>6. Busy' = Busy /\ n \in Busy /\ \A k \in Busy : k \in DOMAIN cycles
  <2>1. ASSUME NEW k \in DOMAIN cycles
        PROVE  (OrdersOf(k)' # {} \/ Left(k)' # {}) <=> (OrdersOf(k) # {} \/ Left(k) # {})
    <3>1. CASE k = n
      BY <1>2, <1>3, <3>1
    <3>2. CASE k # n
      BY <1>3, <3>2
    <3> QED
      BY <3>1, <3>2
  <2>2. Busy' = Busy
    BY <1>2, <2>1 DEF Busy
  <2> QED
    BY <1>2, <1>3, <2>2 DEF Busy
<1>7. \A k : Meant(k)' = Meant(k)
  BY <1>2 DEF Meant, EquityAsOf, AllocationAsOf
<1>8. AsOrder(orders'[m]) = o
  <2>1. o = [sym |-> o.sym, side |-> o.side, amount |-> o.amount]
    BY <1>2 DEF OrderPlanned
  <2> QED
    BY <1>2, <2>1 DEF AsOrder
<1>9. Sent(n)' = Sent(n) \cup {o}
  <2>1. Sent(n)' = {AsOrder(orders'[i]) : i \in OrdersOf(n) \cup {m}}
    BY <1>3 DEF Sent
  <2>2. \A i \in OrdersOf(n) : AsOrder(orders'[i]) = AsOrder(orders[i])
    BY <1>4
  <2> QED
    BY <1>8, <2>1, <2>2 DEF Sent
<1>10. Divided(n) /\ cycles[n].whole
  BY <1>1, <1>2, <1>6 DEF Kept, Timed, UnderWay
<1>11. Divided(n)'
  <2>1. Sent(n) \subseteq Meant(n) /\ plan \subseteq Meant(n) /\ Sent(n) \cap plan = {} /\ Meant(n) = Sent(n) \cup plan
    BY <1>3, <1>10 DEF Divided
  <2>2. /\ Sent(n)' \subseteq Meant(n)' /\ Left(n)' \subseteq Meant(n)' /\ Sent(n)' \cap Left(n)' = {}
        /\ Meant(n)' = Sent(n)' \cup Left(n)'
    BY <1>3, <1>7, <1>9, <2>1
  <2>3. ASSUME NEW i \in OrdersOf(n) PROVE orders[i].sym # o.sym
    <3>1. SUFFICES ASSUME orders[i].sym = o.sym PROVE FALSE
      OBVIOUS
    <3>2. PICK p : p = AsOrder(orders[i])
      OBVIOUS
    <3>3. p \in Sent(n) /\ p.sym = o.sym
      BY <3>1, <3>2 DEF Sent, AsOrder
    <3>4. p \in Meant(n) /\ o \in Meant(n)
      BY <2>1, <3>3
    <3>5. p = o
      BY <3>3, <3>4, PlanFromOnce DEF Meant
    <3> QED
      BY <2>1, <3>3, <3>5
  <2>4. \A i, j \in OrdersOf(n) : orders[i].sym = orders[j].sym => i = j
    BY <1>10 DEF Divided
  <2>5. \A i, j \in OrdersOf(n)' : orders'[i].sym = orders'[j].sym => i = j
    BY <1>2, <1>3, <1>4, <2>3, <2>4
  <2>6. cycles'[n].whole
    BY <1>2, <1>10
  <2> QED
    BY <2>2, <2>5, <2>6 DEF Divided
<1>12. ASSUME NEW k \in Busy, k # n PROVE Divided(k)'
  <2>1. k \in DOMAIN cycles /\ Divided(k)
    BY <1>6, <1>12 DEF Kept
  <2>2. /\ Sent(k)' = Sent(k) /\ OrdersOf(k)' = OrdersOf(k) /\ Left(k)' = Left(k) /\ Meant(k)' = Meant(k)
        /\ \A i \in OrdersOf(k) : orders'[i] = orders[i]
    BY <1>3, <1>4, <1>5, <1>7, <1>12, <2>1
  <2> QED
    BY <1>2, <2>1, <2>2 DEF Divided
<1>13. ASSUME NEW rows, NEW k \in Busy, Clear(rows, cycles[k].at, Left(k), SentAt(k))
       PROVE  Clear(rows, cycles[k].at, Left(k)', SentAt(k)')
  <2>1. CASE k = n
    BY <1>2, <1>3, <1>13, <2>1 DEF Clear
  <2>2. CASE k # n
    BY <1>3, <1>5, <1>6, <1>13, <2>2
  <2> QED
    BY <2>1, <2>2
<1>14. Quiet'
  BY <1>2, <1>6, <1>13 DEF Kept, Quiet
<1>15. Replayable'
  BY <1>2, <1>6 DEF Kept, Replayable, Answered, Entered, Remembers
<1> QED
  BY <1>6, <1>11, <1>12, <1>14, <1>15 DEF Kept

LEMMA CycleKept ==
  ASSUME AuditTyped, RowsPast, Timed, Covered, Kept,
         NEW got \in Outcomes, NEW whole \in BOOLEAN, Cycling(got, whole)
  PROVE  Kept'
<1>1. PICK n : n = Len(cycles)
  OBVIOUS
<1>2. /\ plan = {} /\ UNCHANGED <<minute, bars, cash, pos, locks, beats, orders>>
      /\ n \in Nat /\ Len(cycles') = n + 1 /\ cycles' # <<>>
      /\ DOMAIN cycles = 1..n /\ DOMAIN cycles' = 1..(n + 1)
      /\ \A k \in 1..n : cycles'[k] = cycles[k] /\ cycles[k].at < minute
      /\ cycles'[n + 1] = CycleOf(got, whole)
      /\ whole => plan' = CyclePlan(got)
      /\ ~whole => plan' = {}
      /\ \A i \in DOMAIN orders : orders[i].ts < minute
      /\ accounts' = Append(accounts, [ts |-> minute, equity |-> Equity])
  BY <1>1, CycleAdded
<1>3. /\ \A k \in DOMAIN cycles : OrdersOf(k)' = OrdersOf(k) /\ Left(k)' = {} /\ Left(k) = {}
      /\ OrdersOf(n + 1)' = {} /\ Left(n + 1)' = plan'
  BY <1>1, CycleOwns
<1>row. /\ cycles'[n + 1].at = minute /\ cycles'[n + 1].bars = bars /\ cycles'[n + 1].whole = whole
        /\ cycles'[n + 1].saw = Held(pos) /\ cycles'[n + 1].locks = locks /\ cycles'[n + 1].active = active
        /\ cycles'[n + 1].states = states /\ cycles'[n + 1].answered = {b \in Bots : got[b] # "nothing"}
  BY <1>2 DEF CycleOf
<1>4. AuditTyped' /\ RowsPast' /\ Timed'
  BY CycleSteady
<1>5. minute \in Nat
  BY Times
<1>6. PICK r : r = [ts |-> minute, equity |-> Equity]
  OBVIOUS
<1>7. r \in Account /\ r.ts = minute /\ accounts' = Append(accounts, r)
  BY <1>2, <1>6, HeldFacts DEF Account, AuditTyped
<1>8. /\ Grown(Account, accounts, accounts', minute)
      /\ \A b \in Bots : /\ Grown(Allocation, allocs[b], allocs'[b], minute)
                         /\ Grown(Signal, signals[b], signals'[b], minute)
  BY <1>7, CycleStores DEF Grown
<1>9. \A k \in 1..(n + 1) : k \in 1..n \/ k = n + 1
  BY <1>2
<1>10. ASSUME NEW k \in Busy'
       PROVE  (k \in Busy /\ k \in DOMAIN cycles /\ k # n + 1) \/ (k = n + 1 /\ whole)
  <2>1. CASE k \in 1..n
    BY <1>2, <1>3, <1>10, <2>1 DEF Busy
  <2>2. CASE k = n + 1
    BY <1>2, <1>3, <1>10, <2>2 DEF Busy
  <2> QED
    BY <1>2, <1>9, <1>10, <2>1, <2>2 DEF Busy
<1>11. ASSUME NEW k \in DOMAIN cycles
       PROVE  /\ Meant(k)' = Meant(k) /\ Sent(k)' = Sent(k) /\ SentAt(k)' = SentAt(k) /\ cycles'[k] = cycles[k]
              /\ \A x \in SentAt(k) : x < minute
  <2>1. cycles'[k] = cycles[k]
    BY <1>2, <1>11
  <2>2. Meant(k)' = Meant(k)
    BY <1>2, <1>8, <1>11, <2>1, Frozen
  <2>3. Sent(k)' = Sent(k) /\ SentAt(k)' = SentAt(k)
    BY <1>2, <1>3, <1>11 DEF Sent, SentAt
  <2>4. \A x \in SentAt(k) : x < minute
    BY <1>2 DEF SentAt, OrdersOf
  <2> QED
    BY <2>1, <2>2, <2>3, <2>4
<1>12. ASSUME whole PROVE Divided(n + 1)'
  <2>1. Sent(n + 1)' = {} /\ OrdersOf(n + 1)' = {} /\ Left(n + 1)' = CyclePlan(got) /\ cycles'[n + 1].whole
    BY <1>2, <1>3, <1>row, <1>12 DEF Sent
  <2>2. EquityAsOf(cycles[n + 1].at)' = Equity
    <3>1. PICK rows : rows = accounts'
      OBVIOUS
    <3>2. /\ rows \in Seq(Account) /\ rows # <<>> /\ rows[Len(rows)] = r
          /\ \A i \in DOMAIN rows : rows[i].ts <= minute
      <4>1. rows \in Seq(Account) /\ \A i \in DOMAIN rows : rows[i].ts <= minute
        BY <1>2, <1>4, <3>1 DEF AuditTyped, RowsPast, AllBy
      <4>2. accounts \in Seq(Account)
        BY DEF AuditTyped
      <4>3. rows # <<>> /\ rows[Len(rows)] = r
        BY <1>7, <3>1, <4>2, AppendFacts
      <4> QED
        BY <4>1, <4>3
    <3>3. UpTo(rows, minute) # {} /\ AsOf(rows, minute) = r
      BY ONLY <3>2, NewestRow
    <3> QED
      BY <1>row, <1>6, <3>1, <3>3 DEF EquityAsOf
  <2>3. ASSUME NEW b \in active PROVE AllocationAsOf(b, cycles[n + 1].at)' = Granted(got)[b]
    <3>1. PICK rows : rows = allocs'[b]
      OBVIOUS
    <3>2. b \in Bots
      BY DEF AuditTyped
    <3>3. rows \in Seq(Allocation) /\ \A i \in DOMAIN rows : rows[i].ts <= minute
      BY <1>2, <1>4, <3>1, <3>2 DEF AuditTyped, RowsPast, AllBy
    <3>4. rows # <<>> => UpTo(rows, minute) # {} /\ AsOf(rows, minute) = Last(rows)
      BY ONLY <3>3, NewestRow
    <3>5. rows = <<>> => UpTo(rows, minute) = {}
      BY DEF UpTo
    <3>6. AllocationAsOf(b, cycles[n + 1].at)' = IF rows = <<>> THEN NoSymbols ELSE Last(rows).weights
      BY <1>row, <3>1, <3>4, <3>5 DEF AllocationAsOf
    <3>7. CASE ~Allots(got, b)
      <4>1. rows = allocs[b]
        BY <3>1, <3>2, <3>7 DEF Cycling, RunBots
      <4> QED
        BY <3>6, <3>7, <4>1 DEF Granted
    <3>8. CASE Allots(got, b)
      <4>1. PICK w : w = [ts |-> minute, weights |-> Safe(b)]
        OBVIOUS
      <4>2. w \in Allocation /\ allocs[b] \in Seq(Allocation) /\ w.weights = Safe(b)
        BY <3>2, <4>1, RowsTyped DEF AuditTyped
      <4>3. rows = Append(allocs[b], w)
        BY <3>1, <3>2, <3>8, <4>1 DEF Cycling, RunBots
      <4>4. rows # <<>> /\ Last(rows) = w
        BY <4>2, <4>3, AppendFacts DEF Last
      <4> QED
        BY <3>6, <3>8, <4>2, <4>4 DEF Granted
    <3> QED
      BY <3>7, <3>8
  <2>4. Meant(n + 1)' = CyclePlan(got)
    <3>1. Granted(got) = [b \in active |-> Granted(got)[b]]
      BY DEF Granted
    <3>2. [b \in active |-> AllocationAsOf(b, cycles[n + 1].at)'] = Granted(got)
      BY <2>3, <3>1
    <3>3. Meant(n + 1)' = PlanFrom(Held(pos), locks, Equity, Granted(got))
      BY <1>row, <2>2, <3>2 DEF Meant
    <3> QED
      BY <3>3, CyclePlanFrom
  <2> QED
    BY <2>1, <2>4 DEF Divided
<1>13. ASSUME NEW k \in Busy, k \in DOMAIN cycles PROVE Divided(k)'
  <2>1. Divided(k)
    BY <1>13 DEF Kept
  <2>2. /\ Sent(k)' = Sent(k) /\ Meant(k)' = Meant(k) /\ Left(k)' = {} /\ Left(k) = {} /\ OrdersOf(k)' = OrdersOf(k)
        /\ cycles'[k] = cycles[k] /\ orders' = orders
    BY <1>2, <1>3, <1>11, <1>13
  <2> QED
    BY <2>1, <2>2 DEF Divided
<1>14. ASSUME NEW k \in Busy' PROVE Divided(k)'
  BY <1>10, <1>12, <1>13, <1>14

<1>15. ASSUME NEW S, NEW rows \in Seq(S), NEW more, Grown(S, rows, more, minute),
              \A i \in DOMAIN more : ~(more[i].ts > minute),
              NEW k \in Busy', k \in Busy => Clear(rows, cycles[k].at, Left(k), SentAt(k))
       PROVE  Clear(more, cycles'[k].at, Left(k)', SentAt(k)')
  <2>1. CASE k = n + 1
    BY <1>row, <1>15, <2>1 DEF Clear
  <2>2. CASE k \in Busy /\ k \in DOMAIN cycles
    <3>1. PICK at, left, times : at = cycles[k].at /\ left = Left(k) /\ times = SentAt(k)
      OBVIOUS
    <3>2. /\ Clear(rows, at, left, times) /\ left = {} /\ (\A x \in times : x < minute) /\ minute \in Int
          /\ Grown(S, rows, more, minute) /\ rows \in Seq(S)
      BY <1>3, <1>5, <1>11, <1>15, <2>2, <3>1
    <3>3. Clear(more, at, {}, times)
      BY ONLY <3>2, GrownClear
    <3> QED
      BY <1>3, <1>11, <2>2, <3>1, <3>3
  <2> QED
    BY <1>10, <1>15, <2>1, <2>2
<1>16. Quiet'
  <2>1. ASSUME NEW k \in Busy'
        PROVE  Clear(accounts', cycles'[k].at, Left(k)', SentAt(k)')
    <3>1. PICK more : more = accounts'
      OBVIOUS
    <3>2. /\ accounts \in Seq(Account) /\ Grown(Account, accounts, more, minute)
          /\ \A i \in DOMAIN more : more[i].ts <= minute
      BY <1>2, <1>4, <1>8, <3>1 DEF AuditTyped, RowsPast, AllBy
    <3>3. \A i \in DOMAIN more : ~(more[i].ts > minute)
      <4>1. \A i \in DOMAIN more : more[i].ts \in Nat
        <5>1. more \in Seq(Account)
          BY <1>4, <3>1 DEF AuditTyped
        <5>2. \A i \in DOMAIN more : more[i] \in Account
          BY <5>1
        <5> QED
          BY <5>2 DEF Account
      <4> QED
        BY <1>5, <3>2, <4>1
    <3>4. k \in Busy => Clear(accounts, cycles[k].at, Left(k), SentAt(k))
      BY DEF Kept, Quiet
    <3>5. Clear(more, cycles'[k].at, Left(k)', SentAt(k)')
      BY <1>15, <2>1, <3>2, <3>3, <3>4
    <3> QED
      BY <3>1, <3>5
  <2>2. ASSUME NEW k \in Busy', NEW b \in Bots
        PROVE  Clear(allocs'[b], cycles'[k].at, Left(k)', SentAt(k)')
    <3>1. PICK rows, more : rows = allocs[b] /\ more = allocs'[b]
      OBVIOUS
    <3>2. /\ rows \in Seq(Allocation) /\ Grown(Allocation, rows, more, minute)
          /\ \A i \in DOMAIN more : more[i].ts <= minute
      BY <1>2, <1>4, <1>8, <3>1 DEF AuditTyped, RowsPast, AllBy
    <3>3. \A i \in DOMAIN more : ~(more[i].ts > minute)
      <4>1. \A i \in DOMAIN more : more[i].ts \in Nat
        <5>1. more \in Seq(Allocation)
          BY <1>4, <3>1 DEF AuditTyped
        <5>2. \A i \in DOMAIN more : more[i] \in Allocation
          BY <5>1
        <5> QED
          BY <5>2 DEF Allocation
      <4> QED
        BY <1>5, <3>2, <4>1
    <3>4. k \in Busy => Clear(rows, cycles[k].at, Left(k), SentAt(k))
      BY <3>1 DEF Kept, Quiet
    <3>5. Clear(more, cycles'[k].at, Left(k)', SentAt(k)')
      BY <1>15, <2>2, <3>2, <3>3, <3>4
    <3> QED
      BY <3>1, <3>5
  <2>3. ASSUME NEW k \in Busy', NEW b \in Bots
        PROVE  Clear(signals'[b], cycles'[k].at, Left(k)', SentAt(k)')
    <3>1. PICK rows, more : rows = signals[b] /\ more = signals'[b]
      OBVIOUS
    <3>2. /\ rows \in Seq(Signal) /\ Grown(Signal, rows, more, minute)
          /\ \A i \in DOMAIN more : more[i].ts <= minute
      BY <1>2, <1>4, <1>8, <3>1 DEF AuditTyped, RowsPast, AllBy
    <3>3. \A i \in DOMAIN more : ~(more[i].ts > minute)
      <4>1. \A i \in DOMAIN more : more[i].ts \in Nat
        <5>1. more \in Seq(Signal)
          BY <1>4, <3>1 DEF AuditTyped
        <5>2. \A i \in DOMAIN more : more[i] \in Signal
          BY <5>1
        <5> QED
          BY <5>2 DEF Signal
      <4> QED
        BY <1>5, <3>2, <4>1
    <3>4. k \in Busy => Clear(rows, cycles[k].at, Left(k), SentAt(k))
      BY <3>1 DEF Kept, Quiet
    <3>5. Clear(more, cycles'[k].at, Left(k)', SentAt(k)')
      BY <1>15, <2>3, <3>2, <3>3, <3>4
    <3> QED
      BY <3>1, <3>5
  <2> QED
    BY <2>1, <2>2, <2>3 DEF Quiet
<1>17. ASSUME NEW k \in DOMAIN cycles', NEW b \in Bots PROVE Answered(k, b)'
  <2>1. CASE k \in 1..n
    BY <1>2, <1>8, <1>11, <2>1, AnsweredStill DEF Kept, Replayable
  <2>2. CASE k = n + 1
    <3>1. PICK rows : rows = signals'[b]
      OBVIOUS
    <3>2. rows \in Seq(Signal) /\ \A i \in DOMAIN rows : rows[i].ts <= minute
      BY <1>2, <1>4, <3>1 DEF AuditTyped, RowsPast, AllBy
    <3>3. CASE got[b] # "nothing"
      <4>1. rows # <<>> /\ Last(rows).answer = Answer(b, bars, states[b])
        BY <3>1, <3>3, CycleStores
      <4>2. UpTo(rows, minute) # {} /\ AsOf(rows, minute) = Last(rows)
        BY ONLY <3>2, <4>1, NewestRow
      <4> QED
        BY <1>row, <2>2, <3>1, <3>3, <4>1, <4>2 DEF Answered
    <3>4. CASE got[b] = "nothing"
      <4>1. rows = signals[b]
        BY <3>1, <3>4, CycleStores
      <4>2. \A i \in DOMAIN rows : rows[i].ts < minute
        BY <1>2, <4>1 DEF Timed, FromCycles
      <4>3. UpTo(rows, minute) # {} => AsOf(rows, minute).ts < minute
        BY <3>2, <4>2, UpToFacts DEF AsOf, UpTo
      <4> QED
        BY <1>row, <2>2, <3>1, <3>4, <4>3 DEF Answered
    <3> QED
      BY <3>3, <3>4
  <2> QED
    BY <1>2, <1>9, <2>1, <2>2
<1>18. ASSUME NEW b \in Bots, signals[b] # <<>>
       PROVE  signals'[b] # <<>> /\ signals'[b][1] = signals[b][1] /\ signals[b][1].ts \in Nat
  <2>1. PICK rows, more : rows = signals[b] /\ more = signals'[b]
    OBVIOUS
  <2>2. rows \in Seq(Signal) /\ Grown(Signal, rows, more, minute) /\ minute \in Int
    BY <1>5, <1>8, <2>1 DEF AuditTyped
  <2>3. 1 \in DOMAIN rows
    BY <1>18, <2>1, <2>2
  <2>4. more \in Seq(Signal) /\ 1 \in DOMAIN more /\ more[1] = rows[1]
    BY <2>2, <2>3, GrownFacts
  <2>5. rows[1] \in Signal
    BY <2>2, <2>3
  <2> QED
    BY <2>1, <2>4, <2>5 DEF Signal
<1>19. ASSUME NEW k \in DOMAIN cycles', NEW b \in Bots PROVE Entered(k, b)'
  <2>1. CASE k \in 1..n
    <3>1. cycles'[k] = cycles[k] /\ Entered(k, b)
      BY <1>2, <2>1 DEF Kept, Replayable
    <3> QED
      BY <1>18, <3>1 DEF Entered
  <2>2. CASE k = n + 1
    <3>1. ASSUME states[b] # 0 PROVE b \in Stateful /\ signals'[b] # <<>> /\ signals'[b][1].ts < minute
      <4>1. b \in Stateful /\ signals[b] # <<>>
        BY <3>1 DEF Kept, Replayable, Remembers
      <4>2. 1 \in DOMAIN signals[b]
        <5>1. PICK rows : rows = signals[b]
          OBVIOUS
        <5>2. rows \in Seq(Signal) /\ rows # <<>>
          BY <4>1, <5>1 DEF AuditTyped
        <5>3. 1 \in DOMAIN rows
          BY <5>2
        <5> QED
          BY <5>1, <5>3
      <4>3. signals[b][1].ts < minute
        BY <1>2, <4>2 DEF Timed, FromCycles
      <4> QED
        BY <1>18, <4>1, <4>3
    <3> QED
      BY <1>row, <2>2, <3>1 DEF Entered
  <2> QED
    BY <1>2, <1>9, <2>1, <2>2
<1>20. ASSUME NEW b \in Bots PROVE Remembers(b)'
  <2>1. CASE b \in Stateful /\ got[b] \in {"state", "all"}
    BY <2>1, CycleStores DEF Remembers
  <2>2. CASE ~(b \in Stateful /\ got[b] \in {"state", "all"})
    <3>1. states'[b] = states[b]
      BY <2>2 DEF Cycling, RunBots
    <3>2. Remembers(b)
      BY DEF Kept, Replayable
    <3> QED
      BY <1>18, <3>1, <3>2 DEF Remembers
  <2> QED
    BY <2>1, <2>2
<1> QED
  BY <1>14, <1>16, <1>17, <1>19, <1>20 DEF Kept, Replayable

-----------------------------------------------------------------------------
(* The invariant.                                                          *)

IInv == AuditTyped /\ RowsPast /\ Timed /\ Covered /\ Kept

LEMMA InitInv == AuditInit => IInv
<1> SUFFICES ASSUME AuditInit PROVE IInv
  OBVIOUS
<1>1. AuditTyped
  BY AuditInitTyped
<1>2. /\ beats = <<>> /\ accounts = <<>> /\ orders = <<>> /\ cycles = <<>> /\ plan = {}
      /\ \A b \in Bots : signals[b] = <<>> /\ allocs[b] = <<>> /\ states[b] = 0
  BY DEF AuditInit
<1>3. RowsPast
  BY <1>2 DEF RowsPast, AllBy
<1>4. Timed
  BY <1>2 DEF Timed, Apart, EachOf, InTime, UnderWay, FromCycles
<1>5. Covered
  BY <1>2 DEF Covered
<1>6. Busy = {}
  BY <1>2 DEF Busy
<1>7. Replayable
  BY <1>2, <1>6 DEF Replayable, Remembers
<1>8. Kept
  BY <1>6, <1>7 DEF Kept, Quiet
<1> QED
  BY <1>1, <1>3, <1>4, <1>5, <1>8 DEF IInv

LEMMA StepInv == IInv /\ [AuditNext]_auditVars => IInv'
<1> SUFFICES ASSUME AuditTyped, RowsPast, Timed, Covered, Kept, [AuditNext]_auditVars PROVE IInv'
  BY DEF IInv
<1>1. CASE Outside
  BY <1>1, OutsideSteady, OutsideKept DEF IInv
<1>2. CASE \E got \in Outcomes, whole \in BOOLEAN : Cycling(got, whole)
  BY <1>2, CycleSteady, CycleKept DEF IInv
<1>3. CASE PlanBreaks
  BY <1>3, BreakSteady, BreakKept DEF IInv
<1>4. CASE Heartbeat
  BY <1>4, HeartbeatSteady, HeartbeatKept DEF IInv
<1>5. CASE \E o \in plan : SubmitOrder(o)
  BY <1>5, OrderSteady, OrderKept DEF IInv
<1> QED
  BY <1>1, <1>2, <1>3, <1>4, <1>5, AuditSteps

\* However soon a cycle follows another, at its time, after a restart or on
\* request, and whichever bots fail in it, the tables keep what each cycle saw,
\* meant and sent: no row is of the future, each order is of one cycle, nothing
\* is written between a plan and its last order; what was sent, is left or was
\* dropped makes up the plan; and a bot's newest signal as of a cycle is what
\* it answered in it, or an older one if it did not answer.
THEOREM TablesKeepCycles == AuditSpec => []IInv
<1>1. AuditInit => IInv
  BY InitInv
<1>2. IInv /\ [AuditNext]_auditVars => IInv'
  BY StepInv
<1> QED
  BY <1>1, <1>2, PTL DEF AuditSpec

\* Every table holds rows of its type, none of the future, through cycles,
\* failing bots, broken plans, restarts, heartbeats and the owner's edits.
THEOREM RowsTypeCorrect == AuditSpec => []AuditTypeOK
<1>1. IInv => AuditTypeOK
  BY TypedOK DEF IInv
<1> QED
  BY <1>1, TablesKeepCycles, PTL

-----------------------------------------------------------------------------
(* What the audit says.                                                    *)

\* A cycle is known by a time of one of its orders, and by its latest.
LEMMA AnchorFacts ==
  ASSUME AuditTyped, RowsPast, NEW k \in DOMAIN cycles, OrdersOf(k) # {}
  PROVE  /\ Anchor(k) \in SentAt(k) /\ Anchor(k) \in Nat
         /\ \A i \in OrdersOf(k) : orders[i].ts <= Anchor(k)
         /\ cycles[k].at <= Anchor(k)
<1>1. PICK at, end, T : at = cycles[k].at /\ end = minute /\ T = SentAt(k)
  OBVIOUS
<1>2. at \in Nat /\ end \in Nat
  BY <1>1, Times
<1>3. Anchor(k) = Max(T)
  BY <1>1 DEF Anchor, SentAt
<1>4. ASSUME NEW i \in OrdersOf(k) PROVE orders[i].ts \in Nat /\ orders[i].ts \in at..end
  <2>1. i \in DOMAIN orders /\ orders[i].ts >= at /\ orders[i].ts <= end
    BY <1>1 DEF OrdersOf, RowsPast, AllBy
  <2>2. orders[i].ts \in Nat
    BY <2>1, Times
  <2> QED
    BY <1>2, <2>1, <2>2
<1>5. T \subseteq at..end /\ T # {}
  BY <1>1, <1>4 DEF SentAt
<1>6. IsFiniteSet(T) /\ \A x \in T : x \in Int
  <2>1. PICK I : I = at..end
    OBVIOUS
  <2>2. IsFiniteSet(I) /\ T \subseteq I /\ \A x \in I : x \in Int
    BY <1>2, <1>5, <2>1, FS_Interval
  <2> QED
    BY <2>2, FS_Subset
<1>7. Max(T) \in T /\ \A y \in T : Max(T) >= y
  BY <1>5, <1>6, MaxInSet
<1>8. PICK x : x = Max(T)
  OBVIOUS
<1>9. x \in at..end /\ \A y \in T : x >= y
  BY <1>5, <1>7, <1>8
<1>10. x \in Nat /\ at <= x
  BY <1>2, <1>9
<1>11. \A i \in OrdersOf(k) : orders[i].ts <= x
  <2>1. ASSUME NEW i \in OrdersOf(k) PROVE orders[i].ts <= x
    <3>1. orders[i].ts \in T
      BY <1>1 DEF SentAt
    <3>2. orders[i].ts \in Nat /\ x >= orders[i].ts
      BY <1>4, <1>9, <3>1
    <3> QED
      BY <1>10, <3>2
  <2> QED
    BY <2>1
<1> QED
  BY <1>1, <1>3, <1>7, <1>8, <1>10, <1>11

LEMMA TraderFacts ==
  ASSUME AuditTyped, NEW k \in Traders
  PROVE  k \in DOMAIN cycles /\ OrdersOf(k) # {} /\ Left(k) = {} /\ k \in Busy
<1>1. k \in DOMAIN cycles /\ OrdersOf(k) # {} /\ Left(k) = {}
  BY DEF Traders, Left
<1> QED
  BY <1>1 DEF Busy

\* The times the audit lists are times of orders that lie apart, and each
\* order is in the window of one.
LEMMA ListedSpaced ==
  ASSUME AuditTyped, Timed
  PROVE  /\ \A t \in ToSet(Listed) : \E i \in DOMAIN orders : t = orders[i].ts
         /\ \A i \in DOMAIN orders : \E t \in ToSet(Listed) : orders[i].ts \in Within(t)
         /\ \A t, u \in ToSet(Listed) : t < u => t \notin Within(u)
<1>1. PICK n : n = Len(orders)
  OBVIOUS
<1>2. n \in Nat /\ DOMAIN orders = 1..n /\ \A i \in 1..n : orders[i].ts \in Nat
  BY <1>1, Times
<1>3. PICK times : times = [i \in 1..n |-> orders[i].ts]
  OBVIOUS
<1>4. times \in Seq(Int) /\ Len(times) = n /\ \A i \in 1..n : times[i] = orders[i].ts
  BY <1>2, <1>3
<1>5. \A i, j \in 1..n : i <= j => times[i] <= times[j]
  BY <1>2, <1>4 DEF Timed, InTime
<1>6. Spaced(Clusters(times), {times[i] : i \in 1..n})
  BY <1>4, <1>5, ClustersSpaced
<1>7. Listed = Clusters(times)
  BY <1>2, <1>3 DEF Listed
<1>8. PICK T, listed : T = {times[i] : i \in 1..n} /\ listed = ToSet(Listed)
  OBVIOUS
<1>9. /\ listed \subseteq T /\ \A t \in T : \E r \in listed : t \in Within(r)
      /\ \A r, s \in listed : r < s => r \notin Within(s)
  BY <1>6, <1>7, <1>8 DEF Spaced
<1>10. \A i \in DOMAIN orders : orders[i].ts \in T
  BY <1>2, <1>4, <1>8
<1>11. \A t \in listed : \E i \in DOMAIN orders : t = orders[i].ts
  BY <1>2, <1>4, <1>8, <1>9
<1> QED
  BY <1>8, <1>9, <1>10, <1>11

\* The audit's list is faithful, however soon one cycle follows another: a
\* cycle is listed by its last order unless another followed it within the
\* window, by that order only if its orders lie together, and no order is
\* outside the window of every listed time.
THEOREM AllCyclesListed == AuditSpec => []CyclesListed
<1>1. ASSUME AuditTyped, RowsPast, Timed, NEW k \in Traders
      PROVE  /\ ~Followed(k) =>
                  /\ Anchor(k) \in ToSet(Listed)
                  /\ Together(k) => \A i \in OrdersOf(k) :
                       orders[i].ts \in ToSet(Listed) => orders[i].ts = Anchor(k)
             /\ \A i \in OrdersOf(k) : \E t \in ToSet(Listed) : orders[i].ts \in Within(t)
  <2>1. k \in DOMAIN cycles /\ OrdersOf(k) # {} /\ OrdersOf(k) \subseteq DOMAIN orders
    BY <1>1, TraderFacts DEF OrdersOf
  <2>2. PICK a : a = Anchor(k)
    OBVIOUS
  <2>3. a \in SentAt(k) /\ a \in Nat /\ \A i \in OrdersOf(k) : orders[i].ts <= a
    BY <1>1, <2>1, <2>2, AnchorFacts
  <2>4. /\ CorrelationWindow \in Nat
        /\ \A i \in DOMAIN orders : orders[i].ts \in Nat
    BY <1>1, Times
  <2>5. ASSUME ~Followed(k) PROVE a \in ToSet(Listed)
    <3>1. PICK i \in OrdersOf(k) : a = orders[i].ts
      BY <2>3 DEF SentAt
    <3>2. PICK t \in ToSet(Listed) : a \in Within(t)
      BY <1>1, <2>1, <3>1, ListedSpaced
    <3>3. PICK j \in DOMAIN orders : t = orders[j].ts
      BY <1>1, ListedSpaced
    <3>4. t \in Nat /\ a <= t
      BY <2>3, <2>4, <3>2, <3>3 DEF Within
    <3>5. ~(t > a)
      BY <2>2, <2>5, <3>2, <3>3 DEF Followed
    <3> QED
      BY <2>3, <3>4, <3>5
  <2>6. ASSUME a \in ToSet(Listed), Together(k), NEW i \in OrdersOf(k), orders[i].ts \in ToSet(Listed)
        PROVE  orders[i].ts = a
    <3>1. orders[i].ts \in Within(a)
      BY <2>2, <2>6 DEF Together
    <3>2. ~(orders[i].ts < a)
      BY <1>1, <2>6, <3>1, ListedSpaced
    <3>3. orders[i].ts <= a /\ orders[i].ts \in Nat
      BY <2>1, <2>3, <2>4
    <3> QED
      BY <2>3, <3>2, <3>3
  <2>7. \A i \in OrdersOf(k) : \E t \in ToSet(Listed) : orders[i].ts \in Within(t)
    BY <1>1, <2>1, ListedSpaced
  <2> QED
    BY <2>2, <2>5, <2>6, <2>7
<1>2. IInv => CyclesListed
  BY <1>1 DEF IInv, CyclesListed
<1> QED
  BY <1>2, TablesKeepCycles, PTL

\* As of its last order the tables are those of its plan.
LEMMA SameAsOf ==
  ASSUME AuditTyped, NEW k \in DOMAIN cycles, NEW t \in SentAt(k), t \in Nat, cycles[k].at <= t,
         NEW S, NEW rows \in Seq(S), \A i \in DOMAIN rows : rows[i].ts \in Nat,
         Clear(rows, cycles[k].at, Left(k), SentAt(k))
  PROVE  UpTo(rows, t) = UpTo(rows, cycles[k].at) /\ AsOf(rows, t) = AsOf(rows, cycles[k].at)
<1>1. PICK at : at = cycles[k].at
  OBVIOUS
<1>2. at \in Nat
  BY <1>1, Times
<1>3. \A i \in DOMAIN rows : rows[i].ts \in Int /\ (rows[i].ts > at => rows[i].ts > t)
  BY <1>1 DEF Clear
<1>4. at \in Int /\ t \in Int /\ at <= t
  BY <1>1, <1>2
<1>5. UpTo(rows, t) = UpTo(rows, at) /\ AsOf(rows, t) = AsOf(rows, at)
  BY ONLY <1>3, <1>4, NoRowBetween
<1> QED
  BY <1>1, <1>5

LEMMA TablesAsOf ==
  ASSUME IInv, NEW k \in Traders
  PROVE  /\ EquityAsOf(Anchor(k)) = EquityAsOf(cycles[k].at)
         /\ \A b \in Bots :
              /\ AllocationAsOf(b, Anchor(k)) = AllocationAsOf(b, cycles[k].at)
              /\ UpTo(signals[b], Anchor(k)) = UpTo(signals[b], cycles[k].at)
              /\ AsOf(signals[b], Anchor(k)) = AsOf(signals[b], cycles[k].at)
<1>0. AuditTyped /\ RowsPast /\ Quiet
  BY DEF IInv, Kept
<1>1. k \in DOMAIN cycles /\ OrdersOf(k) # {} /\ k \in Busy
  BY <1>0, TraderFacts
<1>2. PICK t : t = Anchor(k)
  OBVIOUS
<1>3. t \in SentAt(k) /\ t \in Nat /\ cycles[k].at <= t
  BY <1>0, <1>1, <1>2, AnchorFacts
<1>4. UpTo(accounts, t) = UpTo(accounts, cycles[k].at) /\ AsOf(accounts, t) = AsOf(accounts, cycles[k].at)
  <2>1. accounts \in Seq(Account)
    BY <1>0 DEF AuditTyped
  <2>2. \A i \in DOMAIN accounts : accounts[i].ts \in Nat
    <3>1. \A i \in DOMAIN accounts : accounts[i] \in Account
      BY <2>1
    <3> QED
      BY <3>1 DEF Account
  <2>3. Clear(accounts, cycles[k].at, Left(k), SentAt(k))
    BY <1>0, <1>1 DEF Quiet
  <2> QED
    BY <1>0, <1>1, <1>3, <2>1, <2>2, <2>3, SameAsOf
<1>5. ASSUME NEW b \in Bots
      PROVE  UpTo(allocs[b], t) = UpTo(allocs[b], cycles[k].at) /\ AsOf(allocs[b], t) = AsOf(allocs[b], cycles[k].at)
  <2>1. allocs[b] \in Seq(Allocation)
    BY <1>0 DEF AuditTyped
  <2>2. \A i \in DOMAIN allocs[b] : allocs[b][i].ts \in Nat
    <3>1. \A i \in DOMAIN allocs[b] : allocs[b][i] \in Allocation
      BY <2>1
    <3> QED
      BY <3>1 DEF Allocation
  <2>3. Clear(allocs[b], cycles[k].at, Left(k), SentAt(k))
    BY <1>0, <1>1 DEF Quiet
  <2> QED
    BY <1>0, <1>1, <1>3, <2>1, <2>2, <2>3, SameAsOf
<1>6. ASSUME NEW b \in Bots
      PROVE  UpTo(signals[b], t) = UpTo(signals[b], cycles[k].at) /\ AsOf(signals[b], t) = AsOf(signals[b], cycles[k].at)
  <2>1. signals[b] \in Seq(Signal)
    BY <1>0 DEF AuditTyped
  <2>2. \A i \in DOMAIN signals[b] : signals[b][i].ts \in Nat
    <3>1. \A i \in DOMAIN signals[b] : signals[b][i] \in Signal
      BY <2>1
    <3> QED
      BY <3>1 DEF Signal
  <2>3. Clear(signals[b], cycles[k].at, Left(k), SentAt(k))
    BY <1>0, <1>1 DEF Quiet
  <2> QED
    BY <1>0, <1>1, <1>3, <2>1, <2>2, <2>3, SameAsOf
<1> QED
  BY <1>2, <1>4, <1>5, <1>6 DEF EquityAsOf, AllocationAsOf

LEMMA MeantTyped ==
  ASSUME AuditTyped, NEW k \in DOMAIN cycles
  PROVE  Meant(k) \in SUBSET OrderPlanned
<1>1. PICK values, locked, account, ws :
        /\ values = cycles[k].saw /\ locked = cycles[k].locks /\ account = EquityAsOf(cycles[k].at)
        /\ ws = [b \in cycles[k].active |-> AllocationAsOf(b, cycles[k].at)]
  OBVIOUS
<1>0. DOMAIN ws = cycles[k].active /\ cycles[k].active \subseteq Bots
  BY <1>1, Times DEF Cycle
<1>2. IsPortfolio(values)
  <2>1. cycles[k] \in Cycle
    BY Times
  <2>2. values \in Portfolios
    BY <1>1, <2>1 DEF Cycle
  <2> QED
    BY <2>2, PortfolioMember
<1>3. account \in Int
  <2>1. accounts \in Seq(Account)
    BY DEF AuditTyped
  <2>2. UpTo(accounts, cycles[k].at) # {} => AsOf(accounts, cycles[k].at) \in Account
    BY <2>1, AsOfRow
  <2> QED
    BY <1>1, <2>2 DEF EquityAsOf, Account
<1>4. ASSUME NEW b \in DOMAIN ws PROVE IsPortfolio(ws[b])
  <2>1. PICK rows : rows = allocs[b]
    OBVIOUS
  <2>2. rows \in Seq(Allocation)
    BY <1>0, <2>1 DEF AuditTyped
  <2>3. UpTo(rows, cycles[k].at) # {} => AsOf(rows, cycles[k].at) \in Allocation
    BY <2>2, AsOfRow
  <2>4. UpTo(rows, cycles[k].at) # {} => AsOf(rows, cycles[k].at).weights \in Portfolios
    BY <2>3 DEF Allocation
  <2>5. ws[b] = IF UpTo(rows, cycles[k].at) = {} THEN NoSymbols ELSE AsOf(rows, cycles[k].at).weights
    BY <1>0, <1>1, <2>1 DEF AllocationAsOf
  <2> QED
    BY <2>4, <2>5, PortfolioMember, NoSymbolsIsPortfolio
<1>5. Managed(values, locked, account) \in Nat
  <2>1. PICK w : w = Restrict(values, DOMAIN values \cap locked)
    OBVIOUS
  <2>2. SumFunction(w) \in Nat
    <3>1. IsPortfolio(w)
      BY <1>2, <2>1, RestrictFacts
    <3> QED
      BY <3>1, PortfolioSum
  <2>3. PICK x \in Int : x = account - SumFunction(w)
    BY <1>3, <2>2
  <2>4. Max({x, 0}) = IF x >= 0 THEN x ELSE 0
    BY MaxOfTwo
  <2> QED
    BY <2>1, <2>3, <2>4 DEF Managed
<1>6. PlanFrom(values, locked, account, ws) \in SUBSET OrderPlanned
  BY <1>0, <1>2, <1>3, <1>4, <1>5, PlanFromFacts
<1> QED
  BY <1>1, <1>6 DEF Meant

\* Of one order per symbol, all of a plan, all lines match exactly if they are
\* the whole plan.
LEMMA MatchFacts ==
  ASSUME NEW k, OrdersOf(k) \subseteq Nat,
         NEW expected, Sent(k) \subseteq expected,
         \A e, p \in expected : e.sym = p.sym => e = p,
         \A e \in expected : e.amount \in Nat,
         \A i, j \in OrdersOf(k) : orders[i].sym = orders[j].sym => i = j
  PROVE  AllMatch(expected, OrdersOf(k)) <=> expected = Sent(k)
<1>1. \A i : /\ AsOrder(orders[i]).sym = orders[i].sym /\ AsOrder(orders[i]).side = orders[i].side
             /\ AsOrder(orders[i]).amount = orders[i].amount
             /\ KeyOf(AsOrder(orders[i])) = KeyOf(orders[i])
  BY DEF AsOrder, KeyOf
<1>2. ASSUME expected = Sent(k) PROVE AllMatch(expected, OrdersOf(k))
  <2>1. {KeyOf(e) : e \in expected} = {KeyOf(orders[i]) : i \in OrdersOf(k)}
    BY <1>1, <1>2 DEF Sent
  <2>2. ASSUME NEW e \in expected
        PROVE  Abs(e.amount - orders[Max({i \in OrdersOf(k) : KeyOf(orders[i]) = KeyOf(e)})].amount) <= Tolerance
    <3>1. PICK i \in OrdersOf(k) : e = AsOrder(orders[i])
      BY <1>2 DEF Sent
    <3>2. {j \in OrdersOf(k) : KeyOf(orders[j]) = KeyOf(e)} = {i}
      <4>1. KeyOf(e) = KeyOf(orders[i])
        BY <1>1, <3>1
      <4>2. \A j \in OrdersOf(k) : KeyOf(orders[j]) = KeyOf(orders[i]) => j = i
        BY DEF KeyOf
      <4> QED
        BY <4>1, <4>2
    <3>3. Max({i}) = i
      <4>1. PICK one : one = {i}
        OBVIOUS
      <4>2. i \in Int
        OBVIOUS
      <4>3. IsFiniteSet(one) /\ one # {} /\ \A x \in one : x \in Int
        BY <4>1, <4>2, FS_Singleton
      <4>4. Max(one) \in one
        BY ONLY <4>3, MaxInSet
      <4> QED
        BY <4>1, <4>4
    <3>4. e.amount = orders[i].amount /\ e.amount \in Nat
      BY <1>1, <3>1
    <3>5. PICK a \in Nat : a = e.amount
      BY <3>4
    <3>6. Abs(a - a) <= Tolerance
      BY AuditConstants DEF Abs
    <3> QED
      BY <3>2, <3>3, <3>4, <3>5, <3>6
  <2> QED
    BY <2>1, <2>2 DEF AllMatch
<1>3. ASSUME AllMatch(expected, OrdersOf(k)) PROVE expected = Sent(k)
  <2>1. ASSUME NEW e \in expected PROVE e \in Sent(k)
    <3>1. PICK i \in OrdersOf(k) : KeyOf(e) = KeyOf(orders[i])
      BY <1>3 DEF AllMatch
    <3>2. e.sym = orders[i].sym
      BY <3>1 DEF KeyOf
    <3>3. AsOrder(orders[i]) \in Sent(k)
      BY DEF Sent
    <3>4. AsOrder(orders[i]).sym = e.sym /\ AsOrder(orders[i]) \in expected
      BY <1>1, <3>2, <3>3
    <3>5. e = AsOrder(orders[i])
      BY <3>4
    <3> QED
      BY <3>3, <3>5
  <2> QED
    BY <2>1
<1> QED
  BY <1>2, <1>3

\* The audit's verdict is faithful: where the tables still say what a cycle
\* saw and the window holds its orders and no others, it is "match" if the
\* cycle submitted its whole plan, whichever bots failed in it, and "mismatch"
\* if the plan was broken off and orders are missing.
THEOREM VerdictIsTrue == AuditSpec => []AuditTellsTruth
<1>1. ASSUME IInv, NEW k \in Traders,
             locks = cycles[k].locks, active = cycles[k].active,
             PositionsAsOf(Anchor(k)) = cycles[k].saw, ActualOrders(Anchor(k)) = OrdersOf(k)
      PROVE  ExecutionVerdict(Anchor(k)) = IF cycles[k].whole THEN "match" ELSE "mismatch"
  <2>0. AuditTyped /\ Timed
    BY <1>1 DEF IInv
  <2>1. k \in DOMAIN cycles /\ OrdersOf(k) # {} /\ Left(k) = {} /\ k \in Busy
    BY <1>1, <2>0, TraderFacts
  <2>2. PICK actual : actual = ActualOrders(Anchor(k))
    OBVIOUS
  <2>3. actual = OrdersOf(k) /\ actual # {}
    BY <1>1, <2>1, <2>2
  <2>4. PICK expected : expected = ExpectedPlan(Anchor(k))
    OBVIOUS
  <2>5. expected = Meant(k)
    <3>1. [b \in active |-> AllocationAsOf(b, Anchor(k))]
          = [b \in cycles[k].active |-> AllocationAsOf(b, cycles[k].at)]
      <4>1. active \subseteq Bots
        BY <2>0 DEF AuditTyped
      <4> QED
        BY <1>1, <4>1, TablesAsOf
    <3>2. EquityAsOf(Anchor(k)) = EquityAsOf(cycles[k].at)
      BY <1>1, TablesAsOf
    <3>3. PICK ws : ws = [b \in active |-> AllocationAsOf(b, Anchor(k))]
      OBVIOUS
    <3>4. ExpectedPlan(Anchor(k)) = PlanFrom(PositionsAsOf(Anchor(k)), locks, EquityAsOf(Anchor(k)), ws)
      <4>1. [b \in active |-> ExcludeLocked(AllocationAsOf(b, Anchor(k)), locks)]
            = [b \in DOMAIN ws |-> ExcludeLocked(ws[b], locks)]
        BY <3>3
      <4> QED
        BY <4>1 DEF ExpectedPlan, PlanFrom, Managed
    <3> QED
      BY <1>1, <2>4, <3>1, <3>2, <3>3, <3>4 DEF Meant
  <2>6. Divided(k)
    BY <1>1, <2>1 DEF IInv, Kept
  <2>7. Sent(k) \subseteq expected /\ (cycles[k].whole <=> expected = Sent(k))
    BY <2>1, <2>5, <2>6 DEF Divided
  <2>8. AllMatch(expected, actual) <=> expected = Sent(k)
    <3>1. OrdersOf(k) \subseteq Nat
      BY <2>0, Times DEF OrdersOf
    <3>2. \A e, p \in expected : e.sym = p.sym => e = p
      BY <2>5, PlanFromOnce DEF Meant
    <3>3. \A e \in expected : e.amount \in Nat
      BY <2>0, <2>1, <2>5, MeantTyped DEF OrderPlanned
    <3>4. \A i, j \in OrdersOf(k) : orders[i].sym = orders[j].sym => i = j
      BY <2>6 DEF Divided
    <3> QED
      BY <2>3, <2>7, <3>1, <3>2, <3>3, <3>4, MatchFacts
  <2>9. CASE cycles[k].whole
    BY <2>2, <2>3, <2>4, <2>7, <2>8, <2>9 DEF ExecutionVerdict
  <2>10. CASE ~cycles[k].whole
    BY <2>2, <2>3, <2>4, <2>7, <2>8, <2>10 DEF ExecutionVerdict
  <2> QED
    BY <2>9, <2>10
<1>2. IInv => AuditTellsTruth
  BY <1>1 DEF AuditTellsTruth
<1> QED
  BY <1>2, TablesKeepCycles, PTL

\* The audit of the algorithms raises no false alarm but the two that are
\* known: with the bars of the cycle, an active bot is reported to differ only
\* by a row of an earlier cycle, because it stored none in this one, or because
\* it is stateful, entered the cycle with a state and is taken for new.
THEOREM AlarmsAreTrue == AuditSpec => []NoFalseAlarm
<1>1. ASSUME IInv, NEW k \in Traders, bars = cycles[k].bars, NEW b \in active,
             AlgorithmVerdict(b, Anchor(k)) = "mismatch"
      PROVE  /\ AsOf(signals[b], Anchor(k)).ts < cycles[k].at
             /\ b \in cycles[k].answered => b \in Stateful /\ cycles[k].states[b] # 0
  <2>0. AuditTyped /\ RowsPast /\ Replayable /\ b \in Bots
    BY <1>1 DEF IInv, Kept, AuditTyped
  <2>1. k \in DOMAIN cycles
    BY <2>0, TraderFacts
  <2>2. PICK t, rows, at : t = Anchor(k) /\ rows = signals[b] /\ at = cycles[k].at
    OBVIOUS
  <2>3. UpTo(rows, t) = UpTo(rows, at) /\ AsOf(rows, t) = AsOf(rows, at)
    BY <1>1, <2>0, <2>2, TablesAsOf
  <2>4. UpTo(rows, t) # {} /\ ~(b \in Stateful /\ ~IsFirstSignal(b, t))
    BY <1>1, <2>2 DEF AlgorithmVerdict
  <2>5. Answer(b, bars, 0) # AsOf(rows, t).answer
    BY <1>1, <2>2, <2>4 DEF AlgorithmVerdict
  <2>6. Answered(k, b) /\ Entered(k, b)
    BY <2>0, <2>1 DEF Replayable
  <2>7. CASE b \notin cycles[k].answered
    BY <2>2, <2>3, <2>4, <2>6, <2>7 DEF Answered
  <2>8. CASE b \in cycles[k].answered
    <3>1. AsOf(rows, at).answer = Answer(b, bars, cycles[k].states[b])
      BY <1>1, <2>2, <2>6, <2>8 DEF Answered
    <3>2. cycles[k].states[b] # 0
      BY <2>3, <2>5, <3>1
    <3>3. b \in Stateful /\ rows # <<>> /\ rows[1].ts < at
      BY <2>2, <2>6, <3>2 DEF Entered
    <3>4. Cardinality(UpTo(rows, t)) = 1
      BY <2>2, <2>4, <3>3 DEF IsFirstSignal
    <3>5. rows \in Seq(Signal)
      BY <2>0, <2>2 DEF AuditTyped
    <3>6. 1 \in DOMAIN rows /\ rows[1].ts \in Nat
      <4>1. 1 \in DOMAIN rows
        BY <3>3, <3>5
      <4>2. rows[1] \in Signal
        BY <3>5, <4>1
      <4> QED
        BY <4>1, <4>2 DEF Signal
    <3>7. 1 \in UpTo(rows, t)
      <4>1. at \in Nat
        BY <2>0, <2>1, <2>2, Times
      <4>2. 1 \in UpTo(rows, at)
        BY <3>3, <3>6, <4>1 DEF UpTo
      <4> QED
        BY <2>3, <4>2
    <3>8. IsFiniteSet(UpTo(rows, t)) /\ Max(UpTo(rows, t)) \in UpTo(rows, t)
      BY <3>5, <3>7, UpToFacts
    <3>9. \E x : UpTo(rows, t) = {x}
      BY <3>4, <3>8, FS_Singleton
    <3>10. Max(UpTo(rows, t)) = 1
      BY <3>7, <3>8, <3>9
    <3> QED
      BY <2>2, <3>2, <3>3, <3>10 DEF AsOf
  <2> QED
    BY <2>7, <2>8
<1>2. IInv => NoFalseAlarm
  BY <1>1 DEF NoFalseAlarm
<1> QED
  BY <1>2, TablesKeepCycles, PTL

=============================================================================
