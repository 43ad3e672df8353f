------------------------- MODULE TradingCycle_proofs -------------------------
(***************************************************************************)
(* Proofs about TradingCycle, for all symbols, bots, portfolios, weights,  *)
(* targets and bounds.                                                     *)
(***************************************************************************)
EXTENDS TradingCycle, RebalanceLemmas, TLAPS

\* A contribution joins the others.
LEMMA ContributeFacts ==
  ASSUME NEW b \in Bots, NEW w, IsPortfolio(w), DOMAIN w \cap lockSnap = {},
         DOMAIN desired \subseteq Bots,
         \A c \in DOMAIN desired : IsPortfolio(desired[c]) /\ DOMAIN desired[c] \cap lockSnap = {},
         Contribute(b, w)
  PROVE  /\ DOMAIN desired' \subseteq Bots
         /\ \A c \in DOMAIN desired' :
              IsPortfolio(desired'[c]) /\ DOMAIN desired'[c] \cap lockSnap = {}
  BY DEF Contribute

-----------------------------------------------------------------------------
\* The broker's steps keep its books typed.
LEMMA PlaceBuyTyped ==
  ASSUME NEW s \in Symbols, NEW k, TypeOK, PlaceBuy(s, k)
  PROVE  /\ buying' \in [Symbols -> Nat]
         /\ UNCHANGED <<cash, pos, selling>>
  BY DEF PlaceBuy, MayBuy, TypeOK

LEMMA PlaceSellTyped ==
  ASSUME NEW s \in Symbols, NEW k, TypeOK, PlaceSell(s, k)
  PROVE  /\ selling' \in [Symbols -> Nat]
         /\ \A t \in Symbols : selling'[t] <= pos[t]
         /\ UNCHANGED <<cash, pos, buying>>
  BY DEF PlaceSell, MaySell, TypeOK

-----------------------------------------------------------------------------
\* What one cycle knows: nothing is desired or planned before the locks are
\* read, and nothing desired or planned afterwards is a locked symbol.
PlanAvoidsLocks ==
  /\ pc \notin {"bots", "submit", "announce"} => desired = NoSymbols
  /\ pc # "submit" => plan = {}
  /\ \A b \in DOMAIN desired : DOMAIN desired[b] \cap lockSnap = {}
  /\ \A o \in plan : o.sym \notin lockSnap

\* What is recorded has been taken, and a difference has been reported.
Reported ==
  /\ pc \in {"submit", "announce"} \/ (recorded = {} /\ taken = {})
  /\ recorded \subseteq taken
  /\ pc = "submit" => recorded = taken
  /\ pc = "announce" => recorded = taken \/ told.fatal

\* Holdings are left to buy only while reconcile_manual_holdings buys.
NothingLeft == pc # "buying" => left = {}

Inv == TypeOK /\ NothingLeft /\ PlanAvoidsLocks /\ Reported

\* Until a shortfall is ordered, no other order for it is placed.
NothingMoreOpen ==
  pc = "buying" => \A s \in left : pos[s] + buying[s] <= seen[s] + open[s]

LEMMA InitInv == Init => Inv
<1> SUFFICES ASSUME Init PROVE Inv
  OBVIOUS
<1>1. TypeOK
  BY NoSymbolsIsPortfolio, AccountAssumption, BoundsAssumption
  DEF Init, TypeOK, Nothing, Silence
<1>2. NothingLeft /\ PlanAvoidsLocks /\ Reported
  BY NoSymbolsIsPortfolio DEF Init, NothingLeft, PlanAvoidsLocks, Reported
<1>3. QED
  BY <1>1, <1>2 DEF Inv

LEMMA FaultTyped ==
  ASSUME TypeOK, Fault PROVE faults' \in 0..MaxFaults
  BY BoundsAssumption DEF TypeOK, Fault

-----------------------------------------------------------------------------
\* The environment's steps: fills and edits leave the worker's state alone.
LEMMA FillsPreserveInv == Inv /\ Broker => Inv'
<1> SUFFICES ASSUME Inv, NEW s \in Symbols, FillBuy(s) \/ FillSell(s) \/ Lapse(s) PROVE Inv'
  BY DEF Broker
<1> USE DEF Inv, device, reading, reconciling, blending, submitting, counters
<1>1. CASE FillBuy(s)
  <2>1. TypeOK'
    BY <1>1 DEF FillBuy, TypeOK, IsPortfolio
  <2>2. NothingLeft' /\ PlanAvoidsLocks' /\ Reported'
    BY <1>1 DEF FillBuy, NothingLeft, PlanAvoidsLocks, Reported
  <2>3. QED
    BY <2>1, <2>2
<1>2. CASE FillSell(s)
  <2>1. TypeOK'
    BY <1>2 DEF FillSell, TypeOK, IsPortfolio
  <2>2. NothingLeft' /\ PlanAvoidsLocks' /\ Reported'
    BY <1>2 DEF FillSell, NothingLeft, PlanAvoidsLocks, Reported
  <2>3. QED
    BY <2>1, <2>2
<1>3. CASE Lapse(s)
  <2>1. faults' \in 0..MaxFaults
    BY <1>3, FaultTyped DEF Lapse
  <2>2. TypeOK'
    BY <1>3, <2>1 DEF Lapse, TypeOK
  <2>3. NothingLeft' /\ PlanAvoidsLocks' /\ Reported'
    BY <1>3 DEF Lapse, NothingLeft, PlanAvoidsLocks, Reported
  <2>4. QED
    BY <2>2, <2>3
<1>4. QED
  BY <1>1, <1>2, <1>3

LEMMA EditsPreserveInv == Inv /\ OwnerEdits => Inv'
<1> SUFFICES ASSUME Inv, OwnerEdits PROVE Inv'
  OBVIOUS
<1> USE DEF Inv, broker, reading, reconciling, blending, submitting, Edit
<1>1. NothingLeft' /\ PlanAvoidsLocks' /\ Reported'
  BY DEF OwnerEdits, AddHolding, RemoveHolding, SwitchBot, NothingLeft, PlanAvoidsLocks, Reported
<1>2. ASSUME NEW s \in Symbols, NEW k \in LockTargets, AddHolding(s, k) PROVE TypeOK'
  <2>1. IsPortfolio(locks')
    BY <1>2, LockTargetsAssumption DEF AddHolding, TypeOK, IsPortfolio
  <2>2. QED
    BY <1>2, <2>1, BoundsAssumption DEF AddHolding, TypeOK, IsPortfolio
<1>3. ASSUME NEW s \in Symbols, RemoveHolding(s) PROVE TypeOK'
  <2>1. IsPortfolio(locks')
    <3>1. locks' = Restrict(locks, DOMAIN locks \ {s}) /\ IsPortfolio(locks)
      BY <1>3 DEF RemoveHolding, TypeOK
    <3>2. IsPortfolio(Restrict(locks, DOMAIN locks \ {s}))
      BY <3>1, RestrictFacts
    <3>3. QED
      BY <3>1, <3>2 DEF IsPortfolio
  <2>2. QED
    BY <1>3, <2>1, BoundsAssumption DEF RemoveHolding, TypeOK
<1>4. ASSUME NEW b \in Bots, SwitchBot(b) PROVE TypeOK'
  BY <1>4, BoundsAssumption DEF SwitchBot, TypeOK, IsPortfolio
<1>5. QED
  BY <1>1, <1>2, <1>3, <1>4 DEF OwnerEdits

-----------------------------------------------------------------------------
\* Leaving reconcile_manual_holdings, and ending a cycle.
LEMMA ForgetCycleInv ==
  ASSUME Inv, ForgetCycle, UNCHANGED <<device, edits, signals>>,
         buying' \in [Symbols -> Nat], selling' = selling, cash' = cash, pos' = pos,
         told' \in [trades : SUBSET Symbols, fatal : BOOLEAN], faults' \in 0..MaxFaults
  PROVE  Inv'
<1> USE DEF Inv, ForgetCycle, device
<1>1. TypeOK'
  BY NoSymbolsIsPortfolio DEF TypeOK, Nothing, IsPortfolio
<1>2. NothingLeft' /\ PlanAvoidsLocks' /\ Reported'
  BY NoSymbolsIsPortfolio DEF NothingLeft, PlanAvoidsLocks, Reported
<1>3. QED
  BY <1>1, <1>2

LEMMA LeaveReconcileInv ==
  ASSUME Inv, pc \in {"held", "buying"}, LeaveReconcile,
         UNCHANGED <<device, reading, blending, submitting, told, edits, signals>>,
         buying' \in [Symbols -> Nat], selling' = selling, cash' = cash, pos' = pos,
         faults' \in 0..MaxFaults
  PROVE  Inv'
<1> USE DEF Inv, LeaveReconcile, device, reading, blending, submitting
<1>1. TypeOK'
  BY NoSymbolsIsPortfolio DEF TypeOK, Nothing, IsPortfolio
<1>2. NothingLeft' /\ PlanAvoidsLocks' /\ Reported'
  BY DEF NothingLeft, PlanAvoidsLocks, Reported
<1>3. QED
  BY <1>1, <1>2

LEMMA CrashPreservesInv == Inv /\ Crash => Inv'
<1> SUFFICES ASSUME Inv, Crash PROVE Inv'
  OBVIOUS
<1>1. faults' \in 0..MaxFaults
  BY FaultTyped DEF Inv, Crash
<1>2. QED
  BY <1>1, ForgetCycleInv DEF Crash, Inv, TypeOK, broker, device

-----------------------------------------------------------------------------
\* reconcile_manual_holdings.
LEMMA ReconcilePreservesInv == Inv /\ (BeginTick \/ Reconcile) => Inv'
<1> SUFFICES ASSUME Inv, BeginTick \/ Reconcile PROVE Inv'
  OBVIOUS
<1> USE DEF Inv
<1>1. CASE BeginTick
  <2> USE <1>1 DEF BeginTick, device, broker, reading, blending, submitting, counters
  <2>1. TypeOK'
    BY DEF TypeOK, NothingLeft, Silence
  <2>2. NothingLeft' /\ PlanAvoidsLocks' /\ Reported'
    BY DEF NothingLeft, PlanAvoidsLocks, Reported
  <2>3. QED
    BY <2>1, <2>2
<1>2. CASE ReadHeld
  <2>1. CASE Shortfalls = {}
    BY <1>2, <2>1, LeaveReconcileInv
    DEF ReadHeld, TypeOK, broker, counters, reading, blending, submitting
  <2>2. CASE Shortfalls # {}
    <3> USE <1>2, <2>2 DEF ReadHeld, device, broker, reading, blending, submitting, counters
    <3>1. TypeOK'
      BY DEF TypeOK, Shortfalls
    <3>2. NothingLeft' /\ PlanAvoidsLocks' /\ Reported'
      BY DEF NothingLeft, PlanAvoidsLocks, Reported
    <3>3. QED
      BY <3>1, <3>2
  <2>3. QED
    BY <2>1, <2>2
<1>3. CASE ReadHeldFails
  <2>1. faults' \in 0..MaxFaults
    BY <1>3, FaultTyped DEF ReadHeldFails
  <2>2. QED
    BY <1>3, <2>1, LeaveReconcileInv
    DEF ReadHeldFails, TypeOK, broker, reading, blending, submitting
<1>4. ASSUME NEW s \in left, ManualBuy(s) PROVE Inv'
  <2>1. s \in Symbols
    BY DEF TypeOK, IsPortfolio
  <2>2. buying' \in [Symbols -> Nat] /\ UNCHANGED <<cash, pos, selling>>
    BY <1>4, <2>1, PlaceBuyTyped DEF ManualBuy
  <2>3. CASE left = {s}
    BY <1>4, <2>2, <2>3, LeaveReconcileInv
    DEF ManualBuy, TypeOK, counters, reading, blending, submitting
  <2>4. CASE left # {s}
    <3> USE <1>4, <2>2, <2>4 DEF ManualBuy, device, reading, blending, submitting, counters
    <3>1. TypeOK'
      BY DEF TypeOK
    <3>2. NothingLeft' /\ PlanAvoidsLocks' /\ Reported'
      BY DEF NothingLeft, PlanAvoidsLocks, Reported
    <3>3. QED
      BY <3>1, <3>2
  <2>5. QED
    BY <2>3, <2>4
<1>5. ASSUME NEW s \in left, ManualBuyFails(s) PROVE Inv'
  <2>1. faults' \in 0..MaxFaults
    BY <1>5, FaultTyped DEF ManualBuyFails, TypeOK
  <2>2. QED
    BY <1>5, <2>1, LeaveReconcileInv
    DEF ManualBuyFails, TypeOK, broker, reading, blending, submitting
<1>6. ASSUME NEW s \in left, ManualBuyUnanswered(s) PROVE Inv'
  <2>1. s \in Symbols
    BY DEF TypeOK, IsPortfolio
  <2>2. buying' \in [Symbols -> Nat] /\ UNCHANGED <<cash, pos, selling>>
    BY <1>6, <2>1, PlaceBuyTyped DEF ManualBuyUnanswered
  <2>3. faults' \in 0..MaxFaults
    BY <1>6, FaultTyped DEF ManualBuyUnanswered
  <2>4. QED
    BY <1>6, <2>2, <2>3, LeaveReconcileInv
    DEF ManualBuyUnanswered, reading, blending, submitting
<1>7. QED
  BY <1>1, <1>2, <1>3, <1>4, <1>5, <1>6 DEF Reconcile

-----------------------------------------------------------------------------
\* run_cycle, up to the plan.
LEMMA ReadingPreservesInv ==
  Inv /\ (ReadAccountAndLocks \/ ReadPositions \/ ReadFails) => Inv'
<1> SUFFICES ASSUME Inv, ReadAccountAndLocks \/ ReadPositions \/ ReadFails PROVE Inv'
  OBVIOUS
<1> USE DEF Inv
<1>1. CASE ReadAccountAndLocks
  <2> USE <1>1 DEF ReadAccountAndLocks, device, broker, reconciling, blending, submitting,
                   counters
  <2>1. DOMAIN locks \subseteq Symbols
    BY DEF TypeOK, IsPortfolio
  <2>2. TypeOK'
    BY <2>1 DEF TypeOK
  <2>3. NothingLeft' /\ PlanAvoidsLocks' /\ Reported'
    BY NoSymbolsIsPortfolio DEF NothingLeft, PlanAvoidsLocks, Reported
  <2>4. QED
    BY <2>2, <2>3
<1>2. CASE ReadPositions
  <2> USE <1>2 DEF ReadPositions, device, broker, reconciling, submitting, counters
  <2>1. TypeOK'
    BY DEF TypeOK
  <2>2. NothingLeft' /\ PlanAvoidsLocks' /\ Reported'
    BY DEF NothingLeft, PlanAvoidsLocks, Reported
  <2>3. QED
    BY <2>1, <2>2
<1>3. CASE ReadFails
  <2>1. faults' \in 0..MaxFaults
    BY <1>3, FaultTyped DEF ReadFails
  <2>2. told' \in [trades : SUBSET Symbols, fatal : BOOLEAN]
    BY <1>3 DEF ReadFails, TypeOK
  <2>3. QED
    BY <1>3, <2>1, <2>2, ForgetCycleInv DEF ReadFails, TypeOK, broker, device
<1>4. QED
  BY <1>1, <1>2, <1>3

LEMMA LastKnownFacts ==
  ASSUME Inv, NEW b \in todo
  PROVE  /\ b \in Bots
         /\ IsPortfolio(LastKnown(b))
         /\ DOMAIN LastKnown(b) \cap lockSnap = {}
  BY ExcludeLockedFacts DEF Inv, TypeOK, LastKnown

LEMMA BotsPreserveInv ==
  ASSUME Inv, NEW b \in todo,
         BotStands(b) \/ \E w \in Signals[b] : BotRebalances(b, w)
  PROVE  Inv'
<1> USE DEF Inv
<1>1. b \in Bots
  BY LastKnownFacts
<1>2. \A c \in DOMAIN desired : IsPortfolio(desired[c]) /\ DOMAIN desired[c] \cap lockSnap = {}
  BY DEF TypeOK, PlanAvoidsLocks
<1>3. CASE BotStands(b)
  <2>1. /\ DOMAIN desired' \subseteq Bots
        /\ \A c \in DOMAIN desired' :
             IsPortfolio(desired'[c]) /\ DOMAIN desired'[c] \cap lockSnap = {}
    BY <1>1, <1>2, <1>3, LastKnownFacts, ContributeFacts DEF BotStands, TypeOK
  <2> USE <1>3, <2>1 DEF BotStands, device, broker, reconciling, reading, submitting, counters
  <2>2. TypeOK'
    BY DEF TypeOK, Contribute
  <2>3. NothingLeft' /\ PlanAvoidsLocks' /\ Reported'
    BY DEF NothingLeft, PlanAvoidsLocks, Reported
  <2>4. QED
    BY <2>2, <2>3
<1>4. ASSUME NEW w \in Signals[b], BotRebalances(b, w) PROVE Inv'
  <2> DEFINE safe == ExcludeLocked(w, lockSnap)
  <2>1. IsPortfolio(safe) /\ DOMAIN safe \cap lockSnap = {}
    BY <1>1, ExcludeLockedFacts, SignalsAssumption
  <2>2. /\ \/ Contribute(b, LastKnown(b)) /\ alloc' = alloc
           \/ Contribute(b, safe) /\ alloc' = [alloc EXCEPT ![b] = safe]
        /\ pc = "bots" /\ signals < MaxSignals /\ signals' = signals + 1
        /\ UNCHANGED <<locks, active, broker, pc, seen, reconciling, reading,
                       submitting, told, edits, faults>>
    BY <1>4 DEF BotRebalances
  <2> HIDE DEF safe
  <2>3. /\ DOMAIN desired' \subseteq Bots
        /\ \A c \in DOMAIN desired' :
             IsPortfolio(desired'[c]) /\ DOMAIN desired'[c] \cap lockSnap = {}
    BY <1>1, <1>2, <2>1, <2>2, LastKnownFacts, ContributeFacts DEF TypeOK
  <2>4. DOMAIN alloc' = Bots /\ \A c \in Bots : IsPortfolio(alloc'[c])
    BY <1>1, <2>1, <2>2 DEF TypeOK
  <2>5. signals' \in 0..MaxSignals
    BY <2>2, BoundsAssumption DEF TypeOK
  <2> USE <2>2 DEF broker, reconciling, reading, submitting
  <2>6. todo' \subseteq Bots
    BY DEF Contribute, TypeOK
  <2>7. TypeOK'
    BY <2>3, <2>4, <2>5, <2>6 DEF TypeOK
  <2>8. NothingLeft' /\ PlanAvoidsLocks' /\ Reported'
    BY <2>3 DEF NothingLeft, PlanAvoidsLocks, Reported
  <2>9. QED
    BY <2>7, <2>8
<1>5. QED
  BY <1>3, <1>4

-----------------------------------------------------------------------------
\* run_cycle, from the plan on.
LEMMA PlanOrdersPreservesInv == Inv /\ PlanOrders => Inv'
<1> SUFFICES ASSUME Inv, PlanOrders PROVE Inv'
  OBVIOUS
<1> USE DEF Inv
<1>1. ASSUME NEW o \in plan'
      PROVE  o.sym \in Symbols \ lockSnap /\ o.side \in {"buy", "sell"}
  <2> DEFINE current == Restrict(seen, Manageable)
  <2>1. o \in OrderPlan(CombinedTarget(desired, ManageableEquity), current, ManageableEquity)
    BY <1>1 DEF PlanOrders
  <2>2. /\ o.sym \in DOMAIN current \cup UNION {DOMAIN desired[b] : b \in DOMAIN desired}
        /\ o.side \in {"buy", "sell"}
    BY <2>1, PlanOrdersTraded
  <2>3. DOMAIN current \subseteq Symbols \ lockSnap
    BY DEF Restrict, Manageable
  <2>4. \A b \in DOMAIN desired : DOMAIN desired[b] \subseteq Symbols \ lockSnap
    BY DEF TypeOK, IsPortfolio, PlanAvoidsLocks
  <2>5. QED
    BY <2>2, <2>3, <2>4
<1>2. /\ pc = "bots" /\ pc' = "submit"
      /\ UNCHANGED <<device, broker, seen, reconciling, reading, blending, recorded,
                     taken, told, counters>>
  BY DEF PlanOrders
<1> USE <1>2 DEF device, broker, reconciling, reading, blending, counters
<1>3. TypeOK'
  BY <1>1 DEF TypeOK
<1>4. NothingLeft' /\ PlanAvoidsLocks' /\ Reported'
  BY <1>1 DEF NothingLeft, PlanAvoidsLocks, Reported
<1>5. QED
  BY <1>3, <1>4

\* An order goes to the broker under the symbol it names.
LEMMA PlaceTyped ==
  ASSUME TypeOK, NEW o \in plan, Place(o)
  PROVE  /\ o.sym \in Symbols
         /\ UNCHANGED <<cash, pos>>
         /\ buying' \in [Symbols -> Nat] /\ selling' \in [Symbols -> Nat]
         /\ \A t \in Symbols : selling'[t] <= pos[t]
         /\ \A t \in Symbols : t # o.sym => buying'[t] = buying[t] /\ selling'[t] = selling[t]
<1>1. o.sym \in Symbols
  BY DEF TypeOK
<1>2. CASE o.side = "buy"
  <2>1. PlaceBuy(o.sym, o.amount)
    BY <1>2 DEF Place
  <2>2. QED
    BY <1>1, <2>1, PlaceBuyTyped DEF PlaceBuy, TypeOK
<1>3. CASE o.side # "buy"
  <2>1. PlaceSell(o.sym, o.amount)
    BY <1>3 DEF Place
  <2>2. QED
    BY <1>1, <2>1, PlaceSellTyped DEF PlaceSell, TypeOK
<1>4. QED
  BY <1>2, <1>3

LEMMA SubmissionPreservesInv ==
  ASSUME Inv, NEW o \in plan, SubmitOrder(o) \/ SubmitFails(o) \/ SubmitUnanswered(o)
  PROVE  Inv'
<1> USE DEF Inv
<1>1. CASE SubmitOrder(o)
  <2>1. Place(o)
    BY <1>1 DEF SubmitOrder
  <2> USE <1>1, <2>1, PlaceTyped DEF SubmitOrder, Taken, device, reconciling, reading,
                                     blending, counters
  <2>2. TypeOK'
    BY DEF TypeOK
  <2>3. NothingLeft' /\ PlanAvoidsLocks' /\ Reported'
    BY DEF NothingLeft, PlanAvoidsLocks, Reported
  <2>4. QED
    BY <2>2, <2>3
<1>2. CASE SubmitFails(o)
  <2>1. faults' \in 0..MaxFaults
    BY <1>2, FaultTyped DEF SubmitFails, TypeOK
  <2> USE <1>2, <2>1 DEF SubmitFails, AbandonPlan, device, broker, reconciling, reading,
                         blending
  <2>2. TypeOK'
    BY DEF TypeOK
  <2>3. NothingLeft' /\ PlanAvoidsLocks' /\ Reported'
    BY DEF NothingLeft, PlanAvoidsLocks, Reported, TypeOK
  <2>4. QED
    BY <2>2, <2>3
<1>3. CASE SubmitUnanswered(o)
  <2>1. faults' \in 0..MaxFaults /\ Place(o)
    BY <1>3, FaultTyped DEF SubmitUnanswered
  <2>2. TypeOK'
    <3>1. /\ o.sym \in Symbols /\ UNCHANGED <<cash, pos>>
          /\ buying' \in [Symbols -> Nat] /\ selling' \in [Symbols -> Nat]
          /\ \A t \in Symbols : selling'[t] <= pos[t]
      BY <2>1, PlaceTyped
    <3>2. UNCHANGED <<locks, active, alloc, seen, list, left, open, account, lockSnap, todo, desired, recorded, edits, signals>>
      BY <1>3 DEF SubmitUnanswered, device, reconciling, reading, blending
    <3>3. /\ pc' = "announce" /\ plan' = {} /\ taken' = taken \cup {o.sym}
          /\ told' = [told EXCEPT !.fatal = TRUE]
      BY <1>3 DEF SubmitUnanswered, AbandonPlan
    <3>4. told' \in [trades : SUBSET Symbols, fatal : BOOLEAN] /\ taken' \subseteq Symbols
      BY <3>1, <3>3 DEF TypeOK
    <3> QED
      BY <2>1, <3>1, <3>2, <3>3, <3>4 DEF TypeOK
  <2> USE <1>3, <2>1, PlaceTyped DEF SubmitUnanswered, AbandonPlan, device, reconciling,
                                     reading, blending
  <2>3. NothingLeft' /\ PlanAvoidsLocks' /\ Reported'
    BY DEF NothingLeft, PlanAvoidsLocks, Reported, TypeOK
  <2>4. QED
    BY <2>2, <2>3
<1>4. QED
  BY <1>1, <1>2, <1>3

LEMMA EndingPreservesInv == Inv /\ (PlanSubmitted \/ Announce) => Inv'
<1> SUFFICES ASSUME Inv, PlanSubmitted \/ Announce PROVE Inv'
  OBVIOUS
<1> USE DEF Inv
<1>1. CASE PlanSubmitted
  <2> USE <1>1 DEF PlanSubmitted, device, broker, reconciling, reading, blending,
                   submitting, counters
  <2>1. TypeOK'
    BY DEF TypeOK
  <2>2. NothingLeft' /\ PlanAvoidsLocks' /\ Reported'
    BY DEF NothingLeft, PlanAvoidsLocks, Reported
  <2>3. QED
    BY <2>1, <2>2
<1>2. CASE Announce
  <2>1. told' \in [trades : SUBSET Symbols, fatal : BOOLEAN]
    BY <1>2 DEF Announce, TypeOK
  <2>2. QED
    BY <1>2, <2>1, ForgetCycleInv DEF Announce, TypeOK, broker, device, counters
<1>3. QED
  BY <1>1, <1>2

LEMMA NextPreservesInv == Inv /\ [Next]_vars => Inv'
<1> SUFFICES ASSUME Inv, [Next]_vars PROVE Inv'
  OBVIOUS
<1>1. CASE UNCHANGED vars
  BY <1>1 DEF vars, device, broker, reconciling, reading, blending, submitting, counters,
              Inv, TypeOK, NothingLeft, PlanAvoidsLocks, Reported
<1>2. CASE BeginTick \/ Reconcile
  BY <1>2, ReconcilePreservesInv
<1>3. CASE RunCycle
  BY <1>3, ReadingPreservesInv, BotsPreserveInv, PlanOrdersPreservesInv,
     SubmissionPreservesInv, EndingPreservesInv DEF RunCycle
<1>4. CASE Crash
  BY <1>4, CrashPreservesInv
<1>5. CASE Broker
  BY <1>5, FillsPreserveInv
<1>6. CASE OwnerEdits
  BY <1>6, EditsPreserveInv
<1>7. QED
  BY <1>1, <1>2, <1>3, <1>4, <1>5, <1>6 DEF Next, Worker

LEMMA Invariance == Spec => []Inv
<1>1. Init => Inv
  BY InitInv
<1>2. Inv /\ [Next]_vars => Inv'
  BY NextPreservesInv
<1>3. QED
  BY <1>1, <1>2, PTL DEF Spec

\* Every reachable state is well typed; in particular the broker never holds
\* an order to sell more than is held.
THEOREM TypeCorrect == Spec => []TypeOK
<1>1. Inv => TypeOK
  BY DEF Inv
<1>2. QED
  BY <1>1, Invariance, PTL

-----------------------------------------------------------------------------
\* Only these steps order anything.
Orders ==
  \/ \E s \in left : ManualBuy(s) \/ ManualBuyUnanswered(s)
  \/ \E o \in plan : SubmitOrder(o) \/ SubmitUnanswered(o)

LEMMA OtherStepsOrderNothing ==
  ASSUME Inv, [Next]_vars, ~Orders, NEW s \in Symbols
  PROVE  buying'[s] <= buying[s] /\ selling'[s] <= selling[s]
<1>1. buying \in [Symbols -> Nat] /\ selling \in [Symbols -> Nat]
  BY DEF Inv, TypeOK
<1>2. CASE Broker
  <2>1. PICK t \in Symbols : FillBuy(t) \/ FillSell(t) \/ Lapse(t)
    BY <1>2 DEF Broker
  <2>2. QED
    BY <1>1, <2>1 DEF FillBuy, FillSell, Lapse
<1>3. CASE UNCHANGED <<buying, selling>>
  BY <1>1, <1>3
<1>4. Broker \/ UNCHANGED <<buying, selling>>
  <2>1. CASE UNCHANGED vars \/ OwnerEdits \/ Crash
    BY <2>1 DEF vars, OwnerEdits, AddHolding, RemoveHolding, SwitchBot, Crash, broker
  <2>2. CASE BeginTick \/ ReadHeld \/ ReadHeldFails \/ \E t \in left : ManualBuyFails(t)
    BY <2>2 DEF BeginTick, ReadHeld, ReadHeldFails, ManualBuyFails, broker
  <2>3. CASE \/ ReadAccountAndLocks \/ ReadPositions \/ ReadFails \/ PlanOrders
             \/ \E b \in todo : BotStands(b) \/ \E w \in Signals[b] : BotRebalances(b, w)
    BY <2>3 DEF ReadAccountAndLocks, ReadPositions, ReadFails, PlanOrders, BotStands,
                BotRebalances, broker
  <2>4. CASE (\E o \in plan : SubmitFails(o)) \/ PlanSubmitted \/ Announce
    BY <2>4 DEF SubmitFails, PlanSubmitted, Announce, broker
  <2>5. QED
    BY <2>1, <2>2, <2>3, <2>4 DEF Next, Worker, Reconcile, RunCycle, Orders
<1>5. QED
  BY <1>2, <1>3, <1>4

\* What a plan's order or a manual purchase does to the broker's books.
LEMMA PlacedOrder ==
  ASSUME Inv, NEW o \in plan, SubmitOrder(o) \/ SubmitUnanswered(o), NEW s \in Symbols
  PROVE  /\ pc = "submit"
         /\ buying'[s] # buying[s] \/ selling'[s] # selling[s] => s \notin lockSnap
<1>1. Place(o) /\ pc = "submit"
  BY DEF SubmitOrder, SubmitUnanswered
<1>2. o.sym \notin lockSnap
  BY DEF Inv, PlanAvoidsLocks
<1>3. QED
  BY <1>1, <1>2, PlaceTyped DEF Inv

LEMMA PlacedManualBuy ==
  ASSUME Inv, NEW t \in left, ManualBuy(t) \/ ManualBuyUnanswered(t), NEW s \in Symbols
  PROVE  /\ pc = "buying" /\ t \in DOMAIN list /\ t \in Symbols
         /\ buying' = [buying EXCEPT ![t] = @ + Lacking(t)]
         /\ selling' = selling
  BY DEF Inv, TypeOK, IsPortfolio, ManualBuy, ManualBuyUnanswered, PlaceBuy

LEMMA StepsAvoidLocks == Inv /\ [Next]_vars => OrdersAvoidLocks
<1> SUFFICES ASSUME Inv, [Next]_vars PROVE OrdersAvoidLocks
  OBVIOUS
<1>0. buying \in [Symbols -> Nat] /\ selling \in [Symbols -> Nat]
  BY DEF Inv, TypeOK
<1>1. CASE \E t \in left : ManualBuy(t) \/ ManualBuyUnanswered(t)
  <2>1. PICK t \in left : ManualBuy(t) \/ ManualBuyUnanswered(t)
    BY <1>1
  <2>2. ASSUME NEW s \in Symbols
        PROVE  /\ ~(selling'[s] > selling[s])
               /\ buying'[s] > buying[s] => pc = "buying" /\ s \in DOMAIN list
    BY <1>0, <2>1, PlacedManualBuy
  <2>3. QED
    BY <2>2 DEF OrdersAvoidLocks
<1>2. CASE \E o \in plan : SubmitOrder(o) \/ SubmitUnanswered(o)
  <2>1. PICK o \in plan : SubmitOrder(o) \/ SubmitUnanswered(o)
    BY <1>2
  <2>2. ASSUME NEW s \in Symbols
        PROVE  selling'[s] > selling[s] \/ buying'[s] > buying[s] =>
                 pc = "submit" /\ s \notin lockSnap
    <3>1. pc = "submit" /\ (buying'[s] # buying[s] \/ selling'[s] # selling[s] => s \notin lockSnap)
      BY <2>1, PlacedOrder
    <3>2. /\ selling'[s] > selling[s] => selling'[s] # selling[s]
          /\ buying'[s] > buying[s] => buying'[s] # buying[s]
      BY <1>0
    <3>3. QED
      BY <3>1, <3>2
  <2>3. QED
    BY <2>2 DEF OrdersAvoidLocks
<1>3. CASE ~Orders
  <2>1. ASSUME NEW s \in Symbols
        PROVE  ~(selling'[s] > selling[s]) /\ ~(buying'[s] > buying[s])
    <3>1. buying'[s] <= buying[s] /\ selling'[s] <= selling[s]
      BY <1>3, OtherStepsOrderNothing
    <3>2. buying'[s] \in Nat /\ selling'[s] \in Nat
      BY NextPreservesInv DEF Inv, TypeOK
    <3>3. QED
      BY <1>0, <3>1, <3>2
  <2>2. QED
    BY <2>1 DEF OrdersAvoidLocks
<1>4. QED
  BY <1>1, <1>2, <1>3 DEF Orders

\* run_cycle leaves the symbols it read as locked alone.
THEOREM LocksHonoured == Spec => LockedUntouched
<1>1. Inv /\ [Next]_vars => OrdersAvoidLocks
  BY StepsAvoidLocks
<1>2. QED
  BY <1>1, Invariance, PTL DEF Spec, LockedUntouched

-----------------------------------------------------------------------------
\* Fills move an open purchase into the positions and sells only lower them.
LEMMA ShortfallsStayCurrent ==
  Inv /\ NothingMoreOpen /\ [Next]_vars => NothingMoreOpen'
<1> SUFFICES ASSUME Inv, NothingMoreOpen, [Next]_vars PROVE NothingMoreOpen'
  OBVIOUS
<1> USE DEF Inv, NothingMoreOpen
<1>1. CASE UNCHANGED vars \/ OwnerEdits
  BY <1>1 DEF vars, OwnerEdits, AddHolding, RemoveHolding, SwitchBot, broker, reconciling
<1>2. CASE Broker
  <2>1. PICK t \in Symbols : FillBuy(t) \/ FillSell(t) \/ Lapse(t)
    BY <1>2 DEF Broker
  <2>2. /\ pos \in [Symbols -> Nat] /\ buying \in [Symbols -> Nat]
        /\ selling \in [Symbols -> Nat]
        /\ left \subseteq Symbols /\ seen \in [Symbols -> Nat] /\ open \in [Symbols -> Nat]
    BY DEF TypeOK, IsPortfolio
  <2>3. CASE FillBuy(t)
    <3>1. \A s \in Symbols : pos'[s] + buying'[s] = pos[s] + buying[s]
      BY <2>2, <2>3 DEF FillBuy
    <3>2. UNCHANGED <<pc, left, seen, open>>
      BY <2>3 DEF FillBuy, reconciling
    <3>3. QED
      BY <2>2, <3>1, <3>2
  <2>4. CASE FillSell(t)
    <3>1. selling[t] <= pos[t]
      BY DEF TypeOK
    <3>2. \A s \in Symbols : pos'[s] \in Nat /\ pos'[s] <= pos[s]
      BY <2>2, <2>4, <3>1 DEF FillSell
    <3>3. UNCHANGED <<pc, left, seen, open, buying>>
      BY <2>4 DEF FillSell, reconciling
    <3>4. QED
      BY <2>2, <3>2, <3>3
  <2>5. CASE Lapse(t)
    BY <2>5 DEF Lapse
  <2>6. QED
    BY <2>1, <2>3, <2>4, <2>5
<1>3. CASE BeginTick
  BY <1>3 DEF BeginTick
<1>4. CASE ReadHeld
  BY <1>4 DEF ReadHeld, LeaveReconcile, Shortfalls, broker, TypeOK, IsPortfolio
<1>5. CASE ReadHeldFails \/ \E s \in left : ManualBuyFails(s)
  BY <1>5 DEF ReadHeldFails, ManualBuyFails, LeaveReconcile
<1>6. CASE \E s \in left : ManualBuy(s) \/ ManualBuyUnanswered(s)
  <2>1. PICK t \in left : ManualBuy(t) \/ ManualBuyUnanswered(t)
    BY <1>6
  <2>2. CASE pc' = "account"
    BY <2>2
  <2>3. CASE pc' # "account"
    <3>1. /\ pc = "buying" /\ left' = left \ {t} /\ UNCHANGED <<seen, open, pos>>
          /\ buying' = [buying EXCEPT ![t] = @ + Lacking(t)]
      BY <2>1, <2>3 DEF ManualBuy, ManualBuyUnanswered, LeaveReconcile, PlaceBuy
    <3>2. \A s \in left' : buying'[s] = buying[s]
      BY <3>1 DEF TypeOK, IsPortfolio
    <3>3. QED
      BY <3>1, <3>2
  <2>4. QED
    BY <2>2, <2>3
<1>7. CASE Crash \/ RunCycle
  BY <1>7 DEF Crash, RunCycle, ReadAccountAndLocks, ReadPositions, ReadFails, BotStands,
     BotRebalances, PlanOrders, SubmitOrder, SubmitFails, SubmitUnanswered, AbandonPlan,
     PlanSubmitted, Announce, ForgetCycle
<1>8. QED
  BY <1>1, <1>2, <1>3, <1>4, <1>5, <1>6, <1>7 DEF Next, Worker, Reconcile

LEMMA BuysFillTheGap ==
  Inv /\ NothingMoreOpen /\ [Next]_vars => BuysUpToTarget
<1> SUFFICES ASSUME Inv, NothingMoreOpen, [Next]_vars, NEW s \in Symbols,
                    pc = "buying", buying'[s] > buying[s]
             PROVE  pos[s] + buying'[s] <= list[s] + open[s]
  BY DEF BuysUpToTarget
<1>1. pos[s] \in Nat /\ seen[s] \in Nat /\ buying[s] \in Nat /\ open[s] \in Nat
  BY DEF Inv, TypeOK
<1>2. PICK t \in left : ManualBuy(t) \/ ManualBuyUnanswered(t)
  <2>1. Orders
    <3>1. SUFFICES ASSUME ~Orders PROVE FALSE
      OBVIOUS
    <3>2. buying'[s] <= buying[s] /\ buying'[s] \in Nat
      BY <3>1, OtherStepsOrderNothing, NextPreservesInv DEF Inv, TypeOK
    <3>3. QED
      BY <1>1, <3>2
  <2>2. QED
    BY <2>1 DEF Orders, SubmitOrder, SubmitUnanswered
<1>3. /\ t \in Symbols /\ t \in DOMAIN list
      /\ buying' = [buying EXCEPT ![t] = @ + Lacking(t)]
  BY <1>2, PlacedManualBuy
<1>4. s = t
  BY <1>1, <1>3 DEF Inv, TypeOK
<1>5. pos[s] + buying[s] <= seen[s] + open[s] /\ list[s] \in Nat
  BY <1>2, <1>3, <1>4 DEF NothingMoreOpen, Inv, TypeOK, IsPortfolio
<1>6. buying'[s] = buying[s] + (list[s] - seen[s])
  BY <1>1, <1>3, <1>4, <1>5 DEF Lacking, Inv, TypeOK
<1>7. QED
  BY <1>1, <1>5, <1>6

\* Whatever calls fail, whenever the worker dies and however long orders stay
\* open, a locked holding is bought beyond its target by at most what was
\* already on order when the tick read the positions; a tick that finds
\* nothing on order never buys beyond it.
THEOREM NoOverbuying == Spec => ManualBuysStopAtTarget
<1>1. Init => NothingMoreOpen
  BY DEF Init, NothingMoreOpen
<1>2. Inv /\ NothingMoreOpen /\ [Next]_vars => NothingMoreOpen'
  BY ShortfallsStayCurrent
<1>3. Inv /\ NothingMoreOpen /\ [Next]_vars => BuysUpToTarget
  BY BuysFillTheGap
<1>4. QED
  BY <1>1, <1>2, <1>3, Invariance, PTL DEF Spec, ManualBuysStopAtTarget

-----------------------------------------------------------------------------
\* A cycle's events account for every order the broker took.
LEMMA EndTells == Inv /\ [Next]_vars => TellsAtTheEnd
<1> SUFFICES ASSUME Inv, [Next]_vars, pc = "announce", pc' = "idle", faults' = faults
             PROVE  told'.trades \subseteq taken /\ (told'.trades = taken \/ told'.fatal)
  BY DEF TellsAtTheEnd
<1>1. Announce
  <2>1. ~Crash
    BY DEF Crash, Fault, Inv, TypeOK
  <2>2. ~Broker /\ ~OwnerEdits
    BY DEF Broker, FillBuy, FillSell, Lapse, OwnerEdits, AddHolding, RemoveHolding, SwitchBot
  <2>3. ~BeginTick /\ ~Reconcile
    BY DEF BeginTick, Reconcile, ReadHeld, ReadHeldFails, ManualBuy, ManualBuyFails,
           ManualBuyUnanswered
  <2>4. RunCycle
    BY <2>1, <2>2, <2>3 DEF Next, Worker, vars
  <2>5. QED
    BY <2>4 DEF RunCycle, ReadAccountAndLocks, ReadPositions, ReadFails, BotStands,
       BotRebalances, PlanOrders, SubmitOrder, SubmitFails, SubmitUnanswered, PlanSubmitted
<1>2. told' = [told EXCEPT !.trades = recorded]
  BY <1>1 DEF Announce
<1>3. told'.trades = recorded /\ told'.fatal = told.fatal
  BY <1>2 DEF Inv, TypeOK
<1>4. recorded \subseteq taken /\ (recorded = taken \/ told.fatal)
  BY DEF Inv, Reported
<1>5. QED
  BY <1>3, <1>4

\* No order is submitted without TRADE_EXECUTED naming it or FATAL_ERROR
\* being published, unless the process dies.
THEOREM EndsTold == Spec => NothingUntold
<1>1. Inv /\ [Next]_vars => TellsAtTheEnd
  BY EndTells
<1>2. QED
  BY <1>1, Invariance, PTL DEF Spec, NothingUntold

-----------------------------------------------------------------------------
\* A plan buys more than it sells by no more than the targets exceed the
\* positions, but for the gaps it leaves open.
LEMMA PlanBalances ==
  ASSUME NEW t, Dollars(t), NEW c, Dollars(c), NEW e \in Nat \ {0}
  PROVE  /\ SideTotal(OrderPlan(t, c, e), "buy") + SumFunctionOnSet(Entries(c), Symbols)
              <= SideTotal(OrderPlan(t, c, e), "sell") + SumFunctionOnSet(Entries(t), Symbols)
                 + Dust
         /\ SideTotal(OrderPlan(t, c, e), "buy") \in Nat
         /\ SideTotal(OrderPlan(t, c, e), "sell") \in Nat
         /\ Dust \in Nat
<1> DEFINE b == Amounts(t, c, "buy")
           l == Amounts(t, c, "sell")
           C == Entries(c)
           T == Entries(t)
           one == [s \in Symbols |-> 1]
           u == [s \in Symbols |-> b[s] + C[s]]
           v == [s \in Symbols |-> l[s] + T[s]]
           w == [s \in Symbols |-> (MinTrade - 1) * one[s]]
           x == [s \in Symbols |-> v[s] + w[s]]
<1>1. \A s \in Symbols : b[s] \in Nat /\ l[s] \in Nat
  BY SideTotalOfPlan
<1>2. \A s \in Symbols : C[s] \in Nat /\ T[s] \in Nat
  BY OrderFacts DEF Entries
<1>3. \A s \in Symbols : b[s] + C[s] <= l[s] + T[s] + (MinTrade - 1)
  <2> SUFFICES ASSUME NEW s \in Symbols PROVE b[s] + C[s] <= l[s] + T[s] + (MinTrade - 1)
    OBVIOUS
  <2>1. C[s] = At(c, s) /\ T[s] = At(t, s)
    BY DEF Entries
  <2>2. /\ At(t, s) \in Nat /\ At(c, s) \in Nat /\ Gap(t, c, s) = At(t, s) - At(c, s)
        /\ Gap(t, c, s) < 0 => /\ Order(t, c, s).side = "sell"
                               /\ Order(t, c, s).amount = At(c, s) - At(t, s)
        /\ ~(Gap(t, c, s) < 0) => /\ Order(t, c, s).side = "buy"
                                  /\ Order(t, c, s).amount = At(t, s) - At(c, s)
        /\ Order(t, c, s).amount = Abs(Gap(t, c, s))
    BY OrderFacts
  <2>3. b[s] = IF s \in Ordered(t, c) /\ Order(t, c, s).side = "buy"
                 THEN Order(t, c, s).amount ELSE 0
    BY Zenon DEF Amounts
  <2>4. l[s] = IF s \in Ordered(t, c) /\ Order(t, c, s).side = "sell"
                 THEN Order(t, c, s).amount ELSE 0
    BY Zenon DEF Amounts
  <2>5. MinTrade \in Nat \ {0}
    BY MinTradeAssumption
  <2>6. s \notin Ordered(t, c) => Gap(t, c, s) >= -(MinTrade - 1)
    <3>1. CASE s \in Traded(t, c)
      BY <2>2, <2>5, <3>1 DEF Ordered, Abs
    <3>2. CASE s \notin Traded(t, c)
      BY <2>2, <2>5, <3>2 DEF Traded, At
    <3> QED
      BY <3>1, <3>2
  <2> HIDE DEF b, l, C, T
  <2>7. CASE s \notin Ordered(t, c)
    BY <2>1, <2>2, <2>3, <2>4, <2>5, <2>6, <2>7
  <2>8. CASE s \in Ordered(t, c) /\ Gap(t, c, s) < 0
    BY <2>1, <2>2, <2>3, <2>4, <2>5, <2>8
  <2>9. CASE s \in Ordered(t, c) /\ ~(Gap(t, c, s) < 0)
    BY <2>1, <2>2, <2>3, <2>4, <2>5, <2>9
  <2> QED
    BY <2>7, <2>8, <2>9
<1>4. IsFiniteSet(Symbols) /\ MinTrade - 1 \in Nat
  BY FiniteAssumption, MinTradeAssumption
<1> HIDE DEF b, l, C, T
<1>5. SumFunctionOnSet(u, Symbols) = SumFunctionOnSet(b, Symbols) + SumFunctionOnSet(C, Symbols)
  <2>1. \A s \in Symbols : b[s] \in Int /\ C[s] \in Int /\ u[s] = b[s] + C[s]
    BY <1>1, <1>2
  <2> HIDE DEF u
  <2> QED
    BY <1>4, <2>1, SumPlus
<1>6. SumFunctionOnSet(v, Symbols) = SumFunctionOnSet(l, Symbols) + SumFunctionOnSet(T, Symbols)
  <2>1. \A s \in Symbols : l[s] \in Int /\ T[s] \in Int /\ v[s] = l[s] + T[s]
    BY <1>1, <1>2
  <2> HIDE DEF v
  <2> QED
    BY <1>4, <2>1, SumPlus
<1>7. /\ SumFunctionOnSet(w, Symbols) = (MinTrade - 1) * SumFunctionOnSet(one, Symbols)
      /\ SumFunctionOnSet(one, Symbols) \in Nat
  <2>1. \A s \in Symbols : /\ one[s] \in Nat /\ one[s] \in Int
                           /\ w[s] = (MinTrade - 1) * one[s]
    OBVIOUS
  <2>2. MinTrade - 1 \in Int
    BY <1>4
  <2> HIDE DEF w, one
  <2> QED
    BY <1>4, <2>1, <2>2, SumTimes, SumNat
<1>8. SumFunctionOnSet(x, Symbols) = SumFunctionOnSet(v, Symbols) + SumFunctionOnSet(w, Symbols)
  <2>1. \A s \in Symbols : v[s] \in Int /\ w[s] \in Int /\ x[s] = v[s] + w[s]
    BY <1>1, <1>2, <1>4
  <2> HIDE DEF x, v, w
  <2> QED
    BY <1>4, <2>1, SumPlus
<1>9. SumFunctionOnSet(u, Symbols) <= SumFunctionOnSet(x, Symbols)
  <2>1. \A s \in Symbols : u[s] \in Int /\ x[s] \in Int /\ u[s] <= x[s]
    BY <1>1, <1>2, <1>3, <1>4
  <2> HIDE DEF u, x
  <2> QED
    BY <1>4, <2>1, SumAtMost
<1>10. /\ SumFunctionOnSet(b, Symbols) \in Nat /\ SumFunctionOnSet(l, Symbols) \in Nat
       /\ SumFunctionOnSet(C, Symbols) \in Nat /\ SumFunctionOnSet(T, Symbols) \in Nat
  BY <1>1, <1>2, <1>4, SumNat
<1>11. /\ SideTotal(OrderPlan(t, c, e), "buy") = SumFunctionOnSet(b, Symbols)
       /\ SideTotal(OrderPlan(t, c, e), "sell") = SumFunctionOnSet(l, Symbols)
  BY SideTotalOfPlan DEF b, l
<1>12. Dust = SumFunctionOnSet(w, Symbols) /\ Dust \in Nat
  <2>1. Dust = (MinTrade - 1) * SumFunctionOnSet(one, Symbols)
    BY DEF Dust, SumFunction
  <2> HIDE DEF one, w
  <2> QED
    BY <1>4, <1>7, <2>1, ProductNat
<1> HIDE DEF u, v, w, x
<1> QED
  BY <1>5, <1>6, <1>8, <1>9, <1>10, <1>11, <1>12 DEF C, T

-----------------------------------------------------------------------------
\* The plan run_cycle computes.
LEMMA ManageableFacts ==
  ASSUME TypeOK, account \in Int
  PROVE  /\ Desires(desired)
         /\ ManageableEquity \in Nat
         /\ Dollars(Restrict(seen, Manageable))
         /\ DOMAIN Restrict(seen, Manageable) = Manageable
         /\ \A s \in Manageable : Restrict(seen, Manageable)[s] = seen[s]
         /\ Dollars(CombinedTarget(desired, ManageableEquity))
         /\ SumFunction(Restrict(seen, lockSnap)) \in Nat
<1>1. Desires(desired)
  BY DEF TypeOK, Desires
<1>2. SumFunction(Restrict(seen, lockSnap)) \in Nat
  <2> DEFINE r == Restrict(seen, lockSnap)
  <2>1. DOMAIN r = lockSnap /\ IsFiniteSet(lockSnap) /\ \A s \in lockSnap : r[s] \in Nat
    BY FiniteAssumption, FS_Subset DEF TypeOK, Restrict
  <2> HIDE DEF r
  <2>2. SumFunctionOnSet(r, lockSnap) \in Nat
    BY <2>1, SumNat
  <2> QED
    BY <2>1, <2>2 DEF SumFunction, r
<1>3. ManageableEquity \in Nat
  BY <1>2 DEF ManageableEquity
<1>4. /\ Dollars(Restrict(seen, Manageable))
      /\ DOMAIN Restrict(seen, Manageable) = Manageable
      /\ \A s \in Manageable : Restrict(seen, Manageable)[s] = seen[s]
  BY DEF TypeOK, Restrict, Dollars, Manageable
<1>5. Dollars(CombinedTarget(desired, ManageableEquity))
  <2>1. UNION {DOMAIN desired[b] : b \in DOMAIN desired} \subseteq Symbols
    BY <1>1 DEF Desires, IsPortfolio
  <2>2. \A s \in Symbols : TargetDollars(desired, ManageableEquity, s) \in Nat
    BY <1>1, <1>3, TargetIsSpread
  <2> QED
    BY <2>1, <2>2 DEF CombinedTarget, Dollars
<1> QED
  BY <1>1, <1>2, <1>3, <1>4, <1>5

\* A plan is finite, its amounts are whole, and it orders a symbol once.
PlanSized ==
  /\ IsFiniteSet(plan) /\ \A o \in plan : o.amount \in Nat
  /\ \A o, p \in plan : o.sym = p.sym => o = p

\* What the broker would hold in cash if every order were filled.
Funds == cash - SumFunction(buying) + SumFunction(selling)

\* The equity run_cycle read is the account's until the positions are read.
\* From then on what it read is covered by the funds, but for the purchases
\* it did not see among the positions.
BooksRead ==
  /\ account \in Int /\ unseen \in Nat
  /\ pc = "positions" => account = Equity
  /\ pc = "bots" => account - SumFunction(seen) <= Funds + unseen

Sized == Inv /\ PlanSized /\ BooksRead

LEMMA BooksTyped ==
  ASSUME TypeOK
  PROVE  /\ SumFunction(pos) \in Nat /\ SumFunction(seen) \in Nat
         /\ SumFunction(buying) \in Nat /\ SumFunction(selling) \in Nat
         /\ Funds \in Int /\ Equity \in Int /\ cash \in Int
<1>1. \A f \in [Symbols -> Nat] : SumFunction(f) \in Nat
  <2> SUFFICES ASSUME NEW f \in [Symbols -> Nat] PROVE SumFunction(f) \in Nat
    OBVIOUS
  <2>1. DOMAIN f = Symbols /\ \A s \in Symbols : f[s] \in Nat
    OBVIOUS
  <2> QED
    BY <2>1, FiniteAssumption, SumNat DEF SumFunction
<1> QED
  BY <1>1 DEF TypeOK, Funds, Equity

LEMMA SumFunctionExcept ==
  ASSUME NEW f \in [Symbols -> Nat], NEW s \in Symbols, NEW h \in [Symbols -> Nat],
         \A t \in Symbols \ {s} : h[t] = f[t]
  PROVE  SumFunction(h) = SumFunction(f) - f[s] + h[s]
<1>1. /\ DOMAIN h = Symbols /\ DOMAIN f = Symbols
      /\ \A t \in Symbols : f[t] \in Int /\ h[t] \in Int
      /\ \A t \in Symbols \ {s} : h[t] = f[t]
  OBVIOUS
<1>2. SumFunctionOnSet(h, Symbols) = SumFunctionOnSet(f, Symbols) - f[s] + h[s]
  BY ONLY <1>1, s \in Symbols, FiniteAssumption, SumExcept
<1> QED
  BY <1>1, <1>2 DEF SumFunction

\* A fill moves value between the parts of the account.
LEMMA FillsKeepBooks ==
  ASSUME TypeOK, NEW s \in Symbols, FillBuy(s) \/ FillSell(s)
  PROVE  Funds' = Funds /\ Equity' = Equity
<1>0. /\ pos \in [Symbols -> Nat] /\ buying \in [Symbols -> Nat]
      /\ selling \in [Symbols -> Nat] /\ selling[s] <= pos[s]
  BY DEF TypeOK
<1>1. CASE FillBuy(s)
  <2>1. /\ pos' \in [Symbols -> Nat] /\ buying' \in [Symbols -> Nat]
        /\ \A t \in Symbols \ {s} : pos'[t] = pos[t] /\ buying'[t] = buying[t]
        /\ pos'[s] = pos[s] + buying[s] /\ buying'[s] = 0
        /\ cash' = cash - buying[s] /\ selling' = selling
    BY <1>0, <1>1 DEF FillBuy
  <2>2. /\ SumFunction(pos') = SumFunction(pos) - pos[s] + pos'[s]
        /\ SumFunction(buying') = SumFunction(buying) - buying[s] + buying'[s]
    BY <1>0, <2>1, SumFunctionExcept
  <2>3. pos[s] \in Nat /\ buying[s] \in Nat
    BY <1>0
  <2> QED
    BY <2>1, <2>2, <2>3, BooksTyped DEF Funds, Equity
<1>2. CASE FillSell(s)
  <2>1. /\ pos' \in [Symbols -> Nat] /\ selling' \in [Symbols -> Nat]
        /\ \A t \in Symbols \ {s} : pos'[t] = pos[t] /\ selling'[t] = selling[t]
        /\ pos'[s] = pos[s] - selling[s] /\ selling'[s] = 0
        /\ cash' = cash + selling[s] /\ buying' = buying
    BY <1>0, <1>2 DEF FillSell
  <2>2. /\ SumFunction(pos') = SumFunction(pos) - pos[s] + pos'[s]
        /\ SumFunction(selling') = SumFunction(selling) - selling[s] + selling'[s]
    BY <1>0, <2>1, SumFunctionExcept
  <2>3. pos[s] \in Nat /\ selling[s] \in Nat
    BY <1>0
  <2> QED
    BY <2>1, <2>2, <2>3, BooksTyped DEF Funds, Equity
<1> QED
  BY <1>1, <1>2

\* An order moves the funds by its amount.
LEMMA OrdersMoveFunds ==
  ASSUME TypeOK, NEW s \in Symbols, NEW k
  PROVE  /\ PlaceBuy(s, k) => k \in Nat /\ Funds' = Funds - k
         /\ PlaceSell(s, k) => k \in Nat /\ Funds' = Funds + k
<1>0. buying \in [Symbols -> Nat] /\ selling \in [Symbols -> Nat]
  BY DEF TypeOK
<1>1. ASSUME PlaceBuy(s, k) PROVE k \in Nat /\ Funds' = Funds - k
  <2>1. /\ k \in Nat /\ buying' \in [Symbols -> Nat]
        /\ \A t \in Symbols \ {s} : buying'[t] = buying[t]
        /\ buying'[s] = buying[s] + k
        /\ cash' = cash /\ selling' = selling
    BY <1>0, <1>1 DEF PlaceBuy, MayBuy
  <2>2. SumFunction(buying') = SumFunction(buying) - buying[s] + buying'[s]
    BY <1>0, <2>1, SumFunctionExcept
  <2>3. buying[s] \in Nat
    BY <1>0
  <2> QED
    BY <2>1, <2>2, <2>3, BooksTyped DEF Funds
<1>2. ASSUME PlaceSell(s, k) PROVE k \in Nat /\ Funds' = Funds + k
  <2>1. /\ k \in Nat /\ selling' \in [Symbols -> Nat]
        /\ \A t \in Symbols \ {s} : selling'[t] = selling[t]
        /\ selling'[s] = selling[s] + k
        /\ cash' = cash /\ buying' = buying
    BY <1>0, <1>2 DEF PlaceSell, MaySell
  <2>2. SumFunction(selling') = SumFunction(selling) - selling[s] + selling'[s]
    BY <1>0, <2>1, SumFunctionExcept
  <2>3. selling[s] \in Nat
    BY <1>0
  <2> QED
    BY <2>1, <2>2, <2>3, BooksTyped DEF Funds
<1> QED
  BY <1>1, <1>2

LEMMA InitSized == Init => Sized
<1> SUFFICES ASSUME Init PROVE Sized
  OBVIOUS
<1>1. Inv
  BY InitInv
<1>2. PlanSized /\ BooksRead
  BY FS_EmptySet DEF Init, PlanSized, BooksRead
<1> QED
  BY <1>1, <1>2 DEF Sized

\* The owner's edits and the bots' signals touch neither the books nor the plan.
Quiet == UNCHANGED <<broker, pc, seen, account, lockSnap, unseen, plan>>

LEMMA QuietSteps ==
  ASSUME \/ UNCHANGED vars \/ OwnerEdits
         \/ \E b \in todo : BotStands(b) \/ \E w \in Signals[b] : BotRebalances(b, w)
  PROVE  Quiet
BY DEF Quiet, vars, broker, reading, submitting, OwnerEdits, AddHolding, RemoveHolding,
       SwitchBot, BotStands, BotRebalances

\* Neither do the steps of reconcile_manual_holdings, which read no account.
LEMMA ReconcileSteps ==
  ASSUME BeginTick \/ Reconcile
  PROVE  /\ pc \in {"idle", "held", "buying"}
         /\ pc' \in {"account", "held", "buying"}
         /\ UNCHANGED <<account, unseen, plan>>
BY DEF BeginTick, Reconcile, ReadHeld, ReadHeldFails, ManualBuy, ManualBuyFails,
       ManualBuyUnanswered, LeaveReconcile, reading, submitting

LEMMA EndingSteps ==
  ASSUME ReadFails \/ Announce \/ Crash
  PROVE  pc' = "idle" /\ account' = 0 /\ unseen' = 0 /\ plan' = {}
BY DEF ReadFails, Announce, Crash, ForgetCycle

LEMMA SubmissionSteps ==
  ASSUME NEW o \in plan, SubmitOrder(o) \/ SubmitFails(o) \/ SubmitUnanswered(o)
  PROVE  /\ pc = "submit" /\ UNCHANGED <<seen, account, lockSnap, unseen>>
         /\ \/ SubmitOrder(o) /\ pc' = "submit" /\ plan' = plan \ {o} /\ Place(o)
            \/ pc' = "announce" /\ plan' = {}
BY DEF SubmitOrder, SubmitFails, SubmitUnanswered, AbandonPlan, Taken, reading

LEMMA NextPreservesSized == Sized /\ [Next]_vars => Sized'
<1> SUFFICES ASSUME Sized, [Next]_vars PROVE PlanSized' /\ BooksRead'
  BY NextPreservesInv DEF Sized
<1> USE DEF Sized, Inv
<1>1. CASE Quiet
  <2>1. Equity' = Equity /\ Funds' = Funds
    BY <1>1 DEF Quiet, broker, Equity, Funds
  <2> QED
    BY <1>1, <2>1 DEF Quiet, PlanSized, BooksRead
<1>2. CASE Broker
  <2>1. PICK s \in Symbols : FillBuy(s) \/ FillSell(s) \/ Lapse(s)
    BY <1>2 DEF Broker
  <2>2. UNCHANGED <<pc, seen, account, unseen, plan>>
    BY <2>1 DEF FillBuy, FillSell, Lapse, reading, submitting
  <2>3. pc = "idle" \/ (Equity' = Equity /\ Funds' = Funds)
    BY <2>1, FillsKeepBooks DEF Lapse
  <2> QED
    BY <2>2, <2>3 DEF PlanSized, BooksRead
<1>3. CASE BeginTick \/ Reconcile
  BY <1>3, ReconcileSteps DEF PlanSized, BooksRead
<1>4. CASE ReadAccountAndLocks
  <2>1. /\ UNCHANGED <<broker, unseen, plan>> /\ account' = Equity /\ pc' = "positions"
    BY <1>4 DEF ReadAccountAndLocks, submitting
  <2>2. Equity' = Equity /\ Equity \in Int
    BY <2>1, BooksTyped DEF broker, Equity
  <2> QED
    BY <2>1, <2>2 DEF PlanSized, BooksRead
<1>5. CASE ReadPositions
  <2>1. /\ pc = "positions" /\ pc' = "bots" /\ seen' = pos /\ unseen' = SumFunction(buying)
        /\ UNCHANGED <<broker, account, plan>>
    BY <1>5 DEF ReadPositions, submitting
  <2>2. Funds' = Funds /\ account = cash + SumFunction(pos)
    BY <2>1 DEF broker, Funds, BooksRead, Equity
  <2>3. account - SumFunction(pos) <= Funds + SumFunction(buying)
    BY <2>2, BooksTyped DEF Funds
  <2>4. BooksRead'
    BY <2>1, <2>2, <2>3, BooksTyped DEF BooksRead
  <2> QED
    BY <2>1, <2>4 DEF PlanSized
<1>6. CASE ReadFails \/ Announce \/ Crash
  <2>1. pc' = "idle" /\ account' = 0 /\ unseen' = 0 /\ plan' = {}
    BY <1>6, EndingSteps
  <2>2. IsFiniteSet(plan')
    BY <2>1, FS_EmptySet
  <2> QED
    BY <2>1, <2>2 DEF PlanSized, BooksRead
<1>7. CASE PlanOrders
  <2>1. /\ pc' = "submit" /\ UNCHANGED <<account, unseen>>
        /\ plan' = OrderPlan(CombinedTarget(desired, ManageableEquity),
                             Restrict(seen, Manageable), ManageableEquity)
    BY <1>7 DEF PlanOrders, reading
  <2>2. BooksRead'
    BY <2>1 DEF BooksRead
  <2>3. /\ Dollars(CombinedTarget(desired, ManageableEquity))
        /\ Dollars(Restrict(seen, Manageable)) /\ ManageableEquity \in Nat
    BY ManageableFacts DEF BooksRead
  <2>4. PlanSized'
    BY <2>1, <2>3, PlanFacts DEF PlanSized
  <2> QED
    BY <2>2, <2>4
<1>8. CASE \E o \in plan : SubmitOrder(o) \/ SubmitFails(o) \/ SubmitUnanswered(o)
  <2>1. /\ UNCHANGED <<account, unseen>> /\ pc' \in {"submit", "announce"}
        /\ plan' \in SUBSET plan
    BY <1>8, SubmissionSteps
  <2>2. BooksRead'
    BY <2>1 DEF BooksRead
  <2>3. PlanSized'
    BY <2>1, FS_Subset DEF PlanSized
  <2> QED
    BY <2>2, <2>3
<1>9. CASE PlanSubmitted
  BY <1>9 DEF PlanSubmitted, reading, submitting, PlanSized, BooksRead
<1> QED
  BY <1>1, <1>2, <1>3, <1>4, <1>5, <1>6, <1>7, <1>8, <1>9, QuietSteps
  DEF Next, Worker, RunCycle

LEMMA SizedInvariance == Spec => []Sized
<1>1. Init => Sized
  BY InitSized
<1>2. Sized /\ [Next]_vars => Sized'
  BY NextPreservesSized
<1> QED
  BY <1>1, <1>2, PTL DEF Spec

-----------------------------------------------------------------------------
\* The sells of a plan fit what is held.

\* Nothing is being sold while a cycle reads, and what it read as held it
\* still holds: only the plan sells.
SellsSettled ==
  /\ pc \in {"held", "buying", "account", "positions", "bots"} =>
       \A s \in Symbols : selling[s] = 0
  /\ pc = "bots" => \A s \in Symbols : seen[s] <= pos[s]

LEMMA SellsStayFit ==
  ASSUME PromptFills
  PROVE  Sized /\ SellsSettled /\ SellsFit /\ [Next]_vars => SellsSettled' /\ SellsFit'
<1> SUFFICES ASSUME Sized, SellsSettled, SellsFit, [Next]_vars PROVE SellsSettled' /\ SellsFit'
  OBVIOUS
<1> USE DEF Sized, Inv
<1>0. /\ pos \in [Symbols -> Nat] /\ buying \in [Symbols -> Nat]
      /\ selling \in [Symbols -> Nat] /\ \A s \in Symbols : selling[s] <= pos[s]
  BY DEF TypeOK
<1>1. CASE Quiet
  BY <1>1 DEF Quiet, broker, SellsSettled, SellsFit
<1>2. CASE Broker
  <2>1. PICK s \in Symbols : FillBuy(s) \/ FillSell(s) \/ Lapse(s)
    BY <1>2 DEF Broker
  <2>2. UNCHANGED <<pc, seen, plan>>
    BY <2>1 DEF FillBuy, FillSell, Lapse, submitting
  <2>3. CASE Lapse(s)
    BY <2>2, <2>3 DEF Lapse, SellsSettled, SellsFit
  <2>4. CASE FillBuy(s) \/ FillSell(s)
    <3>1. ASSUME NEW t \in Symbols
          PROVE  /\ pos'[t] \in Nat /\ selling'[t] \in Nat
                 /\ pos'[t] - selling'[t] >= pos[t] - selling[t]
                 /\ selling[t] = 0 => selling'[t] = 0 /\ pos'[t] >= pos[t]
      <4>1. CASE FillBuy(s)
        BY <1>0, <4>1 DEF FillBuy
      <4>2. CASE FillSell(s)
        BY <1>0, <4>2 DEF FillSell
      <4> QED
        BY <2>4, <4>1, <4>2
    <3>2. SellsSettled'
      <4>1. \A t \in Symbols : seen[t] \in Nat /\ pos[t] \in Nat
        BY DEF TypeOK
      <4> QED
        BY <2>2, <3>1, <4>1 DEF SellsSettled
    <3>3. SellsFit'
      <4> SUFFICES ASSUME pc = "submit", NEW o \in plan, o.side = "sell"
                   PROVE  o.amount <= pos'[o.sym] - selling'[o.sym]
        BY <2>2 DEF SellsFit
      <4>1. o.sym \in Symbols /\ o.amount \in Nat
        BY DEF TypeOK, PlanSized
      <4>2. o.amount <= pos[o.sym] - selling[o.sym]
        BY DEF SellsFit
      <4> QED
        BY <1>0, <3>1, <4>1, <4>2
    <3> QED
      BY <3>2, <3>3
  <2> QED
    BY <2>1, <2>3, <2>4
<1>3. CASE BeginTick
  <2>1. \A s \in Symbols : selling[s] = 0
    BY <1>0, <1>3 DEF BeginTick, Pending
  <2>2. pc' \in {"account", "held"} /\ selling' = selling
    BY <1>3 DEF BeginTick, broker
  <2> QED
    BY <2>1, <2>2 DEF SellsSettled, SellsFit
<1>4. CASE Reconcile
  <2>1. selling' = selling /\ pc \in {"held", "buying"} /\ pc' \in {"account", "held", "buying"}
    BY <1>4 DEF Reconcile, ReadHeld, ReadHeldFails, ManualBuy, ManualBuyFails,
                ManualBuyUnanswered, PlaceBuy, LeaveReconcile, broker
  <2> QED
    BY <2>1 DEF SellsSettled, SellsFit
<1>5. CASE ReadAccountAndLocks \/ ReadPositions
  <2>1. /\ pc \in {"account", "positions"} /\ pc' \in {"positions", "bots"}
        /\ UNCHANGED <<pos, selling>>
        /\ pc' = "bots" => seen' = pos
    BY <1>5 DEF ReadAccountAndLocks, ReadPositions, broker
  <2>2. \A s \in Symbols : pos[s] <= pos[s] /\ selling'[s] = 0
    BY <1>0, <2>1 DEF SellsSettled
  <2>3. pc' = "bots" => \A s \in Symbols : seen'[s] <= pos'[s]
    BY <2>1, <2>2
  <2> QED
    BY <2>1, <2>2, <2>3 DEF SellsSettled, SellsFit
<1>6. CASE ReadFails \/ Announce \/ Crash
  BY <1>6, EndingSteps DEF SellsSettled, SellsFit
<1>7. CASE PlanOrders
  <2>1. /\ pc = "bots" /\ pc' = "submit" /\ UNCHANGED <<pos, selling>>
        /\ plan' = OrderPlan(CombinedTarget(desired, ManageableEquity),
                             Restrict(seen, Manageable), ManageableEquity)
    BY <1>7 DEF PlanOrders, broker
  <2>2. /\ Dollars(CombinedTarget(desired, ManageableEquity))
        /\ Dollars(Restrict(seen, Manageable)) /\ ManageableEquity \in Nat
        /\ DOMAIN Restrict(seen, Manageable) = Manageable /\ Manageable \subseteq Symbols
        /\ \A s \in Manageable : Restrict(seen, Manageable)[s] = seen[s]
    BY ManageableFacts DEF BooksRead, Manageable
  <2>3. \A o \in plan' : o.side = "sell" => /\ o.sym \in Symbols /\ o.amount \in Nat
                                            /\ o.amount <= seen[o.sym]
    BY <2>1, <2>2, PlanFacts
  <2>4. \A s \in Symbols : seen[s] \in Nat /\ seen[s] <= pos[s] /\ selling[s] = 0
    BY <2>1 DEF TypeOK, SellsSettled
  <2>5. \A o \in plan' : o.side = "sell" => o.amount <= pos[o.sym] - selling[o.sym]
    BY <1>0, <2>3, <2>4
  <2> QED
    BY <2>1, <2>5 DEF SellsSettled, SellsFit
<1>8. CASE \E o \in plan : SubmitOrder(o) \/ SubmitFails(o) \/ SubmitUnanswered(o)
  <2>1. PICK o \in plan : SubmitOrder(o) \/ SubmitFails(o) \/ SubmitUnanswered(o)
    BY <1>8
  <2>2. \/ SubmitOrder(o) /\ pc = "submit" /\ pc' = "submit" /\ plan' = plan \ {o} /\ Place(o)
        \/ pc' = "announce"
    BY <2>1, SubmissionSteps
  <2>3. CASE pc' = "announce"
    BY <2>3 DEF SellsSettled, SellsFit
  <2>4. CASE SubmitOrder(o) /\ pc = "submit" /\ pc' = "submit" /\ plan' = plan \ {o} /\ Place(o)
    <3>1. pos' = pos /\ \A t \in Symbols : t # o.sym => selling'[t] = selling[t]
      BY <2>4, PlaceTyped
    <3>2. \A p \in plan' : p \in plan /\ p.sym # o.sym /\ p.sym \in Symbols
      BY <2>4 DEF PlanSized, TypeOK
    <3> QED
      BY <2>4, <3>1, <3>2 DEF SellsSettled, SellsFit
  <2> QED
    BY <2>2, <2>3, <2>4
<1>9. CASE PlanSubmitted
  BY <1>9 DEF PlanSubmitted, SellsSettled, SellsFit
<1> QED
  BY <1>1, <1>2, <1>3, <1>4, <1>5, <1>6, <1>7, <1>8, <1>9, QuietSteps
  DEF Next, Worker, RunCycle

\* Netting works: as long as orders are filled before the next tick, the
\* broker can fill every sell of a plan, however many bots want to sell.
THEOREM NoSellCollides ==
  ASSUME PromptFills PROVE Spec => []SellsFit
<1>1. Init => SellsSettled /\ SellsFit
  BY DEF Init, SellsSettled, SellsFit
<1>2. Sized /\ SellsSettled /\ SellsFit /\ [Next]_vars => SellsSettled' /\ SellsFit'
  BY SellsStayFit
<1> QED
  BY <1>1, <1>2, SizedInvariance, PTL DEF Spec

-----------------------------------------------------------------------------
\* The plan pays for itself.

\* What is divided up is the account less what is locked; what is managed is
\* held less what is locked.
LEMMA PlanCoversPositions ==
  ASSUME TypeOK, BooksRead, ManageableEquity > 0
  PROVE  /\ ManageableEquity - SumFunctionOnSet(Entries(Restrict(seen, Manageable)), Symbols)
              = account - SumFunction(seen)
         /\ SumFunctionOnSet(Entries(Restrict(seen, Manageable)), Symbols) \in Nat
<1> DEFINE C == Entries(Restrict(seen, Manageable))
           L == [s \in Symbols |-> IF s \in lockSnap THEN seen[s] ELSE 0]
           r == Restrict(seen, lockSnap)
<1>1. /\ seen \in [Symbols -> Nat] /\ lockSnap \in SUBSET Symbols
      /\ IsFiniteSet(Symbols) /\ IsFiniteSet(lockSnap) /\ account \in Int
  BY FiniteAssumption, FS_Subset DEF TypeOK, BooksRead
<1>2. \A s \in Symbols : C[s] = IF s \in Manageable THEN seen[s] ELSE 0
  BY ManageableFacts DEF BooksRead, Entries, At
<1>3. \A s \in Symbols : C[s] \in Nat /\ L[s] \in Nat /\ seen[s] = C[s] + L[s]
  <2> SUFFICES ASSUME NEW s \in Symbols PROVE C[s] \in Nat /\ L[s] \in Nat /\ seen[s] = C[s] + L[s]
    OBVIOUS
  <2>1. seen[s] \in Nat /\ (s \in Manageable <=> s \notin lockSnap /\ seen[s] > 0)
    BY <1>1 DEF Manageable
  <2>2. L[s] = IF s \in lockSnap THEN seen[s] ELSE 0
    BY Zenon
  <2> HIDE DEF C, L
  <2> QED
    BY <1>2, <2>1, <2>2
<1>4. SumFunctionOnSet(seen, Symbols) = SumFunctionOnSet(C, Symbols) + SumFunctionOnSet(L, Symbols)
  <2>1. \A s \in Symbols : C[s] \in Int /\ L[s] \in Int /\ seen[s] = C[s] + L[s]
    BY <1>3
  <2> HIDE DEF C, L
  <2> QED
    BY ONLY <1>1, <2>1, SumPlus
<1>5. SumFunctionOnSet(L, Symbols) = SumFunction(r)
  <2>1. \A s \in Symbols \ lockSnap : L[s] = 0
    OBVIOUS
  <2>2. \A s \in lockSnap : L[s] \in Int /\ L[s] = r[s]
    BY <1>1 DEF Restrict
  <2>3. DOMAIN r = lockSnap
    BY <1>1 DEF Restrict
  <2>4. \A s \in Symbols : L[s] \in Int
    BY <1>3
  <2> HIDE DEF L, r
  <2>5. SumFunctionOnSet(L, Symbols) = SumFunctionOnSet(L, lockSnap)
    BY ONLY <1>1, <2>1, <2>4, SumNonzero
  <2>6. SumFunctionOnSet(L, lockSnap) = SumFunctionOnSet(r, lockSnap)
    BY ONLY <1>1, <2>2, SumSame
  <2> QED
    BY <2>3, <2>5, <2>6 DEF SumFunction
<1>6. SumFunctionOnSet(C, Symbols) \in Nat /\ SumFunctionOnSet(L, Symbols) \in Nat
  <2> HIDE DEF C, L
  <2> QED
    BY <1>1, <1>3, SumNat
<1>7. ManageableEquity = account - SumFunction(r)
  <2>1. account - SumFunction(r) \in Int
    BY <1>1, <1>5, <1>6
  <2> HIDE DEF r
  <2> QED
    BY <2>1 DEF ManageableEquity, r
<1>8. SumFunction(seen) = SumFunctionOnSet(seen, Symbols)
  BY <1>1 DEF SumFunction
<1> HIDE DEF C, L, r
<1> QED
  BY <1>1, <1>4, <1>5, <1>6, <1>7, <1>8 DEF C

LEMMA FreshPlanPays ==
  ASSUME Sized, PlanOrders PROVE PlanPaysForItself'
<1> DEFINE E == ManageableEquity
           t == CombinedTarget(desired, E)
           c == Restrict(seen, Manageable)
           T == SumFunctionOnSet(Entries(t), Symbols)
           C == SumFunctionOnSet(Entries(c), Symbols)
           buys == SideTotal(plan', "buy")
           sells == SideTotal(plan', "sell")
<1> USE DEF Sized, Inv
<1>1. /\ pc = "bots" /\ UNCHANGED <<broker, account, seen, lockSnap, unseen>>
      /\ plan' = OrderPlan(t, c, E)
  BY DEF PlanOrders, reading
<1>2. ManageableEquity' = E /\ Funds' = Funds
  BY <1>1 DEF ManageableEquity, Funds, broker
<1> SUFFICES ASSUME E > 0 PROVE Funds + sells - buys >= -(Dust + unseen)
  <2>1. PlanPaysForItself' = (pc' = "submit" /\ E > 0 =>
           Funds' + PlanTotal("sell")' - PlanTotal("buy")' >= -(Dust + unseen'))
    BY <1>2 DEF PlanPaysForItself, Funds
  <2>2. PlanTotal("sell")' = sells /\ PlanTotal("buy")' = buys
    BY DEF PlanTotal, SideTotal
  <2> QED
    BY <1>1, <1>2, <2>1, <2>2
<1>3. Desires(desired) /\ E \in Nat \ {0} /\ Dollars(t) /\ Dollars(c)
  BY ManageableFacts DEF BooksRead
<1>4. T <= E /\ T \in Nat
  <2> DEFINE targets == [s \in Symbols |-> TargetDollars(desired, E, s)]
  <2>1. \A s \in Symbols : Entries(t)[s] = targets[s] /\ Entries(t)[s] \in Nat
    <3> SUFFICES ASSUME NEW s \in Symbols
                 PROVE  Entries(t)[s] = TargetDollars(desired, E, s) /\ Entries(t)[s] \in Nat
      OBVIOUS
    <3>1. DOMAIN t = UNION {DOMAIN desired[b] : b \in DOMAIN desired}
      BY <1>3 DEF CombinedTarget
    <3>2. s \in DOMAIN t => t[s] = TargetDollars(desired, E, s)
      BY DEF CombinedTarget
    <3>3. s \notin DOMAIN t => TargetDollars(desired, E, s) = 0
      <4> SUFFICES ASSUME s \notin DOMAIN t PROVE TargetDollars(desired, E, s) = 0
        OBVIOUS
      <4>1. {x \in DOMAIN desired : s \in DOMAIN desired[x]} = {}
        BY <3>1
      <4> QED
        BY <4>1, SumEmpty DEF TargetDollars, SumFunction
    <3>4. Entries(t)[s] = IF s \in DOMAIN t THEN t[s] ELSE 0
      BY DEF Entries, At
    <3>5. TargetDollars(desired, E, s) \in Nat
      BY <1>3, TargetIsSpread
    <3> HIDE DEF t, E
    <3> QED
      BY <3>2, <3>3, <3>4, <3>5
  <2>2. SumFunctionOnSet(targets, Symbols) <= E
    BY <1>3, TargetsWithinEquity
  <2>3. PICK f : f = Entries(t)
    OBVIOUS
  <2>4. \A s \in Symbols : f[s] \in Nat /\ f[s] \in Int /\ f[s] = targets[s]
    BY <2>1, <2>3
  <2> HIDE DEF targets, t, E
  <2>5. SumFunctionOnSet(f, Symbols) = SumFunctionOnSet(targets, Symbols)
    BY <2>4, FiniteAssumption, SumSame
  <2>6. SumFunctionOnSet(f, Symbols) \in Nat
    BY <2>4, FiniteAssumption, SumNat
  <2> QED
    BY <2>2, <2>3, <2>5, <2>6
<1>5. E - C = account - SumFunction(seen) /\ C \in Nat
  BY <1>3, PlanCoversPositions
<1>6. buys + C <= sells + T + Dust /\ buys \in Nat /\ sells \in Nat /\ Dust \in Nat
  BY <1>1, <1>3, PlanBalances
<1>7. account - SumFunction(seen) <= Funds + unseen
  BY <1>1 DEF BooksRead
<1>8. Funds \in Int /\ unseen \in Nat /\ account \in Int /\ SumFunction(seen) \in Nat
  BY BooksTyped DEF BooksRead
<1> HIDE DEF E, T, C, buys, sells
<1> QED
  BY <1>3, <1>4, <1>5, <1>6, <1>7, <1>8

\* A submitted order leaves the plan as it enters the broker's books.
LEMMA SideTotalWithout ==
  ASSUME NEW p, IsFiniteSet(p), \A x \in p : x.amount \in Nat, NEW o \in p, NEW side
  PROVE  /\ SideTotal(p, side) \in Int
         /\ SideTotal(p \ {o}, side) =
              SideTotal(p, side) - (IF o.side = side THEN o.amount ELSE 0)
<1> DEFINE A == {x \in p : x.side = side}
           B == {x \in p \ {o} : x.side = side}
           f == [x \in A |-> x.amount]
           g == [x \in B |-> x.amount]
<1>1. IsFiniteSet(A) /\ IsFiniteSet(B) /\ B = A \ {o}
  BY FS_Subset
<1>2. SideTotal(p, side) = SumFunctionOnSet(f, A) /\ SideTotal(p \ {o}, side) = SumFunctionOnSet(g, B)
  BY DEF SideTotal, SumFunction
<1>3. /\ \A x \in A : f[x] \in Int
      /\ \A x \in B : g[x] \in Int /\ g[x] = f[x]
      /\ o \in A => f[o] = o.amount
      /\ o \in A <=> o.side = side
  OBVIOUS
<1> HIDE DEF A, B, f, g
<1>4. SumFunctionOnSet(g, B) = SumFunctionOnSet(f, B) /\ SumFunctionOnSet(f, A) \in Int
  BY <1>1, <1>3, SumSame, SumInt
<1>5. CASE o \in A
  <2>1. SumFunctionOnSet(f, A) = f[o] + SumFunctionOnSet(f, A \ {o})
    BY <1>1, <1>3, <1>5, SumWithout
  <2>2. SumFunctionOnSet(g, B) \in Int
    BY <1>1, <1>3, SumInt
  <2> QED
    BY <1>1, <1>2, <1>3, <1>4, <1>5, <2>1, <2>2
<1>6. CASE o \notin A
  <2>1. A \ {o} = A
    BY <1>6
  <2> QED
    BY <1>1, <1>2, <1>3, <1>4, <1>6, <2>1
<1> QED
  BY <1>5, <1>6

LEMMA SubmissionPays ==
  ASSUME Sized, PlanPaysForItself, NEW o \in plan, SubmitOrder(o), pc = "submit",
         UNCHANGED <<seen, account, lockSnap, unseen>>, plan' = plan \ {o}, Place(o)
  PROVE  PlanPaysForItself'
<1> USE DEF Sized, Inv
<1> DEFINE buys == SideTotal(plan, "buy")
           sells == SideTotal(plan, "sell")
<1>1. o.sym \in Symbols /\ o.side \in {"buy", "sell"} /\ o.amount \in Nat
  BY DEF TypeOK, PlanSized
<1>2. buys \in Int /\ sells \in Int
  BY SideTotalWithout DEF PlanSized
<1>3. /\ SideTotal(plan', "buy") = buys - (IF o.side = "buy" THEN o.amount ELSE 0)
      /\ SideTotal(plan', "sell") = sells - (IF o.side = "sell" THEN o.amount ELSE 0)
  BY SideTotalWithout DEF PlanSized
<1>4. Funds' = IF o.side = "buy" THEN Funds - o.amount ELSE Funds + o.amount
  BY <1>1, OrdersMoveFunds DEF Place
<1>5. Funds \in Int /\ unseen \in Nat
  BY BooksTyped DEF BooksRead
<1>6. ManageableEquity' = ManageableEquity
  BY DEF ManageableEquity
<1>7. Funds' + SideTotal(plan', "sell") - SideTotal(plan', "buy") = Funds + sells - buys
  <2> HIDE DEF buys, sells
  <2> QED
    BY <1>1, <1>2, <1>3, <1>4, <1>5
<1>8. /\ PlanPaysForItself = (pc = "submit" /\ ManageableEquity > 0 =>
                                Funds + sells - buys >= -(Dust + unseen))
      /\ PlanPaysForItself' = (pc' = "submit" /\ ManageableEquity' > 0 =>
           Funds' + SideTotal(plan', "sell") - SideTotal(plan', "buy") >= -(Dust + unseen'))
  BY DEF PlanPaysForItself, Funds, PlanTotal, SideTotal
<1> QED
  BY <1>6, <1>7, <1>8

LEMMA PlanStaysPaid == Sized /\ PlanPaysForItself /\ [Next]_vars => PlanPaysForItself'
<1> SUFFICES ASSUME Sized, PlanPaysForItself, [Next]_vars PROVE PlanPaysForItself'
  OBVIOUS
<1> USE DEF Sized, Inv
<1>1. ASSUME Funds' = Funds, UNCHANGED <<seen, account, lockSnap, unseen, plan, pc>>
      PROVE  PlanPaysForItself'
  BY <1>1 DEF PlanPaysForItself, Funds, ManageableEquity, PlanTotal
<1>2. CASE pc' # "submit"
  BY <1>2 DEF PlanPaysForItself
<1>3. CASE Quiet
  BY <1>1, <1>3 DEF Quiet, broker, Funds
<1>4. CASE Broker
  <2>1. PICK s \in Symbols : FillBuy(s) \/ FillSell(s) \/ Lapse(s)
    BY <1>4 DEF Broker
  <2>2. UNCHANGED <<pc, seen, account, lockSnap, unseen, plan>>
    BY <2>1 DEF FillBuy, FillSell, Lapse, reading, submitting
  <2>3. pc = "idle" \/ Funds' = Funds
    BY <2>1, FillsKeepBooks DEF Lapse
  <2> QED
    BY <1>1, <1>2, <2>2, <2>3
<1>5. CASE BeginTick \/ Reconcile \/ ReadAccountAndLocks \/ ReadPositions \/ PlanSubmitted
  BY <1>2, <1>5, ReconcileSteps DEF ReadAccountAndLocks, ReadPositions, PlanSubmitted
<1>6. CASE ReadFails \/ Announce \/ Crash
  BY <1>2, <1>6, EndingSteps
<1>7. CASE PlanOrders
  BY <1>7, FreshPlanPays
<1>8. CASE \E o \in plan : SubmitOrder(o) \/ SubmitFails(o) \/ SubmitUnanswered(o)
  BY <1>2, <1>8, SubmissionSteps, SubmissionPays
<1> QED
  BY <1>3, <1>4, <1>5, <1>6, <1>7, <1>8, QuietSteps DEF Next, Worker, RunCycle

\* A plan never needs more than the account holds once its sells are filled,
\* but for gaps below MinTrade and for manual buys not yet held when the
\* positions were read: blending bots, rounding and locking spend no dollar
\* twice.
THEOREM PlanAffordable == Spec => []PlanPaysForItself
<1>1. Init => PlanPaysForItself
  BY DEF Init, PlanPaysForItself
<1>2. Sized /\ PlanPaysForItself /\ [Next]_vars => PlanPaysForItself'
  BY PlanStaysPaid
<1> QED
  BY <1>1, <1>2, SizedInvariance, PTL DEF Spec

=============================================================================
