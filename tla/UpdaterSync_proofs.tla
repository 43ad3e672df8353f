-------------------------- MODULE UpdaterSync_proofs -------------------------
(***************************************************************************)
(* Proofs about the two jobs of the updater: releases (Updater), for any   *)
(* number of versions and services, any sets of genuine and sound releases *)
(* and any number of interruptions, and the rows it shares with the worker *)
(* and the page (StrategySync), for any bots, bounds and number of faults. *)
(***************************************************************************)
EXTENDS Updater, StrategySync, FiniteSetTheorems, TLAPS

-----------------------------------------------------------------------------
(* Updater.                                                                *)

\* The steps of a run, named for the case splits below.
LEMMA Steps ==
  ASSUME [Next]_vars
  PROVE  \/ UNCHANGED vars
         \/ \E v \in Versions : Publish(v)
         \/ \E s \in Services : ServiceDies(s) \/ ServiceReturns(s)
         \/ StartRun \/ Verify \/ Extract \/ Stage \/ Swap \/ Activate
         \/ \E s \in Services : Restart(s)
         \/ Check \/ Prune \/ SwapBack \/ RollBack \/ RunDies \/ PowerCut
  BY DEF Next, RunOnce

-----------------------------------------------------------------------------
LEMMA InitTyped == Init => TypeOK
  BY VersionsAssumption, InstalledAssumption, BoundsAssumption DEF Init, TypeOK

LEMMA FaultTyped ==
  ASSUME TypeOK, Fault PROVE faults' \in 0..MaxFaults
  BY BoundsAssumption DEF TypeOK, Fault

LEMMA NextTyped == TypeOK /\ [Next]_vars => TypeOK'
<1> SUFFICES ASSUME TypeOK, [Next]_vars PROVE TypeOK'
  OBVIOUS
<1> USE DEF store, machine, run
<1>1. CASE UNCHANGED vars \/ \E v \in Versions : Publish(v)
  BY <1>1 DEF vars, Publish, TypeOK
<1>2. ASSUME NEW s \in Services, ServiceDies(s) \/ ServiceReturns(s) PROVE TypeOK'
  BY <1>2 DEF ServiceDies, ServiceReturns, TypeOK
<1>3. CASE StartRun \/ Verify \/ Extract
  BY <1>3 DEF StartRun, Verify, Extract, End, TypeOK
<1>4. CASE Stage
  BY <1>4 DEF Stage, PreviousVersion, TypeOK
<1>5. CASE Swap \/ Activate
  BY <1>5 DEF Swap, Activate, Promoted, TypeOK
<1>6. ASSUME NEW s \in Services, Restart(s) PROVE TypeOK'
  BY <1>6 DEF Restart, TypeOK
<1>7. CASE Check \/ Prune \/ SwapBack
  BY <1>7 DEF Check, Prune, SwapBack, End, TypeOK
<1>8. CASE RollBack
  BY <1>8 DEF RollBack, RolledBackTo, RestartAgain, End, TypeOK
<1>9. CASE RunDies
  BY <1>9, FaultTyped DEF RunDies, End, TypeOK
<1>10. CASE PowerCut
  <2>1. running' \in [Services -> Versions] /\ up' \in [Services -> BOOLEAN]
    BY <1>10 DEF PowerCut, TypeOK
  <2>2. faults' \in 0..MaxFaults
    BY <1>10, FaultTyped DEF PowerCut
  <2>3. QED
    BY <1>10, <2>1, <2>2 DEF PowerCut, End, TypeOK
<1>11. QED
  BY <1>1, <1>2, <1>3, <1>4, <1>5, <1>6, <1>7, <1>8, <1>9, <1>10, Steps

\* Every reachable state is well typed; every row has one of five statuses.
THEOREM TypeCorrect == Spec => []TypeOK
  BY InitTyped, NextTyped, PTL DEF Spec

-----------------------------------------------------------------------------
\* The two operations that make a row active leave no other active row.
LEMMA PromotedAlone ==
  ASSUME TypeOK, NEW v \in Versions, NEW a \in Versions, NEW b \in Versions
  PROVE  /\ Promoted(v)[a] = "active" /\ Promoted(v)[b] = "active" => a = b
         /\ RolledBackTo(v)[a] = "active" /\ RolledBackTo(v)[b] = "active" => a = b
  BY DEF Promoted, RolledBackTo, Active

LEMMA NextOneActive == TypeOK /\ OneActive /\ [Next]_vars => OneActive'
<1> SUFFICES ASSUME TypeOK, OneActive, [Next]_vars PROVE OneActive'
  OBVIOUS
<1>1. CASE status' = status
  BY <1>1 DEF OneActive, Active
<1>2. CASE Stage
  <2>1. \A v \in Versions : Active(v)' => Active(v)
    BY <1>2 DEF Stage, Active, TypeOK
  <2>2. QED
    BY <2>1 DEF OneActive
<1>3. CASE Activate
  <2>1. status' = Promoted(cand) /\ cand \in Versions
    BY <1>3 DEF Activate, TypeOK
  <2>2. QED
    BY <2>1, PromotedAlone DEF OneActive, Active
<1>4. CASE RollBack
  <2>1. status' = status \/ (status' = RolledBackTo(prev) /\ prev \in Versions)
    BY <1>4 DEF RollBack, TypeOK
  <2>2. CASE status' = RolledBackTo(prev)
    BY <2>1, <2>2, PromotedAlone DEF OneActive, Active, TypeOK
  <2>3. QED
    BY <1>1, <2>1, <2>2
<1>5. status' = status \/ Stage \/ Activate \/ RollBack
  BY Steps DEF vars, store, Publish, ServiceDies, ServiceReturns, StartRun, Verify, Extract,
     Swap, Restart, Check, Prune, SwapBack, RunDies, PowerCut
<1>6. QED
  BY <1>1, <1>2, <1>3, <1>4, <1>5

\* At most one release is recorded as active, whatever interrupts a run.
THEOREM OneActiveAlways == Spec => []OneActive
<1>1. Init => OneActive
  BY DEF Init, OneActive, Active
<1>2. QED
  BY <1>1, NextOneActive, TypeCorrect, PTL DEF Spec

-----------------------------------------------------------------------------
\* Why only trusted code runs: past the verification the candidate is genuine.
CandidateVerified == pc \notin {"idle", "verify"} => cand \in Genuine

TrustInv == OnlyTrustedCode /\ prev \in Trustworthy /\ CandidateVerified

LEMMA NextTrusted == TypeOK /\ TrustInv /\ [Next]_vars => TrustInv'
<1> SUFFICES ASSUME TypeOK, TrustInv, [Next]_vars PROVE TrustInv'
  OBVIOUS
<1> USE DEF TrustInv, OnlyTrustedCode, CandidateVerified, Trustworthy, store, machine, run
<1>1. CASE UNCHANGED vars \/ \E v \in Versions : Publish(v)
  BY <1>1 DEF vars, Publish
<1>2. ASSUME NEW s \in Services, ServiceDies(s) \/ ServiceReturns(s) PROVE TrustInv'
  BY <1>2 DEF ServiceDies, ServiceReturns, TypeOK
<1>3. CASE StartRun \/ Verify \/ Extract
  BY <1>3 DEF StartRun, Verify, Trusted, Extract, End
<1>4. CASE Stage \/ Swap \/ Activate
  BY <1>4 DEF Stage, PreviousVersion, Swap, Activate
<1>5. ASSUME NEW s \in Services, Restart(s) PROVE TrustInv'
  BY <1>5 DEF Restart, TypeOK
<1>6. CASE Check \/ Prune \/ SwapBack
  BY <1>6 DEF Check, Prune, SwapBack, End
<1>7. CASE RollBack \/ RunDies
  BY <1>7 DEF RollBack, RestartAgain, RunDies, End
<1>8. CASE PowerCut
  BY <1>8 DEF PowerCut, End
<1>9. QED
  BY <1>1, <1>2, <1>3, <1>4, <1>5, <1>6, <1>7, <1>8, Steps

\* No release runs, or can be started, whose signature was not verified.
THEOREM TrustedAlways == Spec => []OnlyTrustedCode
<1>1. Init => TrustInv
  BY DEF Init, TrustInv, OnlyTrustedCode, CandidateVerified, Trustworthy
<1>2. TrustInv => OnlyTrustedCode
  BY DEF TrustInv
<1>3. QED
  BY <1>1, <1>2, NextTrusted, TypeCorrect, PTL DEF Spec

-----------------------------------------------------------------------------
\* Why an update can be undone, as long as the server only moves forward: the
\* candidate is newer than everything on disk before it, so that pruning, which
\* keeps the newest, never takes the release in place.
MovesForward == cand <= offered /\ \A v \in disk : v <= cand

Extracted == pc \notin {"idle", "verify", "extract"} => cand \in disk

InPlace ==
  /\ pc \in {"stage", "swap"} => current < cand
  /\ pc = "swap" => prev = current
  /\ pc \in {"activate", "restart", "check", "prune", "swap_back"} => current = cand

UndoInv == MovesForward /\ Extracted /\ InPlace /\ RollbackPossible

LEMMA NewestKept ==
  ASSUME TypeOK, NEW c \in disk, \A v \in disk : v <= c
  PROVE  c \notin Pruned
<1>1. \A v \in disk : v \in Int
  BY VersionsAssumption DEF TypeOK, Versions
<1>2. \A w \in disk : ~(w > c)
  BY <1>1
<1>3. Cardinality({w \in disk : w > c}) = 0
  <2>1. {w \in disk : w > c} = {}
    BY <1>2
  <2>2. QED
    BY <2>1, FS_EmptySet
<1>4. QED
  BY <1>3, KeepAssumption DEF Pruned

LEMMA NextUndoable ==
  ASSUME ~Retracts PROVE TypeOK /\ UndoInv /\ [Next]_vars => UndoInv'
<1> SUFFICES ASSUME TypeOK, UndoInv, [Next]_vars PROVE UndoInv'
  OBVIOUS
<1> USE DEF UndoInv, RollbackPossible, MovesForward, Extracted, InPlace, store, machine, run
<1>0. /\ cand \in Int /\ offered \in Int /\ current \in Int /\ prev \in Int
      /\ \A v \in disk : v \in Int
  BY DEF TypeOK, Versions
<1>1. CASE UNCHANGED vars
  BY <1>1 DEF vars
<1>2. ASSUME NEW v \in Versions, Publish(v) PROVE UndoInv'
  <2>1. v > offered /\ v \in Int
    BY <1>2 DEF Publish, Versions
  <2>2. QED
    BY <1>0, <1>2, <2>1 DEF Publish
<1>3. ASSUME NEW s \in Services, ServiceDies(s) \/ ServiceReturns(s) \/ Restart(s)
      PROVE UndoInv'
  BY <1>3 DEF ServiceDies, ServiceReturns, Restart
<1>4. CASE StartRun \/ Verify
  <2>1. CASE StartRun
    <3>1. \A v \in disk : v <= offered
      BY <1>0
    <3>2. QED
      BY <1>0, <2>1, <3>1 DEF StartRun
  <2>2. CASE Verify
    BY <2>2 DEF Verify, End
  <2>3. QED
    BY <1>4, <2>1, <2>2
<1>5. CASE Extract
  <2>1. CASE AlreadyExtracted
    BY <1>5, <2>1 DEF Extract, End
  <2>2. CASE ~AlreadyExtracted
    <3>1. current < cand /\ cand <= cand
      BY <1>0, <2>2 DEF AlreadyExtracted
    <3>2. disk' = disk \cup {cand} /\ pc' = "stage" /\ UNCHANGED <<offered, current, cand, prev>>
      BY <1>5, <2>2 DEF Extract
    <3>3. QED
      BY <3>1, <3>2
  <2>3. QED
    BY <2>1, <2>2
<1>6. CASE Stage \/ Swap \/ Activate
  <2>1. CASE Stage
    <3>1. current # cand
      BY <1>0, <2>1 DEF Stage
    <3>2. QED
      BY <2>1, <3>1 DEF Stage, PreviousVersion
  <2>2. CASE Swap \/ Activate
    BY <2>2 DEF Swap, Activate
  <2>3. QED
    BY <1>6, <2>1, <2>2
<1>7. CASE Check
  BY <1>7 DEF Check
<1>8. CASE Prune
  <2>1. cand \notin Pruned
    BY <1>8, NewestKept DEF Prune
  <2>2. QED
    BY <1>8, <2>1 DEF Prune, End
<1>9. CASE SwapBack \/ RollBack
  BY <1>9 DEF SwapBack, RollBack, RestartAgain, End
<1>10. CASE RunDies \/ PowerCut
  BY <1>10 DEF RunDies, PowerCut, End
<1>11. QED
  BY <1>1, <1>2, <1>3, <1>4, <1>5, <1>6, <1>7, <1>8, <1>9, <1>10, Steps

LEMMA Undoable == ASSUME ~Retracts PROVE Spec => []UndoInv
<1>1. Init => UndoInv
  BY InstalledAssumption
  DEF Init, UndoInv, RollbackPossible, MovesForward, Extracted, InPlace, Versions
<1>2. TypeOK /\ UndoInv /\ [Next]_vars => UndoInv'
  BY NextUndoable
<1>3. QED
  BY <1>1, <1>2, TypeCorrect, PTL DEF Spec

\* `current` names a directory that exists, and every update can be undone
\* until it is settled, whatever interrupts a run.
THEOREM RollbackAlwaysPossible == ASSUME ~Retracts PROVE Spec => []RollbackPossible
<1>1. UndoInv => RollbackPossible
  BY DEF UndoInv
<1>2. QED
  BY <1>1, Undoable, PTL

-----------------------------------------------------------------------------
\* Each step of the updater is a step of ReleaseSlot or none.
SlotFallback == IF pc \in {"activate", "restart", "check", "swap_back"} THEN prev ELSE current

LEMMA StepKeepsPromises ==
  TypeOK /\ TrustInv /\ UndoInv /\ [Next]_vars => [Slot!Next]_(Slot!vars)
<1> SUFFICES ASSUME TypeOK, TrustInv, UndoInv, [Next]_vars PROVE [Slot!Next]_(Slot!vars)
  OBVIOUS
<1> USE DEF store, machine, run
<1>1. CASE UNCHANGED <<disk, current, pc, prev>>
  BY <1>1 DEF Slot!vars
<1>2. ASSUME NEW s \in Services, Restart(s) PROVE [Slot!Next]_(Slot!vars)
  <2>1. UNCHANGED <<disk, current, prev>> /\ pc' \in {pc, "check", "idle"}
        /\ (pc' = "check" => pc \in {"restart", "restart_back"})
    BY <1>2 DEF Restart
  <2>2. CASE SlotFallback' = SlotFallback
    BY <2>1, <2>2 DEF Slot!vars, SlotFallback
  <2>3. CASE SlotFallback' # SlotFallback
    BY <1>2, <2>3 DEF Restart, SlotFallback
  <2>4. QED
    BY <2>2, <2>3
<1>3. CASE StartRun \/ Verify \/ RollBack
  BY <1>3 DEF StartRun, Verify, RollBack, RestartAgain, End, Idle, Slot!vars
<1>4. CASE Extract
  <2>1. CASE AlreadyExtracted
    BY <1>4, <2>1 DEF Extract, End, Slot!vars
  <2>2. CASE ~AlreadyExtracted
    <3>1. Slot!Store(cand) /\ cand \in Trustworthy
      BY <1>4, <2>2 DEF Extract, Slot!Store, TrustInv, CandidateVerified, Trustworthy
    <3>2. QED
      BY <3>1 DEF Slot!Next
  <2>3. QED
    BY <2>1, <2>2
<1>5. CASE Stage
  BY <1>5 DEF Stage, Slot!vars
<1>6. CASE Swap
  <2>1. cand \in disk /\ cand > current /\ prev = current /\ cand \in Trustworthy
    BY <1>6 DEF Swap, UndoInv, Extracted, InPlace, TrustInv, CandidateVerified, Trustworthy
  <2>2. Slot!Upgrade(cand)
    BY <1>6, <2>1 DEF Swap, Slot!Upgrade
  <2>3. QED
    BY <2>1, <2>2 DEF Slot!Next
<1>7. CASE Activate
  BY <1>7 DEF Activate, Slot!vars
<1>8. CASE Check
  <2>1. CASE Healthy
    BY <1>8, <2>1 DEF Check, Slot!Next, Slot!Settle
  <2>2. CASE ~Healthy
    BY <1>8, <2>2 DEF Check, Slot!vars
  <2>3. QED
    BY <2>1, <2>2
<1>9. CASE Prune
  <2>1. current \notin Pruned /\ Pruned \in SUBSET disk
    BY <1>9, NewestKept DEF Prune, Pruned, UndoInv, MovesForward, Extracted, InPlace
  <2>2. Slot!Discard(Pruned)
    BY <1>9, <2>1 DEF Prune, End, Slot!Discard
  <2>3. QED
    BY <2>1, <2>2 DEF Slot!Next
<1>10. CASE SwapBack
  <2>1. prev \in disk
    BY <1>10 DEF SwapBack, UndoInv, RollbackPossible
  <2>2. Slot!Revert
    BY <1>10, <2>1 DEF SwapBack, Slot!Revert
  <2>3. QED
    BY <2>2 DEF Slot!Next
<1>11. CASE RunDies \/ PowerCut
  BY <1>11 DEF RunDies, PowerCut, End, Slot!Next, Slot!Settle
<1>12. QED
  BY <1>1, <1>2, <1>3, <1>4, <1>5, <1>6, <1>7, <1>8, <1>9, <1>10, <1>11, Steps
  DEF vars, Publish, ServiceDies, ServiceReturns

\* The updater implements ReleaseSlot: one trusted release in place at every
\* moment, upgrades only to newer ones, and one step back until settled.
THEOREM PromisesKept == ASSUME ~Retracts PROVE Spec => KeepsPromises
<1>1. Init => Slot!Init
  BY DEF Init, Slot!Init
<1>2. Init => TrustInv
  BY DEF Init, TrustInv, OnlyTrustedCode, CandidateVerified, Trustworthy
<1>3. Spec => []TrustInv
  BY <1>2, NextTrusted, TypeCorrect, PTL DEF Spec
<1>4. TypeOK /\ TrustInv /\ UndoInv /\ [Next]_vars => [Slot!Next]_(Slot!vars)
  BY StepKeepsPromises
<1>5. QED
  BY <1>1, <1>3, <1>4, Undoable, TypeCorrect, PTL DEF Spec, KeepsPromises, Slot!Spec

-----------------------------------------------------------------------------
\* Why a failed release is not tried again, as long as the server only moves
\* forward: it stays on disk, where extract_release refuses it, or has been
\* pruned because the release in place, and the one to go back to, are newer.
Failed(v) == status[v] = "rolled_back"

PutAside(v, place) == v # place /\ (v \in disk \/ v < place)

TriedInv ==
  /\ \A v \in Versions : Active(v) => v \in disk
  /\ pc \in {"restart", "check", "prune", "swap_back", "roll_back"} =>
       \A v \in Versions : Active(v) => v = cand
  /\ \A v \in Versions : Failed(v) => PutAside(v, current)
  /\ pc \in {"swap", "activate", "restart", "check", "swap_back", "roll_back"} =>
       \A v \in Versions : Failed(v) => PutAside(v, prev)
  /\ pc \in {"stage", "swap"} => ~Failed(cand)
  /\ pc \in {"verify", "extract", "stage", "swap"} => ~Active(cand)
  /\ pc = "roll_back" => current = prev

LEMMA NextTried ==
  ASSUME TypeOK, UndoInv, TriedInv, [Next]_vars PROVE TriedInv'
<1> USE DEF TriedInv, PutAside, Failed, Active, store, machine, run
<1>0. /\ cand \in Int /\ current \in Int /\ prev \in Int
      /\ \A v \in Versions : v \in Int
  BY DEF TypeOK, Versions
<1>1. CASE UNCHANGED <<disk, current, status, pc, cand, prev>>
  BY <1>1
<1>2. ASSUME NEW s \in Services, Restart(s) PROVE TriedInv'
  BY <1>2 DEF Restart
<1>3. CASE StartRun \/ Verify
  <2>1. CASE StartRun
    <3>1. ~Active(offered)
      BY <2>1 DEF StartRun, Newer, TypeOK, Versions
    <3> QED
      BY <2>1, <3>1 DEF StartRun, Idle
  <2> QED
    BY <1>3, <2>1 DEF Verify, End
<1>4. CASE Extract
  <2>1. CASE AlreadyExtracted
    BY <1>4, <2>1 DEF Extract, End
  <2>2. CASE ~AlreadyExtracted
    <3>1. cand \notin disk /\ current <= cand /\ cand \in Versions
      BY <2>2 DEF AlreadyExtracted, UndoInv, MovesForward, RollbackPossible, TypeOK
    <3>2. ~Failed(cand) /\ ~Active(cand)
      BY <1>0, <3>1
    <3>3. disk' = disk \cup {cand} /\ pc' = "stage" /\ UNCHANGED <<current, status, cand, prev>>
      BY <1>4, <2>2 DEF Extract
    <3> QED
      BY <3>2, <3>3
  <2> QED
    BY <2>1, <2>2
<1>5. CASE Stage
  <2>1. \A v \in Versions : (Active(v)' => Active(v)) /\ (Failed(v)' <=> Failed(v))
    BY <1>5 DEF Stage, TypeOK
  <2>2. cand \in Versions
    BY DEF TypeOK
  <2> QED
    BY <1>5, <2>1, <2>2 DEF Stage, PreviousVersion
<1>6. CASE Swap
  <2>1. current < cand /\ cand \in Versions
    BY <1>6 DEF Swap, UndoInv, InPlace, TypeOK
  <2>2. \A v \in Versions : Failed(v) => PutAside(v, cand)
    BY <1>0, <1>6, <2>1 DEF Swap
  <2> QED
    BY <1>6, <2>2 DEF Swap
<1>7. CASE Activate
  <2>1. \A v \in Versions : (Active(v)' => v = cand) /\ (Failed(v)' => Failed(v))
    BY <1>7 DEF Activate, Promoted, TypeOK
  <2>2. cand \in disk
    BY <1>7 DEF Activate, UndoInv, Extracted
  <2> QED
    BY <1>7, <2>1, <2>2 DEF Activate
<1>8. CASE Check
  BY <1>8 DEF Check
<1>9. CASE Prune
  <2>1. cand \notin Pruned /\ current = cand /\ \A v \in disk : v <= cand
    BY <1>9, NewestKept DEF Prune, UndoInv, Extracted, InPlace, MovesForward
  <2>2. \A v \in Versions : Active(v) => v = cand
    BY <1>9 DEF Prune
  <2>3. \A v \in Versions : Failed(v) => v # cand /\ v < cand
    BY <1>0, <2>1
  <2>4. disk' = disk \ Pruned /\ pc' = "idle" /\ UNCHANGED <<current, status, cand, prev>>
    BY <1>9 DEF Prune, End
  <2> QED
    BY <2>1, <2>2, <2>3, <2>4
<1>10. CASE SwapBack
  <2>1. prev \in disk
    BY <1>10 DEF SwapBack, UndoInv, RollbackPossible
  <2> QED
    BY <1>10, <2>1 DEF SwapBack
<1>11. CASE RollBack
  <2>1. CASE status' = status /\ pc' = "idle"
    BY <1>11, <2>1 DEF RollBack, RestartAgain, End
  <2>2. CASE status' = RolledBackTo(prev) /\ pc' = "restart_back"
    <3>1. current = prev /\ prev \in disk /\ UNCHANGED <<disk, current, cand, prev>>
      BY <1>11 DEF RollBack, RestartAgain, End, UndoInv, RollbackPossible
    <3>2. \A v \in Versions : Active(v)' => v = prev
      BY <2>2 DEF RolledBackTo, TypeOK
    <3>3. \A v \in Versions : Failed(v)' => v # prev /\ (Active(v) \/ Failed(v))
      BY <2>2 DEF RolledBackTo, TypeOK
    <3>4. \A v \in Versions : Failed(v)' => PutAside(v, current)
      BY <3>1, <3>3
    <3> QED
      BY <2>2, <3>1, <3>2, <3>4
  <2> QED
    BY <1>11, <2>1, <2>2 DEF RollBack, RestartAgain, End
<1>12. CASE RunDies \/ PowerCut
  BY <1>12 DEF RunDies, PowerCut, End
<1> QED
  BY <1>1, <1>2, <1>3, <1>4, <1>5, <1>6, <1>7, <1>8, <1>9, <1>10, <1>11, <1>12, Steps
  DEF vars, Publish, ServiceDies, ServiceReturns

\* A release that failed its health check is never switched to again, however
\* often it is offered, whatever is pruned and interrupted in between.
THEOREM FailedOnce == ASSUME ~Retracts PROVE Spec => NoSecondTry
<1> DEFINE NotAgain == \A v \in Versions :
             status[v] \in {"rolled_back", "active"} /\ current # v => current' # v
<1>1. Init => TriedInv
  BY DEF Init, TriedInv, Active, Failed
<1>2. TypeOK /\ UndoInv /\ TriedInv /\ [Next]_vars => TriedInv'
  BY NextTried
<1>3. TypeOK /\ UndoInv /\ TriedInv /\ [Next]_vars => [NotAgain]_vars
  <2> SUFFICES ASSUME TypeOK, UndoInv, TriedInv, [Next]_vars PROVE NotAgain
    OBVIOUS
  <2>1. CASE Swap
    BY <2>1 DEF Swap, TriedInv, Failed, Active
  <2>2. CASE SwapBack
    <3>1. current = cand /\ \A v \in Versions : Active(v) => v = cand
      BY <2>2 DEF SwapBack, TriedInv, UndoInv, InPlace
    <3> QED
      BY <2>2, <3>1 DEF SwapBack, TriedInv, Failed, Active, PutAside
  <2>3. CASE current' = current
    BY <2>3
  <2>4. current' = current \/ Swap \/ SwapBack
    BY Steps DEF vars, store, machine, run, Publish, ServiceDies, ServiceReturns, StartRun,
       Verify, Extract, Stage, Activate, Restart, Check, Prune, RollBack, RunDies, PowerCut
  <2> QED
    BY <2>1, <2>2, <2>3, <2>4
<1> QED
  BY <1>1, <1>2, <1>3, Undoable, TypeCorrect, PTL DEF Spec, NoSecondTry

-----------------------------------------------------------------------------
\* Why the services run what the symlink names: each is restarted after the
\* symlink last moved, unless the rollback could not be recorded: then the
\* symlink is back at the release without a row, which is still on disk, and
\* the services run the candidate, which the ledger calls active.
PlaceInv ==
  /\ Unrecorded(current) => current \in disk
  /\ pc = "stage" /\ Unrecorded(current) => cand # current
  /\ pc \in {"swap", "activate", "restart", "check", "prune", "swap_back"} => ~Unrecorded(cand)
  /\ pc \in {"activate", "restart", "check", "prune", "swap_back"} => current = cand
  /\ pc \in {"restart", "check", "prune", "swap_back", "roll_back"} => Active(cand)
  /\ pc = "roll_back" => current = prev

RunsCurrent(s) == running[s] = current
LeftBehind(s) == Unrecorded(current) /\ Active(running[s])

RestartedInv ==
  /\ clean /\ pc \in {"idle", "verify", "extract", "stage", "swap"} =>
       \A s \in Services : RunsCurrent(s) \/ LeftBehind(s)
  /\ pc \in {"check", "prune", "swap_back"} => \A s \in Services : RunsCurrent(s)
  /\ pc \in {"restart", "restart_back"} => \A s \in Services \ togo : RunsCurrent(s)
  /\ pc = "roll_back" => \A s \in Services : RunsCurrent(s) \/ running[s] = cand

LEMMA NextPlace == ASSUME TypeOK, PlaceInv, [Next]_vars PROVE PlaceInv'
<1> USE DEF PlaceInv, Unrecorded, Active, store, machine, run
<1>1. CASE UNCHANGED <<disk, current, status, pc, cand, prev>>
  BY <1>1
<1>2. ASSUME NEW s \in Services, Restart(s) PROVE PlaceInv'
  BY <1>2 DEF Restart
<1>3. CASE StartRun \/ Verify \/ Extract
  BY <1>3 DEF StartRun, Verify, Extract, AlreadyExtracted, End, Idle
<1>4. CASE Stage
  BY <1>4 DEF Stage, PreviousVersion, TypeOK
<1>5. CASE Swap
  BY <1>5 DEF Swap
<1>6. CASE Activate
  BY <1>6 DEF Activate, Promoted, TypeOK
<1>7. CASE Check \/ Prune \/ SwapBack
  BY <1>7 DEF Check, Prune, SwapBack, End
<1>8. CASE RollBack
  BY <1>8 DEF RollBack, RolledBackTo, RestartAgain, End, TypeOK
<1>9. CASE RunDies \/ PowerCut
  BY <1>9 DEF RunDies, PowerCut, End
<1> QED
  BY <1>1, <1>2, <1>3, <1>4, <1>5, <1>6, <1>7, <1>8, <1>9, Steps
  DEF vars, Publish, ServiceDies, ServiceReturns

LEMMA NextRestarted == ASSUME TypeOK, PlaceInv, RestartedInv, [Next]_vars PROVE RestartedInv'
<1> USE DEF RestartedInv, RunsCurrent, LeftBehind, Unrecorded, Active, store, machine, run
<1>1. CASE UNCHANGED <<current, status, running, pc, cand, togo, clean>>
  BY <1>1
<1>2. ASSUME NEW s \in Services, ServiceReturns(s) PROVE RestartedInv'
  BY <1>2 DEF ServiceReturns, TypeOK
<1>3. ASSUME NEW s \in Services, Restart(s) PROVE RestartedInv'
  <2>1. \A t \in Services \ togo' : RunsCurrent(t)'
    BY <1>3 DEF Restart, TypeOK
  <2>2. pc' \in {"idle", "check"} => togo' = {}
    BY <1>3 DEF Restart
  <2>3. pc' \in {"idle", "check", "restart", "restart_back"}
    BY <1>3 DEF Restart
  <2> QED
    BY <2>1, <2>2, <2>3
<1>4. CASE StartRun \/ Verify \/ Extract \/ Swap \/ Check
  BY <1>4 DEF StartRun, Verify, Extract, Swap, Check, End, Idle
<1>5. CASE Stage
  <2>1. \A s \in Services : running[s] \in Versions
    BY DEF TypeOK
  <2>2. Unrecorded(current) => Unrecorded(current)'
    BY <1>5 DEF Stage, PlaceInv, TypeOK
  <2>3. \A v \in Versions : Active(v) => Active(v)'
    BY <1>5 DEF Stage, TypeOK
  <2> QED
    BY <1>5, <2>1, <2>2, <2>3 DEF Stage
<1>6. CASE Activate
  BY <1>6 DEF Activate
<1>7. CASE Prune
  BY <1>7 DEF Prune, End
<1>8. CASE SwapBack
  BY <1>8 DEF SwapBack, PlaceInv, End
<1>9. CASE RollBack
  BY <1>9 DEF RollBack, RestartAgain, PlaceInv, End
<1>10. CASE RunDies \/ PowerCut
  BY <1>10 DEF RunDies, PowerCut, End
<1> QED
  BY <1>1, <1>2, <1>3, <1>4, <1>5, <1>6, <1>7, <1>8, <1>9, <1>10, Steps
  DEF vars, Publish, ServiceDies

\* Between runs that were not interrupted every service runs the release in
\* place; only after a rollback that could not be recorded, to the release
\* without a row, may one still run the release the ledger calls active.
THEOREM CurrentIsRun == Spec => []ServicesRunCurrent
<1>1. Init => PlaceInv /\ RestartedInv
  BY InstalledAssumption DEF Init, PlaceInv, RestartedInv, RunsCurrent, Active
<1>2. TypeOK /\ PlaceInv /\ RestartedInv /\ [Next]_vars => PlaceInv' /\ RestartedInv'
  BY NextPlace, NextRestarted
<1>3. RestartedInv => ServicesRunCurrent
  BY DEF RestartedInv, ServicesRunCurrent, RunsCurrent, LeftBehind, Idle
<1> QED
  BY <1>1, <1>2, <1>3, TypeCorrect, PTL DEF Spec

-----------------------------------------------------------------------------
(* StrategySync.                                                           *)

\* Only a finished sync is reported; a bot mirrored is not dropped.
PhaseInv ==
  /\ wpc = "idle" => selected = {}
  /\ synced => wpc = "cycle" /\ todo = {}
  /\ wpc = "drop" => todo \intersect selected = {}

\* What each process may activate, it may because the owner chose it.
ChosenInv ==
  /\ OnlyChosenBots
  /\ \A s \in Slugs : site[s] > 0 \/ answer[s] > 0 \/ s \in ticked => s \in chosen
  /\ wpc = "mirror" => \A s \in todo \union inHand : answer[s] > 0
  /\ \A s \in merging : existing.source = "monstra.pro" /\ (existing.active => s \in chosen)

\* A local row that is about to be written was switched in between.
RacedInv == \A s \in Slugs : Held(s) /\ rows[s].source = "local" => s \in raced

\* The row of a bot the worker mirrored, unless the page took it.
AsAnswered(s) ==
  \/ rows[s].source = "local"
  \/ rows[s] = [source |-> "monstra.pro", active |-> TRUE, settings |-> answer[s]]

\* Bots already mirrored are as answered; rows to drop are the other active ones.
MirrorInv ==
  /\ wpc # "cycle" \/ synced =>
       \A s \in selected \ merged : AsAnswered(s)
  /\ wpc = "drop" \/ synced =>
       \A s \in Slugs \ merged :
         rows[s].source = "monstra.pro" /\ rows[s].active => s \in selected \union todo

-----------------------------------------------------------------------------
\* Type: the flag apart from the rest.  Only the mirroring phase has a bot in hand.
FlagTyped == synced \in BOOLEAN

DataTyped ==
  /\ site \in [Slugs -> 0..Revisions] /\ answer \in [Slugs -> 0..Revisions]
  /\ rows \in [Slugs -> Rows] /\ listed \in [Slugs -> Rows] /\ existing \in Rows
  /\ \A s \in Slugs : rows[s].source = "none" => ~rows[s].active
  /\ wpc \in {"idle", "mirror", "drop", "cycle"}
  /\ todo \subseteq Slugs /\ selected \subseteq Slugs /\ inHand \subseteq Slugs \ todo
  /\ wpc # "mirror" => inHand = {}
  /\ pushing \subseteq Slugs /\ merging \subseteq Slugs \ pushing
  /\ switching \subseteq Engines /\ ticked \subseteq Engines
  /\ chosen \subseteq Slugs /\ raced \subseteq Slugs /\ merged \subseteq Slugs

\* An upsert replaces one row, and only that one.
LEMMA UpsertReplaces ==
  ASSUME rows \in [Slugs -> Rows], NEW s \in Slugs, NEW source \in {"local", "monstra.pro"},
         NEW active \in BOOLEAN, NEW settings \in 0..Revisions,
         rows' = Upserted(s, source, active, settings)
  PROVE  /\ rows' \in [Slugs -> Rows]
         /\ rows'[s] = [source |-> source, active |-> active, settings |-> settings]
         /\ \A t \in Slugs \ {s} : rows'[t] = rows[t]
  BY DEF Upserted, Rows

\* What a process holds or was answered, and the form, stay typed whoever acts.
LEMMA DataStep == DataTyped /\ FlagTyped /\ [SyncNext]_syncVars => DataTyped'
<1> SUFFICES ASSUME DataTyped, FlagTyped, [SyncNext]_syncVars PROVE DataTyped'
  OBVIOUS
<1> USE EnginesAssumption
<1>1. ASSUME NEW s \in Slugs, NEW source \in {"local", "monstra.pro"}, NEW active \in BOOLEAN,
             NEW settings \in 0..Revisions, rows' = Upserted(s, source, active, settings)
      PROVE  /\ rows' \in [Slugs -> Rows]
             /\ \A t \in Slugs : rows'[t].source = "none" => ~rows'[t].active
  <2>1. rows \in [Slugs -> Rows] /\ \A t \in Slugs : rows[t].source = "none" => ~rows[t].active
    BY DEF DataTyped
  <2>2. /\ rows' \in [Slugs -> Rows]
        /\ rows'[s] = [source |-> source, active |-> active, settings |-> settings]
        /\ \A t \in Slugs \ {s} : rows'[t] = rows[t]
    BY <1>1, <2>1, UpsertReplaces
  <2>3. rows'[s].source # "none"
    BY <2>2
  <2> QED
    BY <2>1, <2>2, <2>3
<1>2. CASE BeginSync
  BY <1>2 DEF BeginSync, DataTyped, updater, page
<1>3. CASE ListRows
  BY <1>3 DEF ListRows, RowsToDrop, DataTyped, updater, page
<1>4. CASE EndSync
  BY <1>4 DEF EndSync, DataTyped, updater, page
<1>5. CASE EndTick \/ SyncFails \/ WorkerDies
  <2>1. NoRow \in Rows /\ 0 \in 0..Revisions
    BY RevisionsAssumption DEF NoRow, Rows
  <2> QED
    BY <1>5, <2>1 DEF EndTick, SyncFails, WorkerDies, WorkerRests, DataTyped, updater, page
<1>6. ASSUME NEW s \in Slugs, ReadBot(s) PROVE DataTyped'
  BY <1>6 DEF ReadBot, DataTyped, updater, page
<1>7. ASSUME NEW s \in Slugs, WriteBot(s) PROVE DataTyped'
  <2>1. answer[s] \in 0..Revisions
    BY <1>7 DEF DataTyped
  <2> QED
    BY <1>7, <1>1, <2>1 DEF WriteBot, DataTyped, updater, page
<1>8. ASSUME NEW s \in Slugs, DropRow(s) PROVE DataTyped'
  <2>1. listed[s].settings \in 0..Revisions
    BY <1>8 DEF DataTyped, Rows
  <2> QED
    BY <1>8, <1>1, <2>1 DEF DropRow, DataTyped, updater, page
<1>9. ASSUME NEW S \in SUBSET Slugs, BeginPush(S) PROVE DataTyped'
  BY <1>9 DEF BeginPush, DataTyped, worker, page
<1>10. ASSUME NEW s \in Slugs, ReadMergee(s) PROVE DataTyped'
  BY <1>10 DEF ReadMergee, DataTyped, worker, page
<1>11. ASSUME NEW s \in Slugs, WriteMergee(s) PROVE DataTyped'
  <2>1. (existing.active \/ existing.source = "none") \in BOOLEAN /\ 0 \in 0..Revisions
    BY RevisionsAssumption
  <2>2. NoRow \in Rows
    BY <2>1 DEF NoRow, Rows
  <2> QED
    BY <1>11, <1>1, <2>1, <2>2 DEF WriteMergee, DataTyped, worker, page
<1>12. CASE UpdaterDies
  <2>1. NoRow \in Rows
    BY RevisionsAssumption DEF NoRow, Rows
  <2> QED
    BY <1>12, <2>1 DEF UpdaterDies, DataTyped, worker, page
<1>13. ASSUME NEW S \in SUBSET Engines, Submit(S) PROVE DataTyped'
  BY <1>13 DEF Submit, DataTyped, worker, updater
<1>14. ASSUME NEW s \in Slugs, Switch(s) PROVE DataTyped'
  <2>1. (s \in ticked) \in BOOLEAN /\ 0 \in 0..Revisions
    BY RevisionsAssumption
  <2> QED
    BY <1>14, <1>1, <2>1 DEF Switch, DataTyped, worker, updater
<1>15. CASE PageFails
  BY <1>15 DEF PageFails, DataTyped, worker, updater
<1>16. ASSUME NEW s \in Slugs, NEW r \in 0..Revisions, Choose(s, r) PROVE DataTyped'
  BY <1>16 DEF Choose, DataTyped, worker, updater, page
<1>17. CASE UNCHANGED syncVars
  BY <1>17 DEF DataTyped, syncVars, worker, updater, page
<1> QED
  BY <1>2, <1>3, <1>4, <1>5, <1>6, <1>7, <1>8, <1>9, <1>10, <1>11, <1>12, <1>13, <1>14, <1>15,
     <1>16, <1>17 DEF SyncNext, WorkerStep

\* Only the end of a sync, of a tick and of the worker touch the flag.
LEMMA FlagStep == FlagTyped /\ [SyncNext]_syncVars => FlagTyped'
  BY DEF FlagTyped, SyncNext, WorkerStep, BeginSync, ReadBot, WriteBot, ListRows, DropRow, EndSync, EndTick,
         SyncFails, WorkerDies, BeginPush, ReadMergee, WriteMergee, UpdaterDies, Submit, Switch,
         PageFails, Choose, syncVars, worker

LEMMA SyncInitTyped == SyncInit => DataTyped /\ FlagTyped
<1> SUFFICES ASSUME SyncInit PROVE DataTyped /\ FlagTyped
  OBVIOUS
<1>1. NoRow \in Rows /\ NoRow.active = FALSE /\ 0 \in 0..Revisions
  BY RevisionsAssumption DEF NoRow, Rows
<1>2. FlagTyped
  BY DEF SyncInit, FlagTyped
<1>3. /\ site = [s \in Slugs |-> 0] /\ answer = [s \in Slugs |-> 0]
      /\ rows = [s \in Slugs |-> NoRow] /\ listed = [s \in Slugs |-> NoRow] /\ existing = NoRow
      /\ wpc = "idle" /\ todo = {} /\ inHand = {} /\ selected = {}
      /\ pushing = {} /\ merging = {} /\ switching = {} /\ ticked = {}
      /\ chosen = {} /\ raced = {} /\ merged = {}
  BY DEF SyncInit
<1>4. DataTyped
  BY <1>1, <1>3 DEF DataTyped
<1> QED
  BY <1>2, <1>4

\* Every variable keeps its type (SyncTypeOK).
THEOREM SyncTypeCorrect == SyncSpec => []SyncTypeOK
<1>1. SyncInit => DataTyped /\ FlagTyped
  BY SyncInitTyped
<1>2. DataTyped /\ FlagTyped /\ [SyncNext]_syncVars => (DataTyped /\ FlagTyped)'
  BY DataStep, FlagStep
<1>3. DataTyped /\ FlagTyped => SyncTypeOK
  BY DEF DataTyped, FlagTyped, SyncTypeOK
<1> QED
  BY <1>1, <1>2, <1>3, PTL DEF SyncSpec

-----------------------------------------------------------------------------
\* A step leaves a row alone, or is one of the four that write it.
LEMMA WhoWrites ==
  ASSUME DataTyped, FlagTyped, [SyncNext]_syncVars, NEW s \in Slugs
  PROVE  \/ rows'[s] = rows[s]
         \/ WriteBot(s) /\ rows'[s] = [source |-> "monstra.pro", active |-> TRUE, settings |-> answer[s]]
         \/ DropRow(s) /\ rows'[s] = [source |-> "monstra.pro", active |-> FALSE, settings |-> listed[s].settings]
         \/ WriteMergee(s) /\ rows'[s] = [source |-> "monstra.pro",
                                          active |-> existing.active \/ existing.source = "none", settings |-> 0]
         \/ Switch(s) /\ rows'[s] = [source |-> "local", active |-> s \in ticked, settings |-> 0]
<1> DEFINE Same == rows'[s] = rows[s]
<1>1. rows \in [Slugs -> Rows]
  BY DEF DataTyped
<1>2. ASSUME NEW t \in Slugs, NEW row, rows' = [rows EXCEPT ![t] = row]
      PROVE  (t = s /\ rows'[s] = row) \/ Same
  BY <1>1, <1>2
<1>3. CASE UNCHANGED rows
  BY <1>3
<1>4. ASSUME NEW t \in Slugs, WriteBot(t)
      PROVE  \/ Same
             \/ WriteBot(s) /\ rows'[s] = [source |-> "monstra.pro", active |-> TRUE, settings |-> answer[s]]
  <2>1. t = s \/ Same
    BY <1>2, <1>4 DEF WriteBot, Upserted
  <2>2. CASE t = s
    BY <1>1, <1>4, <2>2 DEF WriteBot, Upserted
  <2> QED
    BY <2>1, <2>2
<1>5. ASSUME NEW t \in Slugs, DropRow(t)
      PROVE  \/ Same
             \/ DropRow(s) /\ rows'[s] = [source |-> "monstra.pro", active |-> FALSE,
                                          settings |-> listed[s].settings]
  <2>1. t = s \/ Same
    BY <1>2, <1>5 DEF DropRow, Upserted
  <2>2. CASE t = s
    BY <1>1, <1>5, <2>2 DEF DropRow, Upserted
  <2> QED
    BY <2>1, <2>2
<1>6. ASSUME NEW t \in Slugs, WriteMergee(t)
      PROVE  \/ Same
             \/ WriteMergee(s) /\ rows'[s] = [source |-> "monstra.pro",
                                              active |-> existing.active \/ existing.source = "none",
                                              settings |-> 0]
  <2>1. t = s \/ Same
    BY <1>2, <1>6 DEF WriteMergee, Upserted
  <2>2. CASE t = s
    BY <1>1, <1>6, <2>2 DEF WriteMergee, Upserted
  <2> QED
    BY <2>1, <2>2
<1>7. ASSUME NEW t \in Slugs, Switch(t)
      PROVE  \/ Same
             \/ Switch(s) /\ rows'[s] = [source |-> "local", active |-> s \in ticked, settings |-> 0]
  <2>1. t = s \/ Same
    BY <1>2, <1>7 DEF Switch, Upserted
  <2>2. CASE t = s
    BY <1>1, <1>7, <2>2 DEF Switch, Upserted
  <2> QED
    BY <2>1, <2>2
<1>8. \/ UNCHANGED rows
      \/ \E t \in Slugs : WriteBot(t) \/ DropRow(t) \/ WriteMergee(t) \/ Switch(t)
  BY DEF SyncNext, WorkerStep, BeginSync, ReadBot, ListRows, EndSync, EndTick, SyncFails, WorkerDies,
         BeginPush, ReadMergee, UpdaterDies, Submit, PageFails, Choose, syncVars
<1> QED
  BY <1>3, <1>4, <1>5, <1>6, <1>7, <1>8

\* The phases of the worker: its own steps; no one else's touches its variables.
LEMMA PhaseStep == DataTyped /\ FlagTyped /\ PhaseInv /\ [SyncNext]_syncVars => PhaseInv'
<1> SUFFICES ASSUME DataTyped, FlagTyped, PhaseInv, [SyncNext]_syncVars PROVE PhaseInv'
  OBVIOUS
<1>1. CASE UNCHANGED worker
  BY <1>1 DEF PhaseInv, worker
<1>2. CASE BeginSync \/ ListRows \/ EndSync
  BY <1>2 DEF BeginSync, ListRows, EndSync, RowsToDrop, PhaseInv
<1>3. CASE EndTick \/ SyncFails \/ WorkerDies
  BY <1>3 DEF EndTick, SyncFails, WorkerDies, WorkerRests, PhaseInv, FlagTyped
<1>4. ASSUME NEW s \in Slugs, ReadBot(s) PROVE PhaseInv'
  BY <1>4 DEF ReadBot, PhaseInv
<1>5. ASSUME NEW s \in Slugs, WriteBot(s) PROVE PhaseInv'
  BY <1>5 DEF WriteBot, PhaseInv
<1>6. ASSUME NEW s \in Slugs, DropRow(s) PROVE PhaseInv'
  BY <1>6 DEF DropRow, PhaseInv
<1> QED
  BY <1>1, <1>2, <1>3, <1>4, <1>5, <1>6
     DEF SyncNext, WorkerStep, BeginPush, ReadMergee, WriteMergee, UpdaterDies, Submit, Switch, PageFails,
         Choose, syncVars

Inv == DataTyped /\ FlagTyped /\ PhaseInv /\ ChosenInv /\ RacedInv /\ MirrorInv

LEMMA ChosenStep == DataTyped /\ FlagTyped /\ PhaseInv /\ ChosenInv /\ [SyncNext]_syncVars => ChosenInv'
<1> SUFFICES ASSUME DataTyped, FlagTyped, PhaseInv, ChosenInv, [SyncNext]_syncVars PROVE ChosenInv'
  OBVIOUS
<1>1. chosen \subseteq chosen'
  BY DEF SyncNext, WorkerStep, BeginSync, ReadBot, WriteBot, ListRows, DropRow, EndSync, EndTick,
         SyncFails, WorkerDies, BeginPush, ReadMergee, WriteMergee, UpdaterDies, Submit, Switch,
         PageFails, Choose, syncVars
<1>2. OnlyChosenBots'
  <2> SUFFICES ASSUME NEW s \in Slugs, rows'[s].active PROVE s \in chosen
    BY <1>1 DEF OnlyChosenBots
  <2>1. CASE rows'[s] = rows[s]
    BY <2>1 DEF ChosenInv, OnlyChosenBots
  <2>2. CASE WriteBot(s)
    BY <2>2 DEF WriteBot, ChosenInv
  <2>3. CASE DropRow(s) /\ rows'[s] = [source |-> "monstra.pro", active |-> FALSE, settings |-> listed[s].settings]
    <3>1. rows'[s].active = FALSE
      BY <2>3
    <3> QED
      BY <3>1
  <2>4. CASE WriteMergee(s) /\ rows'[s] = [source |-> "monstra.pro",
                                          active |-> existing.active \/ existing.source = "none", settings |-> 0]
    <3>1. PICK on : on = (existing.active \/ existing.source = "none")
      OBVIOUS
    <3>2. rows'[s] = [source |-> "monstra.pro", active |-> on, settings |-> 0]
      BY <2>4, <3>1, Zenon
    <3>3. rows'[s].active = on
      BY <3>2
    <3>4. s \in merging
      BY <2>4 DEF WriteMergee
    <3>5. existing.source # "none" /\ (existing.active => s \in chosen)
      BY <3>4 DEF ChosenInv
    <3> QED
      BY <3>1, <3>3, <3>5
  <2>5. CASE Switch(s) /\ rows'[s] = [source |-> "local", active |-> s \in ticked, settings |-> 0]
    <3>1. PICK on : on = (s \in ticked)
      OBVIOUS
    <3>2. rows'[s] = [source |-> "local", active |-> on, settings |-> 0]
      BY <2>5, <3>1, Zenon
    <3>3. rows'[s].active = on
      BY <3>2
    <3> QED
      BY <3>1, <3>3 DEF ChosenInv
  <2> QED
    BY <2>1, <2>2, <2>3, <2>4, <2>5, WhoWrites
<1>3. (\A s \in Slugs : site[s] > 0 \/ answer[s] > 0 \/ s \in ticked => s \in chosen)'
  <2>1. CASE \E S \in SUBSET Engines : Submit(S)
    BY <1>1, <2>1 DEF Submit, ChosenInv, worker
  <2>2. CASE \E s \in Slugs, r \in 0..Revisions : Choose(s, r)
    BY <1>1, <2>2 DEF Choose, ChosenInv, worker, page, DataTyped
  <2>3. CASE BeginSync
    BY <1>1, <2>3 DEF BeginSync, ChosenInv, page
  <2>4. CASE EndTick \/ SyncFails \/ WorkerDies
    BY <1>1, <2>4 DEF EndTick, SyncFails, WorkerDies, WorkerRests, ChosenInv, page
  <2>5. CASE UNCHANGED <<site, answer, ticked>>
    BY <1>1, <2>5 DEF ChosenInv
  <2> QED
    BY <2>1, <2>2, <2>3, <2>4, <2>5
       DEF SyncNext, WorkerStep, ReadBot, WriteBot, ListRows, DropRow, EndSync, BeginPush, ReadMergee,
           WriteMergee, UpdaterDies, Switch, PageFails, syncVars, worker, page
<1>4. (wpc = "mirror" => \A s \in todo \union inHand : answer[s] > 0)'
  <2>1. CASE UNCHANGED worker
    BY <2>1 DEF ChosenInv, worker
  <2>2. CASE BeginSync
    BY <2>2 DEF BeginSync, DataTyped
  <2>3. CASE \E s \in Slugs : ReadBot(s) \/ WriteBot(s) \/ DropRow(s)
    BY <2>3 DEF ReadBot, WriteBot, DropRow, ChosenInv
  <2>4. CASE ListRows \/ EndSync \/ EndTick \/ SyncFails \/ WorkerDies
    BY <2>4 DEF ListRows, EndSync, EndTick, SyncFails, WorkerDies
  <2> QED
    BY <2>1, <2>2, <2>3, <2>4
       DEF SyncNext, WorkerStep, BeginPush, ReadMergee, WriteMergee, UpdaterDies, Submit, Switch, PageFails,
           Choose, syncVars
<1>5. (\A s \in merging : existing.source = "monstra.pro" /\ (existing.active => s \in chosen))'
  <2>1. CASE UNCHANGED updater
    BY <1>1, <2>1 DEF ChosenInv, updater
  <2>2. ASSUME NEW s \in Slugs, ReadMergee(s)
        PROVE  \A t \in merging' : existing'.source = "monstra.pro" /\ (existing'.active => t \in chosen)
    BY <2>2 DEF ReadMergee, MayMerge, ChosenInv, OnlyChosenBots
  <2>3. CASE UpdaterDies \/ \E s \in Slugs : WriteMergee(s)
    BY <2>3 DEF UpdaterDies, WriteMergee
  <2>4. CASE \E S \in SUBSET Slugs : BeginPush(S)
    BY <1>1, <2>4 DEF BeginPush, ChosenInv
  <2> QED
    BY <1>1, <2>1, <2>2, <2>3, <2>4
       DEF SyncNext, WorkerStep, BeginSync, ReadBot, WriteBot, ListRows, DropRow, EndSync, EndTick,
           SyncFails, WorkerDies, Submit, Switch, PageFails, Choose, syncVars
<1> QED
  BY <1>2, <1>3, <1>4, <1>5 DEF ChosenInv

LEMMA RacedStep == DataTyped /\ FlagTyped /\ RacedInv /\ [SyncNext]_syncVars => RacedInv'
<1> SUFFICES ASSUME DataTyped, FlagTyped, RacedInv, [SyncNext]_syncVars,
                    NEW s \in Slugs, Held(s)', rows'[s].source = "local"
             PROVE  s \in raced'
  BY DEF RacedInv
<1>1. rows[s].source = "local" \/ Switch(s)
  <2>1. CASE rows'[s] = rows[s]
    BY <2>1
  <2>2. ASSUME NEW on, NEW settings,
               rows'[s] = [source |-> "monstra.pro", active |-> on, settings |-> settings]
        PROVE  FALSE
    BY <2>2
  <2>3. rows'[s] = rows[s] \/ Switch(s)
    BY <2>2, WhoWrites, Zenon
  <2> QED
    BY <2>1, <2>3
<1>2. CASE \E t \in Slugs : Switch(t)
  <2>1. PICK t \in Slugs : Switch(t)
    BY <1>2
  <2>2. Held(s)
    BY <2>1 DEF Switch, Held, worker, updater
  <2>3. CASE t = s
    BY <2>1, <2>2, <2>3 DEF Switch
  <2>4. CASE t # s
    <3>1. rows'[s] = rows[s]
      BY <2>1, <2>4 DEF Switch, Upserted, DataTyped
    <3>2. s \in raced
      BY <2>2, <3>1 DEF RacedInv
    <3> QED
      BY <2>1, <2>4, <3>2 DEF Switch
  <2> QED
    BY <2>3, <2>4
<1>3. CASE ~\E t \in Slugs : Switch(t)
  <2>1. raced' = raced
    BY <1>3 DEF SyncNext, WorkerStep, BeginSync, ReadBot, WriteBot, ListRows, DropRow, EndSync, EndTick,
                SyncFails, WorkerDies, BeginPush, ReadMergee, WriteMergee, UpdaterDies, Submit,
                PageFails, Choose, syncVars
  <2>2. rows[s].source = "local"
    BY <1>1, <1>3
  <2>3. Held(s)
    <3>1. CASE BeginSync \/ ListRows \/ EndSync
      BY <3>1, <2>2 DEF BeginSync, ListRows, EndSync, RowsToDrop, Held, updater
    <3>2. CASE EndTick \/ SyncFails \/ WorkerDies
      BY <3>2 DEF EndTick, SyncFails, WorkerDies, WorkerRests, Held, updater
    <3>3. CASE \E t \in Slugs : ReadBot(t) \/ WriteBot(t) \/ DropRow(t)
      BY <3>3, <2>2 DEF ReadBot, WriteBot, DropRow, MustSkip, Held, updater
    <3>4. CASE UpdaterDies \/ \E t \in Slugs : ReadMergee(t) \/ WriteMergee(t)
      BY <3>4, <2>2 DEF ReadMergee, WriteMergee, UpdaterDies, MayMerge, Held, worker
    <3>5. CASE UNCHANGED <<worker, merging>>
      BY <3>5 DEF Held, worker
    <3> QED
      BY <1>3, <3>1, <3>2, <3>3, <3>4, <3>5
         DEF SyncNext, WorkerStep, BeginPush, Submit, PageFails, Choose, syncVars, updater
  <2> QED
    BY <2>1, <2>2, <2>3 DEF RacedInv
<1> QED
  BY <1>2, <1>3

LEMMA MirrorStep == DataTyped /\ FlagTyped /\ PhaseInv /\ MirrorInv /\ [SyncNext]_syncVars => MirrorInv'
<1> SUFFICES ASSUME DataTyped, FlagTyped, PhaseInv, MirrorInv, [SyncNext]_syncVars PROVE MirrorInv'
  OBVIOUS
<1> DEFINE Kept == wpc # "cycle" \/ synced => \A s \in selected \ merged : AsAnswered(s)
           Rest == wpc = "drop" \/ synced =>
                     \A s \in Slugs \ merged :
                       rows[s].source = "monstra.pro" /\ rows[s].active => s \in selected \union todo
<1>1. (MirrorInv <=> Kept /\ Rest) /\ (MirrorInv' <=> Kept' /\ Rest')
  BY DEF MirrorInv
<1>2. Kept /\ Rest
  BY <1>1
<1>3. CASE UNCHANGED <<worker, rows, merged>>
  BY <1>1, <1>2, <1>3 DEF worker, AsAnswered
<1>4. CASE BeginSync
  <2>1. selected' = {} /\ wpc' = "mirror" /\ synced' = FALSE
    BY <1>4 DEF BeginSync, PhaseInv, FlagTyped
  <2> QED
    BY <1>1, <2>1
<1>5. ASSUME NEW t \in Slugs, ReadBot(t) PROVE MirrorInv'
  BY <1>1, <1>2, <1>5 DEF ReadBot, AsAnswered, PhaseInv
<1>6. ASSUME NEW t \in Slugs, WriteBot(t) PROVE MirrorInv'
  <2>1. /\ \A s \in Slugs \ {t} : rows'[s] = rows[s]
        /\ rows'[t] = [source |-> "monstra.pro", active |-> TRUE, settings |-> answer[t]]
        /\ selected' = selected \union {t} /\ UNCHANGED <<wpc, answer, merged, synced>>
        /\ wpc = "mirror"
    BY <1>6 DEF WriteBot, Upserted, DataTyped
  <2>2. Kept'
    BY <1>2, <2>1 DEF AsAnswered, DataTyped
  <2>3. synced = FALSE
    BY <2>1 DEF PhaseInv, FlagTyped
  <2> QED
    BY <1>1, <2>1, <2>2, <2>3
<1>7. CASE ListRows
  <2>1. Kept'
    BY <1>2, <1>7 DEF ListRows, AsAnswered
  <2>2. Rest'
    BY <1>7 DEF ListRows, RowsToDrop
  <2> QED
    BY <1>1, <2>1, <2>2
<1>8. ASSUME NEW t \in Slugs, DropRow(t) PROVE MirrorInv'
  <2>1. /\ \A s \in Slugs \ {t} : rows'[s] = rows[s]
        /\ rows'[t] = [source |-> "monstra.pro", active |-> FALSE, settings |-> listed[t].settings]
        /\ todo' = todo \ {t} /\ UNCHANGED <<wpc, answer, selected, merged, synced>>
        /\ wpc = "drop" /\ t \in todo
    BY <1>8 DEF DropRow, Upserted, DataTyped
  <2>2. t \notin selected
    BY <2>1 DEF PhaseInv
  <2>3. Kept'
    BY <1>2, <2>1, <2>2 DEF AsAnswered, DataTyped
  <2>4. rows'[t].active = FALSE
    BY <2>1
  <2>5. Rest'
    BY <1>2, <2>1, <2>4
  <2> QED
    BY <1>1, <2>3, <2>5
<1>9. CASE EndSync
  BY <1>1, <1>2, <1>9 DEF EndSync, AsAnswered
<1>10. CASE EndTick \/ SyncFails \/ WorkerDies
  <2>1. /\ selected' = {} /\ synced' = FALSE /\ wpc' # "drop"
        /\ UNCHANGED <<rows, merged>>
    BY <1>10 DEF EndTick, SyncFails, WorkerDies, WorkerRests, PhaseInv, FlagTyped
  <2> QED
    BY <1>1, <2>1
<1>11. ASSUME NEW t \in Slugs, WriteMergee(t) PROVE MirrorInv'
  <2>1. /\ \A s \in Slugs \ {t} : rows'[s] = rows[s]
        /\ UNCHANGED worker
        /\ merged' = merged \union {b \in {t} : Settled(b)}
    BY <1>11 DEF WriteMergee, Upserted, DataTyped
  <2>2. wpc # "mirror" \/ t \in selected => t \in merged' \/ (wpc = "drop" /\ t \in todo) \/ wpc = "idle"
    BY <2>1 DEF Settled, DataTyped
  <2>3. Kept'
    BY <1>2, <2>1, <2>2 DEF AsAnswered, DataTyped, PhaseInv, worker
  <2>4. Rest'
    BY <1>2, <2>1, <2>2 DEF PhaseInv, worker
  <2> QED
    BY <1>1, <2>3, <2>4
<1>12. ASSUME NEW t \in Slugs, Switch(t) PROVE MirrorInv'
  <2>1. /\ \A s \in Slugs \ {t} : rows'[s] = rows[s]
        /\ rows'[t].source = "local"
        /\ UNCHANGED <<worker, merged>>
    BY <1>12 DEF Switch, Upserted, DataTyped
  <2>2. Kept'
    BY <1>2, <2>1 DEF AsAnswered, DataTyped, worker
  <2>3. Rest'
    BY <1>2, <2>1 DEF worker
  <2> QED
    BY <1>1, <2>2, <2>3
<1> QED
  BY <1>3, <1>4, <1>5, <1>6, <1>7, <1>8, <1>9, <1>10, <1>11, <1>12
     DEF SyncNext, WorkerStep, BeginPush, ReadMergee, UpdaterDies, Submit, PageFails, Choose, syncVars

-----------------------------------------------------------------------------
LEMMA Invariance == SyncSpec => []Inv
<1>1. SyncInit => Inv
  <2> SUFFICES ASSUME SyncInit PROVE Inv
    OBVIOUS
  <2>1. DataTyped /\ FlagTyped
    BY SyncInitTyped
  <2>2. PhaseInv /\ RacedInv
    BY DEF SyncInit, PhaseInv, RacedInv, Held
  <2>3. \A s \in Slugs : rows[s].active = FALSE
    BY DEF SyncInit, NoRow
  <2>4. ChosenInv
    BY <2>3 DEF SyncInit, ChosenInv, OnlyChosenBots
  <2>5. MirrorInv
    BY DEF SyncInit, MirrorInv
  <2> QED
    BY <2>1, <2>2, <2>4, <2>5 DEF Inv
<1>2. Inv /\ [SyncNext]_syncVars => Inv'
  BY DataStep, FlagStep, PhaseStep, ChosenStep, RacedStep, MirrorStep DEF Inv
<1> QED
  BY <1>1, <1>2, PTL DEF SyncSpec

\* No push, drop or late write activates a bot the owner never chose.
THEOREM OnlyChosenBotsRun == SyncSpec => []OnlyChosenBots
<1>1. Inv => OnlyChosenBots
  BY DEF Inv, ChosenInv
<1> QED
  BY <1>1, Invariance, PTL

\* After a successful sync the active mirrored rows are the selection it was
\* answered, but for bots the updater wrote late.
THEOREM SyncMirrors == SyncSpec => []MirrorsAnswer
<1>1. Inv => MirrorsAnswer
  <2> SUFFICES ASSUME Inv, wpc = "cycle", synced, NEW s \in Slugs \ merged
               PROVE  /\ rows[s].source = "monstra.pro" /\ rows[s].active =>
                           s \in selected /\ rows[s].settings = answer[s]
                      /\ s \in selected => rows[s].source = "local" \/ rows[s].active
    BY DEF MirrorsAnswer
  <2>1. todo = {}
    BY DEF Inv, PhaseInv
  <2>2. s \in selected => AsAnswered(s)
    BY DEF Inv, MirrorInv
  <2>3. rows[s].source = "monstra.pro" /\ rows[s].active => s \in selected
    BY <2>1 DEF Inv, MirrorInv
  <2> QED
    BY <2>2, <2>3 DEF AsAnswered
<1> QED
  BY <1>1, Invariance, PTL

\* A row of the page is lost only to a process that was about to write it when
\* the page was submitted.
THEOREM LocalRowsLostOnlyInRaces == SyncSpec => LocalOnlyRaced
<1> DEFINE Lost == \E s \in Slugs : rows[s].source = "local" /\ rows'[s].source # "local" /\ s \notin raced
<1>1. Inv /\ [SyncNext]_syncVars => ~Lost
  <2> SUFFICES ASSUME Inv, [SyncNext]_syncVars, NEW s \in Slugs,
                      rows[s].source = "local", rows'[s].source # "local"
               PROVE  s \in raced
    OBVIOUS
  <2>1. DataTyped /\ FlagTyped /\ RacedInv
    BY DEF Inv
  <2>2. rows'[s] # rows[s]
    OBVIOUS
  <2>3. ASSUME rows'[s] = [source |-> "local", active |-> s \in ticked, settings |-> 0] PROVE FALSE
    <3>1. PICK on : on = (s \in ticked)
      OBVIOUS
    <3>2. rows'[s] = [source |-> "local", active |-> on, settings |-> 0]
      BY <2>3, <3>1, Zenon
    <3> QED
      BY <3>2
  <2>4. WriteBot(s) \/ DropRow(s) \/ WriteMergee(s)
    BY <2>1, <2>2, <2>3, WhoWrites, Zenon
  <2>5. Held(s)
    BY <2>4 DEF WriteBot, DropRow, WriteMergee, Held
  <2> QED
    BY <2>1, <2>5 DEF RacedInv
<1>2. ~Lost => \A s \in Slugs : rows[s].source = "local" /\ rows'[s].source # "local" => s \in raced
  OBVIOUS
<1> QED
  BY <1>1, <1>2, Invariance, PTL DEF SyncSpec, LocalOnlyRaced

=============================================================================
