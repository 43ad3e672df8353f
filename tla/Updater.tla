------------------------------- MODULE Updater -------------------------------
(***************************************************************************)
(* The release updater: run_once fetches the offered release, verifies and *)
(* extracts it, repoints the `current` symlink, records the release as     *)
(* active, restarts the services, waits, and keeps the release or rolls    *)
(* back.  The timer starts it again and again; systemd restarts a service  *)
(* that died from whatever `current` points at.                            *)
(*                                                                         *)
(* Each file system, database or systemctl call is a step.  A run may be   *)
(* killed or raise between any two of them, and the power may go.          *)
(* Versions are natural numbers.  Services that are not restarted by the   *)
(* updater, strategy updates and notifications are left out.               *)
(***************************************************************************)
EXTENDS Integers, FiniteSets

CONSTANTS
  Newest,      \* versions are 0..Newest
  Genuine,     \* versions whose artifact carries a valid signature
  Sound,       \* versions whose services stay up
  Services,    \* SERVICES_TO_RESTART
  Installed,   \* the release the device starts from
  Keep,        \* KEEP_RELEASES
  Retracts,    \* whether the server may offer an older release again
  MaxFaults    \* bound on killed runs, lost calls and power cuts

Versions == 0..Newest

ASSUME VersionsAssumption ==
  Newest \in Nat /\ Genuine \subseteq Versions /\ Sound \subseteq Versions
ASSUME InstalledAssumption ==
  Installed \in Versions /\ Retracts \in BOOLEAN
ASSUME KeepAssumption == Keep \in Nat \ {0}
ASSUME BoundsAssumption == MaxFaults \in Nat

VARIABLES
  offered,    \* the version in the server's manifest
  disk,       \* directories under releases/
  current,    \* what the symlink points at
  status,     \* software_release.status, "absent" without a row
  running,    \* the release each service was started from
  up,         \* systemctl is-active
  firstboot,  \* monstrapro-firstboot.service is active (the first boot only)
  pc,         \* the run's next call
  cand,       \* manifest.version
  prev,       \* previous_version
  togo,       \* services still to be restarted
  applied,    \* UPDATE_APPLIED events, a set of versions
  clean,      \* no interruption since the last completed update (observation)
  faults      \* counter of the bound

store == <<disk, current, status>>
machine == <<running, up, firstboot>>
run == <<pc, cand, prev, togo>>
vars == <<offered, store, machine, run, applied, clean, faults>>

Idle == pc = "idle"
Fault == faults < MaxFaults /\ faults' = faults + 1

\* Nothing writes a software_release row for the release the device comes with.
Init ==
  /\ offered = Installed
  /\ disk = {Installed} /\ current = Installed
  /\ status = [v \in Versions |-> "absent"]
  /\ running = [s \in Services |-> Installed] /\ up = [s \in Services |-> TRUE]
  /\ firstboot = TRUE
  /\ pc = "idle" /\ cand = Installed /\ prev = Installed /\ togo = {}
  /\ applied = {} /\ clean = TRUE /\ faults = 0

-----------------------------------------------------------------------------
\* Mutants of the definitions below.

NewerByTwo(v) == \A w \in Versions : status[w] = "active" => v > w + 1
NeverRefuses == FALSE
KeepsLowest == {v \in disk : Cardinality({w \in disk : w < v}) >= Keep}
MisspelledStatus(v) ==
  [w \in Versions |-> IF w = v THEN "active"
                      ELSE IF status[w] = "active" THEN "rolledback" ELSE status[w]]
RunsOn == pc' = "idle" /\ UNCHANGED <<cand, prev, togo>>

-----------------------------------------------------------------------------
\* The server (external) and systemd.

Publish(v) ==
  /\ v # offered
  /\ ~Retracts => v > offered
  /\ offered' = v
  /\ UNCHANGED <<store, machine, run, applied, clean, faults>>

\* A service of an unsound release dies at some point.
ServiceDies(s) ==
  /\ up[s] /\ running[s] \notin Sound
  /\ up' = [up EXCEPT ![s] = FALSE]
  /\ UNCHANGED <<offered, store, running, firstboot, run, applied, clean, faults>>

\* Restart=on-failure; the command line goes through the symlink.
ServiceReturns(s) ==
  /\ ~up[s] /\ current \in disk
  /\ up' = [up EXCEPT ![s] = TRUE]
  /\ running' = [running EXCEPT ![s] = current]
  /\ UNCHANGED <<offered, store, firstboot, run, applied, clean, faults>>

-----------------------------------------------------------------------------
\* run_once.

\* installed_version, is_newer
Active(v) == status[v] = "active"
Newer(v) == \A w \in Versions : Active(w) => v > w

\* ReleaseManifestClient.fetch: the unit is started by the timer, and only
\* while the unit it names in Requisite= is active.
StartRun ==
  /\ Idle /\ firstboot
  /\ Newer(offered)
  /\ pc' = "verify" /\ cand' = offered
  /\ UNCHANGED <<offered, store, machine, prev, togo, applied, clean, faults>>

End == pc' = "idle" /\ togo' = {} /\ UNCHANGED <<cand, prev>>

\* An unsigned release, no public key, a signature that does not fit.
Trusted == cand \in Genuine

Verify ==
  /\ pc = "verify"
  /\ IF Trusted THEN pc' = "extract" /\ UNCHANGED <<cand, prev, togo>> ELSE End
  /\ UNCHANGED <<offered, store, machine, applied, clean, faults>>

\* "already extracted": extract_release raises.
AlreadyExtracted == cand \in disk

Extract ==
  /\ pc = "extract"
  /\ IF AlreadyExtracted
       THEN End /\ UNCHANGED disk
       ELSE disk' = disk \cup {cand} /\ pc' = "stage" /\ UNCHANGED <<cand, prev, togo>>
  /\ UNCHANGED <<offered, current, status, machine, applied, clean, faults>>

PreviousVersion == current

Stage ==
  /\ pc = "stage"
  /\ prev' = PreviousVersion
  /\ status' = [status EXCEPT ![cand] = IF @ = "absent" THEN "staged" ELSE @]
  /\ pc' = "swap"
  /\ UNCHANGED <<offered, disk, current, machine, cand, togo, applied, clean, faults>>

Swap ==
  /\ pc = "swap"
  /\ current' = cand
  /\ pc' = "activate"
  /\ UNCHANGED <<offered, disk, status, machine, cand, prev, togo, applied, clean, faults>>

\* SoftwareReleaseRepository.activate
Promoted(v) ==
  [w \in Versions |-> IF w = v THEN "active"
                      ELSE IF Active(w) THEN "superseded" ELSE status[w]]

Activate ==
  /\ pc = "activate"
  /\ status' = Promoted(cand)
  /\ pc' = "restart" /\ togo' = Services
  /\ UNCHANGED <<offered, disk, current, machine, cand, prev, applied, clean, faults>>

\* systemctl restart, after the swap and again after a rollback.
Restart(s) ==
  /\ pc \in {"restart", "restart_back"} /\ s \in togo
  /\ running' = [running EXCEPT ![s] = current]
  /\ up' = [up EXCEPT ![s] = TRUE]
  /\ togo' = togo \ {s}
  /\ pc' = IF togo # {s} THEN pc ELSE IF pc = "restart" THEN "check" ELSE "idle"
  /\ clean' = (clean \/ pc' = "idle")
  /\ UNCHANGED <<offered, store, firstboot, cand, prev, applied, faults>>

Healthy == \A s \in Services : up[s]

\* prune_old_releases
Pruned == {v \in disk : Cardinality({w \in disk : w > v}) >= Keep}

Check ==
  /\ pc = "check"
  /\ IF Healthy
       THEN applied' = applied \cup {cand} /\ pc' = "prune"
       ELSE pc' = "swap_back" /\ UNCHANGED applied
  /\ UNCHANGED <<offered, store, machine, cand, prev, togo, clean, faults>>

Prune ==
  /\ pc = "prune"
  /\ disk' = disk \ Pruned
  /\ clean' = TRUE
  /\ End
  /\ UNCHANGED <<offered, current, status, machine, applied, faults>>

SwapBack ==
  /\ pc = "swap_back"
  /\ IF prev \in disk
       THEN current' = prev /\ pc' = "roll_back" /\ UNCHANGED <<cand, prev, togo>>
       ELSE End /\ UNCHANGED current
  /\ UNCHANGED <<offered, disk, status, machine, applied, clean, faults>>

Unrecorded(v) == status[v] = "absent"

\* SoftwareReleaseRepository.rollback_to raises, and undoes what it did, when
\* the version has no row.
RolledBackTo(v) ==
  [w \in Versions |-> IF w = v THEN "active"
                      ELSE IF Active(w) THEN "rolled_back" ELSE status[w]]

RestartAgain == pc' = "restart_back" /\ togo' = Services /\ UNCHANGED <<cand, prev>>

RollBack ==
  /\ pc = "roll_back"
  /\ IF Unrecorded(prev)
       THEN End /\ UNCHANGED status
       ELSE status' = RolledBackTo(prev) /\ RestartAgain
  /\ UNCHANGED <<offered, disk, current, machine, applied, clean, faults>>

-----------------------------------------------------------------------------
\* The run raises (a download, the database, systemctl) or is killed.
RunDies ==
  /\ ~Idle
  /\ Fault
  /\ End
  /\ clean' = FALSE
  /\ UNCHANGED <<offered, store, machine, applied>>

\* Everything starts again from the symlink; the first-boot unit is skipped.
PowerCut ==
  /\ Fault
  /\ running' = [s \in Services |-> IF current \in disk THEN current ELSE running[s]]
  /\ up' = [s \in Services |-> current \in disk]
  /\ firstboot' = FALSE
  /\ clean' = FALSE
  /\ End
  /\ UNCHANGED <<offered, store, applied>>

RunOnce ==
  \/ Verify \/ Extract \/ Stage \/ Swap \/ Activate
  \/ \E s \in Services : Restart(s)
  \/ Check \/ Prune \/ SwapBack \/ RollBack

Next ==
  \/ StartRun \/ RunOnce \/ RunDies \/ PowerCut
  \/ \E v \in Versions : Publish(v)
  \/ \E s \in Services : ServiceDies(s) \/ ServiceReturns(s)

Spec == Init /\ [][Next]_vars

\* The timer fires every hour and a started run goes on; systemd restarts
\* what failed.
FairSpec ==
  /\ Spec
  /\ WF_vars(StartRun) /\ WF_vars(RunOnce)
  /\ \A s \in Services : WF_vars(ServiceReturns(s))

-----------------------------------------------------------------------------
TypeOK ==
  /\ offered \in Versions /\ disk \subseteq Versions /\ current \in Versions
  /\ status \in [Versions -> {"absent", "staged", "active", "superseded", "rolled_back"}]
  /\ running \in [Services -> Versions] /\ up \in [Services -> BOOLEAN]
  /\ firstboot \in BOOLEAN /\ clean \in BOOLEAN
  /\ pc \in {"idle", "verify", "extract", "stage", "swap", "activate", "restart",
             "check", "prune", "swap_back", "roll_back", "restart_back"}
  /\ cand \in Versions /\ prev \in Versions
  /\ togo \subseteq Services /\ applied \subseteq Versions
  /\ faults \in 0..MaxFaults

\* models.py, SoftwareRelease: at most one row is active, however runs are
\* interrupted.
OneActive == \A v, w \in Versions : Active(v) /\ Active(w) => v = w

\* The releases that may run.
Trustworthy == Genuine \cup {Installed}

\* Nothing runs, and nothing is in place to be run, that did not come with the
\* device or carry a valid signature.
OnlyTrustedCode ==
  disk \cup {current} \cup {running[s] : s \in Services} \subseteq Trustworthy

\* The symlink never dangles, and until a release is found healthy or has been
\* rolled back the release before it is still on disk: an update can always be
\* undone, whatever was pruned earlier.
RollbackPossible ==
  /\ current \in disk
  /\ pc \in {"swap", "activate", "restart", "check", "swap_back", "roll_back", "restart_back"} =>
       prev \in disk /\ prev # cand

\* ARCHITECTURE.md 4.4, "and restart again": between runs, when the last update
\* was not interrupted, every service was started from what the symlink names.
\* The exception is a rollback to a release without a row, the one the device
\* came with: rollback_to raises, so that the ledger goes on calling the failed
\* release active, and a service of it runs on until it dies.
ServicesRunCurrent ==
  Idle /\ clean => \A s \in Services :
    running[s] = current \/ (Unrecorded(current) /\ Active(running[s]))

\* A release that failed its health check is never switched to again, although
\* the server goes on offering it: neither one that was rolled back, nor one
\* that the ledger still calls active.
NoSecondTry ==
  [][\A v \in Versions : status[v] \in {"rolled_back", "active"} /\ current # v => current' # v]_vars

\* A sound release the device has not tried is applied, unless the server
\* replaces it or the run is interrupted; only the first boot counts.
SoundOfferApplied ==
  \A v \in Genuine \cap Sound, k \in 0..MaxFaults :
    (offered = v /\ (\A w \in Versions : Active(w) => v > w) /\ v \notin disk /\ firstboot /\ faults = k)
      ~> (v \in applied \/ offered # v \/ faults # k)

\* As long as the server only ever offers newer releases, the updater keeps
\* the promises of ReleaseSlot; the release before the one in place is the
\* fallback from the swap until it was restored, found needless, or the run
\* ended.
Slot == INSTANCE ReleaseSlot WITH
  Trusted <- Trustworthy, First <- Installed, stored <- disk, inPlace <- current,
  fallback <- IF pc \in {"activate", "restart", "check", "swap_back"} THEN prev ELSE current
KeepsPromises == Slot!Spec

\* ARCHITECTURE.md 4.4: "triggered by a systemd timer (hourly for V1)": as long
\* as there is something to fetch, runs go on.
RunsGoOn == []<>(~Idle \/ ~Newer(offered))

=============================================================================
