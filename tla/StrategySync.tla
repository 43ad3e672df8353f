----------------------------- MODULE StrategySync -----------------------------
(***************************************************************************)
(* The three writers of strategy_config: the worker mirrors the bots       *)
(* selected on monstra.pro before each cycle, the updater merges pushed    *)
(* parameters, the portfolio page switches the built-in bots.  All of them *)
(* write whole rows, and the worker and the updater do so from what they   *)
(* read in an earlier transaction.                                         *)
(*                                                                         *)
(* A row's `settings` are its bot_type and equity_weight: 0 when they are  *)
(* None, n as of the n-th revision on the website.  Names, parameters and  *)
(* target allocations, which no one here reads, are left out.              *)
(***************************************************************************)
EXTENDS Integers, FiniteSets

CONSTANTS
  Slugs,       \* bot slugs
  Engines,     \* the slugs of ALGORITHM_REGISTRY, which the page offers
  Revisions,   \* bound on the revisions of a selected bot's settings
  Choices,     \* bound on changes of the selection
  Edits,       \* bound on submissions of the page's form
  Pushes,      \* bound on manifests with strategy updates
  Faults       \* bound on failed calls and on processes that die

ASSUME EnginesAssumption == Engines \subseteq Slugs
ASSUME RevisionsAssumption == Revisions \in Nat \ {0}

VARIABLES
  site,      \* per slug the revision selected on the website, 0 if not selected
  rows,      \* strategy_config
  \* the worker: sync_bot_selections, then the cycle
  wpc,       \* "idle", "mirror", "drop", "cycle"
  answer,    \* the selection it was answered
  todo,      \* bots still to be mirrored, then rows still to be dropped
  inHand,    \* at most one bot, read and not yet written
  selected,  \* selected_slugs
  listed,    \* the rows as list_by_source returned them
  synced,    \* sync_bot_selections returned True
  \* the updater: sync_strategy_updates
  pushing,   \* bots of the manifest still to be merged
  merging,   \* at most one bot, read and not yet written
  existing,  \* its row as read
  \* the page: POST /portfolio/bots
  switching, \* engines still to be written
  ticked,    \* the bots ticked in the form
  \* observations
  chosen,    \* bots the owner ever chose, on the website or on the page
  raced,     \* bots last switched on the page while another process was about to write them
  merged,    \* bots the updater wrote after the worker had settled them in this tick
  budget

worker  == <<wpc, answer, todo, inHand, selected, listed, synced>>
updater == <<pushing, merging, existing>>
page    == <<switching, ticked>>
syncVars    == <<site, rows, worker, updater, page, chosen, raced, merged, budget>>

Budgets == {"choices", "edits", "pushes", "faults"}
Spend(what) == budget[what] > 0 /\ budget' = [budget EXCEPT ![what] = @ - 1]

NoRow == [source |-> "none", active |-> FALSE, settings |-> 0]

-----------------------------------------------------------------------------
(* Faulty variants of the code, which the properties below reject. *)

\* The sync does not look at who configured the row.
NeverSkips(s) == FALSE

\* The sync leaves every row it finds alone.
SkipsKnown(s) == rows[s].source # "none"

\* The updater merges into a row that does not exist, as upsert would let it.
MergesMissing(s) == rows[s].source # "local"

\* upsert sets no source on a row the website's bots create.
UpsertKeepsSource(s, source, active, settings) ==
  [rows EXCEPT ![s] = [source |-> IF source = "local" THEN source ELSE @.source,
                       active |-> active, settings |-> settings]]

-----------------------------------------------------------------------------

Upserted(s, source, active, settings) ==
  [rows EXCEPT ![s] = [source |-> source, active |-> active, settings |-> settings]]

SyncInit ==
  /\ site = [s \in Slugs |-> 0]
  /\ rows = [s \in Slugs |-> NoRow]
  /\ wpc = "idle" /\ answer = [s \in Slugs |-> 0] /\ todo = {} /\ inHand = {}
  /\ selected = {} /\ listed = [s \in Slugs |-> NoRow] /\ synced = FALSE
  /\ pushing = {} /\ merging = {} /\ existing = NoRow
  /\ switching = {} /\ ticked = {}
  /\ chosen = {} /\ raced = {} /\ merged = {}
  /\ budget = [what \in Budgets |-> CASE what = "choices" -> Choices
                                     [] what = "edits" -> Edits
                                     [] what = "pushes" -> Pushes
                                     [] what = "faults" -> Faults]

-----------------------------------------------------------------------------
(* The worker, once per tick. *)

WorkerRests ==
  /\ answer' = [s \in Slugs |-> 0] /\ todo' = {} /\ inHand' = {} /\ selected' = {}
  /\ listed' = [s \in Slugs |-> NoRow]

BeginSync ==
  /\ wpc = "idle"
  /\ wpc' = "mirror"
  /\ answer' = site
  /\ todo' = {s \in Slugs : site[s] > 0}
  /\ merged' = {}
  /\ UNCHANGED <<site, rows, inHand, selected, listed, synced, updater, page, chosen, raced, budget>>

\* A bot configured on the device is not mirrored.
MustSkip(s) == rows[s].source = "local"

ReadBot(s) ==
  /\ wpc = "mirror" /\ inHand = {} /\ s \in todo
  /\ todo' = todo \ {s}
  /\ inHand' = IF MustSkip(s) THEN {} ELSE {s}
  /\ UNCHANGED <<site, rows, wpc, answer, selected, listed, synced, updater, page,
                 chosen, raced, merged, budget>>

WriteBot(s) ==
  /\ wpc = "mirror" /\ s \in inHand
  /\ rows' = Upserted(s, "monstra.pro", TRUE, answer[s])
  /\ selected' = selected \union {s}
  /\ inHand' = {}
  /\ UNCHANGED <<site, wpc, answer, todo, listed, synced, updater, page, chosen, raced, merged, budget>>

RowsToDrop ==
  {s \in Slugs : rows[s].source = "monstra.pro" /\ rows[s].active /\ s \notin selected}

ListRows ==
  /\ wpc = "mirror" /\ inHand = {} /\ todo = {}
  /\ wpc' = "drop"
  /\ listed' = rows
  /\ todo' = RowsToDrop
  /\ UNCHANGED <<site, rows, answer, inHand, selected, synced, updater, page, chosen, raced, merged, budget>>

DropRow(s) ==
  /\ wpc = "drop" /\ s \in todo
  /\ rows' = Upserted(s, "monstra.pro", FALSE, listed[s].settings)
  /\ todo' = todo \ {s}
  /\ UNCHANGED <<site, wpc, answer, inHand, selected, listed, synced, updater, page,
                 chosen, raced, merged, budget>>

EndSync ==
  /\ wpc = "drop" /\ todo = {}
  /\ wpc' = "cycle"
  /\ synced' = TRUE
  /\ UNCHANGED <<site, rows, answer, todo, inHand, selected, listed, updater, page,
                 chosen, raced, merged, budget>>

\* The call or one of the transactions fails: the tick goes on with the rows as they are.
SyncFails ==
  /\ wpc \in {"mirror", "drop"} /\ Spend("faults")
  /\ wpc' = "cycle"
  /\ WorkerRests
  /\ UNCHANGED <<site, rows, synced, updater, page, chosen, raced, merged>>

\* The rest of the tick, in which the active rows may be run.
EndTick ==
  /\ wpc = "cycle"
  /\ wpc' = "idle" /\ synced' = FALSE
  /\ WorkerRests
  /\ UNCHANGED <<site, rows, updater, page, chosen, raced, merged, budget>>

WorkerDies ==
  /\ wpc # "idle" /\ Spend("faults")
  /\ wpc' = "idle" /\ synced' = FALSE
  /\ WorkerRests
  /\ UNCHANGED <<site, rows, updater, page, chosen, raced, merged>>

-----------------------------------------------------------------------------
(* The updater, on its timer. *)

BeginPush(S) ==
  /\ pushing = {} /\ merging = {} /\ S # {} /\ Spend("pushes")
  /\ pushing' = S
  /\ UNCHANGED <<site, rows, worker, merging, existing, page, chosen, raced, merged>>

\* Only a row mirrored from the website is merged into.
MayMerge(s) == rows[s].source = "monstra.pro"

ReadMergee(s) ==
  /\ merging = {} /\ s \in pushing
  /\ pushing' = pushing \ {s}
  /\ IF MayMerge(s) THEN merging' = {s} /\ existing' = rows[s]
                    ELSE UNCHANGED <<merging, existing>>
  /\ UNCHANGED <<site, rows, worker, page, chosen, raced, merged, budget>>

\* The worker is past this bot and will not come back to it in this tick.
Settled(s) ==
  \/ wpc = "mirror" /\ s \in selected
  \/ wpc = "drop" /\ s \notin todo
  \/ wpc = "cycle"

\* upsert without bot_type and equity_weight; is_active is
\* existing.get("is_active", True).
WriteMergee(s) ==
  /\ s \in merging
  /\ rows' = Upserted(s, "monstra.pro", existing.active \/ existing.source = "none", 0)
  /\ merging' = {} /\ existing' = NoRow
  /\ merged' = merged \union {b \in {s} : Settled(b)}
  /\ UNCHANGED <<site, worker, pushing, page, chosen, raced, budget>>

UpdaterDies ==
  /\ pushing \union merging # {} /\ Spend("faults")
  /\ pushing' = {} /\ merging' = {} /\ existing' = NoRow
  /\ UNCHANGED <<site, rows, worker, page, chosen, raced, merged>>

-----------------------------------------------------------------------------
(* The portfolio page: every engine is written, ticked or not. *)

Submit(S) ==
  /\ switching = {} /\ Spend("edits")
  /\ switching' = Engines
  /\ ticked' = S
  /\ chosen' = chosen \union S
  /\ UNCHANGED <<site, rows, worker, updater, raced, merged>>

\* Another process holds what it read of this bot and is about to write it.
Held(s) == s \in inHand \union merging \/ (wpc = "drop" /\ s \in todo)

Switch(s) ==
  /\ s \in switching
  /\ rows' = Upserted(s, "local", s \in ticked, 0)
  /\ switching' = switching \ {s}
  /\ raced' = IF Held(s) THEN raced \union {s} ELSE raced \ {s}
  /\ UNCHANGED <<site, worker, updater, ticked, chosen, merged, budget>>

PageFails ==
  /\ switching # {} /\ Spend("faults")
  /\ switching' = {}
  /\ UNCHANGED <<site, rows, worker, updater, ticked, chosen, raced, merged>>

-----------------------------------------------------------------------------
(* The owner selects (r > 0), revises or removes (r = 0) a bot on the website. *)

Choose(s, r) ==
  /\ r # site[s] /\ Spend("choices")
  /\ site' = [site EXCEPT ![s] = r]
  /\ chosen' = IF r > 0 THEN chosen \union {s} ELSE chosen
  /\ UNCHANGED <<rows, worker, updater, page, raced, merged>>

WorkerStep ==
  \/ BeginSync
  \/ \E s \in Slugs : ReadBot(s)
  \/ \E s \in Slugs : WriteBot(s)
  \/ ListRows
  \/ \E s \in Slugs : DropRow(s)
  \/ EndSync
  \/ EndTick

SyncNext ==
  \/ WorkerStep
  \/ SyncFails
  \/ WorkerDies
  \/ \E S \in SUBSET Slugs : BeginPush(S)
  \/ \E s \in Slugs : ReadMergee(s)
  \/ \E s \in Slugs : WriteMergee(s)
  \/ UpdaterDies
  \/ \E S \in SUBSET Engines : Submit(S)
  \/ \E s \in Slugs : Switch(s)
  \/ PageFails
  \/ \E s \in Slugs, r \in 0..Revisions : Choose(s, r)

SyncSpec == SyncInit /\ [][SyncNext]_syncVars

\* The worker's loop goes on, and systemd restarts it; nothing is assumed of
\* the updater, the page, the owner, or of a failed call.
SyncFairSpec == SyncSpec /\ WF_syncVars(WorkerStep)

-----------------------------------------------------------------------------
(* Type *)

Rows == [source : {"none", "local", "monstra.pro"}, active : BOOLEAN, settings : 0..Revisions]

\* Every variable has its type, a missing row is not active, and what a process
\* holds is not also on its list.
SyncTypeOK ==
  /\ site \in [Slugs -> 0..Revisions] /\ answer \in [Slugs -> 0..Revisions]
  /\ rows \in [Slugs -> Rows] /\ listed \in [Slugs -> Rows] /\ existing \in Rows
  /\ \A s \in Slugs : rows[s].source = "none" => ~rows[s].active
  /\ wpc \in {"idle", "mirror", "drop", "cycle"} /\ synced \in BOOLEAN
  /\ todo \subseteq Slugs /\ selected \subseteq Slugs /\ inHand \subseteq Slugs \ todo
  /\ pushing \subseteq Slugs /\ merging \subseteq Slugs \ pushing
  /\ switching \subseteq Engines /\ ticked \subseteq Engines
  /\ chosen \subseteq Slugs /\ raced \subseteq Slugs /\ merged \subseteq Slugs

(* Safety *)

\* A bot that may run was at some time chosen by the owner, on the website or
\* on the page: no push, drop or late write brings one in on its own.
OnlyChosenBots == \A s \in Slugs : rows[s].active => s \in chosen

\* When a sync has succeeded, the active mirrored rows are the selection it was
\* answered, with its settings, but for the bots the updater wrote after the
\* worker had settled them, and for those the owner switched on the page.
MirrorsAnswer ==
  wpc = "cycle" /\ synced =>
    \A s \in Slugs \ merged :
      /\ rows[s].source = "monstra.pro" /\ rows[s].active =>
           s \in selected /\ rows[s].settings = answer[s]
      /\ s \in selected => rows[s].source = "local" \/ rows[s].active

\* A row switched on the page is taken from it only if the page was submitted
\* while the worker or the updater was about to write that row.
LocalOnlyRaced ==
  [][\A s \in Slugs : rows[s].source = "local" /\ rows'[s].source # "local" => s \in raced]_syncVars

(* Liveness *)

\* Once the owner leaves the selection alone, the active mirrored rows become
\* and stay the bots selected on the website, with their settings, whatever
\* calls failed and whatever the updater wrote; bots of the page excepted.
FollowsWebsite ==
  <>[](\A s \in Slugs : rows[s].source # "local" =>
         rows[s].active = (site[s] > 0) /\ (rows[s].active => rows[s].settings = site[s]))

=============================================================================
