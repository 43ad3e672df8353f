------------------------------- MODULE Signals -------------------------------
(***************************************************************************)
(* Force and Aptet in the worker's cycle: one after the other each         *)
(* downloads its bars, a page at a time or at once, while the market goes  *)
(* on, and answers with a signal; a download that fails leaves the bot's   *)
(* signal as it was.  Both bots are stateless: what they know of the past  *)
(* they read off the download, every time anew.                            *)
(***************************************************************************)
EXTENDS Force, Aptet

CONSTANTS
  Rows,            \* the rows of prices a day may show
  FirstRows,       \* the bars there are at the start
  ForceSettings,   \* params_json Force may be configured with
  AptetSettings,   \* params_json Aptet may be configured with
  Requests,        \* DATA_PROVIDER
  PageSize,        \* how many tickers a page of bars covers
  LastRow,         \* bound on the number of days
  Moves, Failures  \* bounds on intraday moves, on failed downloads

ASSUME RowsAssumption ==
  /\ \A r \in Rows : IsRow(r)
  /\ FirstRows \subseteq Seq(Rows) /\ \A s \in FirstRows : Len(s) <= LastRow
  /\ {LastRow, Moves, Failures} \subseteq Nat
  /\ PageSize \in Nat \ {0}

\* What params_json is read as, before any of it is put in range.
ASSUME SettingsAssumption ==
  /\ ForceSettings \subseteq
       [universe : SUBSET Tickers, cash : Tickers \cup {NoTicker}, benchmark : Tickers \cup {NoTicker},
        topN : Int, lookback : Int, killSwitch : BOOLEAN, killMode : STRING, topThreshold : Int,
        benchmarkFilter : BOOLEAN, benchmarkMode : STRING, benchmarkThreshold : Int,
        margin : Int, rankWeights : Seq(Int)]
  /\ AptetSettings \subseteq
       [universe : SUBSET Tickers, fallback : Tickers, min : Int, max : Int, riskOff : BOOLEAN]

VARIABLES
  market,      \* the vendor's daily bars, the last row the day under way
  provider,    \* ProviderConfig.provider
  settings,    \* params_json of the two bots
  pc,          \* "idle", or the bot whose download is under way or over
  fetched,     \* its series so far
  force, aptet,  \* the last signal of each
  read,        \* the frame aptet's signal was computed from (observation)
  budget

vars == <<market, provider, settings, pc, fetched, force, aptet, read, budget>>

Spend(what) == budget[what] > 0 /\ budget' = [budget EXCEPT ![what] = @ - 1]

NoSeries == [t \in {} |-> <<>>]
Signal   == {"none", "HOLD", "REBALANCE"}
Complete == DOMAIN fetched = Tickers
ForceNow == ForceConfig(settings.force)
AptetNow == AptetConfig(settings.aptet)

TypeOK ==
  /\ market \in Seq(Rows) /\ Len(market) <= LastRow
  /\ provider \in {"alpaca", "yfinance"}
  /\ settings.force \in ForceSettings /\ settings.aptet \in AptetSettings
  /\ pc \in {"idle", "force", "answered", "aptet"}
  /\ fetched \in [DOMAIN fetched -> Seq(Nat)] /\ DOMAIN fetched \subseteq Tickers
  /\ force.signal \in Signal
  /\ ToSet(force.names) \subseteq Tickers
  /\ Len(force.weights) = Len(force.names)
  /\ aptet.signal \in Signal
  /\ aptet.names \in SUBSET Tickers
  /\ \A i \in DOMAIN read : IsRow(read[i])
  /\ budget \in [{"moves", "failures"} -> Nat]

-----------------------------------------------------------------------------
\* The market (external): a new day's bars, or the last bars move.
NewDay(r) ==
  /\ Len(market) < LastRow
  /\ market' = Append(market, r)
  /\ UNCHANGED <<provider, settings, pc, fetched, force, aptet, read, budget>>

Move(r) ==
  /\ market # <<>>
  /\ Spend("moves")
  /\ market' = [market EXCEPT ![Len(market)] = r]
  /\ UNCHANGED <<provider, settings, pc, fetched, force, aptet, read>>

-----------------------------------------------------------------------------
\* The loop over the active bots reaches Force, and after it Aptet.
StartForce ==
  /\ pc = "idle"
  /\ pc' = "force"
  /\ fetched' = NoSeries
  /\ UNCHANGED <<market, provider, settings, force, aptet, read, budget>>

StartAptet ==
  /\ pc = "answered"
  /\ pc' = "aptet"
  /\ fetched' = NoSeries
  /\ UNCHANGED <<market, provider, settings, force, aptet, read, budget>>

\* _fetch_alpaca_daily_bars: pages come in the order of the symbols.
FetchPage ==
  /\ pc \in {"force", "aptet"} /\ provider = "alpaca" /\ ~Complete
  /\ LET left == Tickers \ DOMAIN fetched
         page == {t \in left : Cardinality({u \in left : Column[u] < Column[t]}) < PageSize}
     IN fetched' = [t \in DOMAIN fetched \cup page |->
                      IF t \in page THEN SeriesOf(market, t) ELSE fetched[t]]
  /\ UNCHANGED <<market, provider, settings, pc, force, aptet, read, budget>>

\* _fetch_yfinance_daily_bars.
FetchAll ==
  /\ pc \in {"force", "aptet"} /\ provider = "yfinance" /\ ~Complete
  /\ fetched' = [t \in Tickers |-> SeriesOf(market, t)]
  /\ UNCHANGED <<market, provider, settings, pc, force, aptet, read, budget>>

\* A page raises: the exception ends the bot's turn in run_cycle.
FetchFails ==
  /\ pc \in {"force", "aptet"} /\ ~Complete
  /\ Spend("failures")
  /\ pc' = IF pc = "force" THEN "answered" ELSE "idle"
  /\ fetched' = NoSeries
  /\ UNCHANGED <<market, provider, settings, force, aptet, read>>

ForceAnswers ==
  /\ pc = "force" /\ Complete
  /\ force' = RunForce(ForceNow, Frame(fetched))
  /\ pc' = "answered"
  /\ UNCHANGED <<market, provider, settings, fetched, aptet, read, budget>>

AptetAnswers ==
  /\ pc = "aptet" /\ Complete
  /\ aptet' = RunAptet(AptetNow, Frame(fetched))
  /\ read' = Frame(fetched)
  /\ pc' = "idle"
  /\ fetched' = NoSeries
  /\ UNCHANGED <<market, provider, settings, force, budget>>

Init ==
  /\ market \in FirstRows
  /\ provider \in {ProviderFor(r, keys) : r \in Requests, keys \in BOOLEAN}
  /\ settings \in [force : ForceSettings, aptet : AptetSettings]
  /\ pc = "idle" /\ fetched = NoSeries
  /\ force = [signal |-> "none", names |-> <<>>, off |-> FALSE, weights |-> <<>>]
  /\ aptet = [signal |-> "none", names |-> {}, off |-> FALSE, log |-> <<>>, lookback |-> 0, topN |-> 0]
  /\ read = <<>>
  /\ budget = [moves |-> Moves, failures |-> Failures]

Next ==
  \/ \E r \in Rows : NewDay(r) \/ Move(r)
  \/ StartForce \/ ForceAnswers \/ StartAptet \/ AptetAnswers
  \/ FetchPage \/ FetchAll \/ FetchFails

Spec == Init /\ [][Next]_vars

-----------------------------------------------------------------------------
\* Invariant: the name Force would have ranked first a row earlier stays
\* first as long as it is ranked at all and no rival's return clears its own
\* by the margin; whatever becomes of the ranks below it, where the order
\* that sorts them is not transitive.
FirstHeldStays ==
  pc = "answered" /\ Complete /\ ~force.off /\ force.signal = "REBALANCE" =>
    LET held    == Incumbents(ForceNow, Frame(fetched))
        returns == Trailing(Frame(fetched), Len(Frame(fetched)), ForceNow.lookback, ForceNow.universe)
    IN held # <<>> /\ held[1] \in DOMAIN returns
       /\ (\A t \in DOMAIN returns \ {held[1]} : ~Beats(returns, ForceNow.margin, t, held[1]))
         => force.names[1] = held[1]

\* Invariant: when Aptet is invested it holds exactly as many names as the
\* parameters of the moment ask for, or all that can be ranked if they are
\* fewer, however many of the best are too correlated with one another; and
\* what the parameters ask for is within the bounds of the settings.
HoldsAsAsked ==
  aptet.signal = "REBALANCE" =>
    /\ aptet.topN \in AptetNow.min .. AptetNow.max
    /\ ~aptet.off =>
         Cardinality(aptet.names) =
           Min({aptet.topN,
                Cardinality(DOMAIN Trailing(read, Len(read), aptet.lookback, AptetNow.universe))})

\* Invariant: in the whole history Aptet replays, parameters that were ever
\* changed are kept for ReviewDays rows before the next change, and a change
\* moves the number of holdings by one at most.
ParametersRest ==
  LET all == Append(aptet.log, [lookback |-> aptet.lookback, topN |-> aptet.topN])
      Same(i, j) == all[i].lookback = all[j].lookback /\ all[i].topN = all[j].topN
  IN aptet.log # <<>> =>
       \A j \in 2..Len(all) : ~Same(j - 1, j) =>
         /\ all[j].topN - all[j - 1].topN \in -1..1
         /\ j > ReviewDays
         /\ \A i \in (j - ReviewDays) .. (j - 1) : Same(i, j - 1)

\* Action property: the past Aptet replays is settled.  When a later download
\* only has more rows than the one before, every decision replayed from the
\* earlier one is replayed the same: none of them used rows of its future.
NoLookahead ==
  [][IsPrefix(read, read') /\ aptet'.log # <<>> => IsPrefix(aptet.log, aptet'.log)]_vars

=============================================================================
