-------------------------------- MODULE Aptet --------------------------------
(***************************************************************************)
(* The Aptet bot (aptet.py).  It holds top_n names ranked over a lookback, *)
(* and chooses both parameters itself: each run replays the whole download *)
(* row by row, keeps the parameters until the names they picked have lost  *)
(* money over PARAMETER_REVIEW_DAYS, then searches again by simulating     *)
(* every combination on the rows known by then.                            *)
(*                                                                         *)
(* How a name is scored within its window (trailing return, Sharpe-like    *)
(* ratio, z-scores), when two names are too correlated, and how the path   *)
(* of a simulation is scored are numeric: they are parameters here.        *)
(***************************************************************************)
EXTENDS MarketData

CONSTANTS
  ScoreIn(_, _, _),       \* _score_candidates: of t among the ranked, in a window
  Correlated(_, _, _),    \* two names' returns in a window are, beyond the maximum
  PathScore(_),           \* score of a sequence of daily returns
  StayBonus,              \* incumbency_margin of the profile
  Lookbacks,              \* candidate_lookbacks of the profile, ascending
  TrainDays,              \* optimization_train_days of the profile
  MinSamples,             \* MIN_OPTIMIZATION_SAMPLES
  ReviewDays,             \* PARAMETER_REVIEW_DAYS
  DefaultLookback,        \* DEFAULT_LOOKBACK_DAYS
  AbsoluteMin,            \* ABSOLUTE_MIN_HOLDINGS
  MaxNames,               \* 10
  AptetUniverse           \* DEFAULT_UNIVERSE

ASSUME HoldingsAssumption == AbsoluteMin \in Nat \ {0} /\ MaxNames \in Nat /\ AbsoluteMin <= MaxNames
ASSUME AptetUniverseAssumption == AptetUniverse \subseteq Tickers /\ AptetUniverse # {}
ASSUME StayBonusAssumption == StayBonus \in Int
ASSUME ReviewAssumption == ReviewDays \in Nat \ {0}
ASSUME SearchAssumption ==
  /\ \A n \in ToSet(Lookbacks) : n \in Nat \ {0}
  /\ DefaultLookback \in Nat \ {0}
  /\ TrainDays \in Nat /\ MinSamples \in Nat \ {0}

\* resolve_holdings_bounds.
HoldingsBounds(size, wantedMin, wantedMax) ==
  LET cap   == Min({size, MaxNames})
      floor == Min({AbsoluteMin, cap})
      max   == Min({cap, Max({wantedMax, floor})})
  IN IF cap = 0 THEN [min |-> wantedMin, max |-> wantedMax]
     ELSE [min |-> Min({max, Max({wantedMin, floor})}), max |-> max]

\* aptet_config_from_dict: what it puts in range.
AptetConfig(raw) ==
  LET named    == raw.universe \ {raw.fallback}
      universe == IF named = {} THEN AptetUniverse ELSE named
      bounds   == HoldingsBounds(Cardinality(universe), Max({1, raw.min}), Max({1, raw.max}))
  IN [raw EXCEPT !.universe = universe, !.min = bounds.min, !.max = bounds.max]

\* _bounded_candidate_top_ns; a lookback or top_n of 0 is None.
CandidateTopNs(c, prior) ==
  LET all  == c.min .. c.max
      near == {n \in all : n - prior \in -1..1}
  IN IF prior = 0 \/ near = {} THEN all ELSE near

-----------------------------------------------------------------------------
\* Mutant: what was passed over for its correlation is not come back to.
OnlyPicked(acc, n) == acc.picked

\* Over-correlated candidates backfill what is missing, in score order.
Backfilled(acc, n) ==
  acc.picked \o SubSeq(acc.skipped, 1, Min({n - Len(acc.picked), Len(acc.skipped)}))

\* _select_diversified_holdings: greedy, best score first.
Take(w, n, acc, t) ==
  CASE Len(acc.picked) >= n -> acc
    [] Len(acc.picked) < n /\ \E u \in ToSet(acc.picked) : Correlated(w, t, u) ->
         [picked |-> acc.picked, skipped |-> Append(acc.skipped, t)]
    [] OTHER -> [picked |-> Append(acc.picked, t), skipped |-> acc.skipped]

Taken(w, n, ordered) ==
  FoldLeft(LAMBDA acc, t : Take(w, n, acc, t), [picked |-> <<>>, skipped |-> <<>>], ordered)

Diversified(ordered, w, n) == Backfilled(Taken(w, n, ordered), n)

\* _rank_and_select_holdings: incumbents get a bonus, weights are equal.
Selected(ranked, w, n, held) ==
  LET score == [t \in DOMAIN ranked |->
                  ScoreIn(w, DOMAIN ranked, t) + (IF t \in held THEN StayBonus ELSE 0)]
      ahead == {p \in (DOMAIN ranked) \X (DOMAIN ranked) :
                  \/ score[p[1]] > score[p[2]]
                  \/ score[p[1]] = score[p[2]] /\ Column[p[1]] < Column[p[2]]}
  IN ToSet(Diversified(InOrder(DOMAIN ranked, ahead), w, n))

\* _evaluate_risk_off; BENCHMARK_FILTER_ENABLED is False.
RiskOff(c, ranked) == c.riskOff /\ (DOMAIN ranked = {} \/ Best(ranked) <= 0)

\* _choose_holdings_for_day.
Invested(c, ranked, w, n, held) ==
  IF RiskOff(c, ranked) \/ DOMAIN ranked = {} THEN {} ELSE Selected(ranked, w, n, held)

OrFallback(c, names) ==
  IF names = {} THEN [names |-> {c.fallback}, off |-> TRUE] ELSE [names |-> names, off |-> FALSE]

ChosenByAptet(c, prices, end, lookback, n, held) ==
  OrFallback(c, Invested(c, Trailing(prices, end, lookback, c.universe),
                         Window(prices, end, lookback), n, held))

\* The return of equal weights from a row to the next, where all are priced.
Priced(today, tomorrow, names) == \A t \in names : today[t] # Hole /\ tomorrow[t] # Hole

Realized(today, tomorrow, names) ==
  MapThenSumSet(LAMBDA t : Return(today[t], tomorrow[t]), names) \div Cardinality(names)

-----------------------------------------------------------------------------
\* A day of a simulation: the names chosen, and what they earn by the next row.
Held(held, chosen) == IF chosen.off THEN held ELSE chosen.names

Lived(acc, chosen, today, tomorrow) ==
  [held |-> Held(acc.held, chosen),
   returns |-> IF Priced(today, tomorrow, chosen.names)
               THEN Append(acc.returns, Realized(today, tomorrow, chosen.names))
               ELSE acc.returns]

\* _simulate_param_combo: the returns of one combination over the last
\* TrainDays rows, the names of a row chosen on the rows before it.
Simulated(c, prices, lookback, n) ==
  LET first == Max({lookback + 1, Len(prices) - TrainDays})
      Day(acc, i) ==
        Lived(acc, ChosenByAptet(c, prices, i, lookback, n, acc.held), prices[i + 1], prices[i + 2])
  IN FoldLeft(Day, [held |-> {}, returns |-> <<>>],
              [k \in 1 .. Max({0, Len(prices) - 1 - first}) |-> first + k - 1]).returns

\* Mutant: the search sees the whole download, the future of the row included.
WholeDownload(prices, end) == prices

\* prices.iloc[:end].
View(prices, end) == SubSeq(prices, 1, end)

\* optimize_aptet_params: the first of the best combinations, none if no
\* simulation has enough samples.
Earlier(p, q) == p[1] < q[1] \/ (p[1] = q[1] /\ p[2] < q[2])

FirstBest(score) ==
  {p \in DOMAIN score :
     \A q \in DOMAIN score \ {p} : score[p] > score[q] \/ (score[p] = score[q] /\ Earlier(p, q))}

ScoresOf(path) == [p \in {q \in DOMAIN path : Len(path[q]) >= MinSamples} |-> PathScore(path[p])]

Optimized(c, prices, end, prior) ==
  FirstBest(ScoresOf([p \in ToSet(Lookbacks) \X CandidateTopNs(c, prior) |->
                        Simulated(c, View(prices, end), p[1], p[2])]))

-----------------------------------------------------------------------------
\* AptetAdaptationState before there is any.
NoAdaptation == [lookback |-> 0, topN |-> 0, returns |-> <<>>]

\* Mutant: the returns earned under earlier parameters still count.
CarriesReturns(state, decision, earned) ==
  [lookback |-> decision.lookback, topN |-> decision.topN,
   returns |-> LET all == Append(state.returns, earned)
               IN SubSeq(all, Max({0, Len(all) - ReviewDays}) + 1, Len(all))]

\* _advance_adaptation_state: a change of parameters starts the count anew.
Advanced(state, decision, earned) ==
  LET changed == state.lookback # decision.lookback \/ state.topN # decision.topN
      all     == Append(IF changed THEN <<>> ELSE state.returns, earned)
  IN [lookback |-> decision.lookback, topN |-> decision.topN,
      returns |-> SubSeq(all, Max({0, Len(all) - ReviewDays}) + 1, Len(all))]

\* _rolling_compounded_return below zero.
Lost(returns) ==
  FoldLeft(LAMBDA p, r : p * (100 + r), 1, returns) < 100 ^ Len(returns)

\* resolve_aptet_decision: whether it searches,
Fresh(state) == state.lookback = 0 \/ state.topN = 0
Searches(state) == Fresh(state) \/ (Len(state.returns) >= ReviewDays /\ Lost(state.returns))

\* the parameters it settles on, a search having found best,
DefaultTopN(c) == Min({c.min, Max({1, Cardinality(c.universe)})})

Settled(c, state, best) ==
  LET pick == CASE best # {} -> CHOOSE p \in best : TRUE
                [] best = {} /\ ~Fresh(state) -> <<state.lookback, state.topN>>
                [] OTHER -> <<DefaultLookback, DefaultTopN(c)>>
  IN [lookback |-> pick[1], topN |-> Max({c.min, Min({c.max, pick[2]})})]

\* and the names it chooses by them on the rows before end.
WithNames(c, prices, end, p, held) ==
  LET choice == IF end < p.lookback + 1 THEN OrFallback(c, {})
                ELSE ChosenByAptet(c, prices, end, p.lookback, p.topN, held)
  IN [lookback |-> p.lookback, topN |-> p.topN, names |-> choice.names, off |-> choice.off]

Resolved(c, prices, end, state, held) ==
  WithNames(c, prices, end,
            Settled(c, state, IF Searches(state) THEN Optimized(c, prices, end, state.topN) ELSE {}),
            held)

\* The replay loop of run_aptet, and what it remembers at its end.
Replayed(acc, decision, today, tomorrow) ==
  [state |-> Advanced(acc.state, decision,
                      IF Priced(today, tomorrow, decision.names)
                      THEN Realized(today, tomorrow, decision.names) ELSE 0),
   held  |-> Held(acc.held, decision),
   log   |-> Append(acc.log, decision)]

ReplayRow(c, prices, acc, i) ==
  Replayed(acc, Resolved(c, prices, i, acc.state, acc.held), prices[i + 1], prices[i + 2])

Replay(c, prices) ==
  FoldLeft(LAMBDA acc, i : ReplayRow(c, prices, acc, i), [state |-> NoAdaptation, held |-> {}, log |-> <<>>],
           [i \in 1 .. Max({0, Len(prices) - 2}) |-> i])

\* _has_minimum_usable_symbols: the fallback and enough of the universe.
Usable(c, prices) ==
  LET shown == {t \in Tickers : \E i \in DOMAIN prices : prices[i][t] # Hole}
  IN c.fallback \in shown /\ Cardinality(c.universe \cap shown) >= c.min

\* run_aptet; log is the decisions of the replay.
Decided(c, prices, past) ==
  LET last == Resolved(c, prices, Len(prices), past.state, past.held)
  IN [signal |-> "REBALANCE", names |-> last.names, off |-> last.off, log |-> past.log,
      lookback |-> last.lookback, topN |-> last.topN]

RunAptet(c, prices) ==
  IF Len(prices) < 2 \/ ~Usable(c, prices)
  THEN [signal |-> "HOLD", names |-> {c.fallback}, off |-> FALSE, log |-> <<>>,
        lookback |-> DefaultLookback, topN |-> DefaultTopN(c)]
  ELSE Decided(c, prices, Replay(c, prices))

=============================================================================
