-------------------------------- MODULE Force --------------------------------
(***************************************************************************)
(* The Force bot (alpha1.py): it holds the top_n names by trailing return  *)
(* with weights fixed by rank, or the cash equivalent when one of its two  *)
(* filters says so.  To keep turnover low it defends the names, and their  *)
(* ranks, that it would have chosen one row of prices earlier.             *)
(*                                                                         *)
(* A weight is a positive whole number; only its share of the total counts.*)
(***************************************************************************)
EXTENDS MarketData

CONSTANTS
  NoTicker,          \* None
  DefaultUniverse,   \* DEFAULT_UNIVERSE
  DefaultWeights,    \* DEFAULT_WEIGHTS
  DefaultCash        \* DEFAULT_CASH_EQUIVALENT

ASSUME ForceDefaultsAssumption ==
  /\ NoTicker \notin Tickers
  /\ DefaultUniverse \subseteq Tickers /\ DefaultUniverse # {}
  /\ DefaultWeights \in Seq(Nat \ {0}) /\ DefaultWeights # <<>>
  /\ DefaultCash \in Tickers

\* _normalize_rank_weights_array: what is not positive is dropped.
RankWeights(raw) ==
  LET positive == AtPlaces(raw, {i \in DOMAIN raw : raw[i] > 0})
  IN IF positive = <<>> THEN DefaultWeights ELSE positive

\* Mutant: more names than there are weights.
ClampToTen(n, weights) == Min({Max({1, n}), 10})

\* _clamp_top_n, and the cap of ten after it.
ClampTopN(n, weights) == Min({Max({1, Min({n, Len(weights)})}), 10})

\* alpha1_config_from_dict: universe, top_n, lookback_days, rank_weights are
\* put in range, the rest is taken as it comes.
ForceConfig(raw) ==
  [raw EXCEPT !.universe = IF @ = {} THEN DefaultUniverse ELSE @,
              !.rankWeights = RankWeights(@),
              !.topN = ClampTopN(@, RankWeights(raw.rankWeights)),
              !.lookback = IF @ < 1 THEN 14 ELSE @]

-----------------------------------------------------------------------------
Total(returns) == MapThenSumSet(LAMBDA t : returns[t], DOMAIN returns)

\* The two parts of _evaluate_kill_switch.
KillSwitch(c, ranked) ==
  /\ c.killSwitch /\ c.killMode # "off"
  /\ \/ DOMAIN ranked = {}
     \/ c.killMode = "top_negative" /\ Best(ranked) <= c.topThreshold
     \/ c.killMode = "avg_negative" /\ Total(ranked) <= c.topThreshold * Cardinality(DOMAIN ranked)

BenchmarkFilter(c, returns) ==
  /\ c.benchmarkFilter /\ c.benchmarkMode # "off" /\ c.benchmark # NoTicker
  /\ \/ c.benchmark \notin DOMAIN returns
     \/ c.benchmarkMode = "benchmark_positive" /\ returns[c.benchmark] <= c.benchmarkThreshold
     \/ c.benchmarkMode = "benchmark_gt_cash" /\
          (c.cash \notin DOMAIN returns \/ returns[c.benchmark] <= returns[c.cash])

-----------------------------------------------------------------------------
\* cushion, a hundred times over: r + margin * abs(r).
Cushion(returns, margin, t) ==
  100 * returns[t] + margin * (IF returns[t] < 0 THEN -returns[t] ELSE returns[t])

\* A rival beats an incumbent by clearing its cushion.
Beats(returns, margin, t, u) == 100 * returns[t] > Cushion(returns, margin, u)

\* Mutant: the margin defends the names already held against new ones only.
DefendsMembersOnly(returns, rank, margin, t, u) ==
  CASE t \in DOMAIN rank /\ u \notin DOMAIN rank -> ~Beats(returns, margin, u, t)
    [] t \notin DOMAIN rank /\ u \in DOMAIN rank -> Beats(returns, margin, t, u)
    [] OTHER -> returns[t] > returns[u]

\* before, of _rank_with_stability; rank is prev_rank.  It is not transitive.
Before(returns, rank, margin, t, u) ==
  LET senior == t \in DOMAIN rank /\ (u \in DOMAIN rank => rank[t] < rank[u])
  IN CASE senior -> ~Beats(returns, margin, u, t)
       [] ~senior /\ u \in DOMAIN rank -> Beats(returns, margin, t, u)
       [] OTHER -> returns[t] > returns[u]

InColumns(set) == InOrder(set, {p \in set \X set : Column[p[1]] < Column[p[2]]})

\* _rank_with_stability: held is current_holdings, in order.
Ranked(returns, margin, held) ==
  LET rank == [t \in ToSet(held) \cap DOMAIN returns |-> CHOOSE i \in DOMAIN held : held[i] = t]
      less == {p \in (DOMAIN returns) \X (DOMAIN returns) : Before(returns, rank, margin, p[1], p[2])}
  IN PythonSorted(InColumns(DOMAIN returns), less)

\* _choose_risk_on_holdings: the weights are a prefix of the rank weights.
Leading(s, n) == SubSeq(s, 1, Min({n, Len(s)}))

\* _choose_holdings_for_day at the end'th row.
ChosenByForce(c, prices, end, held) ==
  LET ranked   == Trailing(prices, end, c.lookback, c.universe)
      returns  == Trailing(prices, end, c.lookback, Tickers)
      off      == KillSwitch(c, ranked) \/ BenchmarkFilter(c, returns)
      selected == IF off THEN <<>> ELSE Leading(Ranked(ranked, c.margin, held), c.topN)
  IN [names |-> CASE selected # <<>> -> selected
                  [] selected = <<>> /\ c.cash # NoTicker -> <<c.cash>>
                  [] OTHER -> <<>>,
      off |-> off \/ (selected = <<>> /\ c.cash # NoTicker)]

\* run_alpha1: the choice at the row before is what is defended.
Incumbents(c, prices) ==
  LET prior == ChosenByForce(c, prices, Len(prices) - 1, <<>>)
  IN IF Len(prices) > 2 /\ ~prior.off THEN prior.names ELSE <<>>

RunForce(c, prices) ==
  LET chosen  == ChosenByForce(c, prices, Len(prices), Incumbents(c, prices))
      instead == <<IF c.cash = NoTicker THEN DefaultCash ELSE c.cash>>
      Signal(s, names, off) ==
        [signal |-> s, names |-> names, off |-> off,
         weights |-> IF off \/ s = "HOLD" THEN <<1>> ELSE Leading(c.rankWeights, Len(names))]
  IN CASE Len(prices) < 2 -> Signal("HOLD", instead, FALSE)
       [] Len(prices) >= 2 /\ chosen.names = <<>> -> Signal("HOLD", instead, chosen.off)
       [] OTHER -> Signal("REBALANCE", chosen.names, chosen.off)

=============================================================================
