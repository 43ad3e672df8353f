------------------------------ MODULE Rebalance ------------------------------
(***************************************************************************)
(* The pure arithmetic of one trading cycle: what a bot may ask for once   *)
(* the owner's locked symbols are taken out (exclude_locked_symbols), how  *)
(* several bots' portfolios are blended into one dollar target per symbol  *)
(* (the second half of run_cycle), and the order plan that moves the       *)
(* account there (compute_order_plan).                                     *)
(*                                                                         *)
(* A Python dict from symbols to numbers is a function whose domain is a   *)
(* set of symbols.  Money is a whole number of some unit.  A portfolio is  *)
(* kept as positive integer weights; the share it gives a symbol is the    *)
(* symbol's weight over the portfolio's total, which is what dividing by   *)
(* the total in the code leaves behind.  Only the final dollar amount is   *)
(* rounded (down), one bot's contribution at a time.                       *)
(***************************************************************************)
EXTENDS Integers, FiniteSets, Functions

CONSTANTS
  Symbols,    \* ticker symbols
  Bots,       \* bot_slugs that may have a strategy_config row
  Weight,     \* strategy_config.equity_weight of each bot, 1 where unset
  MinTrade    \* DEFAULT_MIN_TRADE_DOLLARS

\* Dicts are finite, and so is the strategy_config table.
ASSUME FiniteAssumption == IsFiniteSet(Symbols) /\ IsFiniteSet(Bots)
ASSUME WeightAssumption == Weight \in [Bots -> Nat \ {0}]
ASSUME MinTradeAssumption == MinTrade \in Nat \ {0}

\* A dict entry, zero where the dict has no such key.
At(f, s) == IF s \in DOMAIN f THEN f[s] ELSE 0

Abs(n) == IF n < 0 THEN -n ELSE n

NoSymbols == [s \in {} |-> 0]

\* A dict from symbols to positive whole numbers.
IsPortfolio(w) == DOMAIN w \subseteq Symbols /\ w \in [DOMAIN w -> Nat \ {0}]

-----------------------------------------------------------------------------
\* Mutants: the operators as plausible mistakes would have them.

ZeroLocked(w, locked) == [s \in DOMAIN w |-> IF s \in locked THEN 0 ELSE w[s]]

\* Blends without dividing by the other bots' weights: each bot spends all.
TargetOfEachAlone(desired, equity, s) ==
  SumFunction([b \in {c \in DOMAIN desired : s \in DOMAIN desired[c]} |->
                 (desired[b][s] * equity) \div SumFunction(desired[b])])

-----------------------------------------------------------------------------
\* A portfolio without the locked symbols; the rest keeps its proportions,
\* so that renormalising it is left to whoever reads its shares.
ExcludeLocked(w, locked) == Restrict(w, DOMAIN w \ locked)

TotalWeight(desired) == SumFunction([b \in DOMAIN desired |-> Weight[b]])

\* combined_target_values: the dollars of s that the bots together want.
TargetDollars(desired, equity, s) ==
  SumFunction([b \in {c \in DOMAIN desired : s \in DOMAIN desired[c]} |->
                 (desired[b][s] * equity * Weight[b])
                    \div (SumFunction(desired[b]) * TotalWeight(desired))])

\* One dict of targets, empty when the bots have nothing to manage.
CombinedTarget(desired, equity) ==
  [s \in IF equity > 0 THEN UNION {DOMAIN desired[b] : b \in DOMAIN desired} ELSE {}
     |-> TargetDollars(desired, equity, s)]

\* all_symbols: whatever has a target or is held.
Traded(target, current) == DOMAIN target \cup DOMAIN current

Gap(target, current, s) == At(target, s) - At(current, s)

Order(target, current, s) ==
  [sym |-> s,
   side |-> IF Gap(target, current, s) < 0 THEN "sell" ELSE "buy",
   amount |-> Abs(Gap(target, current, s))]

\* At most one order per symbol, none for a gap below MinTrade.
OrderPlan(target, current, equity) ==
  {Order(target, current, s) :
     s \in {t \in IF equity > 0 THEN Traded(target, current) ELSE {} :
              Abs(Gap(target, current, t)) >= MinTrade}}

=============================================================================
