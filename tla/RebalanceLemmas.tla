-------------------------- MODULE RebalanceLemmas --------------------------
(***************************************************************************)
(* Lemmas about the arithmetic of Rebalance, for the cycle that uses it    *)
(* and for the audit that repeats it: portfolios without the locked        *)
(* symbols, the dollars bots with these portfolios and weights want of a   *)
(* symbol, and the orders of a plan.                                       *)
(***************************************************************************)
EXTENDS Rebalance, FoldLemmas

\* Taking symbols out of a portfolio leaves a portfolio without them.
LEMMA ExcludeLockedFacts ==
  ASSUME NEW w, IsPortfolio(w), NEW locked
  PROVE  /\ IsPortfolio(ExcludeLocked(w, locked))
         /\ DOMAIN ExcludeLocked(w, locked) \cap locked = {}
  BY DEF ExcludeLocked, Restrict, IsPortfolio

LEMMA RestrictFacts ==
  ASSUME NEW w, IsPortfolio(w), NEW S \in SUBSET DOMAIN w
  PROVE  IsPortfolio(Restrict(w, S))
  BY DEF Restrict, IsPortfolio

LEMMA NoSymbolsIsPortfolio == IsPortfolio(NoSymbols) /\ DOMAIN NoSymbols = {}
  BY DEF NoSymbols, IsPortfolio

\* A plan orders only symbols that some bot wants or that are held, and each
\* order is a purchase or a sale.
LEMMA PlanOrdersTraded ==
  ASSUME NEW d, NEW equity, NEW current, NEW o \in OrderPlan(CombinedTarget(d, equity), current, equity)
  PROVE  /\ o.sym \in DOMAIN current \cup UNION {DOMAIN d[b] : b \in DOMAIN d}
         /\ o.side \in {"buy", "sell"}
<1> DEFINE target == CombinedTarget(d, equity)
<1>1. PICK s \in Traded(target, current) : o = Order(target, current, s)
  BY DEF OrderPlan
<1>2. o.sym = s /\ o.side \in {"buy", "sell"}
  BY <1>1 DEF Order
<1>3. DOMAIN target \subseteq UNION {DOMAIN d[b] : b \in DOMAIN d}
  BY DEF CombinedTarget
<1>4. QED
  BY <1>1, <1>2, <1>3 DEF Traded

-----------------------------------------------------------------------------
\* Rounding a share down takes nothing that is not there.
LEMMA QuotientFacts ==
  ASSUME NEW a \in Nat, NEW b \in Nat \ {0}
  PROVE  a \div b \in Nat /\ (a \div b) * b <= a
<1>1. a \div b \in Int /\ (a % b) \in Int /\ a = b * (a \div b) + (a % b) /\ (a % b) >= 0
  OBVIOUS
<1> QED
  BY <1>1

LEMMA ProductPositive ==
  ASSUME NEW a \in Nat \ {0}, NEW b \in Nat \ {0} PROVE a * b \in Nat \ {0}
  OBVIOUS

LEMMA ProductNat ==
  ASSUME NEW a \in Nat, NEW b \in Nat PROVE a * b \in Nat
  OBVIOUS

LEMMA CancelFactor ==
  ASSUME NEW a \in Int, NEW b \in Int, NEW c \in Nat \ {0}, a * c <= b * c PROVE a <= b
  OBVIOUS

-----------------------------------------------------------------------------
\* What the bots want, as run_cycle collects it.
Desires(d) == DOMAIN d \subseteq Bots /\ \A b \in DOMAIN d : IsPortfolio(d[b])

LEMMA PortfolioSum ==
  ASSUME NEW w, IsPortfolio(w)
  PROVE  /\ IsFiniteSet(DOMAIN w) /\ SumFunction(w) \in Nat
         /\ DOMAIN w # {} => SumFunction(w) \in Nat \ {0}
<1>1. IsFiniteSet(DOMAIN w) /\ \A s \in DOMAIN w : w[s] \in Nat \ {0}
  BY FiniteAssumption, FS_Subset DEF IsPortfolio
<1>2. SumFunctionOnSet(w, DOMAIN w) \in Nat
  BY <1>1, SumNat
<1>3. ASSUME NEW s \in DOMAIN w PROVE SumFunctionOnSet(w, DOMAIN w) # 0
  <2> DEFINE rest == (DOMAIN w) \ {s}
  <2>1. SumFunctionOnSet(w, DOMAIN w) = w[s] + SumFunctionOnSet(w, rest)
    BY <1>1, SumWithout
  <2>2. SumFunctionOnSet(w, rest) \in Nat
    <3>1. IsFiniteSet(rest) /\ \A t \in rest : w[t] \in Nat
      BY <1>1, FS_Subset
    <3> HIDE DEF rest
    <3> QED
      BY <3>1, SumNat
  <2> QED
    BY <1>1, <2>1, <2>2
<1> QED
  BY <1>1, <1>2, <1>3 DEF SumFunction

LEMMA TotalWeightFacts ==
  ASSUME NEW d, DOMAIN d \subseteq Bots
  PROVE  /\ IsFiniteSet(DOMAIN d) /\ TotalWeight(d) \in Nat
         /\ DOMAIN d # {} => TotalWeight(d) \in Nat \ {0}
<1> DEFINE D == DOMAIN d
           w == [b \in D |-> Weight[b]]
<1>1. IsFiniteSet(D) /\ \A b \in D : w[b] \in Nat \ {0}
  BY FiniteAssumption, FS_Subset, WeightAssumption
<1>2. TotalWeight(d) = SumFunctionOnSet(w, D)
  BY DEF TotalWeight, SumFunction
<1> HIDE DEF w, D
<1>3. SumFunctionOnSet(w, D) \in Nat
  BY <1>1, SumNat
<1>4. ASSUME NEW b \in D PROVE SumFunctionOnSet(w, D) # 0
  <2>1. SumFunctionOnSet(w, D) = w[b] + SumFunctionOnSet(w, D \ {b})
    BY <1>1, SumWithout
  <2>2. IsFiniteSet(D \ {b}) /\ \A t \in D \ {b} : w[t] \in Nat
    BY <1>1, FS_Subset
  <2>3. SumFunctionOnSet(w, D \ {b}) \in Nat
    BY <2>2, SumNat
  <2> QED
    BY <1>1, <2>1, <2>3
<1> QED
  BY <1>1, <1>2, <1>3, <1>4 DEF D

\* A bot's dollars of one symbol: its share of the equity, rounded down.
Share(d, e, b, s) ==
  (d[b][s] * e * Weight[b]) \div (SumFunction(d[b]) * TotalWeight(d))

LEMMA ShareFacts ==
  ASSUME NEW d, Desires(d), NEW e \in Nat, NEW b \in DOMAIN d, NEW s \in DOMAIN d[b]
  PROVE  /\ Share(d, e, b, s) \in Nat
         /\ Share(d, e, b, s) * (SumFunction(d[b]) * TotalWeight(d)) <= d[b][s] * e * Weight[b]
<1>1. d[b][s] \in Nat /\ Weight[b] \in Nat
  BY WeightAssumption DEF Desires, IsPortfolio
<1>2. SumFunction(d[b]) \in Nat \ {0} /\ TotalWeight(d) \in Nat \ {0}
  BY PortfolioSum, TotalWeightFacts DEF Desires
<1>3. d[b][s] * e * Weight[b] \in Nat
  <2>1. d[b][s] * e \in Nat
    BY <1>1, ProductNat
  <2> QED
    BY <1>1, <2>1, ProductNat
<1>4. SumFunction(d[b]) * TotalWeight(d) \in Nat \ {0}
  BY <1>2, ProductPositive
<1> QED
  BY <1>3, <1>4, QuotientFacts DEF Share

\* The same, zero where the bot does not want the symbol.
Spread(d, e) ==
  [p \in (DOMAIN d) \X Symbols |->
     IF p[2] \in DOMAIN d[p[1]] THEN Share(d, e, p[1], p[2]) ELSE 0]

LEMMA SpreadFacts ==
  ASSUME NEW d, Desires(d), NEW e \in Nat, NEW b \in DOMAIN d, NEW s \in Symbols
  PROVE  /\ Spread(d, e)[<<b, s>>] \in Nat
         /\ s \in DOMAIN d[b] => Spread(d, e)[<<b, s>>] = Share(d, e, b, s)
         /\ s \notin DOMAIN d[b] => Spread(d, e)[<<b, s>>] = 0
<1>1. Spread(d, e)[<<b, s>>] = IF s \in DOMAIN d[b] THEN Share(d, e, b, s) ELSE 0
  BY Zenon DEF Spread
<1>2. s \in DOMAIN d[b] => Share(d, e, b, s) \in Nat
  BY ShareFacts
<1> QED
  BY <1>1, <1>2

LEMMA TargetIsSpread ==
  ASSUME NEW d, Desires(d), NEW e \in Nat, NEW s \in Symbols
  PROVE  /\ TargetDollars(d, e, s) \in Nat
         /\ TargetDollars(d, e, s)
              = SumFunctionOnSet([b \in DOMAIN d |-> Spread(d, e)[<<b, s>>]], DOMAIN d)
<1> DEFINE D == DOMAIN d
           In == {c \in D : s \in DOMAIN d[c]}
           f == [b \in In |-> Share(d, e, b, s)]
           g == [b \in D |-> Spread(d, e)[<<b, s>>]]
<1>1. IsFiniteSet(D) /\ IsFiniteSet(In) /\ In \in SUBSET D
  BY FiniteAssumption, FS_Subset DEF Desires
<1>2. TargetDollars(d, e, s) = SumFunctionOnSet(f, In)
  BY DEF TargetDollars, SumFunction, Share
<1>3. \A b \in In : f[b] \in Nat /\ f[b] = g[b]
  BY SpreadFacts
<1>4. \A b \in D : g[b] \in Nat
  BY SpreadFacts
<1>5. \A b \in D \ In : g[b] = 0
  BY SpreadFacts
<1> HIDE DEF D, In, f, g
<1>6. SumFunctionOnSet(f, In) = SumFunctionOnSet(g, In) /\ SumFunctionOnSet(f, In) \in Nat
  <2>1. \A b \in In : f[b] \in Int /\ f[b] = g[b]
    BY <1>3
  <2> QED
    BY <1>1, <1>3, <2>1, SumSame, SumNat
<1>7. SumFunctionOnSet(g, D) = SumFunctionOnSet(g, In)
  BY <1>1, <1>4, <1>5, SumNonzero
<1> QED
  BY <1>2, <1>6, <1>7 DEF D, g

\* One bot's dollars stay within the part of the equity its weight gives it.
BotTotal(d, e, b) == SumFunctionOnSet([s \in Symbols |-> Spread(d, e)[<<b, s>>]], Symbols)

LEMMA BotWithinShare ==
  ASSUME NEW d, Desires(d), NEW e \in Nat, NEW b \in DOMAIN d
  PROVE  /\ BotTotal(d, e, b) \in Nat
         /\ BotTotal(d, e, b) * TotalWeight(d) <= e * Weight[b]
<1> DEFINE row == [s \in Symbols |-> Spread(d, e)[<<b, s>>]]
           wish == [s \in Symbols |-> IF s \in DOMAIN d[b] THEN d[b][s] ELSE 0]
           total == SumFunction(d[b])
           weights == TotalWeight(d)
           budget == e * Weight[b]
<1>1. IsFiniteSet(Symbols) /\ IsPortfolio(d[b]) /\ DOMAIN d[b] \in SUBSET Symbols
  BY FiniteAssumption DEF Desires, IsPortfolio
<1>2. /\ \A s \in Symbols : row[s] \in Nat /\ wish[s] \in Nat
      /\ \A s \in Symbols \ DOMAIN d[b] : row[s] = 0 /\ wish[s] = 0
  BY <1>1, SpreadFacts DEF IsPortfolio
<1>3. budget \in Nat /\ weights \in Nat \ {0} /\ total \in Nat
  <2>1. Weight[b] \in Nat
    BY WeightAssumption DEF Desires
  <2> QED
    BY <1>1, <2>1, TotalWeightFacts, PortfolioSum, ProductNat DEF Desires
<1>4. BotTotal(d, e, b) = SumFunctionOnSet(row, Symbols)
  BY DEF BotTotal
<1>5. SumFunctionOnSet(row, Symbols) \in Nat
  <2> HIDE DEF row
  <2> QED
    BY <1>1, <1>2, SumNat
<1>6. CASE DOMAIN d[b] = {}
  <2>1. SumFunctionOnSet(row, Symbols) = SumFunctionOnSet(row, {})
    <3> HIDE DEF row
    <3> QED
      BY <1>1, <1>2, <1>6, SumNonzero
  <2> HIDE DEF row, budget, weights
  <2> QED
    BY <1>3, <1>4, <2>1, SumEmpty DEF budget, weights
<1>7. CASE DOMAIN d[b] # {}
  <2> DEFINE unit == total * weights
             scaled == [s \in Symbols |-> unit * row[s]]
             bound == [s \in Symbols |-> budget * wish[s]]
  <2>1. total \in Nat \ {0} /\ unit \in Nat \ {0}
    <3>1. total \in Nat \ {0}
      BY <1>1, <1>7, PortfolioSum
    <3> HIDE DEF total, weights
    <3> QED
      BY <1>3, <3>1, ProductPositive
  <2>2. SumFunctionOnSet(wish, Symbols) = total
    <3>1. SumFunctionOnSet(wish, Symbols) = SumFunctionOnSet(wish, DOMAIN d[b])
      <4>1. /\ \A s \in Symbols : wish[s] \in Int
            /\ \A s \in Symbols \ DOMAIN d[b] : wish[s] = 0
        <5> HIDE DEF wish, row
        <5> QED
          BY ONLY <1>2
      <4> HIDE DEF wish
      <4> QED
        BY ONLY <1>1, <4>1, SumNonzero
    <3>2. \A s \in DOMAIN d[b] : wish[s] \in Int /\ wish[s] = d[b][s]
      <4>1. \A s \in DOMAIN d[b] : s \in Symbols
        BY <1>1
      <4>2. \A s \in DOMAIN d[b] : wish[s] = d[b][s]
        BY Zenon, <4>1
      <4> HIDE DEF wish, row
      <4> QED
        BY ONLY <1>2, <4>1, <4>2
    <3>3. IsFiniteSet(DOMAIN d[b])
      BY <1>1, PortfolioSum
    <3> HIDE DEF wish
    <3>4. SumFunctionOnSet(wish, DOMAIN d[b]) = SumFunctionOnSet(d[b], DOMAIN d[b])
      BY <3>2, <3>3, SumSame
    <3> QED
      BY <3>1, <3>4 DEF SumFunction, total
  <2>3. \A s \in Symbols : unit * row[s] <= budget * wish[s]
    <3> SUFFICES ASSUME NEW s \in Symbols PROVE unit * row[s] <= budget * wish[s]
      OBVIOUS
    <3>1. CASE s \notin DOMAIN d[b]
      <4>1. row[s] = 0 /\ wish[s] = 0
        BY <1>2, <3>1
      <4> HIDE DEF row, wish, unit, budget
      <4> QED
        BY <1>3, <2>1, <4>1
    <3>2. CASE s \in DOMAIN d[b]
      <4>1. row[s] * unit <= d[b][s] * e * Weight[b]
        <5>1. row[s] = Share(d, e, b, s)
          BY <3>2, SpreadFacts
        <5> QED
          BY <3>2, <5>1, ShareFacts
      <4>2. d[b][s] = wish[s] /\ wish[s] \in Nat /\ row[s] \in Nat
        BY <1>2, <3>2
      <4>3. Weight[b] \in Nat
        BY WeightAssumption DEF Desires
      <4>4. wish[s] * e * Weight[b] = (e * Weight[b]) * wish[s]
        <5> HIDE DEF wish
        <5> QED
          BY <4>2, <4>3
      <4>5. row[s] * unit = unit * row[s]
        <5> HIDE DEF row, unit
        <5> QED
          BY <2>1, <4>2
      <4> QED
        BY ONLY <4>1, <4>2, <4>4, <4>5
    <3> QED
      BY <3>1, <3>2
  <2> HIDE DEF row, wish, budget
  <2>4. \A s \in Symbols : /\ row[s] \in Int /\ wish[s] \in Int
                           /\ scaled[s] = unit * row[s] /\ bound[s] = budget * wish[s]
    BY <1>2
  <2>5. \A s \in Symbols : scaled[s] \in Int /\ bound[s] \in Int /\ scaled[s] <= bound[s]
    <3>1. unit \in Int /\ budget \in Int
      BY <1>3, <2>1
    <3> HIDE DEF unit
    <3> QED
      BY <2>3, <2>4, <3>1
  <2> HIDE DEF scaled, bound, unit
  <2>6. SumFunctionOnSet(scaled, Symbols) = unit * SumFunctionOnSet(row, Symbols)
    BY <1>1, <2>1, <2>4, SumTimes
  <2>7. SumFunctionOnSet(bound, Symbols) = budget * SumFunctionOnSet(wish, Symbols)
    BY <1>1, <1>3, <2>4, SumTimes
  <2>8. SumFunctionOnSet(scaled, Symbols) <= SumFunctionOnSet(bound, Symbols)
    BY <1>1, <2>5, SumAtMost
  <2>9. \A x \in Nat : (total * weights) * x <= budget * total => x * weights <= budget
    <3> SUFFICES ASSUME NEW x \in Nat, (total * weights) * x <= budget * total
                 PROVE  x * weights <= budget
      OBVIOUS
    <3> HIDE DEF total, weights
    <3>1. (x * weights) * total = (total * weights) * x
      BY <1>3
    <3>2. x * weights \in Int /\ budget \in Int
      BY <1>3
    <3> QED
      BY <2>1, <3>1, <3>2, CancelFactor
  <2>10. BotTotal(d, e, b) * weights <= budget
    <3> HIDE DEF total, weights
    <3> QED
      BY <1>4, <1>5, <2>2, <2>6, <2>7, <2>8, <2>9 DEF unit
  <2> QED
    BY <1>4, <1>5, <2>10 DEF budget
<1> QED
  BY <1>6, <1>7

\* The targets together never exceed the equity they divide up.
THEOREM TargetsWithinEquity ==
  ASSUME NEW d, Desires(d), NEW e \in Nat
  PROVE  SumFunctionOnSet([s \in Symbols |-> TargetDollars(d, e, s)], Symbols) <= e
<1> DEFINE D == DOMAIN d
           q == Spread(d, e)
           targets == [s \in Symbols |-> TargetDollars(d, e, s)]
           columns == [s \in Symbols |-> SumFunctionOnSet([b \in D |-> q[<<b, s>>]], D)]
           totals == [b \in D |-> SumFunctionOnSet([s \in Symbols |-> q[<<b, s>>]], Symbols)]
           weights == [b \in D |-> Weight[b]]
<1>1. IsFiniteSet(D) /\ IsFiniteSet(Symbols) /\ \A b \in D, s \in Symbols : q[<<b, s>>] \in Int
  BY FiniteAssumption, TotalWeightFacts, SpreadFacts DEF Desires
<1>2. \A s \in Symbols : targets[s] \in Int /\ targets[s] = columns[s]
  BY TargetIsSpread
<1>3. SumFunctionOnSet(targets, Symbols) = SumFunctionOnSet(columns, Symbols)
  <2> HIDE DEF targets, columns
  <2> QED
    BY <1>1, <1>2, SumSame
<1>4. SumFunctionOnSet(columns, Symbols) = SumFunctionOnSet(totals, D)
  <2> HIDE DEF q, D
  <2>1. SumFunctionOnSet(totals, D) = SumFunctionOnSet(columns, Symbols)
    BY <1>1, SumSwap
  <2> QED
    BY <2>1
<1>5. \A b \in D : totals[b] \in Nat /\ totals[b] * TotalWeight(d) <= e * Weight[b]
  BY BotWithinShare DEF BotTotal
<1>6. SumFunctionOnSet(totals, D) \in Nat
  <2> HIDE DEF totals, D
  <2> QED
    BY <1>1, <1>5, SumNat
<1>7. CASE D = {}
  BY <1>3, <1>4, <1>7, SumEmpty
<1>8. CASE D # {}
  <2> DEFINE W == TotalWeight(d)
             scaled == [b \in D |-> W * totals[b]]
             parts == [b \in D |-> e * weights[b]]
  <2>1. W \in Nat \ {0} /\ W = SumFunctionOnSet(weights, D)
    BY <1>8, TotalWeightFacts DEF Desires, TotalWeight, SumFunction
  <2>2. \A b \in D : weights[b] \in Int /\ totals[b] \in Int
    BY <1>5, WeightAssumption DEF Desires
  <2>3. \A b \in D : scaled[b] = W * totals[b] /\ parts[b] = e * weights[b]
    OBVIOUS
  <2>4. \A b \in D : totals[b] * W <= e * weights[b]
    BY <1>5
  <2> HIDE DEF totals, weights, D, W
  <2>5. \A b \in D : scaled[b] \in Int /\ parts[b] \in Int /\ scaled[b] <= parts[b]
    <3> SUFFICES ASSUME NEW b \in D PROVE scaled[b] \in Int /\ parts[b] \in Int /\ scaled[b] <= parts[b]
      OBVIOUS
    <3>1. PICK x, y : x = totals[b] /\ y = weights[b]
      OBVIOUS
    <3>2. x \in Int /\ y \in Int /\ x * W <= e * y
      BY <2>2, <2>4, <3>1
    <3>3. W * x \in Int /\ e * y \in Int /\ W * x <= e * y
      BY ONLY <2>1, <3>2, e \in Nat
    <3> QED
      BY <2>3, <3>1, <3>3
  <2> HIDE DEF scaled, parts
  <2>6. SumFunctionOnSet(scaled, D) = W * SumFunctionOnSet(totals, D)
    BY <1>1, <2>1, <2>2, <2>3, SumTimes
  <2>7. SumFunctionOnSet(parts, D) = e * SumFunctionOnSet(weights, D)
    BY <1>1, <2>2, <2>3, SumTimes
  <2>8. SumFunctionOnSet(scaled, D) <= SumFunctionOnSet(parts, D)
    BY <1>1, <2>5, SumAtMost
  <2>9. SumFunctionOnSet(totals, D) * W <= e * W
    BY <1>6, <2>1, <2>6, <2>7, <2>8
  <2>10. SumFunctionOnSet(totals, D) <= e
    BY <1>6, <2>1, <2>9, CancelFactor
  <2> QED
    BY <1>3, <1>4, <2>10
<1> QED
  BY <1>7, <1>8

-----------------------------------------------------------------------------
\* The order plan between targets and positions.
Dollars(f) == DOMAIN f \subseteq Symbols /\ \A s \in DOMAIN f : f[s] \in Nat

Ordered(t, c) == {s \in Traded(t, c) : Abs(Gap(t, c, s)) >= MinTrade}
Amounts(t, c, side) ==
  [s \in Symbols |-> IF s \in Ordered(t, c) /\ Order(t, c, s).side = side
                       THEN Order(t, c, s).amount ELSE 0]
SideTotal(p, side) == SumFunction([o \in {x \in p : x.side = side} |-> o.amount])
Entries(f) == [s \in Symbols |-> At(f, s)]

LEMMA OrderFacts ==
  ASSUME NEW t, Dollars(t), NEW c, Dollars(c), NEW s
  PROVE  /\ At(t, s) \in Nat /\ At(c, s) \in Nat
         /\ Gap(t, c, s) = At(t, s) - At(c, s)
         /\ Order(t, c, s).sym = s
         /\ Order(t, c, s).amount \in Nat
         /\ Gap(t, c, s) < 0 => /\ Order(t, c, s).side = "sell"
                                /\ Order(t, c, s).amount = At(c, s) - At(t, s)
         /\ ~(Gap(t, c, s) < 0) => /\ Order(t, c, s).side = "buy"
                                   /\ Order(t, c, s).amount = At(t, s) - At(c, s)
         /\ Order(t, c, s).amount = Abs(Gap(t, c, s))
<1>1. At(t, s) \in Nat /\ At(c, s) \in Nat
  BY DEF At, Dollars
<1> QED
  BY <1>1 DEF Order, Gap, Abs

LEMMA PlanIsOrdered ==
  ASSUME NEW t, NEW c, NEW e \in Nat \ {0}
  PROVE  OrderPlan(t, c, e) = {Order(t, c, s) : s \in Ordered(t, c)}
BY DEF OrderPlan, Ordered

\* A plan is a finite set of orders for whole amounts, one per symbol, and it
\* sells no more of a symbol than was held.
LEMMA PlanFacts ==
  ASSUME NEW t, Dollars(t), NEW c, Dollars(c), NEW e \in Nat
  PROVE  /\ IsFiniteSet(OrderPlan(t, c, e))
         /\ \A o \in OrderPlan(t, c, e) :
              /\ o.amount \in Nat
              /\ o.side = "sell" => o.sym \in DOMAIN c /\ o.amount <= c[o.sym]
         /\ \A o, p \in OrderPlan(t, c, e) : o.sym = p.sym => o = p
<1> DEFINE O == Ordered(t, c)
           order == [s \in O |-> Order(t, c, s)]
<1>1. IsFiniteSet(O)
  BY FiniteAssumption, FS_Subset DEF Ordered, Traded, Dollars
<1>2. OrderPlan(t, c, e) \subseteq {order[s] : s \in O}
  BY DEF OrderPlan, Ordered
<1>3. IsFiniteSet({order[s] : s \in O})
  <2> HIDE DEF order, O
  <2> QED
    BY <1>1, ImageFinite
<1>4. ASSUME NEW o \in OrderPlan(t, c, e)
      PROVE  /\ o = Order(t, c, o.sym) /\ o.amount \in Nat
             /\ o.side = "sell" => o.sym \in DOMAIN c /\ o.amount <= c[o.sym]
  <2>1. PICK s : o = Order(t, c, s)
    BY DEF OrderPlan
  <2>2. o.sym = s /\ o.amount \in Nat
    BY <2>1, OrderFacts
  <2>3. ASSUME o.side = "sell" PROVE s \in DOMAIN c /\ o.amount <= c[s]
    <3>1. Gap(t, c, s) < 0 /\ o.amount = At(c, s) - At(t, s)
      BY <2>1, <2>3, OrderFacts
    <3>2. At(t, s) \in Nat /\ At(c, s) \in Nat /\ At(c, s) > 0
      BY <3>1, OrderFacts
    <3>3. s \in DOMAIN c /\ At(c, s) = c[s]
      BY <3>2 DEF At
    <3> QED
      BY <3>1, <3>2, <3>3
  <2> QED
    BY <2>1, <2>2, <2>3
<1> QED
  BY <1>2, <1>3, <1>4, FS_Subset

\* What a plan buys or sells, summed symbol by symbol.
LEMMA SideTotalOfPlan ==
  ASSUME NEW t, Dollars(t), NEW c, Dollars(c), NEW e \in Nat \ {0}, NEW side
  PROVE  /\ \A s \in Symbols : Amounts(t, c, side)[s] \in Nat
         /\ SideTotal(OrderPlan(t, c, e), side)
              = SumFunctionOnSet(Amounts(t, c, side), Symbols)
<1> DEFINE B == {s \in Ordered(t, c) : Order(t, c, s).side = side}
           p == [s \in B |-> Order(t, c, s)]
           f == [o \in {x \in OrderPlan(t, c, e) : x.side = side} |-> o.amount]
           h == [s \in B |-> Order(t, c, s).amount]
           a == Amounts(t, c, side)
<1>1. IsFiniteSet(B) /\ B \in SUBSET Symbols
  BY FiniteAssumption, FS_Subset DEF Ordered, Traded, Dollars
<1>2. \A x, y \in B : p[x] = p[y] => x = y
  BY OrderFacts
<1>3. {x \in OrderPlan(t, c, e) : x.side = side} = {p[s] : s \in B}
  <2>1. OrderPlan(t, c, e) = {Order(t, c, s) : s \in Ordered(t, c)}
    BY PlanIsOrdered
  <2>2. \A s \in B : p[s] = Order(t, c, s)
    OBVIOUS
  <2> QED
    BY <2>1, <2>2
<1>4. \A s \in B : h[s] \in Int /\ h[s] = f[p[s]]
  <2> SUFFICES ASSUME NEW s \in B PROVE h[s] \in Int /\ h[s] = f[p[s]]
    OBVIOUS
  <2>1. p[s] \in {x \in OrderPlan(t, c, e) : x.side = side}
    BY <1>3
  <2>2. f[p[s]] = p[s].amount
    <3> HIDE DEF p
    <3> QED
      BY <2>1
  <2> QED
    BY <2>2, OrderFacts
<1>5. SideTotal(OrderPlan(t, c, e), side) = SumFunctionOnSet(f, {p[s] : s \in B})
  BY <1>3 DEF SideTotal, SumFunction
<1>6. SumFunctionOnSet(f, {p[s] : s \in B}) = SumFunctionOnSet(h, B)
  <2> HIDE DEF f, p, h, B
  <2> QED
    BY <1>1, <1>2, <1>4, SumOverImage
<1>7. /\ \A s \in Symbols : a[s] \in Nat
      /\ \A s \in Symbols \ B : a[s] = 0
  BY OrderFacts DEF Amounts
<1>8. \A s \in B : h[s] \in Int /\ h[s] = a[s]
  BY <1>1, OrderFacts DEF Amounts
<1>9. SumFunctionOnSet(h, B) = SumFunctionOnSet(a, Symbols)
  <2> HIDE DEF h, a, B
  <2>1. SumFunctionOnSet(h, B) = SumFunctionOnSet(a, B)
    BY <1>1, <1>8, SumSame
  <2>2. \A s \in Symbols : a[s] \in Int
    BY <1>7
  <2>3. SumFunctionOnSet(a, Symbols) = SumFunctionOnSet(a, B)
    BY ONLY <1>1, <1>7, <2>2, FiniteAssumption, SumNonzero
  <2> QED
    BY <2>1, <2>3
<1> QED
  BY <1>5, <1>6, <1>7, <1>9

=============================================================================
