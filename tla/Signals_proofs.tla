---------------------------- MODULE Signals_proofs ----------------------------
(***************************************************************************)
(* What the two bots answer, for any number of tickers and rows: the name  *)
(* Force ranked first is not displaced without cause; Aptet holds as many  *)
(* names as it asks for, keeps its parameters for a while, and replays the *)
(* past it shares with an earlier download alike; and the types of it all. *)
(***************************************************************************)
EXTENDS Signals, FoldLemmas, TLAPS

-----------------------------------------------------------------------------
(* Force: what the ranking may not do to the name it defends first.        *)

\* The columns of a set of tickers, in order, each once.
LEMMA ColumnsInOrder ==
  ASSUME NEW D \in SUBSET Tickers, NEW s, s = InColumns(D)
  PROVE  /\ s \in Seq(D) /\ Len(s) = Cardinality(D) /\ Len(s) \in Nat /\ Distinct(s)
         /\ \A t \in D : \E i \in 1..Len(s) : s[i] = t
<1>1. IsFiniteSet(D)
  BY TickersAssumption, FS_Subset
<1>2. PICK less : less = {p \in D \X D : Column[p[1]] < Column[p[2]]}
  OBVIOUS
<1>3. \A t, u \in D : <<t, u>> \in less <=> Column[t] < Column[u]
  BY <1>2
<1>4. \A t, u \in D : Column[t] \in Nat /\ (Column[t] = Column[u] => t = u)
  BY ColumnAssumption
<1>5. IsOrder(D, less)
  BY <1>3, <1>4 DEF IsOrder
<1>6. s = InOrder(D, less)
  BY <1>2 DEF InColumns
<1>7. PICK n : n = Cardinality(D)
  OBVIOUS
<1>8. /\ s \in [1..n -> D] /\ n \in Nat
      /\ \A i, j \in 1..n : i < j => <<s[i], s[j]>> \in less /\ s[i] # s[j]
      /\ \A t \in D : \E i \in 1..n : s[i] = t
  BY <1>1, <1>5, <1>6, <1>7, InOrderFacts
<1>9. s \in Seq(D) /\ Len(s) = n
  BY <1>8
<1>10. Distinct(s)
  <2> SUFFICES ASSUME NEW i \in 1..n, NEW j \in 1..n, i # j PROVE s[i] # s[j]
    BY <1>9 DEF Distinct
  <2>1. i < j \/ j < i
    BY <1>8
  <2> QED
    BY <1>8, <2>1
<1> QED
  BY <1>7, <1>8, <1>9, <1>10

\* The pairs before says come in order.
LessBy(returns, margin, held) ==
  LET rank == [t \in ToSet(held) \cap DOMAIN returns |-> CHOOSE i \in DOMAIN held : held[i] = t]
  IN {p \in (DOMAIN returns) \X (DOMAIN returns) : Before(returns, rank, margin, p[1], p[2])}

\* Ranked has every name once.
LEMMA RankedFacts ==
  ASSUME NEW returns, DOMAIN returns \subseteq Tickers, NEW margin, NEW held,
         NEW out, out = Ranked(returns, margin, held)
  PROVE  /\ out \in Seq(DOMAIN returns) /\ Len(out) = Cardinality(DOMAIN returns) /\ Distinct(out)
         /\ \A t \in DOMAIN returns : LeastOf(t, InColumns(DOMAIN returns), LessBy(returns, margin, held)) => out[1] = t
<1>1. PICK D : D = DOMAIN returns
  OBVIOUS
<1>2. PICK s : s = InColumns(D)
  OBVIOUS
<1>3. PICK less : less = LessBy(returns, margin, held)
  OBVIOUS
<1>4. out = PythonSorted(s, less)
  BY <1>1, <1>2, <1>3 DEF Ranked, LessBy
<1>5. D \in SUBSET Tickers
  BY <1>1
<1>6. /\ s \in Seq(D) /\ Len(s) = Cardinality(D) /\ Len(s) \in Nat /\ Distinct(s)
      /\ \A t \in D : \E i \in 1..Len(s) : s[i] = t
  BY <1>2, <1>5, ColumnsInOrder
<1>7. CASE Len(s) = 0
  <2>1. s = <<>>
    BY <1>6, <1>7
  <2>2. out = <<>>
    BY <1>4, <2>1, SortedEmpty
  <2> QED
    BY <1>1, <1>6, <1>7, <2>2 DEF Distinct
<1>8. CASE Len(s) >= 1
  <2>1. /\ out \in Seq(D) /\ Shuffled(out, s, Len(s))
        /\ \A j \in 1..Len(s) : LeastOf(s[j], s, less) => out[1] = s[j]
    BY <1>4, <1>6, <1>8, SortedFacts
  <2>2. Len(out) = Len(s) /\ Distinct(out)
    BY <2>1 DEF Shuffled, Distinct
  <2>3. ASSUME NEW t \in D, LeastOf(t, s, less) PROVE out[1] = t
    <3>1. PICK i \in 1..Len(s) : s[i] = t
      BY <1>6
    <3> QED
      BY <2>1, <2>3, <3>1
  <2> QED
    BY <1>1, <1>2, <1>3, <1>6, <2>1, <2>2, <2>3
<1> QED
  BY <1>6, <1>7, <1>8

\* What is left of a sequence when its first n are taken.
LEMMA LeadingFacts ==
  ASSUME NEW S, NEW s \in Seq(S), NEW n \in Int, NEW r, r = Leading(s, n)
  PROVE  /\ r \in Seq(S) /\ Len(r) <= Len(s) /\ \A i \in 1..Len(r) : r[i] = s[i]
         /\ n >= 0 => Len(r) = IF n <= Len(s) THEN n ELSE Len(s)
<1>1. PICK m : m = Min({n, Len(s)})
  OBVIOUS
<1>2. m = (IF n <= Len(s) THEN n ELSE Len(s)) /\ m \in Int /\ m <= Len(s)
  BY <1>1, MinOfTwo
<1>3. r = SubSeq(s, 1, m)
  BY <1>1 DEF Leading
<1>4. CASE m < 1
  <2>1. r = <<>>
    BY <1>2, <1>3, <1>4
  <2> QED
    BY <1>2, <1>4, <2>1
<1>5. CASE m >= 1
  <2>1. r \in Seq(S) /\ Len(r) = m /\ \A i \in 1..m : r[i] = s[i]
    BY <1>2, <1>3, <1>5
  <2> QED
    BY <1>2, <1>5, <2>1
<1> QED
  BY <1>2, <1>4, <1>5

\* What Force chooses, unless it is off: nothing, or the best as they are ranked.
LEMMA ChosenFacts ==
  ASSUME NEW c, NEW prices, NEW end, NEW held, NEW chosen, chosen = ChosenByForce(c, prices, end, held),
         ~chosen.off, chosen.names # <<>>, NEW ranked, ranked = Trailing(prices, end, c.lookback, c.universe)
  PROVE  chosen.names = Leading(Ranked(ranked, c.margin, held), c.topN)
<1> DEFINE returns  == Trailing(prices, end, c.lookback, Tickers)
           off      == KillSwitch(c, ranked) \/ BenchmarkFilter(c, returns)
           selected == IF off THEN <<>> ELSE Leading(Ranked(ranked, c.margin, held), c.topN)
<1>1. /\ chosen.names = CASE selected # <<>> -> selected
                          [] selected = <<>> /\ c.cash # NoTicker -> <<c.cash>>
                          [] OTHER -> <<>>
      /\ chosen.off = (off \/ (selected = <<>> /\ c.cash # NoTicker))
  BY DEF ChosenByForce
<1>2. ~off /\ ~(selected = <<>> /\ c.cash # NoTicker)
  BY <1>1
<1>3. selected # <<>>
  BY <1>1, <1>2
<1> QED
  BY <1>1, <1>2, <1>3

\* The returns are of names asked for.
LEMMA TrailingOf ==
  ASSUME NEW prices, NEW end, NEW n, NEW among
  PROVE  DOMAIN Trailing(prices, end, n, among) \subseteq among
BY DEF Trailing, ReturnsIn

\* A name that is ranked and that no other beats by the margin.
Unrivalled(returns, margin, t) ==
  t \in DOMAIN returns /\ \A u \in DOMAIN returns \ {t} : ~Beats(returns, margin, u, t)

LEMMA FirstStays ==
  ASSUME NEW c, NEW prices, c.universe \subseteq Tickers, c.topN \in Int,
         NEW answer, answer = RunForce(c, prices), ~answer.off, answer.signal = "REBALANCE",
         NEW held, held = Incumbents(c, prices), held # <<>>,
         NEW returns, returns = Trailing(prices, Len(prices), c.lookback, c.universe),
         NEW first, first = held[1], Unrivalled(returns, c.margin, first)
  PROVE  answer.names[1] = first
<1>1. PICK D : D = DOMAIN returns
  OBVIOUS
<1>2. D \subseteq Tickers /\ first \in D
  BY <1>1, TrailingOf DEF Unrivalled
<1>3. held \in Seq(Tickers) /\ Distinct(held)
  <2>1. PICK prior : prior = ChosenByForce(c, prices, Len(prices) - 1, <<>>)
    OBVIOUS
  <2>2. ~prior.off /\ held = prior.names
    BY <2>1 DEF Incumbents
  <2>3. PICK before : before = Trailing(prices, Len(prices) - 1, c.lookback, c.universe)
    OBVIOUS
  <2>4. PICK r : r = Ranked(before, c.margin, <<>>)
    OBVIOUS
  <2>5. held = Leading(r, c.topN)
    BY <2>1, <2>2, <2>3, <2>4, ChosenFacts
  <2>6. DOMAIN before \subseteq Tickers
    BY <2>3, TrailingOf
  <2>7. r \in Seq(DOMAIN before) /\ Distinct(r)
    BY <2>4, <2>6, RankedFacts
  <2>8. held \in Seq(DOMAIN before) /\ Len(held) <= Len(r) /\ \A i \in 1..Len(held) : held[i] = r[i]
    BY <2>5, <2>7, LeadingFacts
  <2>9. held \in Seq(Tickers)
    BY <2>6, <2>8
  <2>10. Distinct(held)
    <3>1. Len(held) \in Nat /\ Len(r) \in Nat
      BY <2>7, <2>8
    <3>2. ASSUME NEW i \in 1..Len(held), NEW j \in 1..Len(held), held[i] = held[j] PROVE i = j
      <4>1. i \in 1..Len(r) /\ j \in 1..Len(r) /\ r[i] = r[j]
        BY <2>8, <3>1, <3>2
      <4> QED
        BY <2>7, <4>1 DEF Distinct
    <3> QED
      BY <3>2 DEF Distinct
  <2> QED
    BY <2>9, <2>10
<1>4. PICK chosen : chosen = ChosenByForce(c, prices, Len(prices), held)
  OBVIOUS
<1>5. ~chosen.off /\ chosen.names # <<>> /\ answer.names = chosen.names
  BY <1>4 DEF RunForce
<1>6. PICK r : r = Ranked(returns, c.margin, held)
  OBVIOUS
<1>7. answer.names = Leading(r, c.topN)
  BY <1>4, <1>5, <1>6, ChosenFacts
<1>8. /\ r \in Seq(D)
      /\ \A t \in D : LeastOf(t, InColumns(D), LessBy(returns, c.margin, held)) => r[1] = t
  BY <1>1, <1>2, <1>6, RankedFacts
<1>9. answer.names[1] = r[1]
  <2>1. answer.names \in Seq(D) /\ \A i \in 1..Len(answer.names) : answer.names[i] = r[i]
    BY <1>7, <1>8, LeadingFacts
  <2>2. 1 \in 1..Len(answer.names)
    BY <1>5, <2>1
  <2> QED
    BY <2>1, <2>2
<1>10. PICK rank : rank = [t \in ToSet(held) \cap D |-> CHOOSE i \in DOMAIN held : held[i] = t]
  OBVIOUS
<1>11. 1 \in DOMAIN held /\ Len(held) \in Nat /\ DOMAIN held = 1..Len(held)
  BY <1>3
<1>12. DOMAIN rank = ToSet(held) \cap D /\ first \in DOMAIN rank
  BY <1>2, <1>10, <1>11 DEF ToSet
<1>13. \A t \in DOMAIN rank : rank[t] \in DOMAIN held /\ held[rank[t]] = t
  BY <1>10, <1>12 DEF ToSet
<1>14. rank[first] = 1
  BY <1>3, <1>11, <1>12, <1>13 DEF Distinct
<1>15. \A u \in DOMAIN rank : u # first => rank[u] > 1
  BY <1>11, <1>13
<1>16. PICK less : less = LessBy(returns, c.margin, held)
  OBVIOUS
<1>17. \A t, u \in D : <<t, u>> \in less <=> Before(returns, rank, c.margin, t, u)
  BY <1>1, <1>10, <1>16 DEF LessBy
<1>18. ASSUME NEW u \in D, u # first
       PROVE  <<first, u>> \in less /\ <<u, first>> \notin less
  <2>1. ~Beats(returns, c.margin, u, first)
    BY <1>1, <1>18 DEF Unrivalled
  <2>2. Before(returns, rank, c.margin, first, u)
    BY <1>12, <1>14, <1>15, <1>18, <2>1 DEF Before
  <2>3. ~Before(returns, rank, c.margin, u, first)
    <3>1. ~(u \in DOMAIN rank /\ (first \in DOMAIN rank => rank[u] < rank[first]))
      <4>1. \A n \in DOMAIN held : n > 1 => ~(n < 1)
        BY <1>11
      <4> QED
        BY <1>12, <1>13, <1>14, <1>15, <1>18, <4>1
    <3> QED
      BY <1>12, <2>1, <3>1 DEF Before
  <2> QED
    BY <1>2, <1>17, <1>18, <2>2, <2>3
<1>19. LeastOf(first, InColumns(D), less)
  <2>1. PICK s : s = InColumns(D)
    OBVIOUS
  <2>2. s \in Seq(D)
    BY <1>2, <2>1, ColumnsInOrder
  <2>3. \A i \in 1..Len(s) : s[i] \in D
    BY <2>2
  <2> QED
    BY <1>18, <2>1, <2>3 DEF LeastOf
<1> QED
  BY <1>2, <1>8, <1>9, <1>16, <1>19

\* What params_json says of Force, once in range.
LEMMA RankWeightsFacts ==
  ASSUME NEW raw \in Seq(Int), NEW w, w = RankWeights(raw)
  PROVE  w \in Seq(Nat \ {0}) /\ Len(w) \in Nat /\ Len(w) >= 1
<1>1. PICK I : I = {i \in DOMAIN raw : raw[i] > 0}
  OBVIOUS
<1>2. IsFiniteSet(I) /\ (\A i \in I : i \in Int) /\ (\A i \in I : raw[i] \in Nat \ {0})
  <2>1. Len(raw) \in Nat /\ DOMAIN raw = 1..Len(raw) /\ \A i \in 1..Len(raw) : raw[i] \in Int
    OBVIOUS
  <2>2. IsFiniteSet(1..Len(raw))
    BY <2>1, FS_Interval
  <2>3. I \subseteq 1..Len(raw)
    BY <1>1, <2>1
  <2>4. IsFiniteSet(I)
    BY <2>2, <2>3, FS_Subset
  <2>5. \A i \in I : i \in Int
    BY <2>1, <2>3
  <2>6. \A i \in I : raw[i] \in Nat \ {0}
    BY <1>1, <2>1
  <2> QED
    BY <2>4, <2>5, <2>6
<1>3. PICK r, n : r = AtPlaces(raw, I) /\ n = Cardinality(I)
  OBVIOUS
<1>4. /\ n \in Nat /\ DOMAIN r = 1..n /\ r = [k \in 1..n |-> r[k]]
      /\ \A k \in 1..n : \E i \in I : r[k] = raw[i]
  BY <1>2, <1>3, AtFacts
<1>5. \A k \in 1..n : r[k] \in Nat \ {0}
  BY <1>2, <1>4
<1>6. r \in Seq(Nat \ {0})
  BY <1>4, <1>5
<1>7. w \in Seq(Nat \ {0}) /\ w # <<>>
  BY <1>1, <1>3, <1>6, ForceDefaultsAssumption DEF RankWeights
<1>8. Len(w) \in Nat /\ Len(w) # 0
  BY <1>7
<1> QED
  BY <1>7, <1>8

IsForceConfig(c) ==
  /\ c.universe \in SUBSET Tickers /\ c.cash \in Tickers \cup {NoTicker}
  /\ c.rankWeights \in Seq(Nat \ {0})
  /\ c.topN \in Nat /\ 1 <= c.topN /\ c.topN <= Len(c.rankWeights)

LEMMA ForceConfigFacts ==
  ASSUME NEW raw \in ForceSettings, NEW c, c = ForceConfig(raw)
  PROVE  IsForceConfig(c)
<1>1. /\ raw.universe \in SUBSET Tickers /\ raw.topN \in Int /\ raw.rankWeights \in Seq(Int)
      /\ raw.cash \in Tickers \cup {NoTicker}
      /\ DOMAIN raw = {"universe", "cash", "benchmark", "topN", "lookback", "killSwitch", "killMode",
                       "topThreshold", "benchmarkFilter", "benchmarkMode", "benchmarkThreshold",
                       "margin", "rankWeights"}
  BY SettingsAssumption
<1>2. PICK m, w : m = ClampTopN(raw.topN, RankWeights(raw.rankWeights)) /\ w = RankWeights(raw.rankWeights)
  OBVIOUS
<1>3. w \in Seq(Nat \ {0}) /\ Len(w) \in Nat /\ Len(w) >= 1
  BY <1>1, <1>2, RankWeightsFacts
<1>4. m \in Nat /\ 1 <= m /\ m <= Len(w)
  <2>1. PICK n : n = Len(w)
    OBVIOUS
  <2>2. n \in Nat /\ n >= 1
    BY <1>3, <2>1
  <2>3. PICK k : k = Min({raw.topN, n})
    OBVIOUS
  <2>4. k \in Int /\ k <= n
    BY <1>1, <2>2, <2>3, MinOfTwo
  <2>5. PICK l : l = Max({1, k})
    OBVIOUS
  <2>6. l \in Int /\ 1 <= l /\ l <= n
    BY <2>2, <2>4, <2>5, MaxOfTwo
  <2>7. m = Min({l, 10})
    BY <1>2, <2>1, <2>3, <2>5 DEF ClampTopN
  <2>8. m = IF l <= 10 THEN l ELSE 10
    BY <2>6, <2>7, MinOfTwo
  <2> QED
    BY <2>1, <2>2, <2>6, <2>8
<1>5. PICK u, b : /\ u = IF raw.universe = {} THEN DefaultUniverse ELSE raw.universe
                  /\ b = IF raw.lookback < 1 THEN 14 ELSE raw.lookback
  OBVIOUS
<1>6. c = [raw EXCEPT !.universe = u, !.rankWeights = w, !.topN = m, !.lookback = b]
  BY <1>2, <1>5 DEF ForceConfig
<1>7. c.universe = u /\ c.topN = m /\ c.rankWeights = w /\ c.cash = raw.cash
  BY <1>1, <1>6
<1>8. u \in SUBSET Tickers
  BY <1>1, <1>5, ForceDefaultsAssumption
<1> QED
  BY <1>1, <1>3, <1>4, <1>7, <1>8 DEF IsForceConfig

\* What force says was computed from what it is compared with.
Answered == pc = "answered" /\ Complete => force = RunForce(ForceNow, Frame(fetched))

AnsweredInv ==
  /\ settings \in [force : ForceSettings, aptet : AptetSettings]
  /\ Answered

\* The name Force would have ranked first a row earlier stays first as long as
\* no rival clears its margin, for any ranking the margins make of the others.
THEOREM FirstHeldFirst == Spec => []FirstHeldStays
<1>1. Init => AnsweredInv
  BY DEF Init, AnsweredInv, Answered
<1>2. AnsweredInv /\ [Next]_vars => AnsweredInv'
  <2> SUFFICES ASSUME AnsweredInv, [Next]_vars PROVE AnsweredInv'
    OBVIOUS
  <2>0. settings' = settings /\ settings' \in [force : ForceSettings, aptet : AptetSettings]
    BY DEF AnsweredInv, Next, vars, NewDay, Move, StartForce, ForceAnswers, StartAptet, AptetAnswers,
           FetchPage, FetchAll, FetchFails
  <2>1. CASE ForceAnswers
    <3>1. force' = RunForce(ForceNow', Frame(fetched)')
      BY <2>0, <2>1 DEF ForceAnswers, ForceNow
    <3> QED
      BY <2>0, <3>1 DEF AnsweredInv, Answered
  <2>2. CASE FetchFails
    <3>1. DOMAIN fetched' = {} /\ Tickers # {}
      BY <2>2, ForceDefaultsAssumption DEF FetchFails, NoSeries
    <3>2. ~Complete'
      BY <3>1 DEF Complete
    <3> QED
      BY <2>0, <3>2 DEF AnsweredInv, Answered
  <2>3. CASE StartForce \/ StartAptet \/ AptetAnswers \/ FetchPage \/ FetchAll
    <3>1. pc' # "answered"
      BY <2>3 DEF StartForce, StartAptet, AptetAnswers, FetchPage, FetchAll
    <3> QED
      BY <2>0, <3>1 DEF AnsweredInv, Answered
  <2>4. CASE (\E r \in Rows : NewDay(r) \/ Move(r)) \/ UNCHANGED vars
    <3>1. UNCHANGED <<settings, pc, fetched, force>>
      BY <2>4 DEF NewDay, Move, vars
    <3>2. Answered'
      BY <3>1 DEF AnsweredInv, Answered, Complete, ForceNow
    <3> QED
      BY <2>0, <3>2 DEF AnsweredInv
  <2> QED
    BY <2>1, <2>2, <2>3, <2>4 DEF Next
<1>3. AnsweredInv => FirstHeldStays
  <2> DEFINE prices  == Frame(fetched)
             held    == Incumbents(ForceNow, prices)
             returns == Trailing(prices, Len(prices), ForceNow.lookback, ForceNow.universe)
  <2> SUFFICES ASSUME AnsweredInv, pc = "answered", Complete, ~force.off, force.signal = "REBALANCE",
                      held # <<>>, Unrivalled(returns, ForceNow.margin, held[1])
               PROVE  force.names[1] = held[1]
    BY DEF FirstHeldStays, Unrivalled
  <2>1. PICK c : c = ForceNow
    OBVIOUS
  <2>2. force = RunForce(c, prices)
    BY <2>1 DEF AnsweredInv, Answered
  <2>3. settings.force \in ForceSettings
    BY DEF AnsweredInv
  <2>4. c.universe \in SUBSET Tickers /\ c.topN \in Int
    BY <2>1, <2>3, ForceConfigFacts DEF ForceNow, IsForceConfig
  <2>5. PICK first : first = held[1]
    OBVIOUS
  <2>6. force.names[1] = first
    BY <2>1, <2>2, <2>4, <2>5, FirstStays
  <2> QED
    BY <2>5, <2>6
<1> QED
  BY <1>1, <1>2, <1>3, PTL DEF Spec

-----------------------------------------------------------------------------
(* Aptet: how long it keeps its parameters, and how far it moves them.      *)

\* What params_json says of Aptet, once in range.
LEMMA HoldingsBoundsFacts ==
  ASSUME NEW size \in Nat, size >= 1, NEW wantedMin \in Int, NEW wantedMax \in Int,
         NEW b, b = HoldingsBounds(size, wantedMin, wantedMax)
  PROVE  b.min \in Nat /\ b.max \in Nat /\ 1 <= b.min /\ b.min <= b.max
<1>1. PICK cap : cap = Min({size, MaxNames})
  OBVIOUS
<1>2. cap \in Int /\ cap >= 1
  BY <1>1, MinOfTwo, HoldingsAssumption
<1>3. PICK floor : floor = Min({AbsoluteMin, cap})
  OBVIOUS
<1>4. floor \in Int /\ floor >= 1 /\ floor <= cap
  BY <1>2, <1>3, MinOfTwo, HoldingsAssumption
<1>5. PICK wide : wide = Max({wantedMax, floor})
  OBVIOUS
<1>6. wide \in Int /\ wide >= floor
  BY <1>4, <1>5, MaxOfTwo
<1>7. PICK max : max = Min({cap, wide})
  OBVIOUS
<1>8. max \in Int /\ max >= 1 /\ max >= floor
  BY <1>2, <1>4, <1>6, <1>7, MinOfTwo
<1>9. PICK narrow : narrow = Max({wantedMin, floor})
  OBVIOUS
<1>10. narrow \in Int /\ narrow >= 1
  BY <1>4, <1>9, MaxOfTwo
<1>11. PICK min : min = Min({max, narrow})
  OBVIOUS
<1>12. min \in Int /\ min >= 1 /\ min <= max
  BY <1>8, <1>10, <1>11, MinOfTwo
<1>13. b = [min |-> min, max |-> max]
  BY <1>1, <1>2, <1>3, <1>5, <1>7, <1>9, <1>11 DEF HoldingsBounds
<1> QED
  BY <1>8, <1>12, <1>13

IsAptetConfig(c) ==
  /\ c.universe \in SUBSET Tickers /\ c.universe # {} /\ c.fallback \in Tickers
  /\ c.min \in Nat /\ c.max \in Nat /\ 1 <= c.min /\ c.min <= c.max

LEMMA AptetConfigFacts ==
  ASSUME NEW raw \in AptetSettings, NEW c, c = AptetConfig(raw)
  PROVE  IsAptetConfig(c)
<1>1. /\ raw.universe \in SUBSET Tickers /\ raw.fallback \in Tickers /\ raw.min \in Int /\ raw.max \in Int
      /\ DOMAIN raw = {"universe", "fallback", "min", "max", "riskOff"}
  BY SettingsAssumption
<1>2. PICK named : named = raw.universe \ {raw.fallback}
  OBVIOUS
<1>3. PICK u : u = IF named = {} THEN AptetUniverse ELSE named
  OBVIOUS
<1>4. u \in SUBSET Tickers /\ u # {}
  BY <1>1, <1>2, <1>3, AptetUniverseAssumption
<1>5. PICK n : n = Cardinality(u)
  OBVIOUS
<1>6. n \in Nat /\ n >= 1
  <2>1. IsFiniteSet(u)
    BY <1>4, TickersAssumption, FS_Subset
  <2>2. n \in Nat /\ n # 0
    BY <1>4, <1>5, <2>1, FS_CardinalityType, FS_EmptySet
  <2> QED
    BY <2>2
<1>7. PICK x, y : x = Max({1, raw.min}) /\ y = Max({1, raw.max})
  OBVIOUS
<1>8. x \in Int /\ y \in Int
  BY <1>1, <1>7, MaxOfTwo
<1>9. PICK b : b = HoldingsBounds(n, x, y)
  OBVIOUS
<1>10. b.min \in Nat /\ b.max \in Nat /\ 1 <= b.min /\ b.min <= b.max
  BY <1>6, <1>8, <1>9, HoldingsBoundsFacts
<1>11. c = [raw EXCEPT !.universe = u, !.min = b.min, !.max = b.max]
  BY <1>2, <1>3, <1>5, <1>7, <1>9 DEF AptetConfig
<1>12. c.universe = u /\ c.min = b.min /\ c.max = b.max /\ c.fallback = raw.fallback
  BY <1>1, <1>11
<1> QED
  BY <1>1, <1>4, <1>10, <1>12 DEF IsAptetConfig

\* The parameters a search may find.
LEMMA OptimizedFacts ==
  ASSUME NEW c, IsAptetConfig(c), NEW prices, NEW end, NEW prior, prior = 0 \/ prior \in c.min..c.max,
         NEW p \in Optimized(c, prices, end, prior)
  PROVE  /\ p[1] \in Nat /\ p[1] >= 1 /\ p[2] \in c.min..c.max
         /\ prior # 0 => p[2] - prior \in -1..1
<1>1. PICK N : N = CandidateTopNs(c, prior)
  OBVIOUS
<1>2. \A n \in N : n \in c.min..c.max /\ (prior # 0 => n - prior \in -1..1)
  <2>1. CASE prior = 0
    BY <1>1, <2>1 DEF CandidateTopNs
  <2>2. CASE prior # 0
    <3>1. prior \in {n \in c.min..c.max : n - prior \in -1..1}
      BY <2>2 DEF IsAptetConfig
    <3>2. N = {n \in c.min..c.max : n - prior \in -1..1}
      BY <1>1, <2>2, <3>1 DEF CandidateTopNs
    <3> QED
      BY <3>2
  <2> QED
    BY <2>1, <2>2
<1>3. p \in ToSet(Lookbacks) \X N
  <2>1. PICK path : path = [q \in ToSet(Lookbacks) \X N |-> Simulated(c, View(prices, end), q[1], q[2])]
    OBVIOUS
  <2>2. p \in FirstBest(ScoresOf(path))
    BY <1>1, <2>1 DEF Optimized
  <2>3. p \in DOMAIN ScoresOf(path)
    BY <2>2 DEF FirstBest
  <2>4. p \in DOMAIN path
    BY <2>3 DEF ScoresOf
  <2> QED
    BY <2>1, <2>4
<1>4. p[1] \in ToSet(Lookbacks) /\ p[2] \in N
  BY <1>3
<1> QED
  BY <1>2, <1>4, SearchAssumption

\* What Aptet knows of its parameters: none yet, or some in range.
KnownParameters(c, state) ==
  \/ state.lookback = 0 /\ state.topN = 0
  \/ state.lookback \in Nat /\ state.lookback >= 1 /\ state.topN \in c.min..c.max

LEMMA SettledFacts ==
  ASSUME NEW c, IsAptetConfig(c), NEW state, KnownParameters(c, state), NEW prices, NEW end,
         NEW best, best = IF Searches(state) THEN Optimized(c, prices, end, state.topN) ELSE {},
         NEW d, d = Settled(c, state, best)
  PROVE  /\ d.lookback \in Nat /\ d.lookback >= 1 /\ d.topN \in c.min..c.max
         /\ ~Fresh(state) => d.topN - state.topN \in -1..1
         /\ ~Searches(state) => d.lookback = state.lookback /\ d.topN = state.topN
<1>1. /\ c.min \in Int /\ c.max \in Int /\ 1 <= c.min /\ c.min <= c.max
      /\ \A n \in c.min..c.max : n \in Int /\ c.min <= n /\ n <= c.max /\ n # 0
  BY DEF IsAptetConfig
<1>2. Fresh(state) <=> state.lookback = 0 /\ state.topN = 0
  BY <1>1 DEF Fresh, KnownParameters
<1>3. PICK pick : pick = CASE best # {} -> CHOOSE p \in best : TRUE
                           [] best = {} /\ ~Fresh(state) -> <<state.lookback, state.topN>>
                           [] OTHER -> <<DefaultLookback, DefaultTopN(c)>>
  OBVIOUS
<1>4. d = [lookback |-> pick[1], topN |-> Max({c.min, Min({c.max, pick[2]})})]
  BY Zenon, <1>3 DEF Settled
<1>5. d.lookback = pick[1] /\ d.topN = Max({c.min, Min({c.max, pick[2]})})
  BY <1>4
<1>6. ASSUME NEW n \in Int
      PROVE  /\ Max({c.min, Min({c.max, n})}) \in c.min..c.max
             /\ n \in c.min..c.max => Max({c.min, Min({c.max, n})}) = n
  <2>1. PICK m : m = Min({c.max, n})
    OBVIOUS
  <2>2. m = (IF c.max <= n THEN c.max ELSE n) /\ m \in Int
    BY <1>1, <2>1, MinOfTwo
  <2>3. PICK l : l = Max({c.min, m})
    OBVIOUS
  <2>4. l = (IF c.min >= m THEN c.min ELSE m)
    BY <1>1, <2>2, <2>3, MaxOfTwo
  <2> QED
    BY <1>1, <2>1, <2>2, <2>3, <2>4
<1>7. CASE best # {}
  <2>1. Searches(state) /\ pick \in Optimized(c, prices, end, state.topN)
    BY <1>3, <1>7
  <2>2. state.topN = 0 \/ state.topN \in c.min..c.max
    BY DEF KnownParameters
  <2>3. /\ pick[1] \in Nat /\ pick[1] >= 1 /\ pick[2] \in c.min..c.max
        /\ state.topN # 0 => pick[2] - state.topN \in -1..1
    BY <2>1, <2>2, OptimizedFacts
  <2>4. d.topN = pick[2]
    BY <1>1, <1>5, <1>6, <2>3
  <2>5. ~Fresh(state) => state.topN # 0
    BY DEF Fresh
  <2> QED
    BY <1>5, <2>1, <2>3, <2>4, <2>5
<1>8. CASE best = {} /\ ~Fresh(state)
  <2>1. pick[1] = state.lookback /\ pick[2] = state.topN
    BY <1>3, <1>8
  <2>2. state.lookback \in Nat /\ state.lookback >= 1 /\ state.topN \in c.min..c.max
    BY <1>2, <1>8 DEF KnownParameters
  <2>3. d.topN = state.topN /\ d.lookback = state.lookback
    BY <1>1, <1>5, <1>6, <2>1, <2>2
  <2> QED
    BY <1>1, <2>2, <2>3
<1>9. CASE best = {} /\ Fresh(state)
  <2>1. pick[1] = DefaultLookback /\ pick[2] = DefaultTopN(c)
    BY <1>3, <1>9
  <2>2. DefaultTopN(c) \in Int
    <3>1. PICK n : n = Cardinality(c.universe)
      OBVIOUS
    <3>2. n \in Nat
      BY <3>1, TickersAssumption, FS_Subset, FS_CardinalityType DEF IsAptetConfig
    <3>3. PICK l : l = Max({1, n})
      OBVIOUS
    <3>4. l \in Int
      BY <3>2, <3>3, MaxOfTwo
    <3>5. DefaultTopN(c) = Min({c.min, l})
      BY <3>1, <3>3 DEF DefaultTopN
    <3> QED
      BY <1>1, <3>4, <3>5, MinOfTwo
  <2>3. d.topN \in c.min..c.max
    BY <1>5, <1>6, <2>1, <2>2
  <2>4. Searches(state)
    BY <1>9 DEF Searches
  <2> QED
    BY <1>5, <1>9, <2>1, <2>3, <2>4, SearchAssumption
<1> QED
  BY <1>7, <1>8, <1>9

SameAs(a, b) == a.lookback = b.lookback /\ a.topN = b.topN

\* Parameters that change were kept for ReviewDays, and move by one at most.
Rested(all) ==
  \A j \in 2..Len(all) : ~SameAs(all[j - 1], all[j]) =>
    /\ all[j].topN - all[j - 1].topN \in -1..1
    /\ j > ReviewDays
    /\ \A i \in (j - ReviewDays)..(j - 1) : SameAs(all[i], all[j - 1])

\* What the replay remembers after k rows: the parameters of the last decision,
\* and returns that were all earned under them.
History(c, V, W, acc, k) ==
  /\ KnownParameters(c, acc.state)
  /\ acc.log \in Seq(W) /\ Len(acc.log) = k
  /\ acc.state.returns \in Seq(V) /\ Len(acc.state.returns) <= k /\ Len(acc.state.returns) <= ReviewDays
  /\ k >= 1 => ~Fresh(acc.state) /\ SameAs(acc.log[k], acc.state)
  /\ \A i \in 1..k : i > k - Len(acc.state.returns) => SameAs(acc.log[i], acc.state)
  /\ Rested(acc.log)

\* A decision may follow the k'th of log.
MayFollow(d, log, k) ==
  k >= 1 =>
    /\ d.topN - log[k].topN \in -1..1
    /\ \/ SameAs(log[k], d)
       \/ k >= ReviewDays /\ \A i \in 1..k : i > k - ReviewDays => SameAs(log[i], log[k])

InRange(c, d) == d.lookback \in Nat /\ d.lookback >= 1 /\ d.topN \in c.min..c.max

LEMMA DecisionRests ==
  ASSUME NEW c, IsAptetConfig(c), NEW V, NEW W, NEW acc, NEW k \in Nat, History(c, V, W, acc, k),
         NEW prices, NEW end, NEW d, d = Resolved(c, prices, end, acc.state, acc.held)
  PROVE  InRange(c, d) /\ MayFollow(d, acc.log, k)
<1>1. PICK state : state = acc.state
  OBVIOUS
<1>2. PICK best : best = IF Searches(state) THEN Optimized(c, prices, end, state.topN) ELSE {}
  OBVIOUS
<1>3. PICK p : p = Settled(c, state, best)
  OBVIOUS
<1>4. KnownParameters(c, state)
  BY <1>1 DEF History
<1>5. /\ p.lookback \in Nat /\ p.lookback >= 1 /\ p.topN \in c.min..c.max
      /\ ~Fresh(state) => p.topN - state.topN \in -1..1
      /\ ~Searches(state) => p.lookback = state.lookback /\ p.topN = state.topN
  BY <1>2, <1>3, <1>4, SettledFacts
<1>6. d = WithNames(c, prices, end, p, acc.held)
  BY Zenon, <1>1, <1>2, <1>3 DEF Resolved
<1>7. d.lookback = p.lookback /\ d.topN = p.topN
  BY <1>6 DEF WithNames
<1>8. InRange(c, d)
  BY <1>5, <1>7 DEF InRange
<1>9. ASSUME k >= 1 PROVE /\ d.topN - acc.log[k].topN \in -1..1
                          /\ \/ SameAs(acc.log[k], d)
                             \/ k >= ReviewDays /\ \A i \in 1..k : i > k - ReviewDays => SameAs(acc.log[i], acc.log[k])
  <2>1. ~Fresh(state) /\ acc.log[k].lookback = state.lookback /\ acc.log[k].topN = state.topN
    BY <1>1, <1>9 DEF History, SameAs
  <2>2. d.topN - acc.log[k].topN \in -1..1
    BY <1>5, <1>7, <2>1
  <2>3. CASE ~Searches(state)
    BY <1>5, <1>7, <2>1, <2>2, <2>3 DEF SameAs
  <2>4. CASE Searches(state)
    <3>1. PICK n : n = Len(state.returns)
      OBVIOUS
    <3>2. n >= ReviewDays
      BY <2>1, <2>4, <3>1 DEF Searches
    <3>3. n \in Nat /\ n <= k /\ n <= ReviewDays /\ \A i \in 1..k : i > k - n => SameAs(acc.log[i], state)
      BY <1>1, <3>1 DEF History
    <3>4. n = ReviewDays
      BY <3>2, <3>3, ReviewAssumption
    <3> QED
      BY <2>1, <2>2, <3>3, <3>4 DEF SameAs
  <2> QED
    BY <2>3, <2>4
<1> QED
  BY <1>8, <1>9 DEF MayFollow

LEMMA AppendRests ==
  ASSUME NEW W, NEW log \in Seq(W), NEW k, k = Len(log), Rested(log), NEW e, MayFollow(e, log, k),
         NEW all, all = Append(log, e)
  PROVE  Rested(all)
<1>1. k \in Nat /\ Len(all) = k + 1 /\ all[k + 1] = e /\ \A i \in 1..k : all[i] = log[i]
  OBVIOUS
<1>2. ASSUME NEW j \in 2..(k + 1), ~SameAs(all[j - 1], all[j])
      PROVE  /\ all[j].topN - all[j - 1].topN \in -1..1
             /\ j > ReviewDays
             /\ \A i \in (j - ReviewDays)..(j - 1) : SameAs(all[i], all[j - 1])
  <2>1. CASE j \in 2..k
    <3>1. j - 1 \in 1..k /\ j \in 1..k
      BY <2>1
    <3>2. all[j] = log[j] /\ all[j - 1] = log[j - 1]
      BY <1>1, <3>1
    <3>3. /\ log[j].topN - log[j - 1].topN \in -1..1
          /\ j > ReviewDays
          /\ \A i \in (j - ReviewDays)..(j - 1) : SameAs(log[i], log[j - 1])
      BY <1>2, <2>1, <3>2 DEF Rested
    <3>4. \A i \in (j - ReviewDays)..(j - 1) : all[i] = log[i]
      BY <1>1, <2>1, <3>3, ReviewAssumption
    <3> QED
      BY <3>2, <3>3, <3>4
  <2>2. CASE j = k + 1
    <3>1. k >= 1 /\ j - 1 = k /\ all[j] = e /\ all[j - 1] = log[k]
      BY <1>1, <2>2
    <3>2. /\ e.topN - log[k].topN \in -1..1
          /\ k >= ReviewDays /\ \A i \in 1..k : i > k - ReviewDays => SameAs(log[i], log[k])
      BY <1>2, <3>1 DEF MayFollow
    <3>3. ASSUME NEW i \in (j - ReviewDays)..(j - 1) PROVE SameAs(all[i], all[j - 1])
      <4>1. i \in 1..k /\ i > k - ReviewDays
        BY <1>1, <2>2, <3>2, ReviewAssumption
      <4> QED
        BY <1>1, <3>1, <3>2, <4>1
    <3>4. j > ReviewDays
      BY <1>1, <2>2, <3>2, ReviewAssumption
    <3> QED
      BY <3>1, <3>2, <3>3, <3>4
  <2>3. j \in 2..k \/ j = k + 1
    BY <1>1
  <2> QED
    BY <2>1, <2>2, <2>3
<1> QED
  BY <1>1, <1>2 DEF Rested


\* What a row of the replay earns, after what is remembered of the rows before.
DecidedAt(c, prices, acc, i) == Resolved(c, prices, i, acc.state, acc.held)

EarnedAt(c, prices, acc, i) ==
  IF Priced(prices[i + 1], prices[i + 2], DecidedAt(c, prices, acc, i).names)
  THEN Realized(prices[i + 1], prices[i + 2], DecidedAt(c, prices, acc, i).names) ELSE 0

LEMMA RowKeepsHistory ==
  ASSUME NEW c, IsAptetConfig(c), NEW V, NEW W, NEW acc, NEW k \in Nat, History(c, V, W, acc, k),
         NEW prices, NEW i, DecidedAt(c, prices, acc, i) \in W, EarnedAt(c, prices, acc, i) \in V,
         NEW new, new = ReplayRow(c, prices, acc, i)
  PROVE  History(c, V, W, new, k + 1)
<1>1. PICK d, e : d = DecidedAt(c, prices, acc, i) /\ e = EarnedAt(c, prices, acc, i)
  OBVIOUS
<1>2. InRange(c, d) /\ MayFollow(d, acc.log, k)
  BY <1>1, DecisionRests DEF DecidedAt
<1>3. PICK state : state = Advanced(acc.state, d, e)
  OBVIOUS
<1>4. new.state = state /\ new.log = Append(acc.log, d)
  BY <1>1, <1>3 DEF ReplayRow, Replayed, DecidedAt, EarnedAt
<1>5. /\ acc.log \in Seq(W) /\ Len(acc.log) = k
      /\ acc.state.returns \in Seq(V) /\ Len(acc.state.returns) <= k /\ Len(acc.state.returns) <= ReviewDays
      /\ k >= 1 => ~Fresh(acc.state) /\ SameAs(acc.log[k], acc.state)
      /\ \A j \in 1..k : j > k - Len(acc.state.returns) => SameAs(acc.log[j], acc.state)
      /\ Rested(acc.log)
  BY DEF History
<1>6. PICK log : log = new.log
  OBVIOUS
<1>7. log \in Seq(W) /\ Len(log) = k + 1 /\ log[k + 1] = d /\ \A j \in 1..k : log[j] = acc.log[j]
  BY <1>1, <1>4, <1>5, <1>6
<1>8. Rested(log)
  BY <1>2, <1>4, <1>5, <1>6, AppendRests
<1>9. PICK all : all = Append(IF ~SameAs(acc.state, d) THEN <<>> ELSE acc.state.returns, e)
  OBVIOUS
<1>10. all \in Seq(V) /\ Len(all) = (IF ~SameAs(acc.state, d) THEN 1 ELSE Len(acc.state.returns) + 1)
  BY <1>1, <1>5, <1>9
<1>11. PICK returns : returns = LastOf(all, ReviewDays)
  OBVIOUS
<1>12. returns \in Seq(V) /\ Len(returns) = IF Len(all) <= ReviewDays THEN Len(all) ELSE ReviewDays
  BY <1>10, <1>11, LastOnes, ReviewAssumption
<1>13. state = [lookback |-> d.lookback, topN |-> d.topN, returns |-> returns]
  BY <1>3, <1>9, <1>11 DEF Advanced, SameAs, LastOf
<1>14. state.lookback = d.lookback /\ state.topN = d.topN /\ state.returns = returns
  BY <1>13
<1>15. KnownParameters(c, state)
  BY <1>2, <1>14 DEF KnownParameters, InRange
<1>16. ~Fresh(state)
  BY <1>2, <1>14 DEF Fresh, InRange, IsAptetConfig
<1>17. SameAs(log[k + 1], state)
  BY <1>7, <1>14 DEF SameAs
<1>20. PICK n, m, D : n = Len(acc.state.returns) /\ m = Len(returns) /\ D = ReviewDays
  OBVIOUS
<1>21. /\ n \in Nat /\ D \in Nat /\ D >= 1 /\ n <= k /\ n <= D
       /\ m = (IF SameAs(acc.state, d) /\ n + 1 <= D THEN n + 1 ELSE IF SameAs(acc.state, d) THEN D ELSE 1)
  BY <1>5, <1>10, <1>12, <1>20, ReviewAssumption
<1>18. Len(returns) <= k + 1 /\ Len(returns) <= ReviewDays
  BY <1>20, <1>21
<1>19. ASSUME NEW j \in 1..(k + 1), j > (k + 1) - Len(returns) PROVE SameAs(log[j], state)
  <2>1. CASE j = k + 1
    BY <1>17, <2>1
  <2>2. CASE j \in 1..k
    <3>0. j > (k + 1) - m /\ j <= k /\ j \in Nat
      <4>1. j > (k + 1) - m
        BY <1>19, <1>20
      <4> QED
        BY <2>2, <4>1
    <3>1. SameAs(acc.state, d)
      <4>1. m > 1
        BY <1>21, <3>0
      <4> QED
        BY <1>21, <4>1
    <3>2. j > k - Len(acc.state.returns)
      <4>1. m <= n + 1
        BY <1>21, <3>1
      <4>2. j > k - n
        BY <1>21, <3>0, <4>1
      <4> QED
        BY <1>20, <4>2
    <3>3. SameAs(acc.log[j], acc.state)
      BY <1>5, <2>2, <3>2
    <3> QED
      BY <1>7, <1>14, <2>2, <3>1, <3>3 DEF SameAs
  <2>3. j = k + 1 \/ j \in 1..k
    OBVIOUS
  <2> QED
    BY <2>1, <2>2, <2>3
<1> QED
  BY <1>4, <1>6, <1>7, <1>8, <1>12, <1>14, <1>15, <1>16, <1>17, <1>18, <1>19 DEF History

\* The replay goes from row to row.
RowsOver(base, seq, c, prices) == FoldLeft(LAMBDA v, e : ReplayRow(c, prices, v, e), base, seq)

RowsSolves(g, n, base, seq, c, prices) ==
  g = [s \in SUBSET (1..n) |->
         IF s = {} THEN base ELSE ReplayRow(c, prices, g[s \ {Max(s)}], seq[Max(s)])]

LEMMA RowsExpanded ==
  ASSUME NEW n, NEW seq, DOMAIN seq = 1..n, NEW base, NEW c, NEW prices
  PROVE  RowsOver(base, seq, c, prices)
         = (CHOOSE g : RowsSolves(g, n, base, seq, c, prices))[1..n]
BY Zenon DEF RowsOver, FoldLeft, MapThenFoldSet, RowsSolves

LEMMA RowsExists ==
  ASSUME NEW n \in Nat, NEW seq, NEW base, NEW c, NEW prices
  PROVE  \E g : RowsSolves(g, n, base, seq, c, prices)
<1> DEFINE P == {k \in 0..n : \E g : RowsSolves(g, k, base, seq, c, prices)}
<1>1. 0 \in P
  <2>1. RowsSolves([s \in SUBSET (1..0) |-> base], 0, base, seq, c, prices)
    <3>1. \A s \in SUBSET (1..0) : s = {}
      OBVIOUS
    <3> QED
      BY <3>1 DEF RowsSolves
  <2> QED
    BY <2>1
<1>2. ASSUME NEW k \in 0..(n - 1), k \in P PROVE k + 1 \in P
  <2>1. PICK g : RowsSolves(g, k, base, seq, c, prices)
    BY <1>2
  <2>2. PICK j, S, T : j = k + 1 /\ S = 1..k /\ T = 1..j
    OBVIOUS
  <2>3. PICK f : f = [s \in SUBSET T |-> IF j \in s THEN ReplayRow(c, prices, g[s \ {j}], seq[j]) ELSE g[s]]
    OBVIOUS
  <2>4. T = S \cup {j} /\ j \notin S
    BY <2>2
  <2>5. ASSUME NEW s \in SUBSET T
        PROVE  f[s] = IF s = {} THEN base ELSE ReplayRow(c, prices, f[s \ {Max(s)}], seq[Max(s)])
    <3>1. CASE s = {}
      BY <2>1, <2>2, <2>3, <3>1 DEF RowsSolves
    <3>2. CASE j \in s
      <4>1. Max(s) = j
        BY <2>2, <3>2, MaxWith
      <4>2. s \ {j} \in SUBSET S /\ s \ {j} \in SUBSET T /\ j \notin s \ {j}
        BY <2>4
      <4>3. f[s \ {j}] = g[s \ {j}]
        BY <2>3, <4>2
      <4> QED
        BY <2>3, <3>2, <4>1, <4>3
    <3>3. CASE j \notin s /\ s # {}
      <4>1. s \in SUBSET S /\ s \ {Max(s)} \in SUBSET S /\ s \ {Max(s)} \in SUBSET T /\ j \notin s \ {Max(s)}
        BY <2>4, <3>3
      <4>2. f[s] = g[s] /\ f[s \ {Max(s)}] = g[s \ {Max(s)}]
        BY <2>3, <3>3, <4>1
      <4>3. g[s] = ReplayRow(c, prices, g[s \ {Max(s)}], seq[Max(s)])
        BY <2>1, <2>2, <3>3, <4>1 DEF RowsSolves
      <4> QED
        BY <3>3, <4>2, <4>3
    <3> QED
      BY <3>1, <3>2, <3>3
  <2>6. RowsSolves(f, j, base, seq, c, prices)
    BY <2>2, <2>3, <2>5 DEF RowsSolves
  <2>7. k + 1 \in 0..n
    OBVIOUS
  <2> QED
    BY <2>2, <2>6, <2>7
<1>3. \A k \in 0..n : k \in P
  <2> HIDE DEF P
  <2> QED
    BY <1>1, <1>2, UpToInduction
<1> QED
  BY <1>3

RowsThrough(h, n, base, seq, c, prices) ==
  /\ h[0] = base
  /\ \A k \in 1..n : h[k] = ReplayRow(c, prices, h[k - 1], seq[k])
  /\ RowsOver(base, seq, c, prices) = h[n]

LEMMA RowsChain ==
  ASSUME NEW n \in Nat, NEW seq, DOMAIN seq = 1..n, NEW base, NEW c, NEW prices
  PROVE  \E h : RowsThrough(h, n, base, seq, c, prices)
<1>1. PICK g : g = CHOOSE f : RowsSolves(f, n, base, seq, c, prices)
  OBVIOUS
<1>2. RowsSolves(g, n, base, seq, c, prices)
  BY <1>1, RowsExists
<1>3. PICK h : h = [k \in 0..n |-> g[1..k]]
  OBVIOUS
<1>4. h[0] = base
  <2>1. 1..0 = {} /\ {} \in SUBSET (1..n) /\ h[0] = g[1..0]
    BY <1>3
  <2> QED
    BY <1>2, <2>1 DEF RowsSolves
<1>5. ASSUME NEW k \in 1..n PROVE h[k] = ReplayRow(c, prices, h[k - 1], seq[k])
  <2>1. Max(1..k) = k
    BY MaxUpTo
  <2>2. PICK s, r : s = 1..k /\ r = 1..(k - 1)
    OBVIOUS
  <2>3. s \in SUBSET (1..n) /\ s # {} /\ s \ {k} = r /\ k - 1 \in 0..n /\ k \in 0..n
    BY <2>2, UpToParts
  <2>6. h[k] = g[s] /\ h[k - 1] = g[r]
    BY <1>3, <2>2, <2>3
  <2>4. h[k] = g[s] /\ h[k - 1] = g[s \ {k}]
    BY <2>3, <2>6
  <2>5. g[s] = ReplayRow(c, prices, g[s \ {Max(s)}], seq[Max(s)])
    BY <1>2, <2>3 DEF RowsSolves
  <2> QED
    BY <2>1, <2>2, <2>4, <2>5
<1>6. h[n] = g[1..n]
  BY <1>3
<1>7. RowsOver(base, seq, c, prices) = h[n]
  BY <1>1, <1>6, RowsExpanded
<1>8. RowsThrough(h, n, base, seq, c, prices)
  BY <1>4, <1>5, <1>7 DEF RowsThrough
<1> QED
  BY <1>8

NothingReplayed == [state |-> NoAdaptation, held |-> {}, log |-> <<>>]

\* h starts with nothing and replays a row at each step, and the replay is its end.
Replays(h, c, prices, n) ==
  /\ h[0] = NothingReplayed
  /\ \A k \in 1..n : h[k] = ReplayRow(c, prices, h[k - 1], k)
  /\ Replay(c, prices) = h[n]

LEMMA ReplayThrough ==
  ASSUME NEW c, NEW prices, NEW n \in Nat, n = Max({0, Len(prices) - 2})
  PROVE  \E h : Replays(h, c, prices, n)
<1>1. PICK rows : rows = [i \in 1..n |-> i]
  OBVIOUS
<1>2. DOMAIN rows = 1..n /\ \A k \in 1..n : rows[k] = k
  BY <1>1
<1>3. PICK h : RowsThrough(h, n, NothingReplayed, rows, c, prices)
  BY <1>2, RowsChain
<1>4. Replay(c, prices) = RowsOver(NothingReplayed, rows, c, prices)
  BY Zenon, <1>1 DEF Replay, RowsOver, NothingReplayed
<1>5. Replays(h, c, prices, n)
  BY <1>2, <1>3, <1>4 DEF RowsThrough, Replays
<1> QED
  BY <1>5

LEMMA ReplayFacts ==
  ASSUME NEW c, IsAptetConfig(c), NEW prices, NEW n \in Nat, NEW h, Replays(h, c, prices, n)
  PROVE  \E V, W : \A k \in 0..n : History(c, V, W, h[k], k)
<1>4. PICK W : W = {DecidedAt(c, prices, h[k - 1], k) : k \in 1..n}
  OBVIOUS
<1>5. PICK V : V = {EarnedAt(c, prices, h[k - 1], k) : k \in 1..n}
  OBVIOUS
<1> DEFINE P == {k \in 0..n : History(c, V, W, h[k], k)}
<1>6. 0 \in P
  <2>1. PICK acc : acc = NothingReplayed
    OBVIOUS
  <2>2. acc.state = [lookback |-> 0, topN |-> 0, returns |-> <<>>] /\ acc.log = <<>>
    BY <2>1 DEF NothingReplayed, NoAdaptation
  <2>3. acc.state.lookback = 0 /\ acc.state.topN = 0 /\ acc.state.returns = <<>>
    BY <2>2
  <2>4. KnownParameters(c, acc.state)
    BY <2>3 DEF KnownParameters
  <2>5. acc.log \in Seq(W) /\ Len(acc.log) = 0 /\ acc.state.returns \in Seq(V) /\ Len(acc.state.returns) = 0
    BY <2>2, <2>3
  <2>6. Rested(acc.log)
    BY <2>5 DEF Rested
  <2>7. History(c, V, W, acc, 0)
    BY <2>4, <2>5, <2>6, ReviewAssumption DEF History
  <2> QED
    BY <2>1, <2>7 DEF Replays
<1>7. ASSUME NEW k \in 0..(n - 1), k \in P PROVE k + 1 \in P
  <2>1. PICK j, acc, new : j = k + 1 /\ acc = h[k] /\ new = h[k + 1]
    OBVIOUS
  <2>2. j \in 1..n /\ j - 1 = k /\ j \in 0..n /\ k \in Nat
    BY <2>1
  <2>3. new = ReplayRow(c, prices, acc, j)
    BY <2>1, <2>2 DEF Replays
  <2>4. DecidedAt(c, prices, acc, j) \in W /\ EarnedAt(c, prices, acc, j) \in V
    BY <1>4, <1>5, <2>1, <2>2
  <2>5. History(c, V, W, acc, k)
    BY <1>7, <2>1
  <2>6. History(c, V, W, new, k + 1)
    BY <2>2, <2>3, <2>4, <2>5, RowKeepsHistory
  <2> QED
    BY <2>1, <2>2, <2>6
<1>8. \A k \in 0..n : k \in P
  <2> HIDE DEF P
  <2> QED
    BY <1>6, <1>7, UpToInduction
<1> QED
  BY <1>8

\* What Aptet answers: parameters in range that follow those of its history.
LEMMA AnswerRests ==
  ASSUME NEW c, IsAptetConfig(c), NEW prices, Len(prices) \in Nat, NEW answer, answer = RunAptet(c, prices)
  PROVE  /\ answer.signal = "REBALANCE" => InRange(c, answer)
         /\ answer.log # <<>> =>
              Rested(Append(answer.log, [lookback |-> answer.lookback, topN |-> answer.topN]))
<1>1. CASE Len(prices) < 2 \/ ~Usable(c, prices)
  BY <1>1 DEF RunAptet
<1>2. CASE ~(Len(prices) < 2 \/ ~Usable(c, prices))
  <2>1. PICK past : past = Replay(c, prices)
    OBVIOUS
  <2>0. PICK n : n = Max({0, Len(prices) - 2})
    OBVIOUS
  <2>13. n \in Nat
    BY <2>0, MaxOfTwo
  <2>14. PICK h : Replays(h, c, prices, n)
    BY <2>0, <2>13, ReplayThrough
  <2>15. PICK V, W : \A k \in 0..n : History(c, V, W, h[k], k)
    BY <2>13, <2>14, ReplayFacts
  <2>2. n \in Nat /\ History(c, V, W, past, n)
    BY <2>1, <2>13, <2>14, <2>15 DEF Replays
  <2>3. PICK last : last = Resolved(c, prices, Len(prices), past.state, past.held)
    OBVIOUS
  <2>4. InRange(c, last) /\ MayFollow(last, past.log, n)
    BY <2>2, <2>3, DecisionRests
  <2>5. answer = Decided(c, prices, past)
    BY <1>2, <2>1 DEF RunAptet
  <2>6. answer = [signal |-> "REBALANCE", names |-> last.names, off |-> last.off, log |-> past.log,
                  lookback |-> last.lookback, topN |-> last.topN]
    BY <2>3, <2>5 DEF Decided
  <2>7. answer.lookback = last.lookback /\ answer.topN = last.topN /\ answer.log = past.log
    BY <2>6
  <2>8. PICK e, all : e = [lookback |-> answer.lookback, topN |-> answer.topN] /\ all = Append(past.log, e)
    OBVIOUS
  <2>9. e.lookback = last.lookback /\ e.topN = last.topN
    BY <2>7, <2>8
  <2>10. MayFollow(e, past.log, n)
    BY <2>4, <2>9 DEF MayFollow, SameAs
  <2>11. past.log \in Seq(W) /\ Len(past.log) = n /\ Rested(past.log)
    BY <2>2 DEF History
  <2>12. Rested(all)
    BY <2>8, <2>10, <2>11, AppendRests
  <2> QED
    BY <2>4, <2>7, <2>8, <2>12 DEF InRange
<1> QED
  BY <1>1, <1>2

PriceRow == [Tickers -> Nat]

\* A frame is rows of prices.
LEMMA FrameFacts ==
  ASSUME NEW series, DOMAIN series \subseteq Tickers, \A t \in DOMAIN series : series[t] \in Seq(Nat),
         NEW prices, prices = Frame(series)
  PROVE  prices \in Seq(PriceRow)
<1>1. PICK D : D = DOMAIN series
  OBVIOUS
<1>2. PICK lens : lens = {Len(series[t]) : t \in D}
  OBVIOUS
<1>3. PICK S : S = {0} \cup lens
  OBVIOUS
<1>4. IsFiniteSet(S) /\ S # {} /\ \A x \in S : x \in Nat
  <2>1. IsFiniteSet(D)
    BY <1>1, TickersAssumption, FS_Subset
  <2>2. IsFiniteSet(lens)
    <3>1. PICK f : f = [t \in D |-> Len(series[t])]
      OBVIOUS
    <3>2. lens = {f[t] : t \in D}
      BY <1>2, <3>1
    <3> QED
      BY <2>1, <3>2, ImageFinite
  <2>3. IsFiniteSet({0})
    BY FS_Singleton
  <2>4. IsFiniteSet(S)
    BY <1>3, <2>2, <2>3, FS_Union
  <2>5. \A x \in S : x \in Nat
    BY <1>1, <1>2, <1>3
  <2> QED
    BY <1>3, <2>4, <2>5
<1>5. PICK days : days = Max(S)
  OBVIOUS
<1>6. days \in Nat
  <2>1. \A x \in S : x \in Int
    BY <1>4
  <2>2. Max(S) \in S
    BY <1>4, <2>1, MaxInSet
  <2> QED
    BY <1>4, <1>5, <2>2
<1>7. PICK rows : rows = [i \in 1..days |-> [t \in Tickers |->
                   IF t \in DOMAIN series /\ t = Original(t) /\ i <= Len(series[t])
                   THEN series[t][i] ELSE Hole]]
  OBVIOUS
<1>8. \A i \in 1..days : rows[i] \in PriceRow
  <2> SUFFICES ASSUME NEW i \in 1..days, NEW t \in Tickers
               PROVE  (IF t \in DOMAIN series /\ t = Original(t) /\ i <= Len(series[t])
                       THEN series[t][i] ELSE Hole) \in Nat
    BY <1>7 DEF PriceRow
  <2>1. ASSUME t \in DOMAIN series, i <= Len(series[t]) PROVE series[t][i] \in Nat
    BY <1>6, <2>1
  <2> QED
    BY <2>1 DEF Hole
<1>9. PICK I : I = {i \in 1..days : rows[i] # EmptyRow}
  OBVIOUS
<1>10. IsFiniteSet(I) /\ I \subseteq 1..days
  <2>1. I \subseteq 1..days
    BY <1>9
  <2>2. IsFiniteSet(1..days)
    BY <1>6, FS_Interval
  <2>3. IsFiniteSet(I)
    BY <2>1, <2>2, FS_Subset
  <2> QED
    BY <2>1, <2>3
<1>11. \A x \in I : x \in Int
  BY <1>6, <1>10
<1>12. prices = AtPlaces(rows, I)
  BY <1>1, <1>2, <1>3, <1>5, <1>7, <1>9 DEF Frame
<1>13. PICK n : n = Cardinality(I)
  OBVIOUS
<1>14. /\ n \in Nat /\ DOMAIN prices = 1..n /\ prices = [k \in 1..n |-> prices[k]]
       /\ \A k \in 1..n : \E i \in I : prices[k] = rows[i]
  BY <1>10, <1>11, <1>12, <1>13, AtFacts
<1>15. \A k \in 1..n : prices[k] \in PriceRow
  BY <1>8, <1>10, <1>14
<1>16. prices \in [1..n -> PriceRow]
  BY <1>14, <1>15
<1> QED
  BY <1>14, <1>16


IsSeries(series) ==
  /\ series = [t \in DOMAIN series |-> series[t]] /\ DOMAIN series \subseteq Tickers
  /\ \A t \in DOMAIN series : series[t] \in Seq(Nat)

\* The download is of bars, and aptet says what it says of the frame it read.
DownloadInv ==
  /\ market \in Seq(Rows)
  /\ settings \in [force : ForceSettings, aptet : AptetSettings]
  /\ IsSeries(fetched)
  /\ read \in Seq(PriceRow)
  /\ \/ aptet = RunAptet(AptetNow, read)
     \/ aptet.signal = "none" /\ aptet.log = <<>>

LEMMA SeriesFacts ==
  ASSUME NEW bars \in Seq(Rows), NEW t \in Tickers
  PROVE  SeriesOf(bars, t) \in Seq(Nat)
<1>1. Len(bars) \in Nat /\ DOMAIN bars = 1..Len(bars)
  OBVIOUS
<1>2. \A i \in DOMAIN bars : bars[i][t] \in Nat
  BY RowsAssumption DEF IsRow
<1>3. SeriesOf(bars, t) \in [1..Len(bars) -> Nat]
  BY <1>1, <1>2 DEF SeriesOf
<1> QED
  BY <1>1, <1>3

LEMMA NoSeriesIsSeries == IsSeries(NoSeries)
BY DEF IsSeries, NoSeries

LEMMA DownloadInitial == Init => DownloadInv
<1> SUFFICES ASSUME Init PROVE DownloadInv
  OBVIOUS
<1>1. market \in Seq(Rows)
  BY RowsAssumption DEF Init
<1>2. IsSeries(fetched) /\ settings \in [force : ForceSettings, aptet : AptetSettings]
  BY NoSeriesIsSeries DEF Init
<1>3. read \in Seq(PriceRow)
  BY DEF Init
<1>4. aptet.signal = "none" /\ aptet.log = <<>>
  BY DEF Init
<1> QED
  BY <1>1, <1>2, <1>3, <1>4 DEF DownloadInv

LEMMA DownloadKept ==
  ASSUME DownloadInv, [Next]_vars
  PROVE  DownloadInv'
<1>0. settings' = settings
  BY DEF Next, vars, NewDay, Move, StartForce, ForceAnswers, StartAptet, AptetAnswers,
         FetchPage, FetchAll, FetchFails
<1>1. AptetNow' = AptetNow
  BY <1>0 DEF AptetNow
<1>2. market' \in Seq(Rows)
  <2>1. ASSUME NEW r \in Rows, NewDay(r) PROVE market' \in Seq(Rows)
    BY <2>1 DEF NewDay, DownloadInv
  <2>2. ASSUME NEW r \in Rows, Move(r) PROVE market' \in Seq(Rows)
    <3>1. market \in Seq(Rows) /\ market # <<>> /\ market' = [market EXCEPT ![Len(market)] = r]
      BY <2>2 DEF Move, DownloadInv
    <3>2. Len(market) \in Nat /\ market' \in [1..Len(market) -> Rows]
      BY <3>1
    <3> QED
      BY <3>2
  <2>3. CASE ~\E r \in Rows : NewDay(r) \/ Move(r)
    <3>1. market' = market
      BY <2>3 DEF Next, vars, StartForce, ForceAnswers, StartAptet, AptetAnswers, FetchPage, FetchAll, FetchFails
    <3> QED
      BY <3>1 DEF DownloadInv
  <2> QED
    BY <2>1, <2>2, <2>3
<1>3. IsSeries(fetched')
  <2>1. CASE FetchPage
    <3>1. PICK page \in SUBSET Tickers :
            fetched' = [t \in DOMAIN fetched \cup page |->
                          IF t \in page THEN SeriesOf(market, t) ELSE fetched[t]]
      BY <2>1 DEF FetchPage
    <3>2. \A t \in page : SeriesOf(market, t) \in Seq(Nat)
      BY SeriesFacts DEF DownloadInv
    <3> QED
      BY <3>1, <3>2 DEF DownloadInv, IsSeries
  <2>2. CASE FetchAll
    <3>1. \A t \in Tickers : SeriesOf(market, t) \in Seq(Nat)
      BY SeriesFacts DEF DownloadInv
    <3>2. fetched' = [t \in Tickers |-> SeriesOf(market, t)]
      BY <2>2 DEF FetchAll
    <3> QED
      BY <3>1, <3>2 DEF IsSeries
  <2>3. CASE StartForce \/ StartAptet \/ FetchFails \/ AptetAnswers
    <3>1. fetched' = NoSeries
      BY <2>3 DEF StartForce, StartAptet, FetchFails, AptetAnswers
    <3> QED
      BY <3>1, NoSeriesIsSeries
  <2>4. CASE (\E r \in Rows : NewDay(r) \/ Move(r)) \/ ForceAnswers \/ UNCHANGED vars
    <3>1. fetched' = fetched
      BY <2>4 DEF NewDay, Move, ForceAnswers, vars
    <3> QED
      BY <3>1 DEF DownloadInv
  <2> QED
    BY <2>1, <2>2, <2>3, <2>4 DEF Next
<1>4. CASE AptetAnswers
  <2>1. read' = Frame(fetched) /\ aptet' = RunAptet(AptetNow, read')
    BY <1>4 DEF AptetAnswers
  <2>2. read' \in Seq(PriceRow)
    BY <2>1, FrameFacts DEF DownloadInv, IsSeries
  <2> QED
    BY <1>0, <1>1, <1>2, <1>3, <2>1, <2>2 DEF DownloadInv
<1>5. CASE ~AptetAnswers
  <2>1. read' = read /\ aptet' = aptet
    BY <1>5 DEF Next, vars, NewDay, Move, StartForce, ForceAnswers, StartAptet, FetchPage, FetchAll, FetchFails
  <2> QED
    BY <1>0, <1>1, <1>2, <1>3, <2>1 DEF DownloadInv
<1> QED
  BY <1>4, <1>5

\* Whatever moves or fails while a download is under way, what was fetched and
\* what the bots were last given are rows of whole prices.
THEOREM DownloadCorrect == Spec => []DownloadInv
<1>1. Init => DownloadInv
  BY DownloadInitial
<1>2. DownloadInv /\ [Next]_vars => DownloadInv'
  BY DownloadKept
<1> QED
  BY <1>1, <1>2, PTL DEF Spec

\* Whatever the rows, the scores and the correlations are, Aptet's parameters
\* are kept for ReviewDays rows between changes, and the number of holdings
\* moves by one at most.
THEOREM ParametersKept == Spec => []ParametersRest
<1>1. DownloadInv => ParametersRest
  <2> SUFFICES ASSUME DownloadInv, aptet.log # <<>>,
                      NEW all, all = Append(aptet.log, [lookback |-> aptet.lookback, topN |-> aptet.topN])
               PROVE  \A j \in 2..Len(all) : ~(all[j - 1].lookback = all[j].lookback /\ all[j - 1].topN = all[j].topN) =>
                         /\ all[j].topN - all[j - 1].topN \in -1..1
                         /\ j > ReviewDays
                         /\ \A i \in (j - ReviewDays) .. (j - 1) :
                              all[i].lookback = all[j - 1].lookback /\ all[i].topN = all[j - 1].topN
    BY Zenon DEF ParametersRest
  <2>1. PICK c : c = AptetNow
    OBVIOUS
  <2>2. IsAptetConfig(c)
    <3>1. settings.aptet \in AptetSettings
      BY DEF DownloadInv
    <3> QED
      BY <2>1, <3>1, AptetConfigFacts DEF AptetNow
  <2>3. aptet = RunAptet(c, read) /\ Len(read) \in Nat
    BY <2>1 DEF DownloadInv
  <2>4. Rested(all)
    BY <2>2, <2>3, AnswerRests
  <2> QED
    BY <2>4 DEF Rested, SameAs
<1> QED
  BY <1>1, DownloadCorrect, PTL

-----------------------------------------------------------------------------
(* Aptet: the past it replays is settled.                                  *)

\* The window before a row is of the rows before it.
LEMMA SameWindow ==
  ASSUME NEW p \in Seq(PriceRow), NEW q \in Seq(PriceRow), NEW end \in Nat, SameTo(p, q, end), NEW n \in Nat
  PROVE  Window(p, end, n) = Window(q, end, n)
<1>1. PICK a : a = Max({0, end - n})
  OBVIOUS
<1>2. a \in Nat
  BY <1>1, MaxOfTwo
<1>3. SubSeq(p, a + 1, end) = SubSeq(q, a + 1, end)
  BY <1>2, SameParts
<1> QED
  BY <1>1, <1>3 DEF Window

\* A decision is taken on the rows before it.
LEMMA SameDecision ==
  ASSUME NEW c, IsAptetConfig(c), NEW p \in Seq(PriceRow), NEW q \in Seq(PriceRow),
         NEW end \in Nat, SameTo(p, q, end), NEW state, KnownParameters(c, state), NEW held
  PROVE  Resolved(c, p, end, state, held) = Resolved(c, q, end, state, held)
<1>1. View(p, end) = View(q, end)
  BY SameParts DEF View
<1>2. \A prior : Optimized(c, p, end, prior) = Optimized(c, q, end, prior)
  BY <1>1 DEF Optimized
<1>3. PICK best : best = IF Searches(state) THEN Optimized(c, p, end, state.topN) ELSE {}
  OBVIOUS
<1>4. best = IF Searches(state) THEN Optimized(c, q, end, state.topN) ELSE {}
  BY <1>2, <1>3
<1>5. PICK d : d = Settled(c, state, best)
  OBVIOUS
<1>6. d.lookback \in Nat
  BY <1>3, <1>5, SettledFacts
<1>7. Window(p, end, d.lookback) = Window(q, end, d.lookback)
  BY <1>6, SameWindow
<1>8. \A among : Trailing(p, end, d.lookback, among) = Trailing(q, end, d.lookback, among)
  BY <1>7 DEF Trailing
<1>9. ChosenByAptet(c, p, end, d.lookback, d.topN, held) = ChosenByAptet(c, q, end, d.lookback, d.topN, held)
  BY <1>7, <1>8 DEF ChosenByAptet
<1>10. WithNames(c, p, end, d, held) = WithNames(c, q, end, d, held)
  BY <1>9 DEF WithNames
<1>11. Resolved(c, p, end, state, held) = WithNames(c, p, end, d, held)
  BY Zenon, <1>3, <1>5 DEF Resolved
<1>12. Resolved(c, q, end, state, held) = WithNames(c, q, end, d, held)
  BY Zenon, <1>4, <1>5 DEF Resolved
<1> QED
  BY <1>10, <1>11, <1>12

\* So is a row of the replay, the return of its two rows included.
LEMMA SameRow ==
  ASSUME NEW c, IsAptetConfig(c), NEW p \in Seq(PriceRow), NEW q \in Seq(PriceRow),
         NEW i \in Nat, SameTo(p, q, i + 2), NEW acc, KnownParameters(c, acc.state)
  PROVE  ReplayRow(c, p, acc, i) = ReplayRow(c, q, acc, i)
<1>1. SameTo(p, q, i)
  BY DEF SameTo
<1>2. Resolved(c, p, i, acc.state, acc.held) = Resolved(c, q, i, acc.state, acc.held)
  BY <1>1, SameDecision
<1>3. p[i + 1] = q[i + 1] /\ p[i + 2] = q[i + 2]
  <2>1. i + 1 \in 1..(i + 2) /\ i + 2 \in 1..(i + 2)
    OBVIOUS
  <2> QED
    BY <2>1 DEF SameTo
<1> QED
  BY <1>2, <1>3 DEF ReplayRow

LEMMA LogsGrow ==
  ASSUME NEW c, IsAptetConfig(c), NEW p \in Seq(PriceRow), NEW q \in Seq(PriceRow), IsPrefix(p, q)
  PROVE  IsPrefix(Replay(c, p).log, Replay(c, q).log)
<1>1. PICK n, m : n = Max({0, Len(p) - 2}) /\ m = Max({0, Len(q) - 2})
  OBVIOUS
<1>2. SameTo(p, q, Len(p))
  BY PrefixFacts
<1>3. n \in Nat /\ m \in Nat /\ n <= m /\ (n >= 1 => n + 2 = Len(p))
  <2>1. Len(p) \in Nat /\ Len(q) \in Nat /\ Len(p) <= Len(q)
    BY <1>2 DEF SameTo
  <2>2. n = (IF 0 >= Len(p) - 2 THEN 0 ELSE Len(p) - 2) /\ m = (IF 0 >= Len(q) - 2 THEN 0 ELSE Len(q) - 2)
    BY <1>1, <2>1, MaxOfTwo
  <2> QED
    BY <2>1, <2>2
<1>4. PICK g : Replays(g, c, p, n)
  BY <1>1, <1>3, ReplayThrough
<1>5. PICK h : Replays(h, c, q, m)
  BY <1>1, <1>3, ReplayThrough
<1>6. PICK V, W : \A k \in 0..m : History(c, V, W, h[k], k)
  BY <1>3, <1>5, ReplayFacts
<1> DEFINE P == {k \in 0..n : g[k] = h[k]}
<1>7. 0 \in P
  BY <1>3, <1>4, <1>5 DEF Replays
<1>8. ASSUME NEW k \in 0..(n - 1), k \in P PROVE k + 1 \in P
  <2>1. PICK j, acc : j = k + 1 /\ acc = h[k]
    OBVIOUS
  <2>2. j \in 1..n /\ j \in 1..m /\ j - 1 = k /\ j \in Nat /\ j + 2 <= Len(p) /\ k \in 0..m /\ j \in 0..n
    BY <1>3, <2>1
  <2>3. KnownParameters(c, acc.state)
    BY <1>6, <2>1, <2>2 DEF History
  <2>4. SameTo(p, q, j + 2)
    BY <1>2, <2>2 DEF SameTo
  <2>5. ReplayRow(c, p, acc, j) = ReplayRow(c, q, acc, j)
    BY <2>2, <2>3, <2>4, SameRow
  <2>6. g[j] = ReplayRow(c, p, acc, j)
    BY <1>4, <1>8, <2>1, <2>2 DEF Replays
  <2>7. h[j] = ReplayRow(c, q, acc, j)
    BY <1>5, <2>1, <2>2 DEF Replays
  <2> QED
    BY <2>1, <2>2, <2>5, <2>6, <2>7
<1>9. g[n] = h[n]
  <2>1. \A k \in 0..n : k \in P
    <3> HIDE DEF P
    <3> QED
      BY <1>3, <1>7, <1>8, UpToInduction
  <2> QED
    BY <1>3, <2>1
<1> DEFINE Q == {k \in 0..m : n <= k => SameTo(h[n].log, h[k].log, n)}
<1>10. n \in 0..m /\ h[n].log \in Seq(W) /\ Len(h[n].log) = n
  BY <1>3, <1>6 DEF History
<1>11. SameTo(h[n].log, h[n].log, n)
  BY <1>3, <1>10 DEF SameTo
<1>12. 0 \in Q
  BY <1>3, <1>11
<1>13. ASSUME NEW k \in 0..(m - 1), k \in Q PROVE k + 1 \in Q
  <2>1. CASE n > k
    BY <1>3, <1>11, <2>1
  <2>2. CASE n <= k
    <3>1. PICK j, acc, new : j = k + 1 /\ acc = h[k] /\ new = h[k + 1]
      OBVIOUS
    <3>2. j \in 1..m /\ j - 1 = k /\ k \in 0..m /\ j \in 0..m
      BY <1>3, <3>1
    <3>3. acc.log \in Seq(W) /\ Len(acc.log) = k /\ new.log \in Seq(W) /\ Len(new.log) = j
      BY <1>6, <3>1, <3>2 DEF History
    <3>4. PICK d : new.log = Append(acc.log, d)
      <4>1. new = ReplayRow(c, q, acc, j)
        BY <1>5, <3>1, <3>2 DEF Replays
      <4> QED
        BY <4>1 DEF ReplayRow, Replayed
    <3>5. \A i \in 1..k : new.log[i] = acc.log[i]
      BY <3>3, <3>4
    <3>6. SameTo(h[n].log, acc.log, n)
      BY <1>13, <2>2, <3>1
    <3>7. SameTo(h[n].log, new.log, n)
      BY <1>3, <2>2, <3>1, <3>2, <3>3, <3>5, <3>6 DEF SameTo
    <3> QED
      BY <3>1, <3>2, <3>7
  <2> QED
    BY <1>3, <2>1, <2>2
<1>14. SameTo(h[n].log, h[m].log, n)
  <2>1. \A k \in 0..m : k \in Q
    <3> HIDE DEF Q
    <3> QED
      BY <1>3, <1>12, <1>13, UpToInduction
  <2> QED
    BY <1>3, <2>1
<1>15. h[m].log \in Seq(W)
  BY <1>3, <1>6 DEF History
<1>16. Replay(c, p).log = h[n].log /\ Replay(c, q).log = h[m].log
  BY <1>4, <1>5, <1>9 DEF Replays
<1> QED
  BY <1>10, <1>14, <1>15, <1>16, PrefixFacts

LEMMA AnswerLog ==
  ASSUME NEW c, NEW prices, NEW answer, answer = RunAptet(c, prices), answer.log # <<>>
  PROVE  answer.log = Replay(c, prices).log
<1>1. ~(Len(prices) < 2 \/ ~Usable(c, prices))
  BY DEF RunAptet
<1>2. answer = Decided(c, prices, Replay(c, prices))
  BY <1>1 DEF RunAptet
<1> QED
  BY <1>2 DEF Decided

LEMMA LogIsSequence ==
  ASSUME NEW c, IsAptetConfig(c), NEW p \in Seq(PriceRow)
  PROVE  \E W : Replay(c, p).log \in Seq(W)
<1>1. PICK n : n = Max({0, Len(p) - 2})
  OBVIOUS
<1>2. n \in Nat
  BY <1>1, MaxOfTwo
<1>3. PICK h : Replays(h, c, p, n)
  BY <1>1, <1>2, ReplayThrough
<1>4. PICK V, W : \A k \in 0..n : History(c, V, W, h[k], k)
  BY <1>2, <1>3, ReplayFacts
<1>5. Replay(c, p).log \in Seq(W)
  BY <1>2, <1>3, <1>4 DEF Replays, History
<1> QED
  BY <1>5

LEMMA EmptyIsPrefix ==
  ASSUME NEW W, NEW s \in Seq(W)
  PROVE  IsPrefix(<<>>, s)
<1>1. PICK e : e = <<>>
  OBVIOUS
<1>2. e \in Seq(W) /\ Len(e) = 0
  BY <1>1
<1>3. SameTo(e, s, Len(e))
  BY <1>2 DEF SameTo
<1>4. IsPrefix(e, s)
  BY <1>2, <1>3, PrefixFacts
<1> QED
  BY <1>1, <1>4

\* When a download has only more rows than the last, what is replayed of the
\* rows they share is the same: no decision used rows of its future.
THEOREM PastSettled == Spec => NoLookahead
<1>1. DownloadInv /\ DownloadInv' /\ [Next]_vars =>
        [IsPrefix(read, read') /\ aptet'.log # <<>> => IsPrefix(aptet.log, aptet'.log)]_vars
  <2> SUFFICES ASSUME DownloadInv, DownloadInv', [Next]_vars, IsPrefix(read, read'), aptet'.log # <<>>
               PROVE  IsPrefix(aptet.log, aptet'.log)
    OBVIOUS
  <2>1. PICK c : c = AptetNow
    OBVIOUS
  <2>2. settings' = settings
    BY DEF Next, vars, NewDay, Move, StartForce, ForceAnswers, StartAptet, AptetAnswers,
           FetchPage, FetchAll, FetchFails
  <2>3. AptetNow' = c
    BY <2>1, <2>2 DEF AptetNow
  <2>4. IsAptetConfig(c)
    <3>1. settings.aptet \in AptetSettings
      BY DEF DownloadInv
    <3> QED
      BY <2>1, <3>1, AptetConfigFacts DEF AptetNow
  <2>5. read \in Seq(PriceRow) /\ read' \in Seq(PriceRow)
    BY DEF DownloadInv, PriceRow
  <2>6. aptet' = RunAptet(c, read')
    BY <2>3 DEF DownloadInv
  <2>7. aptet'.log = Replay(c, read').log
    BY <2>6, AnswerLog
  <2>8. CASE aptet.log = <<>>
    BY <2>4, <2>5, <2>7, <2>8, LogIsSequence, EmptyIsPrefix
  <2>9. CASE aptet.log # <<>>
    <3>1. aptet = RunAptet(c, read)
      BY <2>1, <2>9 DEF DownloadInv
    <3>2. aptet.log = Replay(c, read).log
      BY <2>9, <3>1, AnswerLog
    <3> QED
      BY <2>4, <2>5, <2>7, <3>2, LogsGrow
  <2> QED
    BY <2>8, <2>9
<1> QED
  BY <1>1, DownloadCorrect, PTL DEF Spec, NoLookahead

-----------------------------------------------------------------------------
(* Aptet: as many names as it asks for.                                    *)

\* The greedy choice goes from candidate to candidate.
TakesOver(base, seq, w, top) == FoldLeft(LAMBDA v, e : Take(w, top, v, e), base, seq)

TakesSolves(g, n, base, seq, w, top) ==
  g = [s \in SUBSET (1..n) |->
         IF s = {} THEN base ELSE Take(w, top, g[s \ {Max(s)}], seq[Max(s)])]

LEMMA TakesExpanded ==
  ASSUME NEW n, NEW seq, DOMAIN seq = 1..n, NEW base, NEW w, NEW top
  PROVE  TakesOver(base, seq, w, top)
         = (CHOOSE g : TakesSolves(g, n, base, seq, w, top))[1..n]
BY Zenon DEF TakesOver, FoldLeft, MapThenFoldSet, TakesSolves

LEMMA TakesExists ==
  ASSUME NEW n \in Nat, NEW seq, NEW base, NEW w, NEW top
  PROVE  \E g : TakesSolves(g, n, base, seq, w, top)
<1> DEFINE P == {k \in 0..n : \E g : TakesSolves(g, k, base, seq, w, top)}
<1>1. 0 \in P
  <2>1. TakesSolves([s \in SUBSET (1..0) |-> base], 0, base, seq, w, top)
    <3>1. \A s \in SUBSET (1..0) : s = {}
      OBVIOUS
    <3> QED
      BY <3>1 DEF TakesSolves
  <2> QED
    BY <2>1
<1>2. ASSUME NEW k \in 0..(n - 1), k \in P PROVE k + 1 \in P
  <2>1. PICK g : TakesSolves(g, k, base, seq, w, top)
    BY <1>2
  <2>2. PICK j, S, T : j = k + 1 /\ S = 1..k /\ T = 1..j
    OBVIOUS
  <2>3. PICK f : f = [s \in SUBSET T |-> IF j \in s THEN Take(w, top, g[s \ {j}], seq[j]) ELSE g[s]]
    OBVIOUS
  <2>4. T = S \cup {j} /\ j \notin S
    BY <2>2
  <2>5. ASSUME NEW s \in SUBSET T
        PROVE  f[s] = IF s = {} THEN base ELSE Take(w, top, f[s \ {Max(s)}], seq[Max(s)])
    <3>1. CASE s = {}
      BY <2>1, <2>2, <2>3, <3>1 DEF TakesSolves
    <3>2. CASE j \in s
      <4>1. Max(s) = j
        BY <2>2, <3>2, MaxWith
      <4>2. s \ {j} \in SUBSET S /\ s \ {j} \in SUBSET T /\ j \notin s \ {j}
        BY <2>4
      <4>3. f[s \ {j}] = g[s \ {j}]
        BY <2>3, <4>2
      <4> QED
        BY <2>3, <3>2, <4>1, <4>3
    <3>3. CASE j \notin s /\ s # {}
      <4>1. s \in SUBSET S /\ s \ {Max(s)} \in SUBSET S /\ s \ {Max(s)} \in SUBSET T /\ j \notin s \ {Max(s)}
        BY <2>4, <3>3
      <4>2. f[s] = g[s] /\ f[s \ {Max(s)}] = g[s \ {Max(s)}]
        BY <2>3, <3>3, <4>1
      <4>3. g[s] = Take(w, top, g[s \ {Max(s)}], seq[Max(s)])
        BY <2>1, <2>2, <3>3, <4>1 DEF TakesSolves
      <4> QED
        BY <3>3, <4>2, <4>3
    <3> QED
      BY <3>1, <3>2, <3>3
  <2>6. TakesSolves(f, j, base, seq, w, top)
    BY <2>2, <2>3, <2>5 DEF TakesSolves
  <2>7. k + 1 \in 0..n
    OBVIOUS
  <2> QED
    BY <2>2, <2>6, <2>7
<1>3. \A k \in 0..n : k \in P
  <2> HIDE DEF P
  <2> QED
    BY <1>1, <1>2, UpToInduction
<1> QED
  BY <1>3

TakesThrough(h, n, base, seq, w, top) ==
  /\ h[0] = base
  /\ \A k \in 1..n : h[k] = Take(w, top, h[k - 1], seq[k])
  /\ TakesOver(base, seq, w, top) = h[n]

LEMMA TakesChain ==
  ASSUME NEW n \in Nat, NEW seq, DOMAIN seq = 1..n, NEW base, NEW w, NEW top
  PROVE  \E h : TakesThrough(h, n, base, seq, w, top)
<1>1. PICK g : g = CHOOSE f : TakesSolves(f, n, base, seq, w, top)
  OBVIOUS
<1>2. TakesSolves(g, n, base, seq, w, top)
  BY <1>1, TakesExists
<1>3. PICK h : h = [k \in 0..n |-> g[1..k]]
  OBVIOUS
<1>4. h[0] = base
  <2>1. 1..0 = {} /\ {} \in SUBSET (1..n) /\ h[0] = g[1..0]
    BY <1>3
  <2> QED
    BY <1>2, <2>1 DEF TakesSolves
<1>5. ASSUME NEW k \in 1..n PROVE h[k] = Take(w, top, h[k - 1], seq[k])
  <2>1. Max(1..k) = k
    BY MaxUpTo
  <2>2. PICK s, r : s = 1..k /\ r = 1..(k - 1)
    OBVIOUS
  <2>3. s \in SUBSET (1..n) /\ s # {} /\ s \ {k} = r /\ k - 1 \in 0..n /\ k \in 0..n
    BY <2>2, UpToParts
  <2>6. h[k] = g[s] /\ h[k - 1] = g[r]
    BY <1>3, <2>2, <2>3
  <2>4. h[k] = g[s] /\ h[k - 1] = g[s \ {k}]
    BY <2>3, <2>6
  <2>5. g[s] = Take(w, top, g[s \ {Max(s)}], seq[Max(s)])
    BY <1>2, <2>3 DEF TakesSolves
  <2> QED
    BY <2>1, <2>2, <2>4, <2>5
<1>6. h[n] = g[1..n]
  BY <1>3
<1>7. TakesOver(base, seq, w, top) = h[n]
  BY <1>1, <1>6, TakesExpanded
<1>8. TakesThrough(h, n, base, seq, w, top)
  BY <1>4, <1>5, <1>7 DEF TakesThrough
<1> QED
  BY <1>8

NobodyYet == [picked |-> <<>>, skipped |-> <<>>]

\* After k candidates: who is picked and who was passed over are different
\* candidates, and nobody else is left while there is room.
TakenSoFar(acc, S, ordered, top, k) ==
  /\ Split(acc.picked, acc.skipped, S, ordered, k)
  /\ Len(acc.picked) <= top
  /\ Len(acc.picked) + Len(acc.skipped) <= k
  /\ Len(acc.picked) < top => Len(acc.picked) + Len(acc.skipped) = k

LEMMA TakeKeeps ==
  ASSUME NEW S, NEW ordered \in Seq(S), Distinct(ordered), NEW k \in Nat, k < Len(ordered), NEW top \in Nat,
         NEW w, NEW acc, TakenSoFar(acc, S, ordered, top, k), NEW r, r = Take(w, top, acc, ordered[k + 1])
  PROVE  TakenSoFar(r, S, ordered, top, k + 1)
<1>1. PICK a, b, x : a = acc.picked /\ b = acc.skipped /\ x = ordered[k + 1]
  OBVIOUS
<1>2. Split(a, b, S, ordered, k)
  BY <1>1 DEF TakenSoFar
<1>0. PICK m, l : m = Len(a) /\ l = Len(b)
  OBVIOUS
<1>3. m = Len(a) /\ l = Len(b) /\ m \in Nat /\ l \in Nat
  <2>1. Len(a) \in Nat
    BY <1>2 DEF Split
  <2>2. Len(b) \in Nat
    BY <1>2 DEF Split
  <2> QED
    BY <1>0, <2>1, <2>2
<1>4. m <= top /\ m + l <= k /\ (m < top => m + l = k)
  BY <1>1, <1>3 DEF TakenSoFar
<1>5. Split(b, a, S, ordered, k)
  BY <1>2, SplitTurned
<1>12. Following(x, S, ordered, k)
  BY <1>1 DEF Following
<1>6. PICK close : close = \E u \in ToSet(acc.picked) : Correlated(w, x, u)
  OBVIOUS
<1>7. /\ m >= top <=> Len(acc.picked) >= top
      /\ m < top <=> Len(acc.picked) < top
      /\ ~(m >= top) \/ ~(m < top)
  BY <1>1, <1>3
<1>8. CASE m >= top
  <2>1. r = acc
    BY Zenon, <1>7, <1>8 DEF Take
  <2>2. Split(a, b, S, ordered, k + 1)
    BY <1>2, SplitMore
  <2>3. ~(m < top) /\ m + l <= k + 1
    BY <1>3, <1>4, <1>8
  <2> QED
    BY <1>1, <1>3, <1>4, <2>1, <2>2, <2>3 DEF TakenSoFar
<1>9. CASE m < top /\ close
  <2>1. PICK c : c = Append(b, x)
    OBVIOUS
  <2>2. r = [picked |-> a, skipped |-> c]
    BY Zenon, <1>1, <1>6, <1>7, <1>9, <2>1 DEF Take
  <2>3. Split(c, a, S, ordered, k + 1) /\ LongerBy(c, b, 1)
    BY <1>5, <1>12, <2>1, OneMore
  <2>4. Split(a, c, S, ordered, k + 1)
    BY <2>3, SplitTurned
  <2>5. r.picked = a /\ r.skipped = c
    BY <2>2
  <2>6. m + (l + 1) = k + 1
    BY <1>3, <1>4, <1>9
  <2>7. Len(r.picked) = m /\ Len(r.skipped) = l + 1
    BY <1>3, <2>3, <2>5 DEF LongerBy
  <2> QED
    BY <1>3, <1>4, <2>4, <2>5, <2>6, <2>7 DEF TakenSoFar
<1>10. CASE m < top /\ ~close
  <2>1. PICK c : c = Append(a, x)
    OBVIOUS
  <2>2. r = [picked |-> c, skipped |-> b]
    BY Zenon, <1>1, <1>6, <1>7, <1>10, <2>1 DEF Take
  <2>3. Split(c, b, S, ordered, k + 1) /\ LongerBy(c, a, 1)
    BY <1>2, <1>12, <2>1, OneMore
  <2>5. r.picked = c /\ r.skipped = b
    BY <2>2
  <2>6. (m + 1) + l = k + 1 /\ m + 1 <= top
    BY <1>3, <1>4, <1>10
  <2>7. Len(r.picked) = m + 1 /\ Len(r.skipped) = l
    BY <1>3, <2>3, <2>5 DEF LongerBy
  <2> QED
    BY <1>3, <1>4, <2>3, <2>5, <2>6, <2>7 DEF TakenSoFar
<1>11. m >= top \/ m < top
  BY <1>3
<1> QED
  BY <1>8, <1>9, <1>10, <1>11

\* h starts with nobody and takes a candidate at each step, and what is taken is its end.
Greedy(h, w, top, ordered, n) ==
  /\ h[0] = NobodyYet
  /\ \A k \in 1..n : h[k] = Take(w, top, h[k - 1], ordered[k])
  /\ Taken(w, top, ordered) = h[n]

LEMMA TakenThrough ==
  ASSUME NEW S, NEW ordered \in Seq(S), NEW w, NEW top, NEW n, n = Len(ordered)
  PROVE  \E h : Greedy(h, w, top, ordered, n)
<1>1. n \in Nat /\ DOMAIN ordered = 1..n
  OBVIOUS
<1>2. PICK h : TakesThrough(h, n, NobodyYet, ordered, w, top)
  BY <1>1, TakesChain
<1>3. Taken(w, top, ordered) = TakesOver(NobodyYet, ordered, w, top)
  BY Zenon DEF Taken, TakesOver, NobodyYet
<1>4. Greedy(h, w, top, ordered, n)
  BY <1>2, <1>3 DEF TakesThrough, Greedy
<1> QED
  BY <1>4

LEMMA NobodyTaken ==
  ASSUME NEW S, NEW ordered, NEW top \in Nat
  PROVE  TakenSoFar(NobodyYet, S, ordered, top, 0)
<1>1. PICK e : e = <<>>
  OBVIOUS
<1>2. e \in Seq(S) /\ Len(e) = 0
  BY <1>1
<1>3. Distinct(e) /\ Among(e, ordered, 0) /\ Disjoint(e, e)
  BY <1>2 DEF Distinct, Among, Disjoint
<1>4. Split(e, e, S, ordered, 0)
  BY <1>2, <1>3 DEF Split
<1>5. NobodyYet.picked = e /\ NobodyYet.skipped = e
  BY <1>1 DEF NobodyYet
<1> QED
  BY <1>2, <1>4, <1>5 DEF TakenSoFar

LEMMA TakenFacts ==
  ASSUME NEW S, NEW ordered \in Seq(S), Distinct(ordered), NEW w, NEW top \in Nat,
         NEW n, n = Len(ordered), NEW acc, acc = Taken(w, top, ordered)
  PROVE  TakenSoFar(acc, S, ordered, top, n)
<1>1. n \in Nat
  OBVIOUS
<1>2. PICK h : Greedy(h, w, top, ordered, n)
  BY TakenThrough
<1> DEFINE P == {k \in 0..n : TakenSoFar(h[k], S, ordered, top, k)}
<1>3. 0 \in P
  BY <1>1, <1>2, NobodyTaken DEF Greedy
<1>4. ASSUME NEW k \in 0..(n - 1), k \in P PROVE k + 1 \in P
  <2>1. k \in Nat /\ k < Len(ordered) /\ k + 1 \in 1..n /\ k + 1 \in 0..n /\ (k + 1) - 1 = k
    BY <1>1
  <2>2. h[k + 1] = Take(w, top, h[k], ordered[k + 1])
    BY <1>2, <2>1 DEF Greedy
  <2>3. TakenSoFar(h[k], S, ordered, top, k)
    BY <1>4
  <2>4. TakenSoFar(h[k + 1], S, ordered, top, k + 1)
    BY <2>1, <2>2, <2>3, TakeKeeps
  <2> QED
    BY <2>1, <2>4
<1>5. n \in P
  <2> HIDE DEF P
  <2>1. \A k \in 0..n : k \in P
    BY <1>1, <1>3, <1>4, UpToInduction
  <2> QED
    BY <1>1, <2>1
<1> QED
  BY <1>2, <1>5 DEF Greedy

\* As many candidates as asked for, or all of them.
LEMMA DiversifiedFacts ==
  ASSUME NEW S, NEW ordered \in Seq(S), Distinct(ordered), NEW w, NEW top \in Nat,
         NEW r, r = Diversified(ordered, w, top)
  PROVE  r \in Seq(S) /\ Distinct(r) /\ Len(r) = Min({top, Len(ordered)})
<1>1. PICK n, acc : n = Len(ordered) /\ acc = Taken(w, top, ordered)
  OBVIOUS
<1>2. n \in Nat /\ TakenSoFar(acc, S, ordered, top, n)
  BY <1>1, TakenFacts
<1>3. PICK a, b : a = acc.picked /\ b = acc.skipped
  OBVIOUS
<1>4. Split(a, b, S, ordered, n)
  BY <1>2, <1>3 DEF TakenSoFar
<1>5. a \in Seq(S) /\ b \in Seq(S) /\ Distinct(a) /\ Distinct(b) /\ Disjoint(a, b)
  BY <1>4 DEF Split
<1>6. PICK x, y : x = Len(a) /\ y = Len(b)
  OBVIOUS
<1>7. x \in Nat /\ y \in Nat
  <2>1. Len(a) \in Nat
    BY <1>5
  <2>2. Len(b) \in Nat
    BY <1>5
  <2> QED
    BY <1>6, <2>1, <2>2
<1>8. x <= top /\ x + y <= n /\ (x < top => x + y = n)
  BY <1>2, <1>3, <1>6 DEF TakenSoFar
<1>9. PICK m : m = Min({top - x, y})
  OBVIOUS
<1>10. m = (IF top - x <= y THEN top - x ELSE y)
  BY <1>7, <1>9, MinOfTwo
<1>11. m \in Nat /\ m <= y
  BY <1>7, <1>8, <1>10
<1>12. r = a \o SubSeq(b, 1, m)
  BY Zenon, <1>1, <1>3, <1>6, <1>9 DEF Diversified, Backfilled
<1>13. r \in Seq(S) /\ Distinct(r) /\ Len(r) = x + m
  <2>1. m \in 0..Len(b)
    BY <1>6, <1>7, <1>11
  <2>2. r \in Seq(S) /\ Distinct(r) /\ LongerBy(r, a, m)
    BY <1>4, <1>12, <2>1, FilledUp
  <2> QED
    BY <1>6, <2>2 DEF LongerBy
<1>14. x + m = IF top <= n THEN top ELSE n
  BY <1>2, <1>7, <1>8, <1>10
<1>15. Min({top, n}) = IF top <= n THEN top ELSE n
  BY <1>2, MinOfTwo
<1> QED
  BY <1>1, <1>13, <1>14, <1>15

\* What Aptet's scores have to be to be compared: numbers, whatever the window.
ScoresAreNumbers ==
  \A w \in Seq(PriceRow) : \A among \in SUBSET {u \in Tickers : Len(w) >= 2 /\ Whole(w, u)} :
    \A t \in among : ScoreIn(w, among, t) \in Int

Scorable(w, among) == \A t \in among : ScoreIn(w, among, t) \in Int

\* Names by score, and by column where they score the same.
ByScore(D, score) ==
  {p \in D \X D : score[p[1]] > score[p[2]] \/ (score[p[1]] = score[p[2]] /\ Column[p[1]] < Column[p[2]])}

LEMMA ByScoreOrders ==
  ASSUME NEW D \in SUBSET Tickers, NEW score, \A t \in D : score[t] \in Int
  PROVE  IsOrder(D, ByScore(D, score))
<1>1. PICK less : less = ByScore(D, score)
  OBVIOUS
<1>2. \A t, u \in D : <<t, u>> \in less
        <=> score[t] > score[u] \/ (score[t] = score[u] /\ Column[t] < Column[u])
  BY <1>1 DEF ByScore
<1>3. \A t, u \in D : Column[t] \in Nat /\ (Column[t] = Column[u] => t = u)
  BY ColumnAssumption
<1>4. IsOrder(D, less)
  BY <1>2, <1>3 DEF IsOrder
<1> QED
  BY <1>1, <1>4

\* As many names are selected as asked for, or all that are ranked.
LEMMA SelectedFacts ==
  ASSUME NEW ranked, DOMAIN ranked \in SUBSET Tickers, NEW w, Scorable(w, DOMAIN ranked), NEW top \in Nat, NEW held,
         NEW names, names = Selected(ranked, w, top, held)
  PROVE  names \subseteq DOMAIN ranked /\ Cardinality(names) = Min({top, Cardinality(DOMAIN ranked)})
<1>1. PICK D : D = DOMAIN ranked
  OBVIOUS
<1>2. PICK score : score = [t \in D |-> ScoreIn(w, D, t) + (IF t \in held THEN StayBonus ELSE 0)]
  OBVIOUS
<1>3. \A t \in D : score[t] \in Int
  BY <1>1, <1>2, StayBonusAssumption DEF Scorable
<1>4. D \in SUBSET Tickers /\ IsFiniteSet(D)
  BY <1>1, TickersAssumption, FS_Subset
<1>5. PICK less : less = ByScore(D, score)
  OBVIOUS
<1>6. IsOrder(D, less)
  BY <1>3, <1>4, <1>5, ByScoreOrders
<1>7. PICK ordered : ordered = InOrder(D, less)
  OBVIOUS
<1>8. PICK n : n = Cardinality(D)
  OBVIOUS
<1>9. /\ ordered \in [1..n -> D] /\ n \in Nat
      /\ \A i, j \in 1..n : i < j => <<ordered[i], ordered[j]>> \in less /\ ordered[i] # ordered[j]
      /\ \A t \in D : \E i \in 1..n : ordered[i] = t
  BY <1>4, <1>6, <1>7, <1>8, InOrderFacts
<1>10. ordered \in Seq(D) /\ Len(ordered) = n
  BY <1>9
<1>11. Distinct(ordered)
  <2> SUFFICES ASSUME NEW i \in 1..n, NEW j \in 1..n, i # j PROVE ordered[i] # ordered[j]
    BY <1>10 DEF Distinct
  <2>1. i < j \/ j < i
    BY <1>9
  <2> QED
    BY <1>9, <2>1
<1>12. PICK r : r = Diversified(ordered, w, top)
  OBVIOUS
<1>13. r \in Seq(D) /\ Distinct(r) /\ Len(r) = Min({top, n})
  BY <1>10, <1>11, <1>12, DiversifiedFacts
<1>14. names = ToSet(r)
  BY Zenon, <1>1, <1>2, <1>5, <1>7, <1>12 DEF Selected, ByScore
<1>15. Cardinality(names) = Min({top, n})
  BY <1>13, <1>14, DistinctCounted
<1>16. names \subseteq D
  BY <1>13, <1>14 DEF ToSet
<1> QED
  BY <1>1, <1>8, <1>15, <1>16

\* What is ranked can be scored.
LEMMA RankedScorable ==
  ASSUME ScoresAreNumbers, NEW prices \in Seq(PriceRow), NEW n \in Nat, NEW among \in SUBSET Tickers,
         NEW w, w = Window(prices, Len(prices), n),
         NEW ranked, ranked = Trailing(prices, Len(prices), n, among)
  PROVE  DOMAIN ranked \in SUBSET Tickers /\ Scorable(w, DOMAIN ranked)
<1>1. w = LastOf(prices, n)
  BY DEF Window, LastOf
<1>2. w \in Seq(PriceRow)
  BY <1>1, LastOnes
<1>3. PICK D : D = DOMAIN ranked
  OBVIOUS
<1>4. D = {u \in among : Len(w) >= 2 /\ Whole(w, u)}
  BY <1>3 DEF Trailing, ReturnsIn
<1>5. D \in SUBSET {u \in Tickers : Len(w) >= 2 /\ Whole(w, u)}
  BY <1>4
<1>6. Scorable(w, D)
  BY <1>2, <1>5 DEF ScoresAreNumbers, Scorable
<1> QED
  BY <1>3, <1>5, <1>6

\* When it is invested, Aptet has been able to choose, and holds what it chose.
LEMMA InvestedNames ==
  ASSUME NEW c, NEW prices, NEW end, NEW p, NEW held,
         NEW d, d = WithNames(c, prices, end, p, held), ~d.off,
         NEW w, w = Window(prices, end, p.lookback),
         NEW ranked, ranked = Trailing(prices, end, p.lookback, c.universe)
  PROVE  d.names = Selected(ranked, w, p.topN, held)
<1>1. PICK choice : choice = IF end < p.lookback + 1 THEN OrFallback(c, {})
                             ELSE ChosenByAptet(c, prices, end, p.lookback, p.topN, held)
  OBVIOUS
<1>2. d = [lookback |-> p.lookback, topN |-> p.topN, names |-> choice.names, off |-> choice.off]
  BY Zenon, <1>1 DEF WithNames
<1>3. d.names = choice.names /\ ~choice.off
  BY <1>2
<1>4. OrFallback(c, {}).off
  BY DEF OrFallback
<1>5. choice = ChosenByAptet(c, prices, end, p.lookback, p.topN, held)
  BY Zenon, <1>1, <1>3, <1>4
<1>6. PICK names : names = Invested(c, ranked, w, p.topN, held)
  OBVIOUS
<1>7. choice = OrFallback(c, names)
  BY <1>5, <1>6 DEF ChosenByAptet
<1>8. names # {} /\ choice.names = names
  BY <1>3, <1>7 DEF OrFallback
<1>9. names = Selected(ranked, w, p.topN, held)
  BY <1>6, <1>8 DEF Invested
<1> QED
  BY <1>3, <1>8, <1>9

\* What Aptet holds of what its own parameters rank.
LEMMA AnswerHolds ==
  ASSUME ScoresAreNumbers, NEW c, IsAptetConfig(c), NEW prices \in Seq(PriceRow),
         NEW answer, answer = RunAptet(c, prices), answer.signal = "REBALANCE", ~answer.off,
         NEW ranked, ranked = Trailing(prices, Len(prices), answer.lookback, c.universe)
  PROVE  Cardinality(answer.names) = Min({answer.topN, Cardinality(DOMAIN ranked)})
<1>1. PICK n : n = Len(prices)
  OBVIOUS
<1>2. n \in Nat
  BY <1>1
<1>3. ~(Len(prices) < 2 \/ ~Usable(c, prices))
  BY DEF RunAptet
<1>4. PICK past : past = Replay(c, prices)
  OBVIOUS
<1>5. answer = Decided(c, prices, past)
  BY <1>3, <1>4 DEF RunAptet
<1>6. PICK last : last = Resolved(c, prices, n, past.state, past.held)
  OBVIOUS
<1>7. answer = [signal |-> "REBALANCE", names |-> last.names, off |-> last.off, log |-> past.log,
                lookback |-> last.lookback, topN |-> last.topN]
  BY <1>1, <1>5, <1>6 DEF Decided
<1>8. /\ answer.names = last.names /\ ~last.off
      /\ answer.lookback = last.lookback /\ answer.topN = last.topN
  BY <1>7
<1>9. PICK p : p = Settled(c, past.state,
                           IF Searches(past.state) THEN Optimized(c, prices, n, past.state.topN) ELSE {})
  OBVIOUS
<1>10. last = WithNames(c, prices, n, p, past.held)
  BY Zenon, <1>6, <1>9 DEF Resolved
<1>11. last.lookback = p.lookback /\ last.topN = p.topN
  BY <1>10 DEF WithNames
<1>12. InRange(c, answer)
  BY <1>1, <1>2, AnswerRests
<1>13. answer.lookback \in Nat /\ answer.topN \in Nat
  BY <1>12 DEF InRange, IsAptetConfig
<1>14. PICK w : w = Window(prices, n, p.lookback)
  OBVIOUS
<1>15. ranked = Trailing(prices, n, p.lookback, c.universe)
  BY <1>1, <1>8, <1>11
<1>16. last.names = Selected(ranked, w, p.topN, past.held)
  BY <1>8, <1>10, <1>14, <1>15, InvestedNames
<1>17. p.lookback \in Nat /\ p.topN \in Nat /\ c.universe \in SUBSET Tickers
  BY <1>8, <1>11, <1>13 DEF IsAptetConfig
<1>18. DOMAIN ranked \in SUBSET Tickers /\ Scorable(w, DOMAIN ranked)
  BY <1>1, <1>14, <1>15, <1>17, RankedScorable
<1>19. Cardinality(last.names) = Min({p.topN, Cardinality(DOMAIN ranked)})
  BY <1>16, <1>17, <1>18, SelectedFacts
<1> QED
  BY <1>8, <1>11, <1>19

\* When Aptet is invested it holds exactly as many names as its parameters ask
\* for, or all that can be ranked if they are fewer: whichever names are too
\* correlated with one another, whatever the scores are, as long as they are
\* numbers, and for any settings, rows and downloads.
THEOREM HeldAsAsked == ScoresAreNumbers => (Spec => []HoldsAsAsked)
<1> SUFFICES ASSUME ScoresAreNumbers PROVE Spec => []HoldsAsAsked
  OBVIOUS
<1>1. DownloadInv => HoldsAsAsked
  <2> SUFFICES ASSUME DownloadInv, aptet.signal = "REBALANCE"
               PROVE  /\ aptet.topN \in AptetNow.min .. AptetNow.max
                      /\ ~aptet.off =>
                           Cardinality(aptet.names) =
                             Min({aptet.topN,
                                  Cardinality(DOMAIN Trailing(read, Len(read), aptet.lookback, AptetNow.universe))})
    BY Zenon DEF HoldsAsAsked
  <2>1. PICK c : c = AptetNow
    OBVIOUS
  <2>2. IsAptetConfig(c)
    <3>1. settings.aptet \in AptetSettings
      BY DEF DownloadInv
    <3> QED
      BY <2>1, <3>1, AptetConfigFacts DEF AptetNow
  <2>3. aptet = RunAptet(c, read) /\ read \in Seq(PriceRow) /\ Len(read) \in Nat
    BY <2>1 DEF DownloadInv
  <2>4. InRange(c, aptet)
    BY <2>2, <2>3, AnswerRests
  <2>5. ASSUME ~aptet.off
        PROVE  Cardinality(aptet.names) =
                 Min({aptet.topN, Cardinality(DOMAIN Trailing(read, Len(read), aptet.lookback, c.universe))})
    <3>1. PICK ranked : ranked = Trailing(read, Len(read), aptet.lookback, c.universe)
      OBVIOUS
    <3>2. Cardinality(aptet.names) = Min({aptet.topN, Cardinality(DOMAIN ranked)})
      BY <2>2, <2>3, <2>5, <3>1, AnswerHolds
    <3> QED
      BY <3>1, <3>2
  <2> QED
    BY <2>1, <2>4, <2>5 DEF InRange
<1> QED
  BY <1>1, DownloadCorrect, PTL

-----------------------------------------------------------------------------
(* What the two bots answer, and the types of the whole.                   *)

\* What Force chooses are names of its universe, no more than asked for, or cash.
LEMMA ForceChoice ==
  ASSUME NEW c, IsForceConfig(c), NEW prices, NEW end, NEW held,
         NEW chosen, chosen = ChosenByForce(c, prices, end, held)
  PROVE  /\ chosen.off => chosen.names = <<>> \/ (c.cash \in Tickers /\ chosen.names = <<c.cash>>)
         /\ ~chosen.off => chosen.names \in Seq(Tickers) /\ Len(chosen.names) \in Nat /\ Len(chosen.names) <= c.topN
<1>1. PICK ranked : ranked = Trailing(prices, end, c.lookback, c.universe)
  OBVIOUS
<1>2. PICK best : best = Leading(Ranked(ranked, c.margin, held), c.topN)
  OBVIOUS
<1>3. best \in Seq(Tickers) /\ Len(best) \in Nat /\ Len(best) <= c.topN
  <2>1. DOMAIN ranked \subseteq Tickers
    BY <1>1, TrailingOf DEF IsForceConfig
  <2>2. PICK r : r = Ranked(ranked, c.margin, held)
    OBVIOUS
  <2>3. r \in Seq(DOMAIN ranked)
    BY <2>1, <2>2, RankedFacts
  <2>4. PICK n : n = c.topN
    OBVIOUS
  <2>5. n \in Nat
    BY <2>4 DEF IsForceConfig
  <2>6. best \in Seq(DOMAIN ranked) /\ Len(best) = IF n <= Len(r) THEN n ELSE Len(r)
    BY <1>2, <2>2, <2>3, <2>4, <2>5, LeadingFacts
  <2>7. Len(r) \in Nat
    BY <2>3
  <2>8. best \in Seq(Tickers)
    BY <2>1, <2>6
  <2> QED
    BY <2>4, <2>5, <2>6, <2>7, <2>8
<1> DEFINE returns  == Trailing(prices, end, c.lookback, Tickers)
           off      == KillSwitch(c, ranked) \/ BenchmarkFilter(c, returns)
           selected == IF off THEN <<>> ELSE best
<1>4. /\ chosen.names = CASE selected # <<>> -> selected
                          [] selected = <<>> /\ c.cash # NoTicker -> <<c.cash>>
                          [] OTHER -> <<>>
      /\ chosen.off = (off \/ (selected = <<>> /\ c.cash # NoTicker))
  BY <1>1, <1>2 DEF ChosenByForce
<1>5. ASSUME chosen.off PROVE chosen.names = <<>> \/ (c.cash \in Tickers /\ chosen.names = <<c.cash>>)
  <2>1. selected = <<>>
    BY <1>4, <1>5
  <2>2. CASE c.cash = NoTicker
    BY <1>4, <2>1, <2>2
  <2>3. CASE c.cash # NoTicker
    BY <1>4, <2>1, <2>3 DEF IsForceConfig
  <2> QED
    BY <2>2, <2>3
<1>6. ASSUME ~chosen.off PROVE chosen.names = best \/ chosen.names = <<>>
  <2>1. ~off /\ ~(selected = <<>> /\ c.cash # NoTicker)
    BY <1>4, <1>6
  <2>2. selected = best
    BY <2>1
  <2> HIDE DEF selected, off
  <2> QED
    BY <1>4, <2>1, <2>2
<1>7. PICK empty : empty = <<>>
  OBVIOUS
<1>8. empty \in Seq(Tickers) /\ Len(empty) \in Nat /\ Len(empty) <= c.topN
  BY <1>7 DEF IsForceConfig
<1> QED
  BY <1>3, <1>5, <1>6, <1>7, <1>8

\* Every name Force answers has a weight, and is one of the tickers.
IsForceAnswer(answer) ==
  /\ answer.signal \in Signal
  /\ ToSet(answer.names) \subseteq Tickers
  /\ Len(answer.weights) = Len(answer.names)

\* One name, whose weight is all of it.
OneName(t, s, o) == [signal |-> s, names |-> <<t>>, off |-> o, weights |-> <<1>>]

LEMMA OneNameFacts ==
  ASSUME NEW t \in Tickers, NEW s \in Signal, NEW o
  PROVE  IsForceAnswer(OneName(t, s, o))
<1>1. Len(<<t>>) = 1 /\ Len(<<1>>) = 1 /\ ToSet(<<t>>) \subseteq Tickers
  BY DEF ToSet
<1> QED
  BY <1>1 DEF IsForceAnswer, OneName

LEMMA ForceAnswer ==
  ASSUME NEW c, IsForceConfig(c), NEW prices, Len(prices) \in Nat, NEW answer, answer = RunForce(c, prices)
  PROVE  IsForceAnswer(answer)
<1>1. PICK chosen : chosen = ChosenByForce(c, prices, Len(prices), Incumbents(c, prices))
  OBVIOUS
<1>2. PICK cash : cash = IF c.cash = NoTicker THEN DefaultCash ELSE c.cash
  OBVIOUS
<1>3. cash \in Tickers
  BY <1>2, ForceDefaultsAssumption DEF IsForceConfig
<1>4. CASE Len(prices) < 2
  <2>1. answer = OneName(cash, "HOLD", FALSE)
    BY <1>2, <1>4 DEF RunForce, OneName
  <2> QED
    BY <1>3, <2>1, OneNameFacts DEF Signal
<1>5. CASE Len(prices) >= 2 /\ chosen.names = <<>>
  <2>1. answer = OneName(cash, "HOLD", chosen.off)
    BY <1>1, <1>2, <1>5 DEF RunForce, OneName
  <2> QED
    BY <1>3, <2>1, OneNameFacts DEF Signal
<1>6. CASE Len(prices) >= 2 /\ chosen.names # <<>>
  <2>1. PICK w : w = IF chosen.off THEN <<1>> ELSE Leading(c.rankWeights, Len(chosen.names))
    OBVIOUS
  <2>2. answer = [signal |-> "REBALANCE", names |-> chosen.names, off |-> chosen.off, weights |-> w]
    BY <1>1, <1>6, <2>1 DEF RunForce
  <2>3. CASE chosen.off
    <3>1. c.cash \in Tickers /\ chosen.names = <<c.cash>> /\ w = <<1>>
      BY <1>1, <1>6, <2>1, <2>3, ForceChoice
    <3>2. answer = OneName(c.cash, "REBALANCE", TRUE)
      BY <2>2, <2>3, <3>1 DEF OneName
    <3> QED
      BY <3>1, <3>2, OneNameFacts DEF Signal
  <2>4. CASE ~chosen.off
    <3>1. PICK names, n : names = chosen.names /\ n = Len(names)
      OBVIOUS
    <3>2. names \in Seq(Tickers) /\ n \in Nat /\ n <= c.topN
      BY <1>1, <2>4, <3>1, ForceChoice
    <3>3. c.rankWeights \in Seq(Nat \ {0}) /\ n <= Len(c.rankWeights)
      BY <3>2 DEF IsForceConfig
    <3>4. w = Leading(c.rankWeights, n)
      BY <2>1, <2>4, <3>1
    <3>5. Len(w) = n
      BY <3>2, <3>3, <3>4, LeadingFacts
    <3>6. ToSet(names) \subseteq Tickers
      BY <3>2 DEF ToSet
    <3>7. answer.signal = "REBALANCE" /\ answer.names = names /\ answer.weights = w
      BY <2>2, <3>1
    <3> QED
      BY <3>1, <3>5, <3>6, <3>7 DEF IsForceAnswer, Signal
  <2> QED
    BY <2>3, <2>4
<1> QED
  BY <1>4, <1>5, <1>6

LEMMA AptetAnswer ==
  ASSUME ScoresAreNumbers, NEW c, IsAptetConfig(c), NEW prices \in Seq(PriceRow),
         NEW answer, answer = RunAptet(c, prices)
  PROVE  answer.signal \in Signal /\ answer.names \in SUBSET Tickers
<1>1. PICK n : n = Len(prices)
  OBVIOUS
<1>2. n \in Nat
  BY <1>1
<1>3. CASE Len(prices) < 2 \/ ~Usable(c, prices)
  BY <1>3 DEF RunAptet, Signal, IsAptetConfig
<1>4. CASE ~(Len(prices) < 2 \/ ~Usable(c, prices))
  <2>1. PICK past : past = Replay(c, prices)
    OBVIOUS
  <2>2. PICK last : last = Resolved(c, prices, n, past.state, past.held)
    OBVIOUS
  <2>3. answer = Decided(c, prices, past)
    BY <1>4, <2>1 DEF RunAptet
  <2>4. answer = [signal |-> "REBALANCE", names |-> last.names, off |-> last.off, log |-> past.log,
                  lookback |-> last.lookback, topN |-> last.topN]
    BY <1>1, <2>2, <2>3 DEF Decided
  <2>5. answer.signal = "REBALANCE" /\ answer.names = last.names /\ answer.topN = last.topN
        /\ answer.lookback = last.lookback
    BY <2>4
  <2>6. PICK p : p = Settled(c, past.state,
                             IF Searches(past.state) THEN Optimized(c, prices, n, past.state.topN) ELSE {})
    OBVIOUS
  <2>7. last = WithNames(c, prices, n, p, past.held)
    BY Zenon, <2>2, <2>6 DEF Resolved
  <2>8. last.lookback = p.lookback /\ last.topN = p.topN
    BY <2>7 DEF WithNames
  <2>9. CASE last.off
    <3>1. PICK choice, names : /\ choice = IF n < p.lookback + 1 THEN OrFallback(c, {})
                                           ELSE ChosenByAptet(c, prices, n, p.lookback, p.topN, past.held)
                               /\ names = Invested(c, Trailing(prices, n, p.lookback, c.universe),
                                                   Window(prices, n, p.lookback), p.topN, past.held)
      OBVIOUS
    <3>2. last = [lookback |-> p.lookback, topN |-> p.topN, names |-> choice.names, off |-> choice.off]
      BY Zenon, <2>7, <3>1 DEF WithNames
    <3>3. last.names = choice.names /\ choice.off
      BY <2>9, <3>2
    <3>4. choice = OrFallback(c, {}) \/ choice = OrFallback(c, names)
      BY Zenon, <3>1 DEF ChosenByAptet
    <3>5. choice.names = {c.fallback}
      BY <3>3, <3>4 DEF OrFallback
    <3> QED
      BY <2>5, <3>3, <3>5 DEF IsAptetConfig, Signal
  <2>10. CASE ~last.off
    <3>1. PICK w, ranked : /\ w = Window(prices, n, p.lookback)
                           /\ ranked = Trailing(prices, n, p.lookback, c.universe)
      OBVIOUS
    <3>2. last.names = Selected(ranked, w, p.topN, past.held)
      BY <2>7, <2>10, <3>1, InvestedNames
    <3>3. InRange(c, answer)
      BY <1>1, <1>2, <2>5, AnswerRests
    <3>4. p.lookback \in Nat /\ p.topN \in Nat /\ c.universe \in SUBSET Tickers
      BY <2>5, <2>8, <3>3 DEF InRange, IsAptetConfig
    <3>5. DOMAIN ranked \in SUBSET Tickers /\ Scorable(w, DOMAIN ranked)
      BY <1>1, <3>1, <3>4, RankedScorable
    <3>6. last.names \subseteq DOMAIN ranked
      BY <3>2, <3>4, <3>5, SelectedFacts
    <3> QED
      BY <2>5, <3>5, <3>6 DEF Signal
  <2> QED
    BY <2>9, <2>10
<1> QED
  BY <1>3, <1>4

\* Every variable by itself, those of DownloadInv apart.
Typed ==
  /\ Len(market) <= LastRow
  /\ provider \in {"alpaca", "yfinance"}
  /\ pc \in {"idle", "force", "answered", "aptet"}
  /\ IsForceAnswer(force)
  /\ aptet.signal \in Signal /\ aptet.names \in SUBSET Tickers
  /\ budget \in [{"moves", "failures"} -> Nat]

LEMMA TypedInitial == Init => Typed
<1> SUFFICES ASSUME Init PROVE Typed
  OBVIOUS
<1>1. Len(market) <= LastRow
  BY RowsAssumption DEF Init
<1>2. provider \in {"alpaca", "yfinance"}
  BY DEF Init, ProviderFor
<1>3. IsForceAnswer(force)
  <2>1. force.signal = "none" /\ force.names = <<>> /\ force.weights = <<>>
    BY DEF Init
  <2> QED
    BY <2>1 DEF IsForceAnswer, Signal, ToSet
<1>4. aptet.signal \in Signal /\ aptet.names \in SUBSET Tickers
  BY DEF Init, Signal
<1>5. budget \in [{"moves", "failures"} -> Nat] /\ pc = "idle"
  BY RowsAssumption DEF Init
<1> QED
  BY <1>1, <1>2, <1>3, <1>4, <1>5 DEF Typed

LEMMA TypedKept ==
  ASSUME ScoresAreNumbers, DownloadInv, Typed, [Next]_vars
  PROVE  Typed'
<1>1. ASSUME NEW r \in Rows, NewDay(r) PROVE Typed'
  <2>1. /\ Len(market) < LastRow /\ market' = Append(market, r)
        /\ UNCHANGED <<provider, pc, force, aptet, budget>>
    BY <1>1 DEF NewDay
  <2>2. Len(market') <= LastRow
    BY <2>1, RowsAssumption DEF DownloadInv
  <2> QED
    BY <2>1, <2>2 DEF Typed
<1>2. ASSUME NEW r \in Rows, Move(r) PROVE Typed'
  <2>1. /\ market' = [market EXCEPT ![Len(market)] = r] /\ Spend("moves")
        /\ UNCHANGED <<provider, pc, force, aptet>>
    BY <1>2 DEF Move
  <2>2. Len(market') = Len(market)
    BY <2>1 DEF DownloadInv
  <2>3. budget' \in [{"moves", "failures"} -> Nat]
    BY <2>1 DEF Typed, Spend
  <2> QED
    BY <2>1, <2>2, <2>3 DEF Typed
<1>3. CASE StartForce \/ StartAptet \/ FetchPage \/ FetchAll \/ UNCHANGED vars
  BY <1>3 DEF StartForce, StartAptet, FetchPage, FetchAll, vars, Typed
<1>4. CASE FetchFails
  <2>1. budget' \in [{"moves", "failures"} -> Nat]
    BY <1>4 DEF Typed, FetchFails, Spend
  <2> QED
    BY <1>4, <2>1 DEF FetchFails, Typed
<1>5. CASE ForceAnswers
  <2>1. PICK prices, c : prices = Frame(fetched) /\ c = ForceNow
    OBVIOUS
  <2>2. force' = RunForce(c, prices) /\ pc' = "answered" /\ UNCHANGED <<market, provider, aptet, budget>>
    BY <1>5, <2>1 DEF ForceAnswers
  <2>3. prices \in Seq(PriceRow)
    BY <2>1, FrameFacts DEF DownloadInv, IsSeries
  <2>4. IsForceConfig(c)
    <3>1. settings.force \in ForceSettings
      BY DEF DownloadInv
    <3> QED
      BY <2>1, <3>1, ForceConfigFacts DEF ForceNow
  <2>5. IsForceAnswer(force')
    BY <2>2, <2>3, <2>4, ForceAnswer
  <2> QED
    BY <2>2, <2>5 DEF Typed
<1>6. CASE AptetAnswers
  <2>1. PICK prices, c : prices = Frame(fetched) /\ c = AptetNow
    OBVIOUS
  <2>2. aptet' = RunAptet(c, prices) /\ pc' = "idle" /\ UNCHANGED <<market, provider, force, budget>>
    BY <1>6, <2>1 DEF AptetAnswers
  <2>3. prices \in Seq(PriceRow)
    BY <2>1, FrameFacts DEF DownloadInv, IsSeries
  <2>4. IsAptetConfig(c)
    <3>1. settings.aptet \in AptetSettings
      BY DEF DownloadInv
    <3> QED
      BY <2>1, <3>1, AptetConfigFacts DEF AptetNow
  <2>5. aptet'.signal \in Signal /\ aptet'.names \in SUBSET Tickers
    BY <2>2, <2>3, <2>4, AptetAnswer
  <2> QED
    BY <2>2, <2>5 DEF Typed
<1> QED
  BY <1>1, <1>2, <1>3, <1>4, <1>5, <1>6 DEF Next

\* Every variable keeps its type: what the two bots answer are tickers, and
\* every name Force answers has a weight, whatever the download was like.
THEOREM TypeCorrect == ScoresAreNumbers => (Spec => []TypeOK)
<1> SUFFICES ASSUME ScoresAreNumbers PROVE Spec => []TypeOK
  OBVIOUS
<1>1. Init => Typed
  BY TypedInitial
<1>2. DownloadInv /\ Typed /\ [Next]_vars => Typed'
  BY TypedKept
<1>3. DownloadInv /\ Typed => TypeOK
  <2> SUFFICES ASSUME DownloadInv, Typed PROVE TypeOK
    OBVIOUS
  <2>1. fetched \in [DOMAIN fetched -> Seq(Nat)] /\ DOMAIN fetched \subseteq Tickers
    BY DEF DownloadInv, IsSeries
  <2>2. \A i \in DOMAIN read : IsRow(read[i])
    BY DEF DownloadInv, PriceRow, IsRow
  <2>3. market \in Seq(Rows) /\ settings.force \in ForceSettings /\ settings.aptet \in AptetSettings
    BY DEF DownloadInv
  <2> QED
    BY <2>1, <2>2, <2>3 DEF Typed, TypeOK, IsForceAnswer
<1> QED
  BY <1>1, <1>2, <1>3, DownloadCorrect, PTL DEF Spec

=============================================================================
