----------------------------- MODULE MCSignals -----------------------------
(***************************************************************************)
(* Small instance of Signals: three stocks and a fund that is both the     *)
(* cash equivalent and the fallback.                                       *)
(***************************************************************************)
EXTENDS Signals

CONSTANTS a, b, c, voo, none

MCColumn == [t \in {a, b, c, voo} |-> CASE t = a -> 1 [] t = b -> 2 [] t = c -> 3 [] OTHER -> 4]
MCAlias  == [t \in {a, b, c, voo} |-> t]

Row(x, y, z) == [t \in {a, b, c, voo} |-> CASE t = a -> x [] t = b -> y [] t = c -> z [] OTHER -> 100]

Base  == Row(100, 100, 100)
Apart == Row(90, 125, 105)
Holed == Row(101, 0, 96)

MCRows == {Base, Apart, Holed}
MCFirst == {<<Base, Holed, Apart, Base, Base, Apart, Apart>>, <<Apart, Base, Apart, Apart, Holed, Apart, Base>>}

MCScoreIn(w, ranked, t) == Return(w[1][t], w[Len(w)][t])
MCCorrelated(w, t, u) ==
  /\ Len(w) >= 2
  /\ \A i \in 2..Len(w) : (w[i][t] >= w[i - 1][t]) = (w[i][u] >= w[i - 1][u])
MCPathScore(s) == FoldLeft(LAMBDA x, y : x + y, 0, s)

MCForce ==
  {[universe |-> {a, b, c}, cash |-> voo, benchmark |-> none, topN |-> 2, lookback |-> 2,
    killSwitch |-> TRUE, killMode |-> "top_negative", topThreshold |-> 0,
    benchmarkFilter |-> FALSE, benchmarkMode |-> "off", benchmarkThreshold |-> 0,
    margin |-> 15, rankWeights |-> <<60, 40>>],
   [universe |-> {}, cash |-> none, benchmark |-> voo, topN |-> 9, lookback |-> 2,
    killSwitch |-> TRUE, killMode |-> "avg_negative", topThreshold |-> -2,
    benchmarkFilter |-> TRUE, benchmarkMode |-> "benchmark_positive", benchmarkThreshold |-> -5,
    margin |-> 15, rankWeights |-> <<0, -5>>]}

MCAptet ==
  {[universe |-> {a, b, c, voo}, fallback |-> voo, min |-> 1, max |-> 3, riskOff |-> TRUE],
   [universe |-> {voo}, fallback |-> voo, min |-> 2, max |-> 3, riskOff |-> TRUE]}

MCDefaults == {a, b, c}
MCWeights == <<60, 40>>
MCLookbacks == <<2, 3>>

=============================================================================
