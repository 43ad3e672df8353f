------------------------------ MODULE DracoMath ------------------------------
(***************************************************************************)
(* What draco reads off a ticker's regression lines: its score, whether it *)
(* may be entered, and the line locked as its exit target (draco_math.py,  *)
(* evaluate_candidate and evaluate_position_exit of draco.py).             *)
(*                                                                         *)
(* Prices are on a logarithmic scale, as in the regression: a line is      *)
(* straight there, and a relative change is a difference.  Scores, fits    *)
(* and slopes are in hundredths.  A chart is what one download shows of a  *)
(* ticker: its last price and the lines of the timeframes with enough      *)
(* history.  The least-squares fit itself is numeric analysis; IsLine says *)
(* what its results are like.  The three require_ switches of the settings *)
(* are on, as they are by default.                                         *)
(***************************************************************************)
EXTENDS Integers, FiniteSets, FiniteSetsExt

CONSTANTS
  Lookback,          \* entry_lookbacks: label -> trading days
  TimeframeWeight,   \* timeframe_weights: label -> hundredths
  MinTimeframes, MinBelow, MinRising, MinScore,  \* EntryRequirements
  LongTerm,          \* long_term_lookbacks
  TargetLabels,      \* target_lookbacks
  MinFit, MinUpside, MaxUpside,                  \* TargetRequirements
  StopLoss,          \* stop_loss_percent, as a fall of the logarithm
  MaxHold            \* maximum_holding_trading_days

Labels == DOMAIN Lookback

ASSUME LookbackAssumption ==
  /\ IsFiniteSet(Labels)
  /\ Lookback \in [Labels -> Nat \ {0}]
  /\ \A l, k \in Labels : Lookback[l] = Lookback[k] => l = k
  /\ TimeframeWeight \in [Labels -> Nat]
  /\ LongTerm \subseteq Labels
  /\ TargetLabels \subseteq Labels
ASSUME LimitsAssumption ==
  /\ MinUpside \in Int /\ MaxUpside \in Int
  /\ StopLoss \in Int /\ MaxHold \in Int

\* A line through the window: the fitted value at its end, the daily slope,
\* the fit r2, the clamped distance z of the last price in deviations.
IsLine(m, price) ==
  /\ m.fitted \in Int /\ m.slope \in Int
  /\ m.r2 \in 0..100
  /\ m.z \in -400..400
  /\ m.z < 0 => price < m.fitted
  /\ m.z > 0 => price > m.fitted
  /\ (m.slope > 0) <=> (m.annual > 0)

\* A timeframe has a line when the history covers its lookback, and then so
\* have the shorter ones of three days or more.
IsChart(c) ==
  /\ c.price \in Int
  /\ DOMAIN c.lines \subseteq Labels
  /\ \A l \in DOMAIN c.lines : Lookback[l] >= 3 /\ IsLine(c.lines[l], c.price)
  /\ \A l \in DOMAIN c.lines, k \in Labels :
       Lookback[k] \in 3..Lookback[l] => k \in DOMAIN c.lines

-----------------------------------------------------------------------------
DeviationPoints(z) == Cardinality({t \in {-250, -200, -150, -100, -50, 0} : z <= t})
SlopePoints(annual) == Cardinality({t \in {0, 3, 8, 15, 25, 40} : annual >= t})
FitPoints(r2) == Cardinality({t \in {35, 60, 80} : r2 >= t})

Points(m) == DeviationPoints(m.z) + SlopePoints(m.annual) + FitPoints(m.r2)

TotalScore(c) ==
  MapThenSumSet(LAMBDA l : Points(c.lines[l]) * TimeframeWeight[l], DOMAIN c.lines)

Rising(c) == {l \in DOMAIN c.lines : c.lines[l].slope > 0}
Below(c)  == {l \in DOMAIN c.lines : c.price < c.lines[l].fitted}

MeetsEntry(c) ==
  /\ Cardinality(DOMAIN c.lines) >= MinTimeframes
  /\ Cardinality(Below(c)) >= MinBelow
  /\ Cardinality(Rising(c)) >= MinRising
  /\ Rising(c) \cap LongTerm # {}
  /\ TotalScore(c) >= MinScore

Upside(c, l) == c.lines[l].fitted - c.price

TargetLines(c) ==
  {l \in TargetLabels \cap Rising(c) \cap Below(c) :
     c.lines[l].r2 >= MinFit /\ Upside(c, l) \in MinUpside..MaxUpside}

\* Tuples of numbers in the order Python gives them.
LexGreater(a, b) ==
  \E i \in DOMAIN a : a[i] > b[i] /\ \A j \in 1..(i - 1) : a[j] = b[j]

LockedLine(c) ==
  CHOOSE l \in TargetLines(c) :
    \A k \in TargetLines(c) \ {l} :
      LexGreater(<<c.lines[l].r2, Upside(c, l), Lookback[l]>>,
                 <<c.lines[k].r2, Upside(c, k), Lookback[k]>>)

IsCandidate(c) == MeetsEntry(c) /\ TargetLines(c) # {}

\* What rank_candidates sorts by, best first.
Merit(c) == <<TotalScore(c), c.lines[LockedLine(c)].r2, Upside(c, LockedLine(c))>>

\* A position as entered at chart c on day d: the target never changes.
PositionAt(c, d) ==
  LET m == c.lines[LockedLine(c)]
  IN [entry |-> d, price |-> c.price, fitted |-> m.fitted, slope |-> m.slope]

Projected(p, held) == p.fitted + p.slope * held

\* evaluate_position_exit: the stop loss, the target reached, the time up.
MustExit(p, price, held) ==
  \/ price - p.price <= -StopLoss
  \/ price >= Projected(p, held)
  \/ held >= MaxHold

=============================================================================
