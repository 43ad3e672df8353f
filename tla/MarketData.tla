----------------------------- MODULE MarketData -----------------------------
(***************************************************************************)
(* One download of daily bars, as provider.py assembles it, and what the   *)
(* bots read off it.  The market goes on while a download is paged: the    *)
(* bars of the day under way move, and a new day's bars may appear between *)
(* two pages.                                                              *)
(*                                                                         *)
(* A price is a positive whole number and a row of prices has one entry    *)
(* per ticker, 0 where the frame has a hole.  Returns are in percent,      *)
(* rounded down.  Of a bar only the close is kept, the only column the     *)
(* bots read.                                                              *)
(***************************************************************************)
EXTENDS Ordering

CONSTANTS
  Tickers,      \* every symbol the bots ask for
  Column,       \* the place of a ticker among the sorted columns
  Alias         \* ALPACA_SYMBOL_MAP, the identity elsewhere

ASSUME TickersAssumption == IsFiniteSet(Tickers)
ASSUME ColumnAssumption ==
  /\ Column \in [Tickers -> Nat]
  /\ \A s, t \in Tickers : Column[s] = Column[t] => s = t
ASSUME AliasAssumption == DOMAIN Alias = Tickers

Hole == 0
EmptyRow == [t \in Tickers |-> Hole]
IsRow(r) == r \in [Tickers -> Nat]

\* _resolve_config: alpaca needs both keys, and whatever is unknown is yfinance.
ProviderFor(requested, hasKeys) ==
  IF requested = "alpaca" /\ hasKeys THEN "alpaca" ELSE "yfinance"

\* request_to_original: of two tickers with one request symbol the later wins.
Original(t) ==
  CHOOSE u \in {v \in Tickers : Alias[v] = Alias[t]} :
    \A v \in Tickers : Alias[v] = Alias[t] => Column[v] <= Column[u]

\* The closes of a ticker in what a page of the vendor's answer holds now.
SeriesOf(market, t) == [i \in DOMAIN market |-> market[i][t]]

\* _build_alpaca_bars_frame and _finalize_bars_frame: an outer join on dates.
Frame(fetched) ==
  LET days == Max({0} \cup {Len(fetched[t]) : t \in DOMAIN fetched})
      Row(i) == [t \in Tickers |->
                   IF t \in DOMAIN fetched /\ t = Original(t) /\ i <= Len(fetched[t])
                   THEN fetched[t][i] ELSE Hole]
      rows == [i \in 1..days |-> Row(i)]
  IN AtPlaces(rows, {i \in 1..days : rows[i] # EmptyRow})

-----------------------------------------------------------------------------
\* prices.iloc[max(0, end - n):end].
Window(prices, end, n) == SubSeq(prices, Max({0, end - n}) + 1, end)

\* REQUIRE_FULL_LOOKBACK_WINDOW.
Whole(w, t) == \A i \in DOMAIN w : w[i][t] # Hole

Return(first, last) == (100 * last) \div first - 100

\* _get_trailing_returns: a dict of those with a whole window.
ReturnsIn(w, among) ==
  [t \in {u \in among : Len(w) >= 2 /\ Whole(w, u)} |-> Return(w[1][t], w[Len(w)][t])]

Trailing(prices, end, n, among) == ReturnsIn(Window(prices, end, n), among)

Best(returns) == Max({returns[t] : t \in DOMAIN returns})

=============================================================================
