------------------------------ MODULE MCDraco ------------------------------
(***************************************************************************)
(* Small instance of Draco: two tickers that may each be cheap or cheaper  *)
(* (candidates), or have collapsed, over two timeframes.  What was bought  *)
(* cheaper reaches its target at the price of the cheap chart.             *)
(***************************************************************************)
EXTENDS Draco

CONSTANTS aapl, msft, qqq

MCLookback == [y1 |-> 3, y2 |-> 4]
MCWeight   == [y1 |-> 130, y2 |-> 150]
MCDate     == <<2, 3, 4, 7>>   \* Wednesday, Thursday, Friday, Monday
MCPlace    == [t \in {aapl, msft} |-> IF t = aapl THEN 1 ELSE 2]

Line(fitted, slope, z, annual, r2) ==
  [fitted |-> fitted, slope |-> slope, z |-> z, annual |-> annual, r2 |-> r2]

Cheap     == [price |-> 100, lines |-> [y1 |-> Line(106, 1, -150, 20, 60), y2 |-> Line(104, 1, -60, 9, 70)]]
Cheaper   == [price |-> 98,  lines |-> [y1 |-> Line(106, 1, -250, 20, 60), y2 |-> Line(99, 1, -110, 9, 70)]]
Collapsed == [price |-> 80,  lines |-> [y1 |-> Line(90, -1, -300, -20, 50)]]

MCCharts == {Cheap, Cheaper, Collapsed}

=============================================================================
