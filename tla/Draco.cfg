SPECIFICATION Spec
CONSTANTS
  aapl = aapl
  msft = msft
  qqq = qqq
  Lookback <- MCLookback
  TimeframeWeight <- MCWeight
  MinTimeframes = 1
  MinBelow = 1
  MinRising = 1
  MinScore = 500
  LongTerm = {"y2"}
  TargetLabels = {"y1", "y2"}
  MinFit = 30
  MinUpside = 1
  MaxUpside = 20
  StopLoss = 10
  MaxHold = 3
  Tickers = {aapl, msft}
  Place <- MCPlace
  Fallback = qqq
  Lockable = {aapl}
  Charts <- MCCharts
  MaxPositions = 2
  MaxNew = 1
  ReentryDays = 4
  ConfirmDays = 2
  BreakerDays = 2
  WeeklyScan = TRUE
  RegimeFilter = TRUE
  LiquidateInRiskOff = TRUE
  CircuitBreaker = TRUE
  HoldFallback = TRUE
  PartialDownloads = TRUE
  Date <- MCDate
  LastDay = 4
  Edits = 1
  Faults = 1
INVARIANTS TypeOK BreakerCountsDates AllocationCurrent
PROPERTIES ReentryWaits OneScanPerWeek
