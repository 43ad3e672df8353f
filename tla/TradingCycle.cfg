SPECIFICATION FairSpec
CONSTANTS
  A = A
  B = B
  L = L
  m = m
  n = n
  Symbols = {A, B, L}
  Bots = {m, n}
  Weight <- MCWeight
  Signals <- MCSignals
  InitPos <- MCInitPos
  InitCash = 3
  MinTrade = 2
  LockTargets = {4}
  Margin = 7
  PromptFills = TRUE
  MaxEdits = 2
  MaxSignals = 2
  MaxFaults = 1
INVARIANTS TypeOK SellsFit PlanPaysForItself
PROPERTIES LockedUntouched NothingUntold Converges HoldingsAcquired
