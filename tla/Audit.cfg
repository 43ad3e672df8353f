SPECIFICATION AuditSpec
CONSTANTS
  force = force
  draco = draco
  a = a
  b = b
  c = c
  Bots = {force, draco}
  Symbols = {a, b}
  Weight <- MCWeight
  MinTrade = 1
  Stateful = {draco}
  States = {0, 1}
  Answer <- MCAnswer
  NextState <- MCNextState
  CorrelationWindow = 1
  Tolerance = 1
  Slots = {0, 2}
  StartCash = 6
  StartPositions <- MCPositions
  LastTime = 2
  Events = 2
INVARIANTS AuditTypeOK CyclesListed  NoFalseAlarm
CHECK_DEADLOCK FALSE
