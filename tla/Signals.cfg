SPECIFICATION Spec
CONSTANTS
  a = a
  b = b
  c = c
  voo = voo
  none = none
  Tickers = {a, b, c, voo}
  Column <- MCColumn
  Alias <- MCAlias
  NoTicker = none
  DefaultUniverse <- MCDefaults
  DefaultWeights <- MCWeights
  DefaultCash = voo
  ScoreIn <- MCScoreIn
  Correlated <- MCCorrelated
  PathScore <- MCPathScore
  StayBonus = 2
  Lookbacks <- MCLookbacks
  TrainDays = 3
  MinSamples = 1
  ReviewDays = 2
  DefaultLookback = 2
  AbsoluteMin = 1
  AptetUniverse <- MCDefaults
  MaxNames = 10
  Rows <- MCRows
  FirstRows <- MCFirst
  ForceSettings <- MCForce
  AptetSettings <- MCAptet
  Requests = {"alpaca"}
  PageSize = 2
  LastRow = 8
  Moves = 1
  Failures = 1
INVARIANTS TypeOK FirstHeldStays HoldsAsAsked ParametersRest
PROPERTIES NoLookahead
