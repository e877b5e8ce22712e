SPECIFICATION AlgorithmsSpec
CONSTANTS
  Servers = {1}
  MONITORINGTIME = 2
  SIZEWINDOWNPREDICTION = 2
  CLENGTH = 2
  Temperatures = {20, 21}
  Predicted = {9, 20, 33}
  RelativeError <- MCRelativeError
  LowestPredicted = 10
  HighestPredicted = 32
  MaxClock = 10
  P = 7
  DIM = 2
  DELAY = 1
  N = 2
  CENTER = 3
  Casts = 3
  LENGTH = 10
  Laws <- MCLaws
  SeriesOf <- MCSeriesOf
  Histories <- MCHistories
  Scales = {3}
  Offsets = {2}
  Drifts <- MCDrifts
  Kernels <- MCKernels
  Rankings = {1, 2, 3}
  Unordered = Unordered
  MaxCandidates = 5
  Arguments <- MCArguments
  MaxArguments = 4
CHECK_DEADLOCK FALSE
INVARIANTS
  PredictionsCompared
  WindowHasNoGap
  StatisticsAgree
  LawIsFound
  LeastSquares
  SortIsRight
  SettingsFitTogether
