SPECIFICATION FairSpec
CONSTANTS
  Algorithms = {"2D_POOL", "2D_POOL_AND_Prediction", "2D_Prediction",
    "best_performance", "uniform_task", "low_temp_first", "random", "min_hr",
    "center_rack_first", "xint", "2D_VB"}
  Servers = {1, 2, 3}
  HeatRecirculationMatrixD <- MCHeatRecirculationMatrixD
  Loads = {3, 10}
  Utilizations <- MCUtilizations
  Temperatures = {20, 30}
  CenterRank <- MCCenterRank
  MaxUtilization <- MCMaxUtilization
  Predicted = {30}
  MaxQueue = 3
CHECK_DEADLOCK FALSE
INVARIANTS
  WaitsOnlyWhenFull
PROPERTIES
  
  PoolOnlyWhenFull
  PoolSteps
  Returns
