SPECIFICATION StatsSpec
CONSTANTS
  main = main
  left = left
  right = right
  Tasks <- ThreeThreads
  Tgid <- TgidThree
  Owners <- MainThread
  MaxLists = 1
  MaxWorkers = 1
  MaxScheds = 2
  Faults = {}
  CountBits = 1
  TimeBits = 3
  MaxTime = 4
  MaxSwitch = 1
  MaxSets = 1
SYMMETRY Interchangeable
INVARIANTS
  ExecTimeIsTimeRun
  SwitchesBalance
  OopsOnlyAtWrap
  AverageIsOfSwitches
CHECK_DEADLOCK FALSE
