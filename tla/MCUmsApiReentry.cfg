SPECIFICATION Spec
CONSTANTS
  main = main
  left = left
  Tasks <- OneThread
  Tgid <- TgidOne
  Owners <- OneThread
  MaxLists = 1
  MaxWorkers = 1
  MaxScheds = 2
  Faults = {}
INVARIANTS
  LookupFindsRunningScheduler
CHECK_DEADLOCK FALSE
