SPECIFICATION ClientSpec
CONSTANTS
  main = main
  left = left
  right = right
  Tasks <- ThreeThreads
  Tgid <- TgidThree
  Owners <- MainThread
  MaxLists = 2
  MaxWorkers = 2
  MaxScheds = 2
  Faults = {}
INVARIANTS
  ContextFollowsScheduler
  IdleWorkerKeepsItsContext
  RunningWorkerIsHosted
PROPERTIES
  ImplementsWorkerScheduling
CHECK_DEADLOCK FALSE
