SPECIFICATION Spec
CONSTANTS
  main = main
  left = left
  Tasks <- TwoThreads
  Tgid <- TgidTwo
  Owners <- OneThread
  MaxLists = 1
  MaxWorkers = 2
  MaxScheds = 2
  Faults = {}
INVARIANTS
  TypeOK
  ListPartition
  CountersMatch
  SchedulerOwnsWorker
  ContextsNotDuplicated
PROPERTIES
  FinishedForever
  CompleteForever
  DequeueTellsTheTruth
  IdleOrderKept
CHECK_DEADLOCK FALSE
