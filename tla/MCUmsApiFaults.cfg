SPECIFICATION Spec
CONSTANTS
  main = main
  left = left
  Tasks <- OneThread
  Tgid <- TgidOne
  Owners <- OneThread
  MaxLists = 2
  MaxWorkers = 2
  MaxScheds = 2
  Faults = {"copy_from_user", "copy_to_user", "proc"}
INVARIANTS
  ListPartition
  CountersMatch
  SchedulerOwnsWorker
  ContextsNotDuplicated
PROPERTIES
  FinishedForever
  CompleteForever
CHECK_DEADLOCK FALSE
