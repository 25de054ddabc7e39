SPECIFICATION LibSpec
CONSTANTS
  mainThread = mainThread
  left = left
  right = right
  Tasks <- ThreeThreads
  Tgid <- TgidThree
  Owners <- MainOnly
  MaxLists = 1
  MaxWorkers = 2
  MaxScheds = 2
  Faults = {}
  Main = mainThread
  Pauses <- NoPause
  SharedLists <- OnlyZero
  LateWorkers = FALSE
  FreshMemory = {"zero"}
  StrayLookups = TRUE
INVARIANTS
  LookupMissIsNull
