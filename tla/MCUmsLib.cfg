SPECIFICATION FairLibSpec
CONSTANTS
  mainThread = mainThread
  left = left
  right = right
  Tasks <- ThreeThreads
  Tgid <- TgidThree
  Owners <- MainOnly
  MaxLists = 2
  MaxWorkers = 3
  MaxScheds = 2
  Faults = {}
  Main = mainThread
  Pauses <- FirstList
  SharedLists <- OnlyOne
  LateWorkers = FALSE
  FreshMemory = {"zero"}
  StrayLookups = FALSE
INVARIANTS
  OwnListNeverRefused
  FinishedIsNotEarly
  BufferHoldsList
  CacheHasNext
  OfferedCanBeTaken
PROPERTIES
  FollowsTheFlow
  LoopsEnd
