SPECIFICATION ModuleSpec
CONSTANTS
  main = main
  Tasks <- OneThread
  Tgid <- TgidOne
  Owners <- OneThread
  MaxLists = 2
  MaxWorkers = 1
  MaxScheds = 2
  Faults = {"copy_to_user", "proc"}
INVARIANTS
  DirectoryComplete
  InfoIsOwn
  FreedIsUnreachable
  UnsetIsUnlisted
PROPERTIES
  FreedOnce
CHECK_DEADLOCK FALSE
