SPECIFICATION FairSpec
CONSTANTS
  main = main
  left = left
  right = right
  Threads <- OneThread
  Main = main
  MaxCalls = 2
  MaxStacks = 1
  Sizes <- StackSizes
  MinSize = 2
  OpenFails = TRUE
PROPERTIES
  CallsReturn
CHECK_DEADLOCK FALSE
