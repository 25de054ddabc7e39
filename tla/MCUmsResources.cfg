SPECIFICATION FairSpec
CONSTANTS
  main = main
  left = left
  right = right
  Threads <- ThreeThreads
  Main = main
  MaxCalls = 3
  MaxStacks = 2
  Sizes <- StackSizes
  MinSize = 2
  OpenFails = TRUE
INVARIANTS
  OneDescriptor
  StdinKeptByOneClose
  StacksGivenBack
PROPERTIES
  IoctlsReachDevice
  CallsReturnUnlessAbandoned
CHECK_DEADLOCK FALSE
