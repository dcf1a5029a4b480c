CONSTANTS
  a1 = a1
  a2 = a2
  Nil = Nil
  MaxCount = 5
  IntMax = 32767
  StackLimit = 1024
  MinAllocationAlignment = 8
  HeapAddresses = {a1, a2}
  Capacities <- MCCapacities
  ElementStrides = {4}
  Alignments = {6, 8, 16}
  Counts = {0, 1, 2, 3}
  MaxDepth = 3
  MaxElements = 5
  TrapOnPrecondition = TRUE
  Lowest <- MCLowest
  Highest = 7
  Distances <- MCDistances
  MaxTerms = 17
  MaxOuter = 4
  MaxInner = 2
  MaxOffset = 4
SPECIFICATION AlgorithmsSpec
INVARIANTS
  EveryElementKept
  ReturnsWhatItPromises
  ElementsAccountedFor
  BlocksMatchCalls
  YieldsTheTerms
  IndicesFollowTheRow
