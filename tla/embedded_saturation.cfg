CONSTANTS
  parent = parent
  leaf = leaf
  sta = sta
  main = main
  isr = isr
  m1 = m1
  m2 = m2
  i1 = i1
  shared = shared
  prop = prop
  Nil = Nil
  HeapCells = {parent, leaf}
  StackCells = {}
  StaticCells = {sta}
  Preinitialised = {}
  Contexts = {main, isr}
  Slots = {m1, m2, i1, prop, shared}
  Home <- MCHome
  Global = Global
  Half = 6
  MaxN = 1
  DeinitUsesSelf = FALSE
SPECIFICATION FairSpec
INVARIANTS
  NoDanglingReference
PROPERTIES
  SaturatedStaysAlive
  DestructionCompletes
