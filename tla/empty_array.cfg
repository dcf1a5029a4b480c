CONSTANTS
  emptyArray = emptyArray
  main = main
  a1 = a1
  a2 = a2
  Nil = Nil
  HeapCells = {}
  StackCells = {}
  StaticCells = {emptyArray}
  Preinitialised = {emptyArray}
  Contexts = {main}
  Slots = {a1, a2}
  Home <- MCHome
  Global = Global
  Half = 32768
  MaxN = 1
  DeinitUsesSelf = FALSE
SPECIFICATION Spec
INVARIANTS
  StaticNeverDestroyed
