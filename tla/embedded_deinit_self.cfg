CONSTANTS
  object = object
  main = main
  m1 = m1
  m2 = m2
  Nil = Nil
  HeapCells = {object}
  StackCells = {}
  StaticCells = {}
  Preinitialised = {}
  Contexts = {main}
  Slots = {m1, m2}
  Home <- MCHome
  Global = Global
  Half = 32768
  MaxN = 1
  DeinitUsesSelf = TRUE
SPECIFICATION Spec
INVARIANTS
  DestroyedOnce
