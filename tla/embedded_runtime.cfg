CONSTANTS
  parent = parent
  leaf = leaf
  stk = stk
  main = main
  isr = isr
  m1 = m1
  m2 = m2
  m3 = m3
  i1 = i1
  prop = prop
  shared = shared
  global = global
  Nil = Nil
  HeapCells = {parent, leaf}
  StackCells = {stk}
  StaticCells = {}
  Preinitialised = {}
  Contexts = {main, isr}
  Slots = {m1, m2, m3, i1, prop, shared}
  Home <- MCHome
  Global = global
  Half = 8
  MaxN = 2
  DeinitUsesSelf = FALSE
SPECIFICATION Spec
SYMMETRY LocalsAlike
INVARIANTS
  TypeOK
  NoDanglingReference
  NoLeakedObject
  CountIsExact
  UniqueMeansSole
  DestroyedOnce
  HeapIsConsistent
  PropertiesReleasedFirst
PROPERTIES
  ImplementsARC
