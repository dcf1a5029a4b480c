CONSTANTS
  main = main
  isr = isr
  parent = parent
  child = child
  t1 = t1
  t2 = t2
  global = global
  delegate = delegate
  Nil = Nil
  Global = Global
  Contexts = {main, isr}
  Objects = {parent, child}
  Tables = {t1, t2}
  Vars = {global, delegate}
  Home <- MCHome
  MaxStrong = 2
  MaxInlineUnowned = 2
  MaxUnowned = 2
  MaxN = 1
  TablesExclusive = TRUE
  TakesAlive = FALSE
SPECIFICATION Spec
SYMMETRY Alike
INVARIANTS
  NothingDangles
