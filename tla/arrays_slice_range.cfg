CONSTANTS
  Cells = {c1, c2}
  Empty = Empty
  Vars = {a, b}
  Elems = {x, y}
  Uninit = Uninit
  Nil = Nil
  MaxCount = 3
  Hooks = {"none", "clamp"}
  TrapOnPrecondition = TRUE
  SliceToEnd = TRUE
  RepeatSlices = FALSE
SPECIFICATION Spec
INVARIANT SliceFitsBuffer
