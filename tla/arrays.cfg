CONSTANTS
  Cells = {c1, c2}
  Empty = Empty
  Vars = {a, b}
  Elems = {x, y}
  Uninit = Uninit
  Nil = Nil
  MaxCount = 3
  Hooks = {"none", "clamp"}
  TrapOnPrecondition = TRUE
  SliceToEnd = FALSE
  RepeatSlices = FALSE
SPECIFICATION Spec
SYMMETRY Alike
INVARIANTS
  TypeOK
  OnlyElementsAreUsed
  CountMatchesElements
  ElementsOwned
  ViewsInBounds
  PointerStaysValid
