\* A program that calls Caller.Wrap with a nil error.
CONSTANTS
  g1 = g1
  g2 = g2
  s1 = s1
  s2 = s2
  b1 = b1
  Goroutines = {g1, g2}
  SlabIds = {s1, s2}
  SlabSize = 2
  MaxLive = 2
  Running = {}
  None = None
  Bases = {b1}
  c1 = c1
  c2 = c2
  Sites = {c1, c2}
  Nil = Nil
  NilCallers = TRUE
SPECIFICATION Spec
INVARIANT NoNilInside
CHECK_DEADLOCK FALSE
SYMMETRY Symmetry
