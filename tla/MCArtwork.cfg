SPECIFICATION Spec
CONSTANTS
  a = a
  b = b
  c = c
  Keys = {a, b, c}
  Callers = {"t1", "t2"}
  Size <- Sizes
  MaxBytes = 3
INVARIANTS
  ServedIsAsked
