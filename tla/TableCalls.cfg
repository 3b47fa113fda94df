SPECIFICATION Spec
CONSTANTS
  a = a
  b = b
  c = c
  d = d
  Ids = {a, b, c, d}
  NoId = NoId
  Size = 3
  Home <- Colliding
  MaxStock = 1
INVARIANT AlwaysSound
PROPERTY ImplementsMap
