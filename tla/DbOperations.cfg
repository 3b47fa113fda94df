SPECIFICATION Spec
CONSTANTS
  a = a
  b = b
  c = c
  Ids = {a, b, c}
  NoId = NoId
  Absent = Absent
  Size = 3
  Home <- Colliding
  MaxStock = 1
  MaxQuantity = 2
  Catalog <- Listed
INVARIANTS TypeOK RamMatchesFlash TablesSound
PROPERTY ImplementsStore
