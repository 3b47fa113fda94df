SPECIFICATION PowerSpec
CONSTANTS
  e1 = e1
  e2 = e2
  e3 = e3
  e4 = e4
  e5 = e5
  Events = {e1, e2, e3, e4}
  Blank = Blank
  Absent = Absent
  Size = 2
SYMMETRY Permuted
INVARIANTS HeadCanBeSent
