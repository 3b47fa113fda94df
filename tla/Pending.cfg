SPECIFICATION Spec
CONSTANTS
  e1 = e1
  e2 = e2
  e3 = e3
  e4 = e4
  e5 = e5
  Events = {e1, e2, e3, e4}
  Blank = Blank
  Absent = Absent
  Size = 3
SYMMETRY Permuted
INVARIANTS TypeOK RingShape TrueMeansDurable TornPushKeepsOlder
PROPERTY ImplementsFifo
