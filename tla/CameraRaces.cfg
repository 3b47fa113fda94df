SPECIFICATION Spec
CONSTANTS
  Blank = Blank
  Absent = Absent
  Size = 2
  LogSize = 2
  MaxScans = 3
  MaxCuts = 1
  MaxFaults = 1
INVARIANTS TypeOK ScanAccounted OneRepeatPerCut LoggedFirst NoEmptyEntry HistoryInOrder
PROPERTY FlushEmpties
