SPECIFICATION FairSpec
CONSTANTS
  home = home
  away = away
  right = right
  wrong = wrong
  Absent = Absent
  Ssids <- MCSsids
  Passwords <- MCPasswords
  Valid <- MCValid
  MaxEvents = 4
INVARIANTS TypeOK StatusTrue NeverStalls StoredIsUsed
PROPERTIES Reconnects
