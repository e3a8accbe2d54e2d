\* The same, without exception for the files that were misdated: a line is lost.
CONSTANTS
  l1 = l1  l2 = l2  p = p
  Log <- MCLog
  Path <- MCPath
  Calendars <- MCUneven
  MaxTime = 4
CONSTRAINT MCBound
SYMMETRY Alike
SPECIFICATION LogSpec
INVARIANTS NoLineLost
CHECK_DEADLOCK FALSE
