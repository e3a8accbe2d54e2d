\* A log of any type, removed and opened anew by others, with calls that fail and
\* crashes, over months of one length and of several and a change of the year.
CONSTANTS
  l1 = l1  l2 = l2  p = p
  Log <- MCLog
  Path <- MCPath
  Calendars <- MCCalendars
  MaxTime = 4
CONSTRAINT MCBound
SYMMETRY Alike
SPECIFICATION LogSpec
INVARIANTS LostOnlyIfMisdated WritersFollow
PROPERTY RotatedIsFinal
CHECK_DEADLOCK FALSE
