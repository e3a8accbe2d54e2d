\* Delays of every length the wheel accepts.
CONSTANTS
  Entry = {e1, e2}
  SecondSlots = 3
  MinuteSlots = 2
  HourSlots = 2
  DaySlots = 2
  AfterDelays <- MCDelays
  EveryIntervals = {1, 2, 5}
  IdleDelays = {2, 4}
  TickMs = 2
  MaxLag = 3
  EveryCallers = {"other"}
SPECIFICATION FairSpec
INVARIANTS NeverLate NoEntryLost
PROPERTIES ImplementsTimers AfterEventuallyRuns
