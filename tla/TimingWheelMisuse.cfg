\* runEvery called in the thread of the loop, and a delay beyond the wheel of days,
\* which runs its callback at once.  Run it with -continue to see both.
CONSTANTS
  Entry = {e1}
  SecondSlots = 3
  MinuteSlots = 2
  HourSlots = 2
  DaySlots = 2
  AfterDelays <- MCOverLimit
  EveryIntervals = {1, 2}
  IdleDelays = {}
  TickMs = 2
  MaxLag = 2
  EveryCallers = {"loop"}
SPECIFICATION Spec
INVARIANT NeverEarly
PROPERTY PeriodicStaysArmed
