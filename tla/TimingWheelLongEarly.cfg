\* A delay of a minute or more runs its callback early.
CONSTANTS
  Entry = {e1}
  SecondSlots = 3
  MinuteSlots = 2
  HourSlots = 2
  DaySlots = 2
  AfterDelays <- MCLongDelays
  EveryIntervals = {5}
  IdleDelays = {4}
  TickMs = 2
  MaxLag = 2
  EveryCallers = {"other"}
SPECIFICATION Spec
INVARIANT NeverEarly
