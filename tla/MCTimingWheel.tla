--------------------------- MODULE MCTimingWheel ---------------------------
(* Instances of TimingWheel for TLC.  With three seconds to the minute,    *)
(* two minutes to the hour and two hours to the day, the delays of         *)
(* MCDelays join each of the wheels, with and without a remainder.         *)
EXTENDS TimingWheel

MCDelays == {0, 1, 2, 3, 4, 6, 8, 12, 17}
MCLongDelays == {1, 3, 4, 6, 8, 12, 17}
MCOverLimit == {36}

=============================================================================
