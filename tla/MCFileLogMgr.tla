--------------------------- MODULE MCFileLogMgr ---------------------------
(* Instances of FileLogMgr for TLC.                                        *)
EXTENDS FileLogMgr, TLC

CONSTANTS l1, l2, p

(* Two logs of one path: the second when the first has been removed.       *)
MCLog == {l1, l2}
MCPath == [l \in MCLog |-> p]

(* A clock that is never set back; one that repeats two minutes, as at the *)
(* end of daylight saving; and one that goes to and fro between two months. *)
MCMinutes == 0..4
MCSteady == [t \in MCMinutes |-> t]
MCRepeats == [t \in MCMinutes |-> IF t < 2 THEN t ELSE t - 2]
MCToAndFro == [t \in MCMinutes |-> IF t < 2 THEN 2 * t ELSE 2 * (t - 2)]

(* Each minute is a day, or an hour, or two are an hour.                   *)
MCEven == { [starts |-> <<0, 2>>, days |-> 4, hours |-> 1, minutes |-> 1, local |-> MCSteady],
            [starts |-> <<0, 2>>, days |-> 4, hours |-> 2, minutes |-> 1, local |-> MCSteady],
            [starts |-> <<0, 2>>, days |-> 4, hours |-> 2, minutes |-> 2, local |-> MCSteady] }

(* A short month comes before a long one, or the year changes after two days *)
(* of two hours.                                                           *)
MCUneven == { [starts |-> <<0, 2>>, days |-> 5, hours |-> 1, minutes |-> 1, local |-> MCSteady],
              [starts |-> <<0>>, days |-> 2, hours |-> 2, minutes |-> 1, local |-> MCSteady] }

(* A minute is shown again, or the end of a month is.                      *)
MCSetBack == { [starts |-> <<0>>, days |-> 4, hours |-> 2, minutes |-> 3, local |-> MCRepeats],
               [starts |-> <<0, 2>>, days |-> 4, hours |-> 1, minutes |-> 1, local |-> MCToAndFro] }

MCCalendars == MCEven \cup MCUneven \cup MCSetBack

Used(l) == fd_[l] # NoFile \/ \E line \in written : line[1] = l

(* Bound: two logs over the even months' first days, one over the others.  *)
MCBound ==
  IF calendar \in MCEven THEN time <= 2 ELSE Cardinality({l \in Log : Used(l)}) <= 1

Alike == Permutations(MCLog)

=============================================================================
