---------------------------- MODULE TimingWheel ----------------------------
(***************************************************************************)
(* The hierarchical timing wheel of an event loop                          *)
(* (network/net/TimingWheel.{h,cpp}), with the calls that feed it:         *)
(* EventLoop::runAfter, runEvery and insertEntry, the idle guard of a TCP  *)
(* connection (enableCheckIdleTime, extendLife), and EventLoop::loop,      *)
(* which calls onTimer once a round.                                       *)
(*                                                                         *)
(* An entry is a shared_ptr whose destructor is the callback: it runs when *)
(* the last wheel slot holding the entry lets go of it.  A slot is a set   *)
(* of entries; the same entry can sit in several slots at once, and that   *)
(* is how a life is extended.                                              *)
(*                                                                         *)
(* The numbers of slots are parameters (60, 60, 24 and 30 in the code), so *)
(* that one minute may be three ticks long under TLC.                      *)
(***************************************************************************)
EXTENDS Integers

CONSTANTS
  Entry,            \* the timers that may be armed at the same time
  SecondSlots,      \* slots of the four wheels
  MinuteSlots,
  HourSlots,
  DaySlots,
  AfterDelays,      \* delays, in seconds, asked of runAfter
  EveryIntervals,   \* intervals asked of runEvery
  IdleDelays,       \* idle periods asked of enableCheckIdleTime
  TickMs,           \* clock units of one tick of the wheel (1000 ms)
  MaxLag,           \* bound: the longest modelled round of the loop
  EveryCallers      \* who calls EventLoop::runEvery: "loop" is its thread

\* A coarse wheel would never be popped if the wheel below it had one slot.
ASSUME SlotsAssumption ==
  /\ SecondSlots \in Nat \ {0, 1}
  /\ MinuteSlots \in Nat \ {0, 1}
  /\ HourSlots \in Nat \ {0, 1}
  /\ DaySlots \in Nat \ {0}

ASSUME ClockAssumption ==
  /\ TickMs \in Nat \ {0}
  /\ MaxLag \in Nat
  /\ MaxLag >= TickMs

\* Callbacks are periodic or guard an idle time for a positive delay only: a
\* periodic entry refused by insertEntry re-arms itself without end.
ASSUME DelaysAssumption ==
  /\ AfterDelays \subseteq Int
  /\ EveryIntervals \subseteq Nat \ {0}
  /\ IdleDelays \subseteq Nat \ {0}
  /\ EveryCallers \subseteq {"loop", "other"}

VARIABLES
  wheels_,   \* for each wheel, for each slot, the entries it holds
  tick_,     \* ticks so far, modulo one day
  lag,       \* time since last_ts_; NoTs while last_ts_ is 0
  kind,      \* what each timer is armed as; "free" when its entry is dead
  asked,     \* ghost: what the caller asked for
  wait,      \* the delay or interval it was armed with
  left,      \* ghost: ticks until its callback is due
  ran        \* ghost: the callbacks run by the last step, each with the
             \* ticks it was early by

vars == <<wheels_, tick_, lag, kind, asked, wait, left, ran>>

kTimingMinute == SecondSlots
kTimingHour == SecondSlots * MinuteSlots
kTimingDay == kTimingHour * HourSlots

WheelType == {"second", "minute", "hour", "day"}
Slots == [second |-> SecondSlots, minute |-> MinuteSlots,
          hour |-> HourSlots, day |-> DaySlots]
NoTs == -1

Kind == {"free", "after", "every", "idle"}
Delays == AfterDelays \cup EveryIntervals \cup IdleDelays

-----------------------------------------------------------------------------
(***************************************************************************)
(* Where insertEntry puts an entry: the set of <<wheel, slot>> it joins.   *)
(***************************************************************************)
\* Mutant: the slot index forgets that the next tick pops slot 0.
InsertSecondEntryLate(delay) == {<<"second", delay>>}

InsertSecondEntry(delay) == {<<"second", delay - 1>>}

\* insertEntry's first two branches: all that a remainder below a minute asks.
InsertRemainder(delay) == IF delay <= 0 THEN {} ELSE InsertSecondEntry(delay)

\* The entry itself joins the coarse slot; newEntry, which was to carry it
\* there, dies at the end of the function and inserts it for the remainder.
InsertMinuteEntry(delay) ==
  {<<"minute", delay \div kTimingMinute - 1>>}
    \cup InsertRemainder(delay % kTimingMinute)

InsertBelowHour(delay) ==
  IF delay < kTimingMinute THEN InsertRemainder(delay)
                           ELSE InsertMinuteEntry(delay)

InsertHourEntry(delay) ==
  {<<"hour", delay \div kTimingHour - 1>>}
    \cup InsertBelowHour(delay % kTimingHour)

InsertBelowDay(delay) ==
  IF delay < kTimingHour THEN InsertBelowHour(delay)
                         ELSE InsertHourEntry(delay)

InsertDayEntry(delay) ==
  {<<"day", delay \div kTimingDay - 1>>}
    \cup InsertBelowDay(delay % kTimingDay)

InsertEntry(delay) ==
  IF delay < kTimingDay THEN InsertBelowDay(delay)
  ELSE IF delay \div kTimingDay > DaySlots THEN {}
  ELSE InsertDayEntry(delay)

\* The wheels once the entries of S have each been inserted for delay[e].
Insert(wheels, S, delay) ==
  [w \in WheelType |->
    [i \in 0..(Slots[w] - 1) |->
      wheels[w][i] \cup {e \in S : <<w, i>> \in InsertEntry(delay[e])}]]

IsHeld(wheels, e) ==
  \E w \in WheelType : \E i \in 0..(Slots[w] - 1) : e \in wheels[w][i]

-----------------------------------------------------------------------------
(***************************************************************************)
(* popUp: the first slot leaves, an empty one joins at the back, and the   *)
(* entries no other slot holds are destroyed, which runs their callbacks.  *)
(***************************************************************************)
PopUp(wheels, w) ==
  [wheels EXCEPT ![w] =
    [i \in 0..(Slots[w] - 1) |->
      IF i = Slots[w] - 1 THEN {} ELSE wheels[w][i + 1]]]

Released(wheels, w) ==
  {e \in wheels[w][0] : ~IsHeld(PopUp(wheels, w), e)}

\* The callback of a periodic entry inserts its successor as it runs.
Rearmed(S) == {e \in S : kind[e] = "every"}

\* Mutant: the callback of a periodic entry inserts no successor.
PopAndForget(wheels, w) == PopUp(wheels, w)

PopAndRun(wheels, w) ==
  Insert(PopUp(wheels, w), Rearmed(Released(wheels, w)), wait)

\* The coarse wheel that tick number t pops after the wheel of seconds.
CoarseWheel(t) ==
  IF t % kTimingMinute # 0 THEN {"minute"}
  ELSE IF t % kTimingHour # 0 THEN {"hour"}
  ELSE IF t % kTimingDay # 0 THEN {"day"}
  ELSE {}

-----------------------------------------------------------------------------
Init ==
  /\ wheels_ = [w \in WheelType |-> [i \in 0..(Slots[w] - 1) |-> {}]]
  /\ tick_ = 0
  /\ lag = NoTs
  /\ kind = [e \in Entry |-> "free"]
  /\ asked = [e \in Entry |-> "free"]
  /\ wait = [e \in Entry |-> 0]
  /\ left = [e \in Entry |-> 0]
  /\ ran = {}

\* insertEntry of a new entry.  One that joins no slot dies with the call.
Arm(e, request, k, d) ==
  /\ kind[e] = "free"
  /\ IF InsertEntry(d) = {}
       THEN /\ ran' = {<<e, IF d <= 0 THEN 0 ELSE d>>}
            /\ UNCHANGED <<wheels_, kind, asked, wait, left>>
       ELSE /\ ran' = {}
            /\ wheels_' = Insert(wheels_, {e}, [x \in {e} |-> d])
            /\ kind' = [kind EXCEPT ![e] = k]
            /\ asked' = [asked EXCEPT ![e] = request]
            /\ wait' = [wait EXCEPT ![e] = d]
            /\ left' = [left EXCEPT ![e] = d]
  /\ UNCHANGED <<tick_, lag>>

RunAfter(e, d) == Arm(e, "after", "after", d)

\* Mutant: the posted timer does not insert itself again either.
RunEveryOnce(e, d, caller) == Arm(e, "every", "after", d)

\* EventLoop::runEvery: its own thread arms a one-shot timer, another thread
\* posts TimingWheel::runEvery.
RunEvery(e, d, caller) ==
  Arm(e, "every", IF caller = "loop" THEN "after" ELSE "every", d)

EnableCheckIdleTime(e, d) == Arm(e, "idle", "idle", d)

\* Something arrived on the guarded connection: its entry joins a later slot.
ExtendLife(e) ==
  /\ kind[e] = "idle"
  /\ wheels_' = Insert(wheels_, {e}, wait)
  /\ left' = [left EXCEPT ![e] = wait[e]]
  /\ ran' = {}
  /\ UNCHANGED <<tick_, lag, kind, asked, wait>>

\* Time passes in epoll_wait, in handlers and in callbacks.
Elapse ==
  /\ lag # NoTs
  /\ lag < MaxLag
  /\ lag' = lag + 1
  /\ UNCHANGED <<wheels_, tick_, kind, asked, wait, left, ran>>

\* Mutant: a call within the second notes the time too.
FirstReadingAlways ==
  /\ lag < TickMs
  /\ lag' = 0
  /\ UNCHANGED <<wheels_, tick_, kind, asked, wait, left, ran>>

\* onTimer's first call only notes the time.
FirstReading ==
  /\ lag = NoTs
  /\ lag' = 0
  /\ UNCHANGED <<wheels_, tick_, kind, asked, wait, left, ran>>

\* onTimer once a second has gone by (it returns at once before that).
Tick ==
  LET tick == (tick_ + 1) % kTimingDay
      ran1 == Released(wheels_, "second")
      wheels1 == PopAndRun(wheels_, "second")
      coarse == CoarseWheel(tick)
      ran2 == UNION {Released(wheels1, w) : w \in coarse}
      gone == {e \in ran1 \cup ran2 : kind[e] # "every"}
      again == Rearmed(ran1 \cup ran2)
  IN /\ lag >= TickMs
     /\ lag' = 0
     /\ tick_' = tick
     /\ wheels_' = IF coarse = {} THEN wheels1
                   ELSE PopAndRun(wheels1, CHOOSE w \in coarse : TRUE)
     /\ ran' = {<<e, left[e] - 1>> : e \in ran1}
                 \cup {<<e, IF e \in ran1 THEN wait[e] ELSE left[e] - 1>> :
                         e \in ran2}
     /\ kind' = [e \in Entry |-> IF e \in gone THEN "free" ELSE kind[e]]
     /\ asked' = [e \in Entry |-> IF e \in gone THEN "free" ELSE asked[e]]
     /\ wait' = [e \in Entry |-> IF e \in gone THEN 0 ELSE wait[e]]
     /\ left' = [e \in Entry |->
                   IF kind[e] = "free" \/ e \in gone THEN 0
                   ELSE IF e \in again THEN wait[e]
                   ELSE left[e] - 1]

OnTimer == FirstReading \/ Tick

Next ==
  \/ \E e \in Entry :
       \/ \E d \in AfterDelays : RunAfter(e, d)
       \/ \E d \in EveryIntervals, c \in EveryCallers : RunEvery(e, d, c)
       \/ \E d \in IdleDelays : EnableCheckIdleTime(e, d)
       \/ ExtendLife(e)
  \/ Elapse
  \/ OnTimer

Spec == Init /\ [][Next]_vars

\* The loop never stops: epoll_wait returns within a second and every round
\* ends with onTimer.
FairSpec == Spec /\ WF_vars(Elapse) /\ WF_vars(OnTimer)

-----------------------------------------------------------------------------
Armed == {e \in Entry : kind[e] # "free"}

TypeOK ==
  /\ DOMAIN wheels_ = WheelType
  /\ \A w \in WheelType : wheels_[w] \in [0..(Slots[w] - 1) -> SUBSET Entry]
  /\ tick_ \in 0..(kTimingDay - 1)
  /\ lag \in {NoTs} \cup 0..MaxLag
  /\ kind \in [Entry -> Kind]
  /\ asked \in [Entry -> Kind]
  /\ wait \in [Entry -> Delays \cup {0}]
  /\ left \in [Entry -> Int]
  /\ ran \subseteq Entry \X Int

\* Every delay fits in the wheel of seconds.
ShortDelays == Delays \subseteq {d \in Int : d < kTimingMinute}

\* A callback never runs before the delay it was asked for: a timer is not
\* early, and an idle guard does not close a connection that was active
\* within its idle period (TimingWheel::onTimer with insertEntry).
NeverEarly == \A r \in ran : r[2] <= 0

\* A timer whose time is up has run: nothing armed is overdue
\* (TimingWheel::popUp releases the last holder in time).
NeverLate == \A e \in Armed : left[e] >= 1

\* An armed timer is held by some slot, or its callback could never run, and
\* a dead one is held by none, or it would run twice.
NoEntryLost == \A e \in Entry : kind[e] # "free" <=> IsHeld(wheels_, e)

\* What EventLoop promises its callers, whatever thread they call from: each
\* request behaves as its timer in module Timers does.
Promise == INSTANCE Timers WITH kind <- asked, Minute <- kTimingMinute
ImplementsTimers == Promise!Spec

\* A timer asked for with EventLoop::runEvery runs on after its callback.
PeriodicStaysArmed ==
  [][\A e \in Entry : asked[e] = "every" => asked'[e] = "every"]_vars

\* Every one-shot timer eventually runs (EventLoop::loop keeps ticking).
AfterEventuallyRuns == \A e \in Entry : kind[e] = "after" ~> kind[e] = "free"

=============================================================================
