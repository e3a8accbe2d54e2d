------------------------- MODULE TimingWheelProofs -------------------------
(***************************************************************************)
(* Theorems about TimingWheel for every number of slots, set of entries    *)
(* and set of delays.                                                      *)
(***************************************************************************)
EXTENDS TimingWheel, TLAPS

Coarse == {"minute", "hour", "day"}

\* The ticks that one slot of a wheel stands for, and those from one pop of a
\* wheel to the next, but for the pop that the next wheel takes.
Span == [second |-> 1, minute |-> kTimingMinute, hour |-> kTimingHour, day |-> kTimingDay]
Step == [second |-> 1, minute |-> 1, hour |-> kTimingMinute, day |-> kTimingHour]

\* From tick t, how long it is until the first pop in a span of wheel w.
Until(w, t) ==
  LET past == t % Span[w]
  IN  IF past < Step[w] THEN Step[w] - past ELSE Span[w] + Step[w] - past

\* When slot i of wheel w is popped at the latest: every span pops one slot at
\* least.
PoppedBy(w, i, t) == Until(w, t) + i * Span[w]

WheelsOK(wheels) ==
  /\ DOMAIN wheels = WheelType
  /\ \A w \in WheelType : wheels[w] \in [0..(Slots[w] - 1) -> SUBSET Entry]

At(wheels, w, i, e) == i \in 0..(Slots[w] - 1) /\ e \in wheels[w][i]

\* What an armed entry waits for is a delay the wheels accept.
TimersInv ==
  \A e \in Entry :
    /\ kind[e] = "free" => left[e] = 0 /\ wait[e] = 0
    /\ kind[e] # "free" => InsertEntry(wait[e]) # {} /\ left[e] <= wait[e]
    /\ asked[e] = "free" <=> kind[e] = "free"

\* Every slot that holds an entry is popped before the entry is overdue.
InTime ==
  \A w \in WheelType : \A i \in 0..(Slots[w] - 1) :
    \A e \in wheels_[w][i] : PoppedBy(w, i, tick_) <= left[e]

\* The wheel of seconds alone holds an entry of less than a minute, and holds it
\* until it is due.
Exact ==
  \A e \in Armed : wait[e] < kTimingMinute =>
    /\ At(wheels_, "second", left[e] - 1, e)
    /\ \A w \in Coarse : \A i \in 0..(Slots[w] - 1) : e \notin wheels_[w][i]

IInv ==
  /\ TypeOK /\ TimersInv /\ InTime /\ Exact /\ NoEntryLost
  /\ ShortDelays => NeverEarly

-----------------------------------------------------------------------------
(***************************************************************************)
(* Division and remainders.                                                *)
(***************************************************************************)
LEMMA Products ==
  ASSUME NEW x \in Int, NEW y \in Int, NEW z \in Nat
  PROVE  /\ (x + y) * z = x * z + y * z
         /\ x * z \in Int
         /\ x <= y => x * z <= y * z
         /\ x >= 0 => x * z >= 0
<1>1. (x + y) * z = x * z + y * z
  BY Z3
<1>2. x <= y => x * z <= y * z
  BY Z3
<1>3. x >= 0 => x * z >= 0
  BY Z3
<1> QED BY <1>1, <1>2, <1>3

LEMMA DivParts ==
  ASSUME NEW a \in Nat, NEW b \in Nat \ {0}, NEW q, q = a \div b, NEW r, r = a % b
  PROVE  a = q * b + r
BY Z3

LEMMA DivFacts ==
  ASSUME NEW a \in Nat, NEW b \in Nat \ {0}
  PROVE  /\ a \div b \in Nat /\ a % b \in 0..(b - 1)
         /\ a = (a \div b) * b + (a % b)
<1>1. a \div b \in Nat
  BY Z3
<1>2. a % b \in 0..(b - 1)
  BY Z3
<1>3. a = (a \div b) * b + (a % b)
  BY DivParts, Zenon
<1> QED BY <1>1, <1>2, <1>3, Zenon

LEMMA RemainderIs ==
  ASSUME NEW a \in Nat, NEW b \in Nat \ {0}, NEW q \in Nat, NEW r \in 0..(b - 1),
         a = q * b + r
  PROVE  a % b = r /\ a \div b = q
<1> DEFINE p == a \div b
           s == a % b
<1>1. p \in Nat /\ s \in 0..(b - 1) /\ a = p * b + s
  BY DivFacts
<1> HIDE DEF p, s
<1>2. ASSUME NEW x \in Nat, NEW y \in Nat, NEW u \in 0..(b - 1), NEW v \in 0..(b - 1),
             x * b + u = y * b + v
      PROVE  ~(x < y)
  <2> SUFFICES ASSUME x + 1 <= y PROVE FALSE
    OBVIOUS
  <2>1. (x + 1) * b <= y * b /\ (x + 1) * b = x * b + 1 * b
    BY Products
  <2>2. x * b \in Int /\ y * b \in Int /\ 1 * b = b
    BY Products
  <2> QED BY <1>2, <2>1, <2>2
<1>3. p = q
  BY <1>1, <1>2
<1>4. p * b \in Int
  BY <1>1, Products
<1>5. s = r
  BY <1>1, <1>3, <1>4
<1> QED BY <1>3, <1>5 DEF p, s

LEMMA RemainderOfRemainder ==
  ASSUME NEW t \in Nat, NEW b \in Nat \ {0}, NEW k \in Nat \ {0}
  PROVE  (t % (b * k)) % b = t % b
<1> DEFINE c == b * k
           s == t % c
           p == t \div c
           q == s \div b
           r == s % b
<1>1. c \in Nat \ {0}
  BY Z3
<1> HIDE DEF c
<1>2. p \in Nat /\ s \in Nat /\ t = p * c + s
  BY <1>1, DivFacts
<1> HIDE DEF s, p
<1>3. q \in Nat /\ r \in 0..(b - 1) /\ s = q * b + r
  BY <1>2, DivFacts
<1> HIDE DEF q, r
<1>4. p * c = (p * k) * b /\ p * k \in Nat
  BY <1>2, Z3 DEF c
<1> DEFINE m == p * k
<1>5. m \in Nat /\ t = m * b + (q * b + r)
  BY <1>2, <1>3, <1>4
<1> HIDE DEF m
<1>6. t = (m + q) * b + r /\ m + q \in Nat
  <2>1. (m + q) * b = m * b + q * b
    BY <1>3, <1>5, Products
  <2>2. m * b \in Int /\ q * b \in Int /\ r \in Int
    BY <1>3, <1>5, Products
  <2> QED BY <1>3, <1>5, <2>1, <2>2
<1>7. t % b = r
  BY <1>3, <1>6, RemainderIs
<1> QED BY <1>7 DEF r, s, c

LEMMA NextRemainder ==
  ASSUME NEW t \in Nat, NEW b \in Nat \ {0}
  PROVE  (t + 1) % b = IF t % b = b - 1 THEN 0 ELSE (t % b) + 1
<1> DEFINE q == t \div b
           r == t % b
<1>1. q \in Nat /\ r \in 0..(b - 1) /\ t = q * b + r
  BY DivFacts
<1> HIDE DEF q, r
<1>2. q * b \in Int /\ (q + 1) * b = q * b + b
  BY <1>1, Products
<1>3. CASE r = b - 1
  <2>1. t + 1 = (q + 1) * b + 0
    BY <1>1, <1>2, <1>3
  <2>2. (t + 1) % b = 0
    BY <1>1, <2>1, RemainderIs
  <2> QED BY <1>3, <2>2 DEF r
<1>4. CASE r # b - 1
  <2>1. t + 1 = q * b + (r + 1)
    BY <1>1, <1>2
  <2>2. r + 1 \in 0..(b - 1)
    BY <1>1, <1>4
  <2> DEFINE n == t + 1
  <2>a. n \in Nat /\ n = q * b + (r + 1)
    BY <2>1
  <2> HIDE DEF n
  <2>b. n % b = r + 1
    BY <1>1, <2>a, <2>2, RemainderIs
  <2>3. (t + 1) % b = r + 1
    BY <2>b DEF n
  <2> QED BY <1>4, <2>3 DEF r
<1> QED BY <1>3, <1>4

LEMMA Multiples ==
  ASSUME NEW b \in Nat \ {0}, NEW k \in Nat
  PROVE  (b * k) % b = 0
BY Z3

LEMMA DivBounds ==
  ASSUME NEW a \in Nat, NEW b \in Nat \ {0}
  PROVE  /\ (a \div b) * b <= a
         /\ a >= b => a \div b >= 1
         /\ \A n \in Nat : a < b * n => a \div b < n
<1> DEFINE q == a \div b
           r == a % b
<1>0. q \in Nat /\ r \in 0..(b - 1) /\ a = q * b + r
  BY DivFacts
<1> HIDE DEF q, r
<1>1. q \in Nat /\ r \in 0..(b - 1) /\ a = q * b + r /\ q * b \in Int
  BY <1>0, Products
<1>2. q * b <= a
  BY <1>1
<1>3. a >= b => q >= 1
  <2>1. q = 0 => q * b = 0
    BY Products
  <2> QED BY <1>1, <2>1
<1>4. ASSUME NEW n \in Nat, a < b * n PROVE q < n
  <2>1. b * n = n * b /\ n * b \in Int
    BY Products
  <2>2. n <= q => n * b <= q * b
    BY <1>1, Products
  <2> QED BY <1>1, <1>2, <1>4, <2>1, <2>2
<1> QED BY <1>2, <1>3, <1>4 DEF q

-----------------------------------------------------------------------------
(***************************************************************************)
(* The spans of the wheels, and when their slots are popped.               *)
(***************************************************************************)
LEMMA Spans ==
  /\ kTimingMinute \in Nat /\ kTimingMinute >= 2 /\ kTimingMinute = SecondSlots
  /\ kTimingHour \in Nat /\ kTimingHour = kTimingMinute * MinuteSlots
  /\ kTimingDay \in Nat /\ kTimingDay = kTimingHour * HourSlots
  /\ kTimingMinute < kTimingHour /\ kTimingHour < kTimingDay
<1>1. \A x \in Nat \ {0}, y \in Nat \ {0, 1} : x * y \in Nat /\ x < x * y
  BY Z3
<1>2. kTimingMinute \in Nat /\ kTimingMinute >= 2 /\ kTimingMinute = SecondSlots
  BY SlotsAssumption DEF kTimingMinute
<1>3. /\ kTimingHour \in Nat /\ kTimingHour = kTimingMinute * MinuteSlots
      /\ kTimingMinute < kTimingHour
  <2>1. kTimingHour = kTimingMinute * MinuteSlots
    BY DEF kTimingHour, kTimingMinute
  <2> QED BY <1>1, <1>2, <2>1, SlotsAssumption
<1>4. /\ kTimingDay \in Nat /\ kTimingDay = kTimingHour * HourSlots
      /\ kTimingHour < kTimingDay
  <2>1. kTimingDay = kTimingHour * HourSlots
    BY DEF kTimingDay
  <2> QED BY <1>1, <1>2, <1>3, <2>1, SlotsAssumption
<1> QED BY <1>2, <1>3, <1>4

LEMMA WheelFacts ==
  /\ WheelType = {"second"} \cup Coarse /\ "second" \notin Coarse
  /\ \A w \in WheelType : Slots[w] \in Nat \ {0} /\ Span[w] \in Nat \ {0}
  /\ Span["second"] = 1 /\ Step["second"] = 1 /\ Slots["second"] = SecondSlots
  /\ \A w \in Coarse : /\ w \in WheelType /\ Span[w] \in Nat \ {0}
                        /\ Step[w] \in Nat \ {0} /\ Step[w] < Span[w]
BY Spans, SlotsAssumption DEF WheelType, Coarse, Slots, Span, Step

LEMMA UntilFacts ==
  ASSUME NEW t \in Nat
  PROVE  /\ Until("second", t) = 1
         /\ \A w \in WheelType : Until(w, t) \in 1..Span[w]
<1>1. Until("second", t) = 1
  <2>1. t % 1 = 0
    BY Z3
  <2> QED BY <2>1, WheelFacts DEF Until
<1>2. ASSUME NEW w \in Coarse PROVE Until(w, t) \in 1..Span[w]
  <2> DEFINE s == Span[w]
             past == t % s
  <2>1. s \in Nat \ {0} /\ Step[w] \in Nat \ {0} /\ Step[w] < s
    BY WheelFacts
  <2>2. past \in 0..(s - 1)
    BY <2>1, DivFacts
  <2>3. Until(w, t) = IF past < Step[w] THEN Step[w] - past ELSE s + Step[w] - past
    BY DEF Until
  <2> HIDE DEF s, past
  <2>4. Until(w, t) \in 1..s
    BY <2>1, <2>2, <2>3
  <2> QED BY <2>4 DEF s
<1> QED BY <1>1, <1>2, WheelFacts

\* A tick brings the first pop of a span nearer by one, or is that pop.
LEMMA UntilNext ==
  ASSUME NEW t \in 0..(kTimingDay - 1), NEW u, u = (t + 1) % kTimingDay
  PROVE  /\ u \in 0..(kTimingDay - 1)
         /\ \A w \in Coarse :
              /\ Until(w, t) # 1 => Until(w, u) = Until(w, t) - 1
              /\ Until(w, t) = 1 => Until(w, u) = Span[w] /\ w \in CoarseWheel(u)
<1>1. u \in 0..(kTimingDay - 1)
  <2>1. t + 1 \in Nat /\ kTimingDay \in Nat \ {0}
    BY Spans
  <2> QED BY <2>1, DivFacts
<1>t. t \in Nat
  BY Spans
<1>2. ASSUME NEW w \in Coarse
      PROVE  \E k \in Nat \ {0} : kTimingDay = Span[w] * k
  <2>1. CASE w = "minute"
    <3>1. kTimingDay = kTimingMinute * (MinuteSlots * HourSlots)
      BY Spans, SlotsAssumption, Z3
    <3>2. MinuteSlots * HourSlots \in Nat \ {0}
      BY SlotsAssumption, Z3
    <3> QED BY <2>1, <3>1, <3>2 DEF Span
  <2>2. CASE w = "hour"
    BY <2>2, Spans, SlotsAssumption DEF Span
  <2>3. CASE w = "day"
    BY <2>3, Spans, Z3 DEF Span
  <2> QED BY <2>1, <2>2, <2>3 DEF Coarse
<1>3. ASSUME NEW w \in Coarse
      PROVE  u % Span[w] = IF t % Span[w] = Span[w] - 1 THEN 0 ELSE (t % Span[w]) + 1
  <2>1. PICK k \in Nat \ {0} : kTimingDay = Span[w] * k
    BY <1>2
  <2>2. u % Span[w] = (t + 1) % Span[w]
    <3>1. t + 1 \in Nat /\ Span[w] \in Nat \ {0}
      BY <1>t, WheelFacts
    <3>2. ((t + 1) % (Span[w] * k)) % Span[w] = (t + 1) % Span[w]
      BY <3>1, RemainderOfRemainder
    <3> QED BY <2>1, <3>2
  <2>3. Span[w] \in Nat \ {0}
    BY WheelFacts
  <2>4. (t + 1) % Span[w] = IF t % Span[w] = Span[w] - 1 THEN 0 ELSE (t % Span[w]) + 1
    BY ONLY <1>t, <2>3, NextRemainder
  <2> QED BY <2>2, <2>4
<1>4. ASSUME NEW w \in Coarse, Until(w, t) = 1
      PROVE  u % Span[w] = Step[w]
  <2> DEFINE s == Span[w]
             past == t % s
             next == u % s
  <2>0. s \in Nat \ {0} /\ Step[w] \in Nat \ {0} /\ Step[w] < s
    BY WheelFacts
  <2>1. past \in 0..(s - 1)
    BY <1>t, <2>0, DivFacts
  <2>2. 1 = IF past < Step[w] THEN Step[w] - past ELSE s + Step[w] - past
    BY <1>4 DEF Until
  <2>3. next = IF past = s - 1 THEN 0 ELSE past + 1
    BY <1>3
  <2> HIDE DEF s, past, next
  <2>4. next = Step[w]
    BY <2>0, <2>1, <2>2, <2>3
  <2> QED BY <2>4 DEF next, s
<1>5. ASSUME NEW w \in Coarse
      PROVE  /\ Until(w, t) # 1 => Until(w, u) = Until(w, t) - 1
             /\ Until(w, t) = 1 => Until(w, u) = Span[w]
  <2> DEFINE s == Span[w]
             past == t % s
             next == u % s
  <2>0. s \in Nat \ {0} /\ Step[w] \in Nat \ {0} /\ Step[w] < s
    BY WheelFacts
  <2>1. past \in 0..(s - 1)
    BY <1>t, <2>0, DivFacts
  <2>2. next = IF past = s - 1 THEN 0 ELSE past + 1
    BY <1>3
  <2>3. /\ Until(w, t) = IF past < Step[w] THEN Step[w] - past ELSE s + Step[w] - past
        /\ Until(w, u) = IF next < Step[w] THEN Step[w] - next ELSE s + Step[w] - next
    BY DEF Until
  <2> HIDE DEF s, past, next
  <2>4. /\ Until(w, t) # 1 => Until(w, u) = Until(w, t) - 1
        /\ Until(w, t) = 1 => Until(w, u) = s
    BY <2>0, <2>1, <2>2, <2>3
  <2> QED BY <2>4 DEF s
<1>6. ASSUME NEW w \in Coarse, Until(w, t) = 1
      PROVE  w \in CoarseWheel(u)
  <2>1. u % Span[w] = Step[w]
    BY <1>4, <1>6
  <2>2. u \in Nat
    BY <1>1, Spans
  <2>3. (u % kTimingHour) % kTimingMinute = u % kTimingMinute
    <3>1. kTimingMinute \in Nat \ {0} /\ MinuteSlots \in Nat \ {0}
      BY Spans, SlotsAssumption
    <3>2. (u % (kTimingMinute * MinuteSlots)) % kTimingMinute = u % kTimingMinute
      BY ONLY <2>2, <3>1, RemainderOfRemainder
    <3> QED BY <3>2, Spans
  <2>4. (u % kTimingDay) % kTimingHour = u % kTimingHour
    BY <2>2, Spans, SlotsAssumption, RemainderOfRemainder
  <2>5. kTimingHour % kTimingMinute = 0 /\ kTimingHour % kTimingHour = 0
          /\ kTimingMinute % kTimingMinute = 0
    <3>1. \A b \in Nat \ {0} : b % b = 0
      BY Z3
    <3> QED BY <3>1, Multiples, Spans, SlotsAssumption
  <2>6. CASE w = "minute"
    <3>1. u % kTimingMinute = 1
      BY <2>1, <2>6 DEF Span, Step
    <3> QED BY <2>6, <3>1 DEF CoarseWheel
  <2>7. CASE w = "hour"
    <3>1. u % kTimingHour = kTimingMinute
      BY <2>1, <2>7 DEF Span, Step
    <3>2. u % kTimingMinute = 0 /\ kTimingMinute # 0
      BY <2>3, <2>5, <3>1, Spans
    <3> QED BY <2>7, <3>1, <3>2 DEF CoarseWheel
  <2>8. CASE w = "day"
    <3>1. u % kTimingDay = kTimingHour
      BY <2>1, <2>8 DEF Span, Step
    <3>2. u % kTimingHour = 0 /\ kTimingHour # 0
      BY <2>4, <2>5, <3>1, Spans
    <3>3. u % kTimingMinute = 0
      <4>1. 0 % kTimingMinute = 0
        BY Spans, Z3
      <4> QED BY <2>3, <3>2, <4>1
    <3> QED BY <2>8, <3>1, <3>2, <3>3 DEF CoarseWheel
  <2> QED BY <2>6, <2>7, <2>8 DEF Coarse
<1> QED BY <1>1, <1>5, <1>6

\* The wheels that tick number u pops.
Popped(u) == {"second"} \cup CoarseWheel(u)

LEMMA OneCoarse ==
  ASSUME NEW u
  PROVE  /\ CoarseWheel(u) \subseteq Coarse /\ Popped(u) \subseteq WheelType
         /\ CoarseWheel(u) = {} \/ \E w \in Coarse : CoarseWheel(u) = {w}
BY DEF CoarseWheel, Coarse, Popped, WheelType

\* A tick shortens by one the time left to every slot, popped or not.
LEMMA SlotAfterTick ==
  ASSUME NEW t \in 0..(kTimingDay - 1), NEW u, u = (t + 1) % kTimingDay,
         NEW w \in WheelType, NEW i \in Nat
  PROVE  /\ PoppedBy(w, i, t) \in Nat /\ PoppedBy(w, i, t) >= 1
         /\ PoppedBy(w, i, u) \in Nat /\ PoppedBy(w, i, u) <= (i + 1) * Span[w]
         /\ w \in Popped(u) => PoppedBy(w, i, u) <= PoppedBy(w, i + 1, t) - 1
         /\ w \notin Popped(u) => PoppedBy(w, i, u) = PoppedBy(w, i, t) - 1
<1> DEFINE now == Until(w, t)
           then == Until(w, u)
           s == Span[w]
           p == i * s
<1>1. /\ s \in Nat \ {0} /\ p \in Nat /\ (i + 1) * s = p + s /\ (i + 1) * s \in Nat
      /\ t \in Nat /\ u \in Nat
  <2>1. s \in Nat \ {0}
    BY WheelFacts
  <2>2. p \in Int /\ p >= 0 /\ (i + 1) * s = p + 1 * s /\ 1 * s = s
    BY <2>1, Products
  <2>3. t \in Nat /\ u \in Nat
    BY UntilNext, Spans
  <2> HIDE DEF s
  <2> QED BY <2>1, <2>2, <2>3
<1>2. now \in 1..s /\ then \in 1..s
  BY <1>1, UntilFacts
<1>3. /\ PoppedBy(w, i, t) = now + p /\ PoppedBy(w, i, u) = then + p
      /\ PoppedBy(w, i + 1, t) = now + (i + 1) * s
  BY DEF PoppedBy
<1> DEFINE q == (i + 1) * s
<1>q. /\ q = p + s /\ q \in Nat /\ PoppedBy(w, i + 1, t) = now + q
  BY <1>1, <1>3
<1> HIDE DEF q
<1>4. CASE w = "second"
  <2>1. now = 1 /\ then = 1 /\ s = 1 /\ w \in Popped(u)
    BY <1>1, <1>4, UntilFacts, WheelFacts DEF Popped
  <2> HIDE DEF now, then, s, p
  <2>2. /\ PoppedBy(w, i, t) \in Nat /\ PoppedBy(w, i, t) >= 1
        /\ PoppedBy(w, i, u) \in Nat /\ PoppedBy(w, i, u) <= q
        /\ PoppedBy(w, i, u) <= PoppedBy(w, i + 1, t) - 1
    BY <1>1, <1>3, <1>q, <2>1
  <2> QED BY <2>1, <2>2 DEF q, s
<1>5. CASE w \in Coarse
  <2>1. /\ now # 1 => then = now - 1
        /\ now = 1 => then = s /\ w \in Popped(u)
    BY <1>5, UntilNext DEF Popped
  <2> HIDE DEF now, then, s, p
  <2>2. /\ PoppedBy(w, i, t) \in Nat /\ PoppedBy(w, i, t) >= 1
        /\ PoppedBy(w, i, u) \in Nat /\ PoppedBy(w, i, u) <= q
        /\ w \in Popped(u) => PoppedBy(w, i, u) <= PoppedBy(w, i + 1, t) - 1
        /\ w \notin Popped(u) => PoppedBy(w, i, u) = PoppedBy(w, i, t) - 1
    BY <1>1, <1>2, <1>3, <1>q, <2>1
  <2> QED BY <2>2 DEF q, s
<1> QED BY <1>4, <1>5, WheelFacts

-----------------------------------------------------------------------------
(***************************************************************************)
(* Where insertEntry puts an entry.                                        *)
(***************************************************************************)
\* Every slot of S is a slot of the wheels that the delay d reaches.
Fits(S, d) ==
  \A p \in S : \E w \in WheelType : \E i \in 0..(Slots[w] - 1) :
    p = <<w, i>> /\ (i + 1) * Span[w] <= d

LEMMA FitsMore ==
  ASSUME NEW S, NEW r \in Int, NEW d \in Int, r <= d, Fits(S, r)
  PROVE  Fits(S, d)
<1> SUFFICES ASSUME NEW p \in S
             PROVE  \E w \in WheelType : \E i \in 0..(Slots[w] - 1) :
                      p = <<w, i>> /\ (i + 1) * Span[w] <= d
  BY DEF Fits
<1>1. PICK w \in WheelType : \E i \in 0..(Slots[w] - 1) :
        p = <<w, i>> /\ (i + 1) * Span[w] <= r
  BY DEF Fits
<1>2. PICK i \in 0..(Slots[w] - 1) : p = <<w, i>> /\ (i + 1) * Span[w] <= r
  BY <1>1
<1> DEFINE q == (i + 1) * Span[w]
<1>3. q \in Int
  BY WheelFacts, Products
<1>4. q <= r
  BY <1>2
<1> HIDE DEF q
<1>5. q <= d
  BY <1>3, <1>4
<1> QED BY <1>2, <1>5 DEF q

LEMMA FitsOne ==
  ASSUME NEW w \in WheelType, NEW q \in 1..Slots[w], NEW d \in Int, q * Span[w] <= d
  PROVE  Fits({<<w, q - 1>>}, d)
<1>1. q - 1 \in 0..(Slots[w] - 1) /\ (q - 1) + 1 = q
  BY WheelFacts
<1> QED BY <1>1 DEF Fits

LEMMA SpanDivides ==
  ASSUME NEW d \in Nat
  PROVE  /\ d % kTimingMinute \in 0..(kTimingMinute - 1)
         /\ d % kTimingHour \in 0..(kTimingHour - 1)
         /\ d % kTimingDay \in 0..(kTimingDay - 1)
         /\ d < kTimingHour => d \div kTimingMinute <= MinuteSlots
         /\ d < kTimingDay => d \div kTimingHour <= HourSlots
         /\ d \div kTimingDay \in Nat
<1>1. /\ kTimingMinute \in Nat \ {0} /\ kTimingHour \in Nat \ {0}
      /\ kTimingDay \in Nat \ {0}
      /\ MinuteSlots \in Nat /\ HourSlots \in Nat
      /\ kTimingHour = kTimingMinute * MinuteSlots
      /\ kTimingDay = kTimingHour * HourSlots
  BY Spans, SlotsAssumption
<1>2. /\ d < kTimingHour => d \div kTimingMinute < MinuteSlots
      /\ d < kTimingDay => d \div kTimingHour < HourSlots
  BY <1>1, DivBounds
<1>3. /\ d % kTimingMinute \in 0..(kTimingMinute - 1)
      /\ d % kTimingHour \in 0..(kTimingHour - 1)
      /\ d % kTimingDay \in 0..(kTimingDay - 1)
      /\ d \div kTimingMinute \in Nat /\ d \div kTimingHour \in Nat
      /\ d \div kTimingDay \in Nat
  BY <1>1, DivFacts
<1> DEFINE m == d \div kTimingMinute
           h == d \div kTimingHour
<1> HIDE DEF m, h
<1>4. /\ d < kTimingHour => m <= MinuteSlots
      /\ d < kTimingDay => h <= HourSlots
  <2>1. m \in Nat /\ h \in Nat
    BY <1>3 DEF m, h
  <2>2. /\ d < kTimingHour => m < MinuteSlots
        /\ d < kTimingDay => h < HourSlots
    BY <1>2 DEF m, h
  <2> QED BY ONLY <1>1, <2>1, <2>2
<1> QED BY <1>3, <1>4 DEF m, h

LEMMA InsertRemainderFacts ==
  ASSUME NEW d \in Int, d < kTimingMinute
  PROVE  /\ InsertRemainder(d) = IF d <= 0 THEN {} ELSE {<<"second", d - 1>>}
         /\ Fits(InsertRemainder(d), d)
<1>1. InsertRemainder(d) = IF d <= 0 THEN {} ELSE {<<"second", d - 1>>}
  BY DEF InsertRemainder, InsertSecondEntry
<1>2. CASE d <= 0
  BY <1>1, <1>2 DEF Fits
<1>3. CASE d > 0
  <2>1. /\ "second" \in WheelType /\ d \in 1..Slots["second"]
        /\ d * Span["second"] <= d
    BY <1>3, Spans, WheelFacts
  <2>2. Fits({<<"second", d - 1>>}, d)
    BY <2>1, FitsOne
  <2> QED BY <1>1, <1>3, <2>2
<1> QED BY <1>1, <1>2, <1>3

\* A delay of one span or more: its quotient joins the wheel, its remainder the
\* finer wheels.
LEMMA FitsBoth ==
  ASSUME NEW w \in Coarse, NEW d \in Nat, d >= Span[w],
         d \div Span[w] <= Slots[w], NEW S, Fits(S, d % Span[w])
  PROVE  Fits({<<w, d \div Span[w] - 1>>} \cup S, d)
<1> DEFINE s == Span[w]
           q == d \div s
           r == d % s
<1>1. /\ s \in Nat \ {0} /\ d >= s /\ w \in WheelType
      /\ Slots[w] \in Nat /\ q <= Slots[w]
  BY WheelFacts
<1>2. q \in Nat /\ q * s <= d /\ q >= 1 /\ r \in 0..(s - 1)
  <2> HIDE DEF s
  <2>1. q \in Nat /\ r \in 0..(s - 1)
    BY <1>1, DivFacts
  <2>2. q * s <= d /\ q >= 1
    BY <1>1, DivBounds
  <2> QED BY <2>1, <2>2
<1>3. Fits({<<w, q - 1>>}, d)
  <2> HIDE DEF q
  <2>1. q \in 1..Slots[w]
    BY <1>1, <1>2
  <2>2. w \in WheelType /\ d \in Int /\ q * Span[w] <= d
    BY <1>1, <1>2
  <2> QED BY ONLY <2>1, <2>2, FitsOne
<1>4. Fits(S, d)
  <2>1. r \in Int /\ r <= d /\ Fits(S, r)
    <3> HIDE DEF q, r, s
    <3> QED BY <1>1, <1>2 DEF r, s
  <2> QED BY <2>1, FitsMore
<1> QED BY <1>3, <1>4 DEF Fits

LEMMA InsertBelowHourFacts ==
  ASSUME NEW d \in Int, d < kTimingHour
  PROVE  Fits(InsertBelowHour(d), d) /\ (d > 0 => InsertBelowHour(d) # {})
<1>1. CASE d < kTimingMinute
  <2>1. InsertBelowHour(d) = InsertRemainder(d)
    BY <1>1 DEF InsertBelowHour
  <2>2. d > 0 => <<"second", d - 1>> \in InsertRemainder(d)
    BY <1>1 DEF InsertRemainder, InsertSecondEntry
  <2> QED BY <1>1, <2>1, <2>2, InsertRemainderFacts
<1>2. CASE ~(d < kTimingMinute)
  <2>1. /\ "minute" \in Coarse /\ Span["minute"] = kTimingMinute
        /\ Slots["minute"] = MinuteSlots /\ d \in Nat /\ d >= kTimingMinute
    BY <1>2, Spans DEF Coarse, Span, Slots
  <2>2. d \div kTimingMinute <= MinuteSlots
    BY <2>1, SpanDivides
  <2>3. Fits(InsertRemainder(d % kTimingMinute), d % kTimingMinute)
    <3>1. d % kTimingMinute \in 0..(kTimingMinute - 1)
      BY <2>1, SpanDivides
    <3> QED BY <3>1, Spans, InsertRemainderFacts
  <2>4. Fits(InsertMinuteEntry(d), d)
    BY <2>1, <2>2, <2>3, FitsBoth DEF InsertMinuteEntry
  <2> QED BY <1>2, <2>4 DEF InsertBelowHour, InsertMinuteEntry
<1> QED BY <1>1, <1>2

LEMMA InsertBelowDayFacts ==
  ASSUME NEW d \in Int, d < kTimingDay
  PROVE  Fits(InsertBelowDay(d), d) /\ (d > 0 => InsertBelowDay(d) # {})
<1>1. CASE d < kTimingHour
  BY <1>1, InsertBelowHourFacts DEF InsertBelowDay
<1>2. CASE ~(d < kTimingHour)
  <2>1. /\ "hour" \in Coarse /\ Span["hour"] = kTimingHour
        /\ Slots["hour"] = HourSlots /\ d \in Nat /\ d >= kTimingHour
    BY <1>2, Spans DEF Coarse, Span, Slots
  <2>2. d \div kTimingHour <= HourSlots
    BY <2>1, SpanDivides
  <2>3. Fits(InsertBelowHour(d % kTimingHour), d % kTimingHour)
    <3>1. d % kTimingHour \in 0..(kTimingHour - 1)
      BY <2>1, SpanDivides
    <3> QED BY <3>1, Spans, InsertBelowHourFacts
  <2>4. Fits(InsertHourEntry(d), d)
    BY <2>1, <2>2, <2>3, FitsBoth DEF InsertHourEntry
  <2> QED BY <1>2, <2>4 DEF InsertBelowDay, InsertHourEntry
<1> QED BY <1>1, <1>2

LEMMA InsertFacts ==
  ASSUME NEW d \in Int
  PROVE  /\ Fits(InsertEntry(d), d)
         /\ d < kTimingMinute =>
              InsertEntry(d) = IF d <= 0 THEN {} ELSE {<<"second", d - 1>>}
         /\ d > 0 /\ d \div kTimingDay <= DaySlots => InsertEntry(d) # {}
         /\ InsertEntry(d) # {} => d > 0
<1>1. d < kTimingMinute =>
        InsertEntry(d) = IF d <= 0 THEN {} ELSE {<<"second", d - 1>>}
  <2>1. d < kTimingMinute => d < kTimingHour /\ d < kTimingDay
    BY Spans
  <2> QED BY <2>1, InsertRemainderFacts
          DEF InsertEntry, InsertBelowDay, InsertBelowHour
<1>2. d <= 0 => d < kTimingMinute
  BY Spans
<1>3. CASE d < kTimingDay
  BY <1>1, <1>2, <1>3, InsertBelowDayFacts DEF InsertEntry
<1>4. CASE ~(d < kTimingDay) /\ ~(d \div kTimingDay > DaySlots)
  <2>1. /\ "day" \in Coarse /\ Span["day"] = kTimingDay
        /\ Slots["day"] = DaySlots /\ d \in Nat /\ d >= kTimingDay
    BY <1>4, Spans DEF Coarse, Span, Slots
  <2>2. d \div kTimingDay <= DaySlots
    <3>1. d \div kTimingDay \in Nat /\ ~(d \div kTimingDay > DaySlots)
      BY <1>4, <2>1, SpanDivides
    <3> QED BY ONLY <3>1, SlotsAssumption
  <2>3. Fits(InsertBelowDay(d % kTimingDay), d % kTimingDay)
    <3>1. d % kTimingDay \in 0..(kTimingDay - 1)
      BY <2>1, SpanDivides
    <3> QED BY <3>1, Spans, InsertBelowDayFacts
  <2>4. Fits(InsertDayEntry(d), d)
    BY <2>1, <2>2, <2>3, FitsBoth DEF InsertDayEntry
  <2>5. d > 0
    BY <2>1, Spans
  <2> QED BY <1>1, <1>4, <2>4, <2>5 DEF InsertEntry, InsertDayEntry
<1>5. CASE ~(d < kTimingDay) /\ d \div kTimingDay > DaySlots
  <2>1. InsertEntry(d) = {}
    BY <1>5 DEF InsertEntry
  <2>2. d \in Nat
    BY <1>5, Spans
  <2>3. ~(d \div kTimingDay <= DaySlots)
    <3>1. d \div kTimingDay \in Nat /\ d \div kTimingDay > DaySlots
      BY <1>5, <2>2, SpanDivides
    <3> QED BY ONLY <3>1, SlotsAssumption
  <2>4. Fits({}, d)
    BY DEF Fits
  <2> QED BY <1>1, <2>1, <2>3, <2>4
<1> QED BY <1>3, <1>4, <1>5

\* An entry leaves the slots it joins in time, whatever the next tick.
LEMMA InsertInTime ==
  ASSUME NEW d \in Int, NEW w \in WheelType, NEW i \in Nat,
         NEW j \in {i, i + 1}, <<w, j>> \in InsertEntry(d),
         NEW t \in Nat
  PROVE  PoppedBy(w, i, t) <= d
<1> DEFINE s == Span[w]
           p == i * s
           now == Until(w, t)
<1>1. PICK v \in WheelType : \E k \in 0..(Slots[v] - 1) :
        <<w, j>> = <<v, k>> /\ (k + 1) * Span[v] <= d
  BY InsertFacts DEF Fits
<1>2. j \in Nat /\ (j + 1) * s <= d
  BY <1>1
<1>3. s \in Nat /\ now \in 1..s
  BY WheelFacts, UntilFacts
<1>4. p \in Int /\ (i + 1) * s = p + s
  <2> HIDE DEF s
  <2>1. (i + 1) * s = i * s + 1 * s /\ i * s \in Int /\ 1 * s = s
    BY <1>3, Products
  <2> QED BY <2>1
<1>5. (i + 1) * s <= (j + 1) * s /\ (i + 1) * s \in Int /\ (j + 1) * s \in Int
  BY <1>2, <1>3, Products
<1> DEFINE q == (i + 1) * s
           z == (j + 1) * s
<1>6. /\ z <= d /\ q = p + s /\ q <= z /\ q \in Int /\ z \in Int
      /\ PoppedBy(w, i, t) = now + p
  BY <1>2, <1>4, <1>5 DEF PoppedBy
<1> HIDE DEF q, z, p, now, s
<1> QED BY <1>3, <1>4, <1>6

-----------------------------------------------------------------------------
(***************************************************************************)
(* What inserting and popping do to the slots.                             *)
(***************************************************************************)
\* Which entries a slot gains, and which entries become held.
LEMMA InsertMember ==
  ASSUME NEW wheels, WheelsOK(wheels), NEW S \in SUBSET Entry, NEW delay
  PROVE  /\ WheelsOK(Insert(wheels, S, delay))
         /\ \A w \in WheelType : \A i \in 0..(Slots[w] - 1) : \A e :
              e \in Insert(wheels, S, delay)[w][i] <=>
                \/ e \in wheels[w][i]
                \/ e \in S /\ <<w, i>> \in InsertEntry(delay[e])
<1>1. WheelsOK(Insert(wheels, S, delay))
  BY DEF WheelsOK, Insert
<1>2. \A w \in WheelType : \A i \in 0..(Slots[w] - 1) :
        Insert(wheels, S, delay)[w][i] =
          wheels[w][i] \cup {e \in S : <<w, i>> \in InsertEntry(delay[e])}
  BY DEF Insert
<1> QED BY <1>1, <1>2

LEMMA InsertHeld ==
  ASSUME NEW wheels, WheelsOK(wheels), NEW S \in SUBSET Entry, NEW delay,
         \A e \in S : delay[e] \in Int /\ InsertEntry(delay[e]) # {}, NEW e
  PROVE  IsHeld(Insert(wheels, S, delay), e) <=> IsHeld(wheels, e) \/ e \in S
<1>1. ASSUME e \in S
      PROVE  \E w \in WheelType : \E i \in 0..(Slots[w] - 1) :
               <<w, i>> \in InsertEntry(delay[e])
  <2>1. PICK p \in InsertEntry(delay[e]) : TRUE
    BY <1>1
  <2>2. Fits(InsertEntry(delay[e]), delay[e])
    BY <1>1, InsertFacts
  <2> QED BY <2>1, <2>2 DEF Fits
<1>2. \A w \in WheelType : \A i \in 0..(Slots[w] - 1) :
        e \in Insert(wheels, S, delay)[w][i] <=>
          \/ e \in wheels[w][i]
          \/ e \in S /\ <<w, i>> \in InsertEntry(delay[e])
  BY InsertMember
<1> QED BY ONLY <1>1, <1>2 DEF IsHeld

LEMMA PopUpMember ==
  ASSUME NEW wheels, WheelsOK(wheels), NEW w \in WheelType
  PROVE  /\ WheelsOK(PopUp(wheels, w))
         /\ \A v \in WheelType : \A i \in 0..(Slots[v] - 1) :
              PopUp(wheels, w)[v][i] =
                IF v # w THEN wheels[v][i]
                ELSE IF i = Slots[v] - 1 THEN {} ELSE wheels[v][i + 1]
<1>1. Slots[w] \in Nat \ {0}
  BY WheelFacts
<1>2. \A i \in 0..(Slots[w] - 1) :
        (IF i = Slots[w] - 1 THEN {} ELSE wheels[w][i + 1]) \in SUBSET Entry
  BY <1>1 DEF WheelsOK
<1> QED BY <1>1, <1>2 DEF PopUp, WheelsOK

\* What is released was held, by a front slot, and is no longer.
LEMMA ReleasedFacts ==
  ASSUME NEW wheels, WheelsOK(wheels), NEW w \in WheelType
  PROVE  /\ Released(wheels, w) \subseteq Entry
         /\ Released(wheels, w) \subseteq wheels[w][0]
         /\ \A e : e \in Released(wheels, w) => IsHeld(wheels, e)
         /\ \A e : IsHeld(PopUp(wheels, w), e) <=>
                     IsHeld(wheels, e) /\ e \notin Released(wheels, w)
<1>1. \A v \in WheelType : Slots[v] \in Nat \ {0}
  BY WheelFacts
<1>2. 0 \in 0..(Slots[w] - 1) /\ wheels[w][0] \subseteq Entry
  BY <1>1 DEF WheelsOK
<1>3. ASSUME NEW e, IsHeld(PopUp(wheels, w), e) PROVE IsHeld(wheels, e)
  <2>1. PICK v \in WheelType : \E i \in 0..(Slots[v] - 1) : e \in PopUp(wheels, w)[v][i]
    BY <1>3 DEF IsHeld
  <2>2. PICK i \in 0..(Slots[v] - 1) : e \in PopUp(wheels, w)[v][i]
    BY <2>1
  <2>3. \E j \in 0..(Slots[v] - 1) : e \in wheels[v][j]
    <3>1. CASE v # w
      BY <2>2, <3>1, PopUpMember
    <3>2. CASE v = w
      <4>1. i # Slots[v] - 1 /\ e \in wheels[v][i + 1]
        BY <2>2, <3>2, PopUpMember
      <4>2. i + 1 \in 0..(Slots[v] - 1)
        BY <1>1, <4>1
      <4> QED BY <4>1, <4>2
    <3> QED BY <3>1, <3>2
  <2> QED BY <2>3 DEF IsHeld
<1>4. ASSUME NEW e, IsHeld(wheels, e), e \notin wheels[w][0]
      PROVE  IsHeld(PopUp(wheels, w), e)
  <2>1. PICK v \in WheelType : \E i \in 0..(Slots[v] - 1) : e \in wheels[v][i]
    BY <1>4 DEF IsHeld
  <2>2. PICK i \in 0..(Slots[v] - 1) : e \in wheels[v][i]
    BY <2>1
  <2>3. CASE v # w
    BY <2>2, <2>3, PopUpMember DEF IsHeld
  <2>4. CASE v = w
    <3>1. i # 0
      BY <1>4, <2>2, <2>4
    <3>2. /\ i - 1 \in 0..(Slots[v] - 1) /\ i - 1 # Slots[v] - 1
          /\ (i - 1) + 1 = i
      BY <1>1, <3>1
    <3>3. e \in PopUp(wheels, w)[v][i - 1]
      BY <2>2, <2>4, <3>2, PopUpMember
    <3> QED BY <3>2, <3>3 DEF IsHeld
  <2> QED BY <2>3, <2>4
<1>5. \A e : e \in wheels[w][0] => IsHeld(wheels, e)
  BY <1>2 DEF IsHeld
<1> QED BY <1>2, <1>3, <1>4, <1>5 DEF Released

\* A pop moves every slot of its wheel up by one, and the periodic entries it
\* released are inserted again: nothing else is lost, and nothing is gained.
LEMMA PopAndRunMember ==
  ASSUME NEW wheels, WheelsOK(wheels), NEW w \in WheelType,
         \A e \in Entry : kind[e] = "every" =>
           wait[e] \in Int /\ InsertEntry(wait[e]) # {}
  PROVE  /\ WheelsOK(PopAndRun(wheels, w))
         /\ \A v \in WheelType : \A i \in 0..(Slots[v] - 1) : \A e :
              e \in PopAndRun(wheels, w)[v][i] <=>
                \/ v # w /\ e \in wheels[v][i]
                \/ v = w /\ i # Slots[v] - 1 /\ e \in wheels[v][i + 1]
                \/ /\ e \in Released(wheels, w) /\ kind[e] = "every"
                   /\ <<v, i>> \in InsertEntry(wait[e])
         /\ \A e : IsHeld(PopAndRun(wheels, w), e) <=>
                     /\ IsHeld(wheels, e)
                     /\ ~(e \in Released(wheels, w) /\ kind[e] # "every")
<1> DEFINE popped == PopUp(wheels, w)
           S == Rearmed(Released(wheels, w))
<1>1. /\ S \in SUBSET Entry
      /\ \A e \in S : wait[e] \in Int /\ InsertEntry(wait[e]) # {}
      /\ \A e : e \in S <=> e \in Released(wheels, w) /\ kind[e] = "every"
  BY ReleasedFacts DEF Rearmed
<1>2. WheelsOK(popped)
  BY PopUpMember
<1>3. PopAndRun(wheels, w) = Insert(popped, S, wait)
  BY DEF PopAndRun
<1>4. \A e : IsHeld(popped, e) <=> IsHeld(wheels, e) /\ e \notin Released(wheels, w)
  BY ReleasedFacts
<1>5. \A v \in WheelType : \A i \in 0..(Slots[v] - 1) : \A e :
        e \in popped[v][i] <=>
          \/ v # w /\ e \in wheels[v][i]
          \/ v = w /\ i # Slots[v] - 1 /\ e \in wheels[v][i + 1]
  <2> TAKE v \in WheelType
  <2> TAKE i \in 0..(Slots[v] - 1)
  <2>1. popped[v][i] = IF v # w THEN wheels[v][i]
                       ELSE IF i = Slots[v] - 1 THEN {} ELSE wheels[v][i + 1]
    BY PopUpMember
  <2> HIDE DEF popped
  <2> QED BY <2>1
<1> HIDE DEF popped, S
<1>6. /\ WheelsOK(Insert(popped, S, wait))
      /\ \A v \in WheelType : \A i \in 0..(Slots[v] - 1) : \A e :
           e \in Insert(popped, S, wait)[v][i] <=>
             \/ e \in popped[v][i]
             \/ e \in S /\ <<v, i>> \in InsertEntry(wait[e])
  BY <1>1, <1>2, InsertMember
<1>7. \A e : IsHeld(Insert(popped, S, wait), e) <=> IsHeld(popped, e) \/ e \in S
  BY <1>1, <1>2, InsertHeld
<1>8. \A e : e \in Released(wheels, w) => IsHeld(wheels, e)
  BY ReleasedFacts
<1>9. \A e : IsHeld(Insert(popped, S, wait), e) <=>
               /\ IsHeld(wheels, e)
               /\ ~(e \in Released(wheels, w) /\ kind[e] # "every")
  BY <1>1, <1>4, <1>7, <1>8
<1>10. \A v \in WheelType : \A i \in 0..(Slots[v] - 1) : \A e :
         e \in Insert(popped, S, wait)[v][i] <=>
           \/ v # w /\ e \in wheels[v][i]
           \/ v = w /\ i # Slots[v] - 1 /\ e \in wheels[v][i + 1]
           \/ /\ e \in Released(wheels, w) /\ kind[e] = "every"
              /\ <<v, i>> \in InsertEntry(wait[e])
  BY <1>1, <1>5, <1>6
<1> QED BY <1>3, <1>6, <1>9, <1>10

-----------------------------------------------------------------------------
(***************************************************************************)
(* What a tick does: it pops the wheel of seconds and at most one other.   *)
(***************************************************************************)
NextTick == (tick_ + 1) % kTimingDay
Ran1 == Released(wheels_, "second")
Wheels1 == PopAndRun(wheels_, "second")
Ran2 == UNION {Released(Wheels1, w) : w \in CoarseWheel(NextTick)}
Running == Ran1 \cup Ran2
Gone == {e \in Running : kind[e] # "every"}

LEMMA TickEffects ==
  ASSUME Tick
  PROVE  /\ wheels_' = IF CoarseWheel(NextTick) = {} THEN Wheels1
                       ELSE PopAndRun(Wheels1, CHOOSE w \in CoarseWheel(NextTick) : TRUE)
         /\ tick_' = NextTick /\ lag' = 0
         /\ ran' = {<<e, left[e] - 1>> : e \in Ran1}
                     \cup {<<e, IF e \in Ran1 THEN wait[e] ELSE left[e] - 1>> : e \in Ran2}
         /\ kind' = [e \in Entry |-> IF e \in Gone THEN "free" ELSE kind[e]]
         /\ asked' = [e \in Entry |-> IF e \in Gone THEN "free" ELSE asked[e]]
         /\ wait' = [e \in Entry |-> IF e \in Gone THEN 0 ELSE wait[e]]
         /\ left' = [e \in Entry |->
                       IF kind[e] = "free" \/ e \in Gone THEN 0
                       ELSE IF e \in Rearmed(Running) THEN wait[e]
                       ELSE left[e] - 1]
BY DEF Tick, NextTick, Ran1, Wheels1, Ran2, Running, Gone

LEMMA TickSlots ==
  ASSUME WheelsOK(wheels_), Tick,
         \A e \in Entry : kind[e] = "every" =>
           wait[e] \in Int /\ InsertEntry(wait[e]) # {}
  PROVE  /\ WheelsOK(wheels_')
         /\ \A v \in WheelType : \A i \in 0..(Slots[v] - 1) : \A e :
              e \in wheels_'[v][i] =>
                \/ /\ v \in Popped(NextTick)
                   /\ i # Slots[v] - 1 /\ e \in wheels_[v][i + 1]
                \/ v \notin Popped(NextTick) /\ e \in wheels_[v][i]
                \/ /\ e \in Running /\ kind[e] = "every"
                   /\ \E j \in {i, i + 1} : <<v, j>> \in InsertEntry(wait[e])
         /\ \A i \in 0..(SecondSlots - 1) : \A e :
              \/ i # SecondSlots - 1 /\ e \in wheels_["second"][i + 1]
              \/ e \in Ran1 /\ kind[e] = "every" /\ <<"second", i>> \in InsertEntry(wait[e])
              => e \in wheels_'["second"][i]
         /\ \A e : IsHeld(wheels_', e) <=> IsHeld(wheels_, e) /\ e \notin Gone
         /\ \A e \in Running : e \in Entry /\ IsHeld(wheels_, e)
         /\ \A e \in Ran2 :
              /\ e \in Ran1 => kind[e] = "every"
              /\ \E w \in Coarse : e \in Wheels1[w][0]
<1> DEFINE again(S, v, i, e) == e \in S /\ kind[e] = "every" /\ <<v, i>> \in InsertEntry(wait[e])
<1>0. /\ "second" \in WheelType /\ "second" \notin Coarse /\ Coarse \subseteq WheelType
      /\ Slots["second"] = SecondSlots
      /\ \A v \in WheelType : Slots[v] \in Nat
  BY WheelFacts
<1>1. /\ WheelsOK(Wheels1)
      /\ \A v \in WheelType : \A i \in 0..(Slots[v] - 1) : \A e :
           e \in Wheels1[v][i] <=>
             \/ v # "second" /\ e \in wheels_[v][i]
             \/ v = "second" /\ i # Slots[v] - 1 /\ e \in wheels_[v][i + 1]
             \/ again(Ran1, v, i, e)
      /\ \A e : IsHeld(Wheels1, e) <=>
                  IsHeld(wheels_, e) /\ ~(e \in Ran1 /\ kind[e] # "every")
  BY <1>0, PopAndRunMember DEF Wheels1, Ran1
<1>2. Ran1 \subseteq Entry /\ \A e \in Ran1 : IsHeld(wheels_, e)
  BY <1>0, ReleasedFacts DEF Ran1
<1>3. CASE CoarseWheel(NextTick) = {}
  <2>1. wheels_' = Wheels1
    BY <1>3, TickEffects
  <2>2. /\ Ran2 = {} /\ Running = Ran1 /\ Popped(NextTick) = {"second"}
        /\ \A e : e \in Gone <=> e \in Ran1 /\ kind[e] # "every"
    BY <1>3 DEF Ran2, Running, Popped, Gone
  <2>3. ASSUME NEW v \in WheelType, NEW i \in 0..(Slots[v] - 1), NEW e,
               e \in wheels_'[v][i]
        PROVE  \/ /\ v \in Popped(NextTick)
                  /\ i # Slots[v] - 1 /\ e \in wheels_[v][i + 1]
               \/ v \notin Popped(NextTick) /\ e \in wheels_[v][i]
               \/ /\ e \in Running /\ kind[e] = "every"
                  /\ \E j \in {i, i + 1} : <<v, j>> \in InsertEntry(wait[e])
    BY <1>1, <2>1, <2>2, <2>3
  <2>4. ASSUME NEW i \in 0..(SecondSlots - 1), NEW e,
               \/ i # SecondSlots - 1 /\ e \in wheels_["second"][i + 1]
               \/ again(Ran1, "second", i, e)
        PROVE  e \in wheels_'["second"][i]
    BY <1>0, <1>1, <2>1, <2>4
  <2>5. \A e : IsHeld(wheels_', e) <=> IsHeld(wheels_, e) /\ e \notin Gone
    BY <1>1, <2>1, <2>2
  <2> QED BY <1>1, <1>2, <2>1, <2>2, <2>3, <2>4, <2>5
<1>4. CASE CoarseWheel(NextTick) # {}
  <2>0. PICK w \in Coarse : CoarseWheel(NextTick) = {w}
    BY <1>4, OneCoarse
  <2>1. wheels_' = PopAndRun(Wheels1, w)
    <3>1. w = CHOOSE x \in CoarseWheel(NextTick) : TRUE
      BY <2>0
    <3> QED BY <1>4, <3>1, TickEffects
  <2>2. /\ Ran2 = Released(Wheels1, w) /\ Popped(NextTick) = {"second", w}
        /\ \A e : e \in Gone <=> (e \in Ran1 \/ e \in Ran2) /\ kind[e] # "every"
    BY <2>0 DEF Ran2, Running, Popped, Gone
  <2>a. /\ WheelsOK(PopAndRun(Wheels1, w))
        /\ \A v \in WheelType : \A i \in 0..(Slots[v] - 1) : \A e :
             e \in PopAndRun(Wheels1, w)[v][i] <=>
               \/ v # w /\ e \in Wheels1[v][i]
               \/ v = w /\ i # Slots[v] - 1 /\ e \in Wheels1[v][i + 1]
               \/ again(Released(Wheels1, w), v, i, e)
        /\ \A e : IsHeld(PopAndRun(Wheels1, w), e) <=>
                    /\ IsHeld(Wheels1, e)
                    /\ ~(e \in Released(Wheels1, w) /\ kind[e] # "every")
    <3> HIDE DEF Wheels1
    <3> QED BY <1>0, <1>1, PopAndRunMember
  <2>b. /\ Ran2 \subseteq Entry /\ Ran2 \subseteq Wheels1[w][0]
        /\ \A e \in Ran2 : IsHeld(Wheels1, e)
    BY <1>0, <1>1, <2>2, ReleasedFacts
  <2>c. /\ WheelsOK(wheels_')
        /\ \A v \in WheelType : \A i \in 0..(Slots[v] - 1) : \A e :
             e \in wheels_'[v][i] <=>
               \/ v # w /\ e \in Wheels1[v][i]
               \/ v = w /\ i # Slots[v] - 1 /\ e \in Wheels1[v][i + 1]
               \/ again(Ran2, v, i, e)
        /\ \A e : IsHeld(wheels_', e) <=>
                    IsHeld(Wheels1, e) /\ ~(e \in Ran2 /\ kind[e] # "every")
    BY <2>1, <2>2, <2>a
  <2>3. ASSUME NEW v \in WheelType, NEW i \in 0..(Slots[v] - 1), NEW e,
               e \in wheels_'[v][i]
        PROVE  \/ /\ v \in Popped(NextTick)
                  /\ i # Slots[v] - 1 /\ e \in wheels_[v][i + 1]
               \/ v \notin Popped(NextTick) /\ e \in wheels_[v][i]
               \/ /\ e \in Running /\ kind[e] = "every"
                  /\ \E j \in {i, i + 1} : <<v, j>> \in InsertEntry(wait[e])
    <3>1. CASE again(Ran2, v, i, e)
      BY <3>1 DEF Running
    <3>2. CASE v # w /\ e \in Wheels1[v][i]
      <4>1. v \in Popped(NextTick) <=> v = "second"
        BY <2>2, <3>2
      <4>2. \/ v # "second" /\ e \in wheels_[v][i]
            \/ v = "second" /\ i # Slots[v] - 1 /\ e \in wheels_[v][i + 1]
            \/ again(Ran1, v, i, e)
        BY <1>1, <3>2
      <4> QED BY <4>1, <4>2 DEF Running
    <3>3. CASE v = w /\ i # Slots[v] - 1 /\ e \in Wheels1[v][i + 1]
      <4>1. v \in Popped(NextTick) /\ v # "second"
        BY <1>0, <2>2, <3>3
      <4>2. i + 1 \in 0..(Slots[v] - 1)
        BY <1>0, <3>3
      <4>3. e \in wheels_[v][i + 1] \/ again(Ran1, v, i + 1, e)
        BY <1>1, <3>3, <4>1, <4>2
      <4> QED BY <3>3, <4>1, <4>3 DEF Running
    <3> QED BY <2>3, <2>c, <3>1, <3>2, <3>3
  <2>4. ASSUME NEW i \in 0..(SecondSlots - 1), NEW e,
               \/ i # SecondSlots - 1 /\ e \in wheels_["second"][i + 1]
               \/ again(Ran1, "second", i, e)
        PROVE  e \in wheels_'["second"][i]
    <3>1. e \in Wheels1["second"][i]
      BY <1>0, <1>1, <2>4
    <3> QED BY <1>0, <2>c, <3>1
  <2>5. \A e : IsHeld(wheels_', e) <=> IsHeld(wheels_, e) /\ e \notin Gone
    BY <1>1, <2>2, <2>c
  <2>6. \A e \in Running : e \in Entry /\ IsHeld(wheels_, e)
    BY <1>1, <1>2, <2>b DEF Running
  <2>7. \A e \in Ran2 :
          /\ e \in Ran1 => kind[e] = "every"
          /\ \E x \in Coarse : e \in Wheels1[x][0]
    BY <1>1, <2>b
  <2> HIDE DEF again
  <2> QED BY <2>c, <2>3, <2>4, <2>5, <2>6, <2>7 DEF again
<1> QED BY <1>3, <1>4

-----------------------------------------------------------------------------
(***************************************************************************)
(* IInv is inductive.                                                      *)
(***************************************************************************)
LEMMA DelaysAreInts ==
  /\ Delays \subseteq Int
  /\ ShortDelays => \A d \in Delays : d < kTimingMinute
BY DelaysAssumption DEF Delays, ShortDelays

\* An entry that is held, each of its slots in time, is not overdue.
LEMMA HeldIsNotDue ==
  ASSUME NEW wheels, NEW t \in 0..(kTimingDay - 1), NEW e, NEW l \in Int,
         IsHeld(wheels, e),
         \A w \in WheelType : \A i \in 0..(Slots[w] - 1) :
           e \in wheels[w][i] => PoppedBy(w, i, t) <= l
  PROVE  l >= 1
<1>1. PICK w \in WheelType : \E i \in 0..(Slots[w] - 1) : e \in wheels[w][i]
  BY DEF IsHeld
<1>2. PICK i \in 0..(Slots[w] - 1) : e \in wheels[w][i]
  BY <1>1
<1>3. i \in Nat
  OBVIOUS
<1>4. PoppedBy(w, i, t) \in Nat /\ PoppedBy(w, i, t) >= 1
  BY <1>3, SlotAfterTick
<1> QED BY <1>2, <1>4

LEMMA IInvFacts ==
  ASSUME IInv
  PROVE  /\ WheelsOK(wheels_) /\ tick_ \in 0..(kTimingDay - 1) /\ tick_ \in Nat
         /\ \A e \in Entry : wait[e] \in Int /\ left[e] \in Int
         /\ \A e \in Armed : InsertEntry(wait[e]) # {} /\ left[e] <= wait[e]
         /\ \A e : IsHeld(wheels_, e) <=> e \in Armed
         /\ \A e \in Armed : left[e] >= 1
<1> USE DEF IInv
<1>1. WheelsOK(wheels_) /\ tick_ \in 0..(kTimingDay - 1) /\ tick_ \in Nat
  BY Spans DEF TypeOK, WheelsOK
<1>2. \A e \in Entry : wait[e] \in Int /\ left[e] \in Int
  <2>1. wait \in [Entry -> Delays \cup {0}] /\ left \in [Entry -> Int]
    BY DEF TypeOK
  <2>2. \A e \in Entry : wait[e] \in Delays \cup {0}
    BY ONLY <2>1
  <2>3. Delays \cup {0} \subseteq Int
    BY DelaysAreInts
  <2>4. \A e \in Entry : left[e] \in Int
    BY ONLY <2>1
  <2>5. \A e \in Entry : wait[e] \in Int
    BY ONLY <2>2, <2>3
  <2> QED BY ONLY <2>4, <2>5
<1>3. \A e \in Armed : InsertEntry(wait[e]) # {} /\ left[e] <= wait[e]
  BY DEF TimersInv, Armed
<1>4. \A e : IsHeld(wheels_, e) => e \in Entry
  BY <1>1 DEF IsHeld, WheelsOK
<1>5. \A e : IsHeld(wheels_, e) <=> e \in Armed
  BY <1>4 DEF NoEntryLost, Armed
<1>6. ASSUME NEW e \in Armed PROVE left[e] >= 1
  <2>1. e \in Entry /\ left[e] \in Int /\ IsHeld(wheels_, e)
    BY <1>2, <1>5 DEF Armed
  <2>2. \A w \in WheelType : \A i \in 0..(Slots[w] - 1) :
          e \in wheels_[w][i] => PoppedBy(w, i, tick_) <= left[e]
    BY DEF InTime
  <2> QED BY <1>1, <2>1, <2>2, HeldIsNotDue
<1> QED BY <1>1, <1>2, <1>3, <1>5, <1>6

LEMMA InitIInv == Init => IInv
<1> SUFFICES ASSUME Init PROVE IInv
  OBVIOUS
<1> USE DEF Init
<1>1. TypeOK
  <2>1. tick_ \in 0..(kTimingDay - 1)
    BY Spans
  <2>2. \A w \in WheelType : wheels_[w] \in [0..(Slots[w] - 1) -> SUBSET Entry]
    OBVIOUS
  <2> QED BY <2>1, <2>2 DEF TypeOK, Kind, NoTs
<1>2. \A w \in WheelType : \A i \in 0..(Slots[w] - 1) : wheels_[w][i] = {}
  OBVIOUS
<1>3. InTime
  BY <1>2 DEF InTime
<1>4. TimersInv /\ Exact /\ NeverEarly
  BY DEF TimersInv, Exact, Armed, NeverEarly
<1>5. NoEntryLost
  BY <1>2 DEF NoEntryLost, IsHeld
<1> QED BY <1>1, <1>3, <1>4, <1>5 DEF IInv

\* One entry joins the slots its delay names, armed afresh or extended.
LEMMA InsertOne ==
  ASSUME IInv, NEW e \in Entry, NEW d \in Int, InsertEntry(d) # {},
         NEW delay, delay[e] = d,
         wheels_' = Insert(wheels_, {e}, delay), tick_' = tick_,
         left' = [left EXCEPT ![e] = d], wait' = [wait EXCEPT ![e] = d],
         Armed' = Armed \cup {e}, e \in Armed => wait[e] = d
  PROVE  WheelsOK(wheels_)' /\ InTime' /\ Exact' /\ NoEntryLost'
<1>0. /\ WheelsOK(wheels_) /\ tick_ \in Nat
      /\ \A x : IsHeld(wheels_, x) <=> x \in Armed
      /\ \A x \in Armed : left[x] <= wait[x]
      /\ \A x \in Entry : left[x] \in Int
  BY IInvFacts
<1>1. /\ left'[e] = d /\ wait'[e] = d
      /\ \A x \in Entry \ {e} : left'[x] = left[x] /\ wait'[x] = wait[x]
  BY DEF IInv, TypeOK
<1>2. /\ WheelsOK(wheels_')
      /\ \A w \in WheelType : \A i \in 0..(Slots[w] - 1) : \A x :
           x \in wheels_'[w][i] <=>
             x \in wheels_[w][i] \/ (x = e /\ <<w, i>> \in InsertEntry(d))
      /\ \A x : IsHeld(wheels_', x) <=> x \in Armed \/ x = e
  <2>1. \A x \in {e} : delay[x] \in Int /\ InsertEntry(delay[x]) # {}
    OBVIOUS
  <2>2. /\ WheelsOK(wheels_')
        /\ \A w \in WheelType : \A i \in 0..(Slots[w] - 1) : \A x :
             x \in wheels_'[w][i] <=>
               x \in wheels_[w][i] \/ (x \in {e} /\ <<w, i>> \in InsertEntry(delay[x]))
    <3> DEFINE S == {e}
    <3>1. WheelsOK(wheels_) /\ S \in SUBSET Entry /\ wheels_' = Insert(wheels_, S, delay)
      BY <1>0
    <3> HIDE DEF S
    <3>2. /\ WheelsOK(wheels_')
          /\ \A w \in WheelType : \A i \in 0..(Slots[w] - 1) : \A x :
               x \in wheels_'[w][i] <=>
                 x \in wheels_[w][i] \/ (x \in S /\ <<w, i>> \in InsertEntry(delay[x]))
      BY ONLY <3>1, InsertMember
    <3> QED BY ONLY <3>2 DEF S
  <2>3. \A x : IsHeld(wheels_', x) <=> IsHeld(wheels_, x) \/ x \in {e}
    BY <1>0, <2>1, InsertHeld
  <2>4. \A w \in WheelType : \A i \in 0..(Slots[w] - 1) : \A x :
          x \in wheels_'[w][i] <=>
            x \in wheels_[w][i] \/ (x = e /\ <<w, i>> \in InsertEntry(d))
    <3> TAKE w \in WheelType
    <3> TAKE i \in 0..(Slots[w] - 1)
    <3> TAKE x
    <3>1. x \in {e} /\ <<w, i>> \in InsertEntry(delay[x])
            <=> x = e /\ <<w, i>> \in InsertEntry(d)
      OBVIOUS
    <3> QED BY ONLY <2>2, <3>1
  <2> QED BY ONLY <1>0, <2>2, <2>3, <2>4
<1>3. InTime'
  <2> SUFFICES ASSUME NEW w \in WheelType, NEW i \in 0..(Slots[w] - 1),
                      NEW x \in wheels_'[w][i]
               PROVE  PoppedBy(w, i, tick_) <= left'[x]
    BY DEF InTime
  <2>1. i \in Nat /\ w \in WheelType /\ PoppedBy(w, i, tick_) \in Int
    BY IInvFacts, SlotAfterTick
  <2>2. CASE x = e /\ <<w, i>> \in InsertEntry(d)
    BY <1>0, <1>1, <2>1, <2>2, InsertInTime
  <2>3. CASE x \in wheels_[w][i]
    <3>1. PoppedBy(w, i, tick_) <= left[x] /\ x \in Armed /\ x \in Entry
      BY <1>0, <2>3 DEF IInv, InTime, IsHeld, Armed
    <3>2. CASE x # e
      BY <1>1, <3>1, <3>2
    <3>3. CASE x = e
      <4>1. left[x] <= d /\ left[x] \in Int
        BY <1>0, <3>1, <3>3
      <4> QED BY <1>1, <2>1, <3>1, <3>3, <4>1
    <3> QED BY <3>2, <3>3
  <2>4. x \in wheels_[w][i] \/ (x = e /\ <<w, i>> \in InsertEntry(d))
    BY <1>2, Zenon
  <2> QED BY <2>2, <2>3, <2>4
<1>4. Exact'
  <2> SUFFICES ASSUME NEW x \in Armed', wait'[x] < kTimingMinute
               PROVE  /\ At(wheels_', "second", left'[x] - 1, x)
                      /\ \A w \in Coarse : \A i \in 0..(Slots[w] - 1) : x \notin wheels_'[w][i]
    BY DEF Exact, At
  <2>0. "second" \in WheelType /\ Coarse \subseteq WheelType /\ "second" \notin Coarse
    BY WheelFacts
  <2>1. x \in Armed => /\ wait[x] = wait'[x]
                       /\ At(wheels_, "second", left[x] - 1, x)
                       /\ \A w \in Coarse : \A i \in 0..(Slots[w] - 1) : x \notin wheels_[w][i]
    <3>1. x \in Armed => wait[x] = wait'[x]
      BY <1>1 DEF Armed
    <3> QED BY <3>1 DEF IInv, Exact
  <2>2. CASE x # e
    <3>1. x \in Armed /\ left'[x] = left[x]
      BY <1>1, <2>2 DEF Armed
    <3>2. \A w \in WheelType : \A i \in 0..(Slots[w] - 1) :
            x \in wheels_'[w][i] <=> x \in wheels_[w][i]
      <4> TAKE w \in WheelType
      <4> TAKE i \in 0..(Slots[w] - 1)
      <4>1. x \in wheels_'[w][i] <=>
              x \in wheels_[w][i] \/ (x = e /\ <<w, i>> \in InsertEntry(d))
        BY <1>2, Zenon
      <4> QED BY ONLY <2>2, <4>1
    <3> QED BY ONLY <2>0, <2>1, <3>1, <3>2 DEF At
  <2>3. CASE x = e
    <3>1. d > 0 /\ d < kTimingMinute /\ InsertEntry(d) = {<<"second", d - 1>>}
      BY <1>1, <2>3, InsertFacts
    <3>2. d - 1 \in 0..(Slots["second"] - 1)
      BY <3>1, Spans, WheelFacts
    <3>3. e \in wheels_'["second"][d - 1]
      BY <1>2, <2>0, <3>1, <3>2
    <3>4. At(wheels_', "second", left'[x] - 1, x)
      BY <1>1, <2>3, <3>2, <3>3 DEF At
    <3>5. ASSUME NEW w \in Coarse, NEW i \in 0..(Slots[w] - 1), x \in wheels_'[w][i]
          PROVE  FALSE
      <4>1. x \in wheels_[w][i] \/ <<w, i>> \in InsertEntry(d)
        BY <1>2, <2>0, <3>5
      <4>2. <<w, i>> \notin InsertEntry(d)
        BY <2>0, <3>1
      <4>3. x \notin Armed
        BY <2>1, <4>1, <4>2
      <4>4. IsHeld(wheels_, x)
        BY <2>0, <4>1, <4>2 DEF IsHeld
      <4> QED BY <1>0, <4>3, <4>4
    <3> QED BY <3>4, <3>5
  <2> QED BY <2>2, <2>3
<1>5. NoEntryLost'
  <2>1. \A x \in Entry : (kind'[x] # "free") <=> x \in Armed'
    BY DEF Armed
  <2> QED BY <1>2, <2>1 DEF NoEntryLost, Armed
<1> QED BY <1>2, <1>3, <1>4, <1>5 DEF WheelsOK

LEMMA ArmIInv ==
  ASSUME IInv, NEW e \in Entry, NEW d \in Delays,
         NEW request \in Kind \ {"free"}, NEW k \in Kind \ {"free"},
         Arm(e, request, k, d)
  PROVE  IInv'
<1>0. d \in Int /\ kind[e] = "free" /\ tick_' = tick_ /\ lag' = lag
  BY DelaysAreInts DEF Arm
<1>1. CASE InsertEntry(d) = {}
  <2>1. /\ ran' = {<<e, IF d <= 0 THEN 0 ELSE d>>}
        /\ UNCHANGED <<wheels_, kind, asked, wait, left, tick_, lag>>
    BY <1>1 DEF Arm
  <2>2. TypeOK'
    BY <1>0, <2>1 DEF IInv, TypeOK
  <2>3. ShortDelays => NeverEarly'
    <3>1. ASSUME ShortDelays PROVE d <= 0
      <4> SUFFICES ASSUME d > 0 PROVE FALSE
        BY <1>0
      <4>1. d < kTimingMinute
        BY <3>1, DelaysAreInts
      <4>2. InsertEntry(d) = {<<"second", d - 1>>}
        BY <1>0, <4>1, InsertFacts
      <4> QED BY <1>1, <4>2
    <3> QED BY <2>1, <3>1 DEF NeverEarly
  <2>4. TimersInv' /\ InTime' /\ Exact' /\ NoEntryLost'
    BY <2>1 DEF IInv, TimersInv, InTime, Exact, NoEntryLost, Armed, At
  <2> QED BY <2>2, <2>3, <2>4 DEF IInv, ShortDelays
<1>2. CASE InsertEntry(d) # {}
  <2>1. /\ ran' = {}
        /\ wheels_' = Insert(wheels_, {e}, [x \in {e} |-> d])
        /\ kind' = [kind EXCEPT ![e] = k]
        /\ asked' = [asked EXCEPT ![e] = request]
        /\ wait' = [wait EXCEPT ![e] = d]
        /\ left' = [left EXCEPT ![e] = d]
    BY <1>2 DEF Arm
  <2>2. Armed' = Armed \cup {e} /\ e \notin Armed
    BY <1>0, <2>1 DEF Armed, IInv, TypeOK
  <2>3. WheelsOK(wheels_)' /\ InTime' /\ Exact' /\ NoEntryLost'
    <3> DEFINE delay == [x \in {e} |-> d]
    <3>1. delay[e] = d /\ wheels_' = Insert(wheels_, {e}, delay)
      BY <2>1
    <3> HIDE DEF delay
    <3> QED BY <1>0, <1>2, <2>1, <2>2, <3>1, InsertOne
  <2>4. TypeOK'
    BY <1>0, <2>1, <2>3 DEF IInv, TypeOK, WheelsOK
  <2>5. TimersInv'
    <3>1. \A x \in Entry \ {e} : /\ kind'[x] = kind[x] /\ asked'[x] = asked[x]
                                /\ wait'[x] = wait[x] /\ left'[x] = left[x]
      BY <2>1 DEF IInv, TypeOK
    <3>2. /\ kind'[e] = k /\ asked'[e] = request
          /\ wait'[e] = d /\ left'[e] = d
      BY <2>1 DEF IInv, TypeOK
    <3>3. TimersInv
      BY DEF IInv
    <3> QED BY ONLY <1>0, <1>2, <3>1, <3>2, <3>3 DEF TimersInv
  <2> QED BY <2>1, <2>3, <2>4, <2>5 DEF IInv, NeverEarly, ShortDelays
<1> QED BY <1>1, <1>2

LEMMA ExtendLifeIInv ==
  ASSUME IInv, NEW e \in Entry, ExtendLife(e)
  PROVE  IInv'
<1>0. /\ kind[e] = "idle" /\ e \in Armed
      /\ wheels_' = Insert(wheels_, {e}, wait)
      /\ left' = [left EXCEPT ![e] = wait[e]] /\ ran' = {}
      /\ UNCHANGED <<tick_, lag, kind, asked, wait>>
  BY DEF ExtendLife, Armed
<1>1. /\ wait[e] \in Int /\ InsertEntry(wait[e]) # {}
      /\ wait' = [wait EXCEPT ![e] = wait[e]] /\ Armed' = Armed \cup {e}
  BY <1>0, IInvFacts DEF IInv, TypeOK, Armed
<1>2. WheelsOK(wheels_)' /\ InTime' /\ Exact' /\ NoEntryLost'
  BY <1>0, <1>1, InsertOne
<1>3. TypeOK'
  BY <1>0, <1>1, <1>2 DEF IInv, TypeOK, WheelsOK
<1>4. TimersInv'
  BY <1>0, <1>1 DEF IInv, TypeOK, TimersInv
<1> QED BY <1>0, <1>2, <1>3, <1>4 DEF IInv, NeverEarly, ShortDelays

-----------------------------------------------------------------------------
(***************************************************************************)
(* A tick keeps IInv.                                                      *)
(***************************************************************************)
\* TickSlots with what IInv adds.
LEMMA TickHolds ==
  ASSUME IInv, Tick
  PROVE  /\ WheelsOK(wheels_')
         /\ \A v \in WheelType : \A i \in 0..(Slots[v] - 1) : \A e :
              e \in wheels_'[v][i] =>
                \/ /\ v \in Popped(NextTick)
                   /\ i # Slots[v] - 1 /\ e \in wheels_[v][i + 1]
                \/ v \notin Popped(NextTick) /\ e \in wheels_[v][i]
                \/ /\ e \in Running /\ kind[e] = "every"
                   /\ \E j \in {i, i + 1} : <<v, j>> \in InsertEntry(wait[e])
         /\ \A i \in 0..(SecondSlots - 1) : \A e :
              \/ i # SecondSlots - 1 /\ e \in wheels_["second"][i + 1]
              \/ e \in Ran1 /\ kind[e] = "every" /\ <<"second", i>> \in InsertEntry(wait[e])
              => e \in wheels_'["second"][i]
         /\ \A e : IsHeld(wheels_', e) <=> e \in Armed \ Gone
         /\ Running \subseteq Armed
         /\ \A e \in Ran2 :
              /\ e \in Ran1 => kind[e] = "every"
              /\ \E w \in Coarse : e \in Wheels1[w][0]
<1>1. \A e \in Entry : kind[e] = "every" =>
        wait[e] \in Int /\ InsertEntry(wait[e]) # {}
  BY IInvFacts DEF Armed
<1>2. WheelsOK(wheels_) /\ \A e : IsHeld(wheels_, e) <=> e \in Armed
  BY IInvFacts
<1> QED BY <1>1, <1>2, TickSlots

\* A short timer runs only when it is due, and once.
LEMMA ShortRuns ==
  ASSUME IInv, Tick, NEW e \in Armed, wait[e] < kTimingMinute
  PROVE  e \notin Ran2 /\ (e \in Ran1 => left[e] = 1)
<1>1. /\ At(wheels_, "second", left[e] - 1, e)
      /\ \A w \in Coarse : \A i \in 0..(Slots[w] - 1) : e \notin wheels_[w][i]
  BY DEF IInv, Exact
<1>2. /\ WheelsOK(wheels_) /\ e \in Entry /\ left[e] \in Int /\ left[e] >= 1
      /\ wait[e] \in Int
  BY IInvFacts DEF Armed
<1>3. /\ "second" \in WheelType /\ "second" \notin Coarse /\ Coarse \subseteq WheelType
      /\ \A v \in WheelType : Slots[v] \in Nat \ {0}
  BY WheelFacts
<1>4. ASSUME e \in Ran1, left[e] # 1 PROVE FALSE
  <2>1. ~IsHeld(PopUp(wheels_, "second"), e)
    BY <1>2, <1>3, <1>4, ReleasedFacts DEF Ran1
  <2> DEFINE i == left[e] - 2
  <2>2. /\ i \in 0..(Slots["second"] - 1) /\ i # Slots["second"] - 1
        /\ i + 1 = left[e] - 1
    BY <1>1, <1>2, <1>3, <1>4 DEF At
  <2>3. e \in wheels_["second"][i + 1]
    BY <1>1, <2>2 DEF At
  <2> HIDE DEF i
  <2>4. e \in PopUp(wheels_, "second")["second"][i]
    BY <1>2, <1>3, <2>2, <2>3, PopUpMember
  <2> QED BY <1>3, <2>1, <2>2, <2>4 DEF IsHeld
<1>5. ASSUME e \in Ran2 PROVE FALSE
  <2>1. PICK w \in Coarse : e \in Wheels1[w][0]
    BY <1>5, TickHolds
  <2>2. 0 \in 0..(Slots[w] - 1) /\ w # "second" /\ w \in WheelType
    BY <1>3
  <2>3. InsertEntry(wait[e]) = {<<"second", wait[e] - 1>>}
    BY <1>2, InsertFacts, IInvFacts
  <2>4. \A x \in Entry : kind[x] = "every" =>
          wait[x] \in Int /\ InsertEntry(wait[x]) # {}
    BY IInvFacts DEF Armed
  <2>5. e \in wheels_[w][0] \/ <<w, 0>> \in InsertEntry(wait[e])
    BY <1>2, <1>3, <2>1, <2>2, <2>4, PopAndRunMember DEF Wheels1
  <2> QED BY <1>1, <2>2, <2>3, <2>5
<1> QED BY <1>4, <1>5

LEMMA TickIInv ==
  ASSUME IInv, Tick
  PROVE  IInv'
<1>0. /\ WheelsOK(wheels_) /\ tick_ \in 0..(kTimingDay - 1) /\ tick_ \in Nat
      /\ \A e \in Entry : wait[e] \in Int /\ left[e] \in Int
      /\ \A e \in Armed : InsertEntry(wait[e]) # {} /\ left[e] <= wait[e]
      /\ \A e \in Armed : left[e] >= 1
  BY IInvFacts
<1>a. Running \subseteq Armed /\ Gone \subseteq Running /\ Armed \subseteq Entry
  BY TickHolds DEF Gone, Armed
<1>1. \A e \in Entry :
        /\ kind'[e] = IF e \in Gone THEN "free" ELSE kind[e]
        /\ asked'[e] = IF e \in Gone THEN "free" ELSE asked[e]
        /\ wait'[e] = IF e \in Gone THEN 0 ELSE wait[e]
        /\ left'[e] = IF e \notin Armed \/ e \in Gone THEN 0
                      ELSE IF e \in Running THEN wait[e] ELSE left[e] - 1
  BY TickEffects DEF Armed, Gone, Rearmed
<1>2. Armed' = Armed \ Gone
  BY <1>1 DEF Armed
<1>3. tick_' = NextTick /\ NextTick \in 0..(kTimingDay - 1) /\ NextTick \in Nat
  BY <1>0, TickEffects, UntilNext, Spans DEF NextTick
<1>4. TypeOK'
  <2>1. WheelsOK(wheels_')
    BY TickHolds
  <2>2. kind' \in [Entry -> Kind] /\ asked' \in [Entry -> Kind]
    BY TickEffects DEF IInv, TypeOK, Kind
  <2>3. wait' \in [Entry -> Delays \cup {0}]
    BY TickEffects DEF IInv, TypeOK
  <2>4. left' \in [Entry -> Int]
    <3>1. left' = [e \in Entry |-> left'[e]]
      BY TickEffects
    <3>2. \A e \in Entry : left'[e] \in Int
      BY <1>0, <1>1
    <3> QED BY <3>1, <3>2
  <2>5. ran' \subseteq Entry \X Int
    <3>1. Ran1 \subseteq Entry /\ Ran2 \subseteq Entry
      BY <1>a DEF Running
    <3>2. \A e \in Entry : left[e] - 1 \in Int /\ wait[e] \in Int
      <4> TAKE e \in Entry
      <4>1. left[e] \in Int /\ wait[e] \in Int
        BY <1>0
      <4> QED BY ONLY <4>1
    <3> QED BY <3>1, <3>2, TickEffects
  <2>6. lag' \in {NoTs} \cup 0..MaxLag
    BY TickEffects, ClockAssumption
  <2> QED BY <1>3, <2>1, <2>2, <2>3, <2>4, <2>5, <2>6 DEF TypeOK, WheelsOK
<1>5. TimersInv'
  <2> SUFFICES ASSUME NEW e \in Entry
               PROVE  /\ kind'[e] = "free" => left'[e] = 0 /\ wait'[e] = 0
                      /\ kind'[e] # "free" => InsertEntry(wait'[e]) # {} /\ left'[e] <= wait'[e]
                      /\ asked'[e] = "free" <=> kind'[e] = "free"
    BY DEF TimersInv
  <2>1. /\ kind[e] = "free" => left[e] = 0 /\ wait[e] = 0
        /\ asked[e] = "free" <=> kind[e] = "free"
    BY DEF IInv, TimersInv
  <2>2. CASE e \in Gone
    BY <1>1, <2>2
  <2>3. CASE e \notin Armed
    BY <1>1, <1>a, <2>1, <2>3 DEF Armed
  <2>4. CASE e \in Armed \ Gone
    <3>1. /\ kind'[e] = kind[e] /\ asked'[e] = asked[e] /\ wait'[e] = wait[e]
          /\ left'[e] = IF e \in Running THEN wait[e] ELSE left[e] - 1
      BY <1>1, <2>4
    <3>2. /\ kind[e] # "free" /\ InsertEntry(wait[e]) # {} /\ left[e] <= wait[e]
          /\ wait[e] \in Int /\ left[e] \in Int
      BY <1>0, <2>4 DEF Armed
    <3>3. left'[e] <= wait[e]
      BY <3>1, <3>2
    <3> QED BY <2>1, <3>1, <3>2, <3>3
  <2> QED BY <2>2, <2>3, <2>4
<1>6. InTime'
  <2> SUFFICES ASSUME NEW v \in WheelType, NEW i \in 0..(Slots[v] - 1),
                      NEW e \in wheels_'[v][i]
               PROVE  PoppedBy(v, i, NextTick) <= left'[e]
    BY <1>3 DEF InTime
  <2>0. i \in Nat /\ i + 1 \in Nat
    OBVIOUS
  <2>1. e \in Armed \ Gone
    BY TickHolds DEF IsHeld
  <2>2. /\ left'[e] = IF e \in Running THEN wait[e] ELSE left[e] - 1
        /\ wait[e] \in Int /\ left[e] \in Int /\ left[e] <= wait[e]
    BY <1>0, <1>1, <1>a, <2>1
  <2>3. /\ PoppedBy(v, i, tick_) \in Nat /\ PoppedBy(v, i, NextTick) \in Nat
        /\ PoppedBy(v, i + 1, tick_) \in Nat
        /\ v \in Popped(NextTick) =>
             PoppedBy(v, i, NextTick) <= PoppedBy(v, i + 1, tick_) - 1
        /\ v \notin Popped(NextTick) =>
             PoppedBy(v, i, NextTick) = PoppedBy(v, i, tick_) - 1
    <3>1. tick_ \in 0..(kTimingDay - 1) /\ NextTick = (tick_ + 1) % kTimingDay
      BY <1>0 DEF NextTick
    <3>2. PoppedBy(v, i + 1, tick_) \in Nat
      BY ONLY <2>0, <3>1, v \in WheelType, SlotAfterTick
    <3> QED BY ONLY <2>0, <3>1, <3>2, v \in WheelType, SlotAfterTick
  <2>4. \A j \in 0..(Slots[v] - 1) :
          e \in wheels_[v][j] => PoppedBy(v, j, tick_) <= left[e]
    BY DEF IInv, InTime
  <2>5. CASE v \in Popped(NextTick) /\ i # Slots[v] - 1 /\ e \in wheels_[v][i + 1]
    <3>1. i + 1 \in 0..(Slots[v] - 1)
      BY <2>5, WheelFacts
    <3>2. PoppedBy(v, i + 1, tick_) <= left[e]
      BY <2>4, <2>5, <3>1
    <3> QED BY <2>2, <2>3, <2>5, <3>2
  <2>6. CASE v \notin Popped(NextTick) /\ e \in wheels_[v][i]
    BY <2>2, <2>3, <2>4, <2>6
  <2>7. CASE e \in Running /\ \E j \in {i, i + 1} : <<v, j>> \in InsertEntry(wait[e])
    BY <1>3, <2>0, <2>2, <2>7, InsertInTime
  <2> QED BY <2>5, <2>6, <2>7, TickHolds
<1>7. NoEntryLost'
  <2>1. \A e : IsHeld(wheels_', e) <=> e \in Armed \ Gone
    BY TickHolds
  <2> QED BY <1>2, <2>1 DEF NoEntryLost, Armed
<1>8. \A e \in Armed \ Gone : left'[e] >= 1
  <2> TAKE e \in Armed \ Gone
  <2>1. IsHeld(wheels_', e) /\ e \in Entry
    BY <1>a, TickHolds
  <2>2. \A w \in WheelType : \A i \in 0..(Slots[w] - 1) :
          e \in wheels_'[w][i] => PoppedBy(w, i, NextTick) <= left'[e]
    BY <1>3, <1>6 DEF InTime
  <2>3. left'[e] \in Int
    BY <1>4, <2>1 DEF TypeOK
  <2> QED BY <1>3, <2>1, <2>2, <2>3, HeldIsNotDue
<1>9. Exact'
  <2> SUFFICES ASSUME NEW e \in Armed \ Gone, wait[e] < kTimingMinute
               PROVE  /\ At(wheels_', "second", left'[e] - 1, e)
                      /\ \A w \in Coarse : \A i \in 0..(Slots[w] - 1) : e \notin wheels_'[w][i]
    BY <1>1, <1>2, <1>a DEF Exact, At
  <2>0. /\ "second" \in WheelType /\ Coarse \subseteq WheelType /\ "second" \notin Coarse
        /\ Slots["second"] = SecondSlots /\ SecondSlots \in Nat
        /\ \A w \in WheelType : Slots[w] \in Nat
    BY WheelFacts
  <2>1. /\ e \in Entry /\ wait[e] \in Int /\ left[e] \in Int /\ wait[e] > 0
        /\ InsertEntry(wait[e]) = {<<"second", wait[e] - 1>>}
    BY <1>0, <1>a, InsertFacts
  <2>2. /\ At(wheels_, "second", left[e] - 1, e)
        /\ \A w \in Coarse : \A i \in 0..(Slots[w] - 1) : e \notin wheels_[w][i]
    BY DEF IInv, Exact
  <2>3. left'[e] = IF e \in Ran1 THEN wait[e] ELSE left[e] - 1
    BY <1>1, <2>1, ShortRuns DEF Running
  <2>4. e \in wheels_'["second"][left'[e] - 1] /\ left'[e] - 1 \in 0..(SecondSlots - 1)
    <3>1. CASE e \in Ran1
      <4>1. kind[e] = "every"
        BY <3>1 DEF Gone, Running
      <4>2. wait[e] - 1 \in 0..(SecondSlots - 1)
        BY <2>0, <2>1, Spans
      <4>3. e \in wheels_'["second"][wait[e] - 1]
        BY <2>1, <3>1, <4>1, <4>2, TickHolds
      <4> QED BY <2>3, <3>1, <4>2, <4>3
    <3>2. CASE e \notin Ran1
      <4> DEFINE i == left[e] - 2
      <4>1. left'[e] = left[e] - 1 /\ left[e] >= 2
        BY <1>8, <2>1, <2>3, <3>2
      <4>2. /\ i \in 0..(SecondSlots - 1) /\ i # SecondSlots - 1
            /\ i + 1 = left[e] - 1 /\ i = left'[e] - 1
        BY <2>0, <2>1, <2>2, <4>1 DEF At
      <4>3. e \in wheels_["second"][i + 1]
        BY <2>2, <4>2 DEF At
      <4> HIDE DEF i
      <4>4. e \in wheels_'["second"][i]
        BY <4>2, <4>3, TickHolds
      <4> QED BY <4>2, <4>4
    <3> QED BY <3>1, <3>2
  <2>5. ASSUME NEW w \in Coarse, NEW i \in 0..(Slots[w] - 1), e \in wheels_'[w][i]
        PROVE  FALSE
    <3>1. w \in WheelType /\ w # "second"
      BY <2>0
    <3>2. \A j : <<w, j>> \notin InsertEntry(wait[e])
      BY <2>1, <3>1
    <3>3. e \in wheels_[w][i] \/ (i # Slots[w] - 1 /\ e \in wheels_[w][i + 1])
      BY <2>5, <3>1, <3>2, TickHolds
    <3>4. i # Slots[w] - 1 => i + 1 \in 0..(Slots[w] - 1)
      BY <2>0, <3>1
    <3> QED BY <2>2, <3>3, <3>4
  <2> QED BY <2>0, <2>4, <2>5 DEF At
<1>10. ShortDelays => NeverEarly'
  <2> SUFFICES ASSUME ShortDelays PROVE NeverEarly'
    OBVIOUS
  <2>1. \A e \in Armed : wait[e] < kTimingMinute
    <3> TAKE e \in Armed
    <3>1. wait[e] \in Delays \cup {0}
      BY DEF IInv, TypeOK, Armed
    <3>2. \A d \in Delays \cup {0} : d < kTimingMinute
      BY DelaysAreInts, Spans
    <3> QED BY ONLY <3>1, <3>2
  <2>2. Ran2 = {} /\ \A e \in Ran1 : e \in Armed /\ left[e] = 1
    BY <1>a, <2>1, ShortRuns DEF Running
  <2>3. ran' = {<<e, left[e] - 1>> : e \in Ran1}
    BY <2>2, TickEffects
  <2>4. \A r \in ran' : r[2] = 0
    BY <2>2, <2>3
  <2> QED BY <2>4 DEF NeverEarly
<1> QED BY <1>4, <1>5, <1>6, <1>7, <1>9, <1>10 DEF IInv, ShortDelays

LEMMA NextIInv ==
  ASSUME IInv, [Next]_vars
  PROVE  IInv'
<1>1. ASSUME NEW e \in Entry, NEW d \in AfterDelays, RunAfter(e, d)
      PROVE  IInv'
  BY <1>1, ArmIInv DEF RunAfter, Delays, Kind
<1>2. ASSUME NEW e \in Entry, NEW d \in EveryIntervals,
             NEW c \in EveryCallers, RunEvery(e, d, c)
      PROVE  IInv'
  <2> DEFINE k == IF c = "loop" THEN "after" ELSE "every"
  <2>1. k \in Kind \ {"free"} /\ "every" \in Kind \ {"free"} /\ d \in Delays
    BY DEF Kind, Delays
  <2>2. Arm(e, "every", k, d)
    BY <1>2 DEF RunEvery
  <2> HIDE DEF k
  <2> QED BY <2>1, <2>2, ArmIInv
<1>3. ASSUME NEW e \in Entry, NEW d \in IdleDelays, EnableCheckIdleTime(e, d)
      PROVE  IInv'
  BY <1>3, ArmIInv DEF EnableCheckIdleTime, Delays, Kind
<1>4. ASSUME NEW e \in Entry, ExtendLife(e)
      PROVE  IInv'
  BY <1>4, ExtendLifeIInv
<1>5. ASSUME UNCHANGED <<wheels_, tick_, kind, asked, wait, left, ran>>,
             lag' \in {NoTs} \cup 0..MaxLag
      PROVE  IInv'
  BY <1>5 DEF IInv, TypeOK, TimersInv, InTime, Exact, At, Armed, NoEntryLost,
              NeverEarly, ShortDelays
<1>6. CASE Elapse \/ FirstReading \/ UNCHANGED vars
  <2>1. lag' \in {NoTs} \cup 0..MaxLag
    BY <1>6, ClockAssumption DEF Elapse, FirstReading, vars, IInv, TypeOK, NoTs
  <2> QED BY <1>5, <1>6, <2>1 DEF Elapse, FirstReading, vars
<1>7. CASE Tick
  BY <1>7, TickIInv
<1> QED BY <1>1, <1>2, <1>3, <1>4, <1>6, <1>7 DEF Next, OnTimer

-----------------------------------------------------------------------------
\* The invariant behind every theorem of this module: each slot that holds an
\* entry is popped before the entry is overdue.
THEOREM InductiveInvariant == Spec => []IInv
<1>1. Init => IInv
  BY InitIInv
<1>2. IInv /\ [Next]_vars => IInv'
  BY NextIInv
<1> QED BY <1>1, <1>2, PTL DEF Spec

\* Type correctness of the wheel.
THEOREM TypeCorrect == Spec => []TypeOK
<1>1. IInv => TypeOK
  BY DEF IInv
<1> QED BY <1>1, InductiveInvariant, PTL

\* No armed timer is overdue, whatever its delay and however often its life is
\* extended (TimingWheel::onTimer pops the slots of each wheel in time).
THEOREM TimersNeverLate == Spec => []NeverLate
<1>1. IInv => NeverLate
  BY IInvFacts DEF NeverLate
<1> QED BY <1>1, InductiveInvariant, PTL

\* An armed entry is always held by a slot, and a dead one by none, so that
\* no callback is forgotten and none runs twice (TimingWheel::popUp).
THEOREM TimersNotLost == Spec => []NoEntryLost
<1>1. IInv => NoEntryLost
  BY DEF IInv
<1> QED BY <1>1, InductiveInvariant, PTL

\* With delays below a minute no callback runs before its delay has gone by: the
\* wheel of seconds counts exactly (TimingWheel::onTimer with insertSecondEntry).
THEOREM ShortTimersNeverEarly ==
  ASSUME ShortDelays
  PROVE  Spec => []NeverEarly
<1>1. IInv => NeverEarly
  BY DEF IInv
<1> QED BY <1>1, InductiveInvariant, PTL

-----------------------------------------------------------------------------
(***************************************************************************)
(* With no runEvery from the loop's own thread, what was armed is what was *)
(* asked for; if no delay is beyond the wheel of days, the wheel           *)
(* implements Timers.                                                      *)
(***************************************************************************)
AcceptedDelays == \A d \in Delays : d > 0 => d \div kTimingDay <= DaySlots

LEMMA KindIsAsked ==
  ASSUME EveryCallers \subseteq {"other"}
  PROVE  Spec => [](kind = asked)
<1>1. Init => kind = asked
  BY DEF Init
<1>2. ASSUME kind = asked, [Next]_vars
      PROVE  kind' = asked'
  <2> USE <1>2
  <2>1. ASSUME NEW e \in Entry, NEW d, NEW k, Arm(e, k, k, d)
        PROVE  kind' = asked'
    BY <2>1 DEF Arm
  <2>2. ASSUME NEW e \in Entry, NEW d \in EveryIntervals,
               NEW c \in EveryCallers, RunEvery(e, d, c)
        PROVE  kind' = asked'
    <3>1. c # "loop"
      OBVIOUS
    <3> QED BY <2>1, <2>2, <3>1 DEF RunEvery
  <2>3. CASE Tick
    BY <2>3 DEF Tick
  <2> QED BY <2>1, <2>2, <2>3
          DEF Next, OnTimer, RunAfter, EnableCheckIdleTime, ExtendLife,
              Elapse, FirstReading, vars
<1>3. kind = asked /\ [Next]_vars => (kind = asked)'
  BY <1>2
<1> QED BY <1>1, <1>3, PTL DEF Spec

\* A periodic timer posted to the loop stays armed for ever: its callback inserts
\* its successor (TimingWheel::runEvery).
THEOREM PeriodicTimersStayArmed ==
  ASSUME EveryCallers \subseteq {"other"}
  PROVE  Spec => PeriodicStaysArmed
<1> DEFINE Stays == \A e \in Entry : asked[e] = "every" => asked'[e] = "every"
<1>1. ASSUME IInv, kind = asked, [Next]_vars
      PROVE  Stays
  <2> USE <1>1
  <2>1. ASSUME NEW e \in Entry, NEW request, NEW k, NEW d, Arm(e, request, k, d)
        PROVE  Stays
    BY <2>1 DEF Arm, IInv, TypeOK
  <2>2. CASE Tick
    BY <2>2, TickEffects DEF Gone
  <2> QED BY <2>1, <2>2
          DEF Next, OnTimer, RunAfter, RunEvery, EnableCheckIdleTime,
              ExtendLife, Elapse, FirstReading, vars
<1>2. IInv /\ kind = asked /\ [Next]_vars => Stays
  BY <1>1
<1> QED BY <1>2, InductiveInvariant, KindIsAsked, PTL DEF Spec, PeriodicStaysArmed

\* One armed request is one armed timer.
LEMMA ArmRefines ==
  ASSUME IInv, AcceptedDelays,
         NEW e \in Entry, NEW d \in Delays,
         NEW k \in Kind \ {"free"}, Arm(e, k, k, d)
  PROVE  Promise!Arm(e, k, d)
<1>1. d \in Int
  BY DelaysAreInts
<1>2. kind[e] = "free" /\ asked[e] = "free"
  BY DEF Arm, IInv, TimersInv
<1>3. CASE d <= 0
  <2>1. InsertEntry(d) = {}
    BY <1>1, <1>3, InsertFacts
  <2> QED BY <1>2, <1>3, <2>1 DEF Arm, Promise!Arm
<1>4. CASE d > 0
  <2>1. InsertEntry(d) # {} /\ ~(d <= 0)
    BY <1>1, <1>4, InsertFacts DEF AcceptedDelays
  <2> QED BY <1>2, <2>1 DEF Arm, Promise!Arm
<1> QED BY <1>1, <1>3, <1>4

\* A tick runs every timer that is due, and besides these only coarse ones.
LEMMA TickRefines ==
  ASSUME IInv, kind = asked, Tick
  PROVE  Promise!Tick
<1> DEFINE due == {e \in Armed : left[e] = 1}
           early == Running \ due
           twice == Ran1 \cap Ran2
<1>1. /\ Promise!Armed = Armed
      /\ Promise!Coarse = {e \in Armed : wait[e] >= kTimingMinute}
  BY DEF Promise!Armed, Promise!Coarse, Armed
<1>2. /\ Running \subseteq Armed /\ Armed \subseteq Entry
      /\ \A e \in Entry : wait[e] \in Int /\ left[e] \in Int
  BY IInvFacts, TickHolds DEF Armed
<1>3. due \subseteq Running
  <2> SUFFICES ASSUME NEW e \in Armed, left[e] = 1, e \notin Running PROVE FALSE
    OBVIOUS
  <2>1. e \notin Gone /\ e \notin Rearmed(Running) /\ e \in Entry /\ kind[e] # "free"
    BY DEF Gone, Rearmed, Armed
  <2>2. left'[e] = 0 /\ IsHeld(wheels_', e)
    BY <2>1, TickEffects, TickHolds
  <2> DEFINE after == wheels_'
             t == tick_'
             l == left'[e]
  <2>3. /\ t \in 0..(kTimingDay - 1) /\ l = 0 /\ l \in Int /\ IsHeld(after, e)
        /\ \A w \in WheelType : \A i \in 0..(Slots[w] - 1) :
             e \in after[w][i] => PoppedBy(w, i, t) <= l
    BY <2>2, TickIInv DEF IInv, TypeOK, InTime
  <2> HIDE DEF after, t, l
  <2>4. l >= 1
    BY ONLY <2>3, HeldIsNotDue
  <2> QED BY ONLY <2>3, <2>4
<1>4. early \in SUBSET Promise!Coarse
  <2> SUFFICES ASSUME NEW e \in Running, left[e] # 1
               PROVE  wait[e] >= kTimingMinute /\ e \in Armed
    BY <1>1, <1>2
  <2> QED BY <1>2, ShortRuns, Spans DEF Running
<1>5. due \cup early = Running
  BY <1>3
<1>6. Gone = {e \in Running : asked[e] # "every"}
  BY DEF Gone
<1>7. twice \in SUBSET ((Running \cap Promise!Coarse) \ Gone)
  <2> SUFFICES ASSUME NEW e \in twice
               PROVE  e \in Running /\ e \in Armed /\ wait[e] >= kTimingMinute /\ e \notin Gone
    BY <1>1
  <2>1. e \in Running /\ e \in Armed
    BY <1>2 DEF Running
  <2>2. kind[e] = "every"
    BY TickHolds
  <2>3. ~(wait[e] < kTimingMinute)
    BY <2>1, ShortRuns
  <2> QED BY <1>2, <2>1, <2>2, <2>3, Spans DEF Gone
<1>8. ran' = {<<e, left[e] - 1>> : e \in Running} \cup {<<e, wait[e]>> : e \in twice}
  <2>1. ran' = {<<e, left[e] - 1>> : e \in Ran1}
                 \cup {<<e, IF e \in Ran1 THEN wait[e] ELSE left[e] - 1>> : e \in Ran2}
    BY TickEffects
  <2>2. {<<e, IF e \in Ran1 THEN wait[e] ELSE left[e] - 1>> : e \in Ran2} =
          {<<e, wait[e]>> : e \in twice} \cup {<<e, left[e] - 1>> : e \in Ran2 \ Ran1}
    OBVIOUS
  <2>3. {<<e, left[e] - 1>> : e \in Running} =
          {<<e, left[e] - 1>> : e \in Ran1} \cup {<<e, left[e] - 1>> : e \in Ran2 \ Ran1}
    BY DEF Running
  <2> QED BY <2>1, <2>2, <2>3
<1>9. /\ asked' = [e \in Entry |-> IF e \in Gone THEN "free" ELSE asked[e]]
      /\ wait' = [e \in Entry |-> IF e \in Gone THEN 0 ELSE wait[e]]
  BY TickEffects
<1>10. left' = [e \in Entry |-> CASE e \in Gone -> 0
                     [] e \in Running \ Gone -> wait[e]
                     [] e \in Promise!Armed \ Running -> left[e] - 1
                     [] OTHER -> left[e]]
  <2>1. left' = [e \in Entry |->
                  IF kind[e] = "free" \/ e \in Gone THEN 0
                  ELSE IF e \in Rearmed(Running) THEN wait[e] ELSE left[e] - 1]
    BY TickEffects
  <2>2. ASSUME NEW e \in Entry
        PROVE  (IF kind[e] = "free" \/ e \in Gone THEN 0
                ELSE IF e \in Rearmed(Running) THEN wait[e] ELSE left[e] - 1)
               = CASE e \in Gone -> 0
                   [] e \in Running \ Gone -> wait[e]
                   [] e \in Armed \ Running -> left[e] - 1
                   [] OTHER -> left[e]
    <3>1. /\ e \in Armed <=> kind[e] # "free"
          /\ e \in Rearmed(Running) <=> e \in Running \ Gone
          /\ e \in Gone => e \in Running
          /\ e \in Running => e \in Armed
          /\ e \notin Armed => left[e] = 0
      BY <1>2 DEF Armed, Rearmed, Gone, IInv, TimersInv
    <3>2. CASE e \in Gone
      BY <3>1, <3>2
    <3>3. CASE e \in Running \ Gone
      BY <3>1, <3>3
    <3>4. CASE e \in Armed \ Running
      BY <3>1, <3>4
    <3>5. CASE e \notin Armed
      BY <3>1, <3>5
    <3> QED BY <3>1, <3>2, <3>3, <3>4, <3>5
  <2> QED BY <1>1, <2>1, <2>2
<1> DEFINE TickWith(running, gone, again) ==
      /\ again \in SUBSET ((running \cap Promise!Coarse) \ gone)
      /\ ran' = {<<e, left[e] - 1>> : e \in running}
                   \cup {<<e, wait[e]>> : e \in again}
      /\ asked' = [e \in Entry |-> IF e \in gone THEN "free" ELSE asked[e]]
      /\ wait' = [e \in Entry |-> IF e \in gone THEN 0 ELSE wait[e]]
      /\ left' = [e \in Entry |-> CASE e \in gone -> 0
                      [] e \in running \ gone -> wait[e]
                      [] e \in Promise!Armed \ running -> left[e] - 1
                      [] OTHER -> left[e]]
<1>11. TickWith(due \cup early, {e \in due \cup early : asked[e] # "every"}, twice)
  <2>1. TickWith(Running, Gone, twice)
    BY <1>7, <1>8, <1>9, <1>10
  <2> HIDE DEF TickWith, due, early, twice
  <2> QED BY <1>5, <1>6, <2>1
<1>12. due = {e \in Promise!Armed : left[e] = 1}
  BY <1>1
<1> HIDE DEF early, twice
<1> QED BY <1>4, <1>11, <1>12 DEF Promise!Tick

\* The wheel keeps EventLoop's promise (module Timers) for delays of every length
\* it accepts: callbacks run by the tick their delay ends, extended lives
\* included, and on that very tick when the delay is below a minute.
THEOREM WheelImplementsTimers ==
  ASSUME AcceptedDelays, EveryCallers \subseteq {"other"}
  PROVE  Spec => ImplementsTimers
<1>1. Init => Promise!Init
  BY DEF Init, Promise!Init
<1>2. ASSUME IInv, kind = asked, [Next]_vars
      PROVE  [Promise!Next]_Promise!vars
  <2> USE <1>2
  <2>1. ASSUME NEW e \in Entry, NEW d \in AfterDelays, RunAfter(e, d)
        PROVE  Promise!Next
    <3>1. Promise!RunAfter(e, d)
      BY <2>1, ArmRefines DEF RunAfter, Promise!RunAfter, Delays, Kind
    <3> QED BY <3>1 DEF Promise!Next
  <2>2. ASSUME NEW e \in Entry, NEW d \in EveryIntervals,
               NEW c \in EveryCallers, RunEvery(e, d, c)
        PROVE  Promise!Next
    <3>1. Arm(e, "every", "every", d)
      BY <2>2 DEF RunEvery
    <3>2. Promise!RunEvery(e, d)
      BY <3>1, ArmRefines DEF Promise!RunEvery, Delays, Kind
    <3> QED BY <3>2 DEF Promise!Next
  <2>3. ASSUME NEW e \in Entry, NEW d \in IdleDelays, EnableCheckIdleTime(e, d)
        PROVE  Promise!Next
    <3>1. Promise!EnableCheckIdleTime(e, d)
      BY <2>3, ArmRefines
         DEF EnableCheckIdleTime, Promise!EnableCheckIdleTime, Delays, Kind
    <3> QED BY <3>1 DEF Promise!Next
  <2>4. ASSUME NEW e \in Entry, ExtendLife(e)
        PROVE  Promise!Next
    <3>1. Promise!ExtendLife(e)
      BY <2>4 DEF ExtendLife, Promise!ExtendLife
    <3> QED BY <3>1 DEF Promise!Next
  <2>5. CASE Tick
    BY <2>5, TickRefines DEF Promise!Next
  <2>6. CASE Elapse \/ FirstReading \/ UNCHANGED vars
    BY <2>6 DEF Elapse, FirstReading, vars, Promise!vars
  <2> QED BY <2>1, <2>2, <2>3, <2>4, <2>5, <2>6 DEF Next, OnTimer
<1>3. IInv /\ kind = asked /\ [Next]_vars => [Promise!Next]_Promise!vars
  BY <1>2
<1> QED BY <1>1, <1>3, InductiveInvariant, KindIsAsked, PTL
        DEF Spec, ImplementsTimers, Promise!Spec

=============================================================================
