------------------------------- MODULE Timers -------------------------------
(***************************************************************************)
(* What the timers of an event loop promise, with no wheel in sight: a     *)
(* one-shot timer's callback runs once, on the tick that ends its delay; a *)
(* periodic one runs on every multiple of its interval; an idle guard runs *)
(* when a whole idle period has gone by since it was last extended.  A     *)
(* timer of a minute or more may run early, but never late: that is all    *)
(* the wheel makes of it.  TimingWheel is shown to implement this module.  *)
(***************************************************************************)
EXTENDS Integers

CONSTANTS
  Entry,            \* the timers that may be armed at the same time
  Minute,           \* ticks of the delays from which a timer may be early
  AfterDelays,      \* delays, in ticks, asked of runAfter
  EveryIntervals,   \* intervals asked of runEvery
  IdleDelays        \* idle periods asked of enableCheckIdleTime

VARIABLES
  kind,   \* what each timer is armed as; "free" when it is not armed
  wait,   \* the delay or interval it was armed with
  left,   \* ticks until its callback is due
  ran     \* the callbacks run by the last step, each with the ticks it was
          \* early by

vars == <<kind, wait, left, ran>>

Kind == {"free", "after", "every", "idle"}
Delays == AfterDelays \cup EveryIntervals \cup IdleDelays

Armed == {e \in Entry : kind[e] # "free"}

TypeOK ==
  /\ kind \in [Entry -> Kind]
  /\ wait \in [Entry -> Delays \cup {0}]
  /\ left \in [Entry -> Delays \cup Nat]
  /\ ran \subseteq Entry \X Nat

Init ==
  /\ kind = [e \in Entry |-> "free"]
  /\ wait = [e \in Entry |-> 0]
  /\ left = [e \in Entry |-> 0]
  /\ ran = {}

\* Arm e for d ticks; a delay that is not positive runs the callback at once.
Arm(e, k, d) ==
  /\ kind[e] = "free"
  /\ IF d <= 0
       THEN /\ ran' = {<<e, 0>>}
            /\ UNCHANGED <<kind, wait, left>>
       ELSE /\ ran' = {}
            /\ kind' = [kind EXCEPT ![e] = k]
            /\ wait' = [wait EXCEPT ![e] = d]
            /\ left' = [left EXCEPT ![e] = d]

RunAfter(e, d) == Arm(e, "after", d)
RunEvery(e, d) == Arm(e, "every", d)
EnableCheckIdleTime(e, d) == Arm(e, "idle", d)

\* Activity on the guarded connection restarts the idle period.
ExtendLife(e) ==
  /\ kind[e] = "idle"
  /\ left' = [left EXCEPT ![e] = wait[e]]
  /\ ran' = {}
  /\ UNCHANGED <<kind, wait>>

Coarse == {e \in Armed : wait[e] >= Minute}

\* One tick: the timers whose last tick this is run, and with them any coarse
\* ones; a coarse periodic timer may run twice.
Tick ==
  LET due == {e \in Armed : left[e] = 1}
  IN \E early \in SUBSET Coarse :
       LET running == due \cup early
           gone == {e \in running : kind[e] # "every"}
       IN /\ \E twice \in SUBSET ((running \cap Coarse) \ gone) :
               ran' = {<<e, left[e] - 1>> : e \in running}
                        \cup {<<e, wait[e]>> : e \in twice}
          /\ kind' = [e \in Entry |-> IF e \in gone THEN "free" ELSE kind[e]]
          /\ wait' = [e \in Entry |-> IF e \in gone THEN 0 ELSE wait[e]]
          /\ left' = [e \in Entry |-> CASE e \in gone -> 0
                                        [] e \in running \ gone -> wait[e]
                                        [] e \in Armed \ running -> left[e] - 1
                                        [] OTHER -> left[e]]

Next ==
  \/ \E e \in Entry :
       \/ \E d \in AfterDelays : RunAfter(e, d)
       \/ \E d \in EveryIntervals : RunEvery(e, d)
       \/ \E d \in IdleDelays : EnableCheckIdleTime(e, d)
       \/ ExtendLife(e)
  \/ Tick

Spec == Init /\ [][Next]_vars

=============================================================================
