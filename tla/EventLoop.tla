----------------------------- MODULE EventLoop -----------------------------
(***************************************************************************)
(* Posting work to event loops (network/net/EventLoop.cpp and              *)
(* PipeEvent.cpp): runInLoop, weakup, the round of loop() and              *)
(* runFunctions, for several loops and for threads without a loop.         *)
(*                                                                         *)
(* A task is one call of runInLoop.  Its origin says where the call is     *)
(* made: in a thread without a loop, in an event or timer handler of a     *)
(* loop, or in the body of another task.  A loop's task queue is guarded   *)
(* by func_mtx_; runFunctions keeps the mutex while it runs the tasks, and *)
(* runInLoop keeps it while it writes to the wake-up pipe.                 *)
(***************************************************************************)
EXTENDS Integers, Sequences

CONSTANTS
  Loop,       \* event loops, each with the thread that runs it
  Poster,     \* other threads
  Task,       \* calls of runInLoop
  Origin,     \* where each call is made: a poster, a loop's handler, a task
  Target,     \* the loop whose runInLoop it is
  PipeCap,    \* writes the wake-up pipe takes before one blocks
  NoOwner,    \* nobody holds a mutex
  NoTask      \* no call in progress

Thread == Loop \cup Poster

ASSUME TasksAssumption ==
  /\ Target \in [Task -> Loop]
  /\ Origin \in [Task -> Thread \cup Task]
  /\ Loop \cap Poster = {}
  /\ Thread \cap Task = {}
  /\ NoOwner \notin Thread
  /\ NoTask \notin Task

ASSUME PipeAssumption == PipeCap \in Nat \ {0}

VARIABLES
  pc,          \* where each loop is in its round
  functions_,  \* the task queue of each loop
  func_mtx_,   \* who holds the mutex of that queue
  pipe_,       \* tokens in the wake-up pipe; NoPipe before the first weakup
  pending,     \* calls each loop's handlers have still to make
  todo,        \* calls each thread has to make in the code it is running
  stage,       \* how far the call it is making has come
  call,        \* that call
  ran          \* ghost: how often each task has run

vars == <<pc, functions_, func_mtx_, pipe_, pending, todo, stage, call, ran>>

NoPipe == -1
Pc == {"wait", "dispatch", "lock", "run", "body"}
Stage == {"none", "lock", "open", "write"}

CallsOf(origin) == {c \in Task : Origin[c] = origin}

Init ==
  /\ pc = [l \in Loop |-> "wait"]
  /\ functions_ = [l \in Loop |-> <<>>]
  /\ func_mtx_ = [l \in Loop |-> NoOwner]
  /\ pipe_ = [l \in Loop |-> NoPipe]
  /\ pending = [l \in Loop |-> CallsOf(l)]
  /\ todo = [t \in Thread |-> IF t \in Poster THEN CallsOf(t) ELSE {}]
  /\ stage = [t \in Thread |-> "none"]
  /\ call = [t \in Thread |-> NoTask]
  /\ ran = [c \in Task |-> 0]

-----------------------------------------------------------------------------
(***************************************************************************)
(* runInLoop, by thread t.                                                 *)
(***************************************************************************)

\* t is running code of its own, a handler or a task, and not inside a call.
Running(t) ==
  /\ stage[t] = "none"
  /\ t \in Poster \/ (t \in Loop /\ pc[t] \in {"dispatch", "body"})

Idle(l) == stage[l] = "none" /\ todo[l] = {}

\* In the loop's own thread the task runs on the spot.
CallInline(t, c) ==
  /\ Running(t)
  /\ c \in todo[t]
  /\ Target[c] = t
  /\ ran' = [ran EXCEPT ![c] = @ + 1]
  /\ todo' = [todo EXCEPT ![t] = (@ \ {c}) \cup CallsOf(c)]
  /\ UNCHANGED <<pc, functions_, func_mtx_, pipe_, pending, stage, call>>

\* Mutant: runInLoop queues the task in the loop's own thread too.
CallAlwaysQueued(t, c) ==
  /\ Running(t)
  /\ c \in todo[t]
  /\ todo' = [todo EXCEPT ![t] = @ \ {c}]
  /\ stage' = [stage EXCEPT ![t] = "lock"]
  /\ call' = [call EXCEPT ![t] = c]
  /\ UNCHANGED <<pc, functions_, func_mtx_, pipe_, pending, ran>>

\* From another thread it waits for the mutex.
CallFromOutside(t, c) ==
  /\ Running(t)
  /\ c \in todo[t]
  /\ Target[c] # t
  /\ todo' = [todo EXCEPT ![t] = @ \ {c}]
  /\ stage' = [stage EXCEPT ![t] = "lock"]
  /\ call' = [call EXCEPT ![t] = c]
  /\ UNCHANGED <<pc, functions_, func_mtx_, pipe_, pending, ran>>

Push(t) ==
  LET l == Target[call[t]]
  IN /\ stage[t] = "lock"
     /\ func_mtx_[l] = NoOwner
     /\ func_mtx_' = [func_mtx_ EXCEPT ![l] = t]
     /\ functions_' = [functions_ EXCEPT ![l] = Append(@, call[t])]
     /\ stage' = [stage EXCEPT ![t] =
                    IF pipe_[l] = NoPipe THEN "open" ELSE "write"]
     /\ UNCHANGED <<pc, pipe_, pending, todo, call, ran>>

\* Mutant: the call that creates the pipe writes nothing to it.
OpenPipeNoWrite(t) ==
  LET l == Target[call[t]]
  IN /\ stage[t] = "open"
     /\ pipe_' = [pipe_ EXCEPT ![l] = 0]
     /\ func_mtx_' = [func_mtx_ EXCEPT ![l] = NoOwner]
     /\ stage' = [stage EXCEPT ![t] = "none"]
     /\ call' = [call EXCEPT ![t] = NoTask]
     /\ UNCHANGED <<pc, functions_, pending, todo, ran>>

\* weakup creates the pipe and adds it to events_, in the calling thread.
OpenPipe(t) ==
  /\ stage[t] = "open"
  /\ pipe_' = [pipe_ EXCEPT ![Target[call[t]]] = 0]
  /\ stage' = [stage EXCEPT ![t] = "write"]
  /\ UNCHANGED <<pc, functions_, func_mtx_, pending, todo, call, ran>>

\* weakup's write blocks while the pipe is full; then the mutex is released.
WriteToken(t) ==
  LET l == Target[call[t]]
  IN /\ stage[t] = "write"
     /\ pipe_[l] < PipeCap
     /\ pipe_' = [pipe_ EXCEPT ![l] = @ + 1]
     /\ func_mtx_' = [func_mtx_ EXCEPT ![l] = NoOwner]
     /\ stage' = [stage EXCEPT ![t] = "none"]
     /\ call' = [call EXCEPT ![t] = NoTask]
     /\ UNCHANGED <<pc, functions_, pending, todo, ran>>

-----------------------------------------------------------------------------
(***************************************************************************)
(* The round of loop l.                                                    *)
(***************************************************************************)

\* PipeEvent::onRead takes one token, however many there are.
ReadToken(tokens) == IF tokens > 0 THEN tokens - 1 ELSE tokens

\* epoll_wait returns, for the pipe, another event or the timeout; level
\* triggered, it reports the pipe whenever a token is left in it.
Poll(l) ==
  /\ pc[l] = "wait"
  /\ pipe_' = [pipe_ EXCEPT ![l] = ReadToken(@)]
  /\ pc' = [pc EXCEPT ![l] = "dispatch"]
  /\ UNCHANGED <<functions_, func_mtx_, pending, todo, stage, call, ran>>

\* A handler runs and makes one of its calls.
HandleEvent(l, c) ==
  /\ pc[l] = "dispatch"
  /\ Idle(l)
  /\ c \in pending[l]
  /\ pending' = [pending EXCEPT ![l] = @ \ {c}]
  /\ todo' = [todo EXCEPT ![l] = {c}]
  /\ UNCHANGED <<pc, functions_, func_mtx_, pipe_, stage, call, ran>>

FinishDispatch(l) ==
  /\ pc[l] = "dispatch"
  /\ Idle(l)
  /\ pc' = [pc EXCEPT ![l] = "lock"]
  /\ UNCHANGED <<functions_, func_mtx_, pipe_, pending, todo, stage, call, ran>>

LockFunctions(l) ==
  /\ pc[l] = "lock"
  /\ func_mtx_[l] = NoOwner
  /\ func_mtx_' = [func_mtx_ EXCEPT ![l] = l]
  /\ pc' = [pc EXCEPT ![l] = "run"]
  /\ UNCHANGED <<functions_, pipe_, pending, todo, stage, call, ran>>

RunFront(l) ==
  /\ pc[l] = "run"
  /\ functions_[l] # <<>>
  /\ ran' = [ran EXCEPT ![Head(functions_[l])] = @ + 1]
  /\ todo' = [todo EXCEPT ![l] = CallsOf(Head(functions_[l]))]
  /\ pc' = [pc EXCEPT ![l] = "body"]
  /\ UNCHANGED <<functions_, func_mtx_, pipe_, pending, stage, call>>

\* Mutant: the task that ran stays in the queue.
PopFrontForgotten(l) ==
  /\ pc[l] = "body"
  /\ Idle(l)
  /\ pc' = [pc EXCEPT ![l] = "run"]
  /\ UNCHANGED <<functions_, func_mtx_, pipe_, pending, todo, stage, call, ran>>

PopFront(l) ==
  /\ pc[l] = "body"
  /\ Idle(l)
  /\ functions_' = [functions_ EXCEPT ![l] = Tail(@)]
  /\ pc' = [pc EXCEPT ![l] = "run"]
  /\ UNCHANGED <<func_mtx_, pipe_, pending, todo, stage, call, ran>>

\* Mutant: the mutex stays locked after the last task.
FinishFunctionsLocked(l) ==
  /\ pc[l] = "run"
  /\ functions_[l] = <<>>
  /\ pc' = [pc EXCEPT ![l] = "wait"]
  /\ UNCHANGED <<functions_, func_mtx_, pipe_, pending, todo, stage, call, ran>>

\* The queue is empty; timer callbacks are handlers of the next round.
FinishFunctions(l) ==
  /\ pc[l] = "run"
  /\ functions_[l] = <<>>
  /\ func_mtx_' = [func_mtx_ EXCEPT ![l] = NoOwner]
  /\ pc' = [pc EXCEPT ![l] = "wait"]
  /\ UNCHANGED <<functions_, pipe_, pending, todo, stage, call, ran>>

-----------------------------------------------------------------------------
RunInLoop(t) ==
  \/ \E c \in Task : CallInline(t, c) \/ CallFromOutside(t, c)
  \/ Push(t)
  \/ OpenPipe(t)
  \/ WriteToken(t)

Round(l) ==
  \/ Poll(l)
  \/ \E c \in Task : HandleEvent(l, c)
  \/ FinishDispatch(l)
  \/ LockFunctions(l)
  \/ RunFront(l)
  \/ PopFront(l)
  \/ FinishFunctions(l)

Next ==
  \/ \E t \in Thread : RunInLoop(t)
  \/ \E l \in Loop : Round(l)

Spec == Init /\ [][Next]_vars

\* Every thread that can go on does.  A post that waits for a mutex gets it at
\* last: the loop leaves it free for as long as it sleeps in epoll_wait.
Fairness ==
  /\ \A t \in Poster : WF_vars(RunInLoop(t))
  /\ \A l \in Loop : WF_vars(RunInLoop(l) \/ Round(l))
  /\ \A t \in Thread : SF_vars(Push(t))

FairSpec == Spec /\ Fairness

-----------------------------------------------------------------------------
TypeOK ==
  /\ pc \in [Loop -> Pc]
  /\ functions_ \in [Loop -> Seq(Task)]
  /\ func_mtx_ \in [Loop -> Thread \cup {NoOwner}]
  /\ pipe_ \in [Loop -> NoPipe..PipeCap]
  /\ pending \in [Loop -> SUBSET Task]
  /\ todo \in [Thread -> SUBSET Task]
  /\ stage \in [Thread -> Stage]
  /\ call \in [Thread -> Task \cup {NoTask}]
  /\ ran \in [Task -> Nat]

\* A loop asleep in epoll_wait with work in its queue has a token in its pipe:
\* what runInLoop queued is never left to the one-second timeout.
NoLostWakeup ==
  \A l \in Loop :
    pc[l] = "wait" /\ functions_[l] # <<>> /\ func_mtx_[l] = NoOwner
      => pipe_[l] > 0

\* The mutex thread t waits for, as a set of at most one loop.
Wants(t) ==
  {Target[call[u]] : u \in {u \in {t} : stage[u] = "lock"}}
    \cup {l \in Loop : l = t /\ pc[l] = "lock"}

\* t can go on only after u does: u holds the mutex t waits for, or u is the
\* loop that alone empties the full pipe t is writing to.
WaitsFor(t, u) ==
  \/ \E l \in Wants(t) : func_mtx_[l] = u
  \/ stage[t] = "write" /\ u = Target[call[t]] /\ pipe_[u] = PipeCap
       /\ pc[u] # "wait"

\* Threads that only wait for threads of S, for the largest such S: empty
\* unless some threads wait for one another in a circle.
NoCircularWait ==
  ~ \E S \in SUBSET Thread :
      S # {} /\ \A t \in S : \E u \in S : WaitsFor(t, u)

\* No task runs twice, whether posted, forwarded or run on the spot.
RunsAtMostOnce == \A c \in Task : ran[c] <= 1

\* events_ belongs to the loop's thread: nobody adds to it while the loop
\* walks through it (weakup calls addEvent in the posting thread).
EventsTouchedByOneThread ==
  \A t \in Thread :
    stage[t] = "open" => pc[Target[call[t]]] # "dispatch"

\* A task in the queue is eventually run.
QueuedRuns ==
  \A l \in Loop, c \in Task :
    (\E i \in 1..Len(functions_[l]) : functions_[l][i] = c) ~> ran[c] > 0

=============================================================================
