-------------------------- MODULE EventLoopThread --------------------------
(***************************************************************************)
(* The pool of loop threads of network/net/EventLoopThread{,Pool}.cpp with *)
(* the start and the end of EventLoop: how a thread makes its loop known,  *)
(* how quit and the destructors end it, and which descriptor each of them  *)
(* closes.  What the loop does in a round is the subject of EventLoop.     *)
(***************************************************************************)
EXTENDS Integers, FiniteSets, FiniteSetsExt

CONSTANTS
    Size,        \* threads in the pool
    Fd,          \* the descriptors a process may have
    MaxForeign   \* descriptors the rest of the program holds at most

ASSUME SizeAssumption == Size \in Nat \ {0}

\* epoll_create does not fail: the program would exit.
ASSUME FdAssumption ==
    /\ IsFiniteSet(Fd) /\ Fd \subseteq Nat
    /\ MaxForeign \in Nat /\ Cardinality(Fd) >= Size + MaxForeign

Threads == 1 .. Size
Free    == 0         \* nobody has the descriptor
Foreign == -1        \* the rest of the program has it

VARIABLES
    pc,          \* where each thread of the pool is
    running_, loop_, promise_, once_,   \* EventLoopThread: loop_ is TRUE when set
    looping_, epoll_,                   \* the EventLoop on the thread's stack
    asked,       \* loops that have a task in their queue that quits them
    owner, turn, \* where the pool's owner is, and in which thread's turn
    destroying,  \* the pool's destructor has begun
    loop_index_, \* of the pool
    held,        \* the loop getNextLoop last returned, 0 for none
    open,        \* the kernel's table: who has each descriptor
    foreign,     \* what the rest of the program takes to be its own
    left,        \* ghost: loops that a task has quit
    lost,        \* ghost: loops told to quit before loop set looping_
    touched      \* ghost: quit has used a loop after its destructor

threadVars == <<pc, running_, loop_, promise_, looping_, epoll_, asked>>
ownerVars  == <<once_, owner, turn, destroying, loop_index_, held>>
tableVars  == <<open, foreign>>
ghosts     == <<left, lost, touched>>
vars == <<threadVars, ownerVars, tableVars, ghosts>>

-----------------------------------------------------------------------------
\* The object on the stack of startLoop.
Exists(t) == pc[t] \notin {"unborn", "create", "ended"}

LowestFree == Min({n \in Fd : open[n] = Free})

Init ==
    /\ pc = [t \in Threads |-> "unborn"]
    /\ running_ = [t \in Threads |-> FALSE]
    /\ loop_ = [t \in Threads |-> FALSE]
    /\ promise_ = [t \in Threads |-> FALSE]
    /\ once_ = [t \in Threads |-> FALSE]
    /\ looping_ = [t \in Threads |-> FALSE]
    /\ epoll_ = [t \in Threads |-> Min(Fd)]
    /\ asked = {}
    /\ owner = "construct" /\ turn = 1 /\ destroying = FALSE
    /\ loop_index_ = 0 /\ held = 0
    /\ open = [n \in Fd |-> Free] /\ foreign = {}
    /\ left = {} /\ lost = {} /\ touched = FALSE

-----------------------------------------------------------------------------
(* startLoop, in the thread *)

Go(t, from, to) == pc[t] = from /\ pc' = [pc EXCEPT ![t] = to]

\* EventLoop's constructor.
Create(t) ==
    /\ Go(t, "create", "wait")
    /\ epoll_' = [epoll_ EXCEPT ![t] = LowestFree]
    /\ open' = [open EXCEPT ![LowestFree] = t]
    /\ UNCHANGED <<running_, loop_, promise_, looping_, asked, ownerVars, foreign, ghosts>>

\* cv_.wait looks at running_ with the mutex held and sleeps when it is not set.
Wait(t) ==
    /\ pc[t] = "wait"
    /\ pc' = [pc EXCEPT ![t] = IF running_[t] THEN "publish" ELSE "asleep"]
    /\ UNCHANGED <<running_, loop_, promise_, looping_, epoll_, asked, ownerVars, tableVars, ghosts>>

\* cv_.wait may wake for no reason.
SpuriousWake(t) ==
    /\ Go(t, "asleep", "wait")
    /\ UNCHANGED <<running_, loop_, promise_, looping_, epoll_, asked, ownerVars, tableVars, ghosts>>

Publish(t) ==
    /\ Go(t, "publish", "promise")
    /\ loop_' = [loop_ EXCEPT ![t] = TRUE]
    /\ UNCHANGED <<running_, promise_, looping_, epoll_, asked, ownerVars, tableVars, ghosts>>

SetPromise(t) ==
    /\ Go(t, "promise", "loop")
    /\ promise_' = [promise_ EXCEPT ![t] = TRUE]
    /\ UNCHANGED <<running_, loop_, looping_, epoll_, asked, ownerVars, tableVars, ghosts>>

\* The first statement of EventLoop::loop.
EnterLoop(t) ==
    /\ Go(t, "loop", "test")
    /\ looping_' = [looping_ EXCEPT ![t] = TRUE]
    /\ UNCHANGED <<running_, loop_, promise_, epoll_, asked, ownerVars, tableVars, ghosts>>

Test(t) ==
    /\ pc[t] = "test"
    /\ pc' = [pc EXCEPT ![t] = IF looping_[t] THEN "poll" ELSE "leave"]
    /\ UNCHANGED <<running_, loop_, promise_, looping_, epoll_, asked, ownerVars, tableVars, ghosts>>

\* epoll_wait: on a descriptor that is closed or no epoll it fails at once, and
\* neither tasks nor timers run.
Poll(t) ==
    /\ pc[t] = "poll"
    /\ pc' = [pc EXCEPT ![t] = IF open[epoll_[t]] \in Threads THEN "round" ELSE "test"]
    /\ UNCHANGED <<running_, loop_, promise_, looping_, epoll_, asked, ownerVars, tableVars, ghosts>>

\* The rest of a round, with the task that calls quit if there is one.
Round(t) ==
    /\ Go(t, "round", "test")
    /\ IF t \in asked
       THEN /\ looping_' = [looping_ EXCEPT ![t] = FALSE]
            /\ open' = [open EXCEPT ![epoll_[t]] = Free]
            /\ asked' = asked \ {t} /\ left' = left \cup {t}
       ELSE UNCHANGED <<looping_, open, asked, left>>
    /\ UNCHANGED <<running_, loop_, promise_, epoll_, ownerVars, foreign, lost, touched>>

\* Mutant: startLoop forgets to take the pointer back.
LeaveKeepLoop(t) ==
    /\ Go(t, "leave", "destroy")
    /\ running_' = [running_ EXCEPT ![t] = FALSE]
    /\ UNCHANGED <<loop_, promise_, looping_, epoll_, asked, ownerVars, tableVars, ghosts>>

\* The end of startLoop up to the destructor of the loop.
Leave(t) ==
    /\ Go(t, "leave", "destroy")
    /\ running_' = [running_ EXCEPT ![t] = FALSE]
    /\ loop_' = [loop_ EXCEPT ![t] = FALSE]
    /\ UNCHANGED <<promise_, looping_, epoll_, asked, ownerVars, tableVars, ghosts>>

\* ~EventLoop calls quit, which closes epoll_ whoever has that number by now.
Destroy(t) ==
    /\ Go(t, "destroy", "ended")
    /\ looping_' = [looping_ EXCEPT ![t] = FALSE]
    /\ open' = [open EXCEPT ![epoll_[t]] = Free]
    /\ UNCHANGED <<running_, loop_, promise_, epoll_, asked, ownerVars, foreign, ghosts>>

ThreadStep(t) ==
    \/ Create(t) \/ Wait(t) \/ Publish(t) \/ SetPromise(t) \/ EnterLoop(t)
    \/ Test(t) \/ Poll(t) \/ Round(t) \/ Leave(t) \/ Destroy(t)

-----------------------------------------------------------------------------
(* The owner: constructor, start, getNextLoop and destructor of the pool *)

\* Goes to the next thread of the pool, or to "end" after the last.
NextTurn(again, end) ==
    IF turn < Size THEN owner' = again /\ turn' = turn + 1
                   ELSE owner' = end /\ turn' = 1

\* EventLoopThread's constructor starts the thread.
Construct ==
    /\ owner = "construct"
    /\ pc' = [pc EXCEPT ![turn] = "create"]
    /\ NextTurn("construct", "idle")
    /\ UNCHANGED <<running_, loop_, promise_, looping_, epoll_, asked, once_, destroying,
                   loop_index_, held, tableVars, ghosts>>

Start ==
    /\ owner = "idle" /\ ~once_[1]
    /\ owner' = "run"
    /\ UNCHANGED <<threadVars, once_, turn, destroying, loop_index_, held, tableVars, ghosts>>

\* The pool's destructor; what getNextLoop returned is not used any more.
BeginDestroy ==
    /\ owner = "idle"
    /\ owner' = "run" /\ destroying' = TRUE /\ held' = 0
    /\ UNCHANGED <<threadVars, once_, turn, loop_index_, tableVars, ghosts>>

\* What follows run in start and in the destructor.
AfterRun == IF destroying THEN owner' = "check" /\ UNCHANGED turn
                          ELSE NextTurn("run", "idle")

RunAgain ==
    /\ owner = "run" /\ once_[turn]
    /\ AfterRun
    /\ UNCHANGED <<threadVars, once_, destroying, loop_index_, held, tableVars, ghosts>>

RunSet ==
    /\ owner = "run" /\ ~once_[turn]
    /\ running_' = [running_ EXCEPT ![turn] = TRUE]
    /\ owner' = "notify"
    /\ UNCHANGED <<pc, loop_, promise_, looping_, epoll_, asked, once_, turn, destroying,
                   loop_index_, held, tableVars, ghosts>>

\* Mutant: run sets the flag and does not notify.
RunNotifyNobody ==
    /\ owner = "notify" /\ owner' = "get"
    /\ UNCHANGED <<threadVars, once_, turn, destroying, loop_index_, held, tableVars, ghosts>>

RunNotify ==
    /\ owner = "notify" /\ owner' = "get"
    /\ pc' = IF pc[turn] = "asleep" THEN [pc EXCEPT ![turn] = "wait"] ELSE pc
    /\ UNCHANGED <<running_, loop_, promise_, looping_, epoll_, asked, once_, turn, destroying,
                   loop_index_, held, tableVars, ghosts>>

\* Mutant: run does not wait for the thread's promise.
RunGetAtOnce ==
    /\ owner = "get"
    /\ once_' = [once_ EXCEPT ![turn] = TRUE]
    /\ AfterRun
    /\ UNCHANGED <<threadVars, destroying, loop_index_, held, tableVars, ghosts>>

\* f.get() waits until the thread has set its promise.
RunGet ==
    /\ owner = "get" /\ promise_[turn]
    /\ once_' = [once_ EXCEPT ![turn] = TRUE]
    /\ AfterRun
    /\ UNCHANGED <<threadVars, destroying, loop_index_, held, tableVars, ghosts>>

\* The index is kept below twice the size: only its remainder is used.
GetNextLoop ==
    LET t == 1 + (loop_index_ % Size)
    IN  /\ owner = "idle"
        /\ held' = IF loop_[t] THEN t ELSE 0
        /\ loop_index_' = (loop_index_ + 1) % (2 * Size)
        /\ UNCHANGED <<threadVars, once_, owner, turn, destroying, tableVars, ghosts>>

\* The application gives the loop it got a task that calls quit.
AskToQuit ==
    /\ owner = "idle" /\ held # 0 /\ held \notin left
    /\ asked' = asked \cup {held} /\ held' = 0
    /\ UNCHANGED <<pc, running_, loop_, promise_, looping_, epoll_, once_, owner, turn,
                   destroying, loop_index_, tableVars, ghosts>>

\* ~EventLoopThread after run: reads loop_ without a lock.
Check ==
    /\ owner = "check"
    /\ owner' = IF loop_[turn] THEN "quit" ELSE "join"
    /\ UNCHANGED <<threadVars, once_, turn, destroying, loop_index_, held, tableVars, ghosts>>

QuitStop ==
    /\ owner = "quit" /\ owner' = "close"
    /\ looping_' = [looping_ EXCEPT ![turn] = FALSE]
    /\ lost' = IF pc[turn] = "loop" THEN lost \cup {turn} ELSE lost
    /\ touched' = (touched \/ ~Exists(turn))
    /\ UNCHANGED <<pc, running_, loop_, promise_, epoll_, asked, once_, turn, destroying,
                   loop_index_, held, tableVars, left>>

\* Once the loop is destroyed, epoll_ is whatever the memory holds.
QuitClose ==
    /\ owner = "close" /\ owner' = "join"
    /\ \E n \in IF Exists(turn) THEN {epoll_[turn]} ELSE Fd :
          open' = [open EXCEPT ![n] = Free]
    /\ touched' = (touched \/ ~Exists(turn))
    /\ UNCHANGED <<threadVars, once_, turn, destroying, loop_index_, held, foreign, left, lost>>

Join ==
    /\ owner = "join" /\ pc[turn] = "ended"
    /\ NextTurn("run", "gone")
    /\ UNCHANGED <<threadVars, once_, destroying, loop_index_, held, tableVars, ghosts>>

OwnerStep ==
    \/ Construct \/ RunAgain \/ RunSet \/ RunNotify \/ RunGet
    \/ Check \/ QuitStop \/ QuitClose \/ Join

-----------------------------------------------------------------------------
(* The rest of the program *)

OpenForeign ==
    /\ Cardinality(foreign) < MaxForeign /\ \E n \in Fd : open[n] = Free
    /\ open' = [open EXCEPT ![LowestFree] = Foreign]
    /\ foreign' = foreign \cup {LowestFree}
    /\ UNCHANGED <<threadVars, ownerVars, ghosts>>

CloseForeign(n) ==
    /\ n \in foreign
    /\ open' = [open EXCEPT ![n] = Free]
    /\ foreign' = foreign \ {n}
    /\ UNCHANGED <<threadVars, ownerVars, ghosts>>

Next ==
    \/ \E t \in Threads : ThreadStep(t) \/ SpuriousWake(t)
    \/ OwnerStep \/ Start \/ BeginDestroy \/ GetNextLoop \/ AskToQuit
    \/ OpenForeign \/ \E n \in Fd : CloseForeign(n)

Spec == Init /\ [][Next]_vars

\* Each thread goes on when it can; epoll_wait returns within a second.  Nobody
\* has to start the pool or to destroy it.
Fairness == WF_vars(OwnerStep) /\ \A t \in Threads : WF_vars(ThreadStep(t))

FairSpec == Spec /\ Fairness

-----------------------------------------------------------------------------
TypeOK ==
    /\ pc \in [Threads -> {"unborn", "create", "wait", "asleep", "publish", "promise", "loop",
                           "test", "poll", "round", "leave", "destroy", "ended"}]
    /\ {running_, loop_, promise_, once_, looping_} \subseteq [Threads -> BOOLEAN]
    /\ epoll_ \in [Threads -> Fd]
    /\ asked \subseteq Threads /\ left \subseteq Threads /\ lost \subseteq Threads
    /\ owner \in {"construct", "idle", "run", "notify", "get", "check", "quit", "close",
                  "join", "gone"}
    /\ turn \in Threads /\ {destroying, touched} \subseteq BOOLEAN
    /\ loop_index_ \in 0 .. 2 * Size - 1 /\ held \in 0 .. Size
    /\ open \in [Fd -> Threads \cup {Free, Foreign}] /\ foreign \subseteq Fd

\* A thread the application may rely on: run has returned, the destructor has
\* not come to it, and no task has told it to quit.
InService(t) ==
    once_[t] /\ t \notin left /\ (destroying => owner # "gone" /\ turn < t)

\* getLoop tells the truth: a pointer it returns is to a loop that exists, and
\* from the return of run to the destructor it returns one.  (startLoop has
\* to set, announce and clear loop_ in the right order on another thread.)
GetLoopIsTrue ==
    \A t \in Threads : (loop_[t] => Exists(t)) /\ (InService(t) => loop_[t])

\* A loop in service waits on the epoll it created: no destructor or quit of
\* another loop of the pool, each of which closes its number twice, has closed
\* it, and nobody else has got its number.  This holds until a destructor has
\* read epoll_ from a loop that is gone (QuitClose).
EpollIsItsOwn ==
    touched \/ \A t \in Threads : InService(t) => open[epoll_[t]] = t

\* Once the pool's destructor has begun it ends, unless it told a loop to quit
\* that had not yet set looping_ (EventLoop::loop sets it again then).
DestructorEnds == destroying ~> (owner = "gone" \/ lost # {})

\* Not true of the code, see README: without that premise; that quit is only
\* called on a loop that exists; and that descriptors of others stay open.
DestructorAlwaysEnds == destroying ~> owner = "gone"
QuitOnLiveLoop == ~touched
ForeignStaysOpen == \A n \in foreign : open[n] = Foreign

=============================================================================
