---------------------------- MODULE ThreadProofs ----------------------------
(***************************************************************************)
(* Theorems about what is shared among threads: the loops that             *)
(* EventLoopThread starts, for a pool of any size, any descriptors and any *)
(* number of them held by the rest of the program; the table the worker of *)
(* DnsService keeps, for any hosts, callers and bounds; and the log files  *)
(* that FileLogMgr rotates under their writers, for any logs, paths and    *)
(* calendars.                                                              *)
(***************************************************************************)
EXTENDS EventLoopThread, DnsService, FileLogMgr, FiniteSetTheorems, SequenceTheorems, TLAPS

Created(t) == pc[t] \notin {"unborn", "create"}

\* run has set running_ for t.
Released(t) == once_[t] \/ (t = turn /\ owner \in {"notify", "get"})

\* Something has told t to end: its own task, or the pool's destructor, which has
\* reached it.
Told(t) == t \in left \/ (destroying /\ (owner = "gone" \/ turn >= t))

\* How far each thread is, and what of it shows outside.
StartInv ==
    \A t \in Threads :
        /\ loop_[t] <=> pc[t] \in {"promise", "loop", "test", "poll", "round", "leave"}
        /\ promise_[t] <=> pc[t] \in {"loop", "test", "poll", "round", "leave", "destroy", "ended"}
        /\ running_[t] => Released(t)
        /\ pc[t] \in {"publish", "promise"} \/ promise_[t] => Released(t)
        /\ once_[t] => promise_[t]

\* The owner's rounds over the pool.
OwnerInv ==
    /\ owner = "construct" =>
         ~destroying /\ \A t \in Threads : t >= turn => pc[t] = "unborn"
    /\ owner = "idle" => ~destroying /\ turn = 1
    /\ owner \in {"check", "quit", "close", "join", "gone"} => destroying
    /\ owner \in {"notify", "get"} => ~once_[turn]
    /\ ~destroying /\ owner \in {"run", "notify", "get"} =>
         \A t \in Threads : t < turn => once_[t]
    /\ owner = "construct" => \A t \in Threads : ~once_[t]
    /\ owner = "idle" => \A t, u \in Threads : once_[t] => once_[u]
    /\ held # 0 \/ asked # {} \/ left # {} => \A t \in Threads : once_[t]
    /\ destroying /\ owner # "gone" =>
         \A t \in Threads : once_[t] /\ turn < t => \A u \in Threads : once_[u]

\* A thread leaves its loop when it is told to.
EndInv ==
    \A t \in Threads :
        pc[t] \in {"leave", "destroy", "ended"}
          \/ (pc[t] \in {"test", "poll", "round"} /\ ~looping_[t]) => Told(t)

\* Who has a descriptor took it to be its own.
TableInv ==
    /\ \A n \in Fd : open[n] \in Threads => Created(open[n]) /\ epoll_[open[n]] = n
    /\ \A n \in Fd : open[n] = Foreign => n \in foreign
    /\ IsFiniteSet(foreign) /\ Cardinality(foreign) <= MaxForeign

\* The epoll of t is open, and nobody else will close its number.
OwnEpoll(t) ==
    /\ open[epoll_[t]] = t
    /\ epoll_[t] \notin foreign
    /\ \A u \in Threads \ {t} : Created(u) => epoll_[u] # epoll_[t]

\* No loop has been told to end, or may be.
Early == ~destroying /\ asked = {} /\ left = {}

\* Before a loop is told to end nothing is closed by mistake; afterwards the
\* epoll of each loop in service is still its own.
EpollInv ==
    /\ Early =>
         /\ \A t \in Threads : Created(t) => OwnEpoll(t)
         /\ \A n \in foreign : open[n] = Foreign
    /\ ~touched => \A t \in Threads : once_[t] /\ ~Told(t) => OwnEpoll(t)

IInv == TypeOK /\ StartInv /\ OwnerInv /\ EndInv /\ TableInv /\ EpollInv

-----------------------------------------------------------------------------
(***************************************************************************)
(* Descriptors.                                                            *)
(***************************************************************************)
LEMMA MinIsMember ==
    ASSUME NEW S, S \subseteq Nat, S # {}
    PROVE  Min(S) \in S
<1>1. IsWellFoundedOn(OpToRel(<, Nat), Nat)
    BY NatLessThanWellFounded
<1>2. PICK x \in S : \A y \in S : ~(<<y, x>> \in OpToRel(<, Nat))
    BY <1>1, WFMin
<1>3. \A y \in S : x <= y
    <2> TAKE y \in S
    <2>1. ~(y < x)
        BY <1>2 DEF OpToRel
    <2> QED BY <2>1
<1> QED BY <1>3 DEF Min

LEMMA ThreadsFacts ==
    /\ Size \in Nat /\ Size >= 1 /\ 1 \in Threads
    /\ IsFiniteSet(Threads) /\ Cardinality(Threads) = Size
    /\ \A t \in Threads : t \in Nat /\ t >= 1 /\ t <= Size /\ t # Free /\ t # Foreign
<1>1. Size \in Nat /\ Size >= 1
    BY SizeAssumption
<1>2. IsFiniteSet(1 .. Size) /\ Cardinality(1 .. Size) = Size
    BY <1>1, FS_Interval
<1> QED BY <1>1, <1>2 DEF Threads, Free, Foreign

LEMMA LowestIsFree ==
    ASSUME NEW n \in Fd, open[n] = Free
    PROVE  LowestFree \in Fd /\ open[LowestFree] = Free
<1>1. {m \in Fd : open[m] = Free} # {} /\ {m \in Fd : open[m] = Free} \subseteq Nat
    BY FdAssumption
<1> QED BY <1>1, MinIsMember DEF LowestFree

\* A thread that has not created its epoll finds a descriptor: each of the others
\* has one at most.
LEMMA OneIsFree ==
    ASSUME TypeOK, TableInv, NEW t \in Threads, ~Created(t)
    PROVE  LowestFree \in Fd /\ open[LowestFree] = Free
<1> SUFFICES ASSUME \A n \in Fd : open[n] # Free PROVE FALSE
    BY LowestIsFree
<1> DEFINE others == Threads \ {t}
           theirs == {epoll_[u] : u \in others}
<1>1. Fd \subseteq theirs \cup foreign
    <2> SUFFICES ASSUME NEW n \in Fd PROVE n \in theirs \cup foreign
        OBVIOUS
    <2>1. open[n] \in Threads \/ open[n] = Foreign
        BY DEF TypeOK
    <2>2. CASE open[n] \in Threads
        BY <2>2 DEF TableInv
    <2>3. CASE open[n] = Foreign
        BY <2>3 DEF TableInv
    <2> QED BY <2>1, <2>2, <2>3
<1>2. IsFiniteSet(others) /\ Cardinality(others) = Size - 1
    BY ThreadsFacts, FS_RemoveElement
<1>3. IsFiniteSet(theirs) /\ Cardinality(theirs) <= Size - 1
    <2> DEFINE f == [u \in others |-> epoll_[u]]
    <2>1. f \in Surjection(others, theirs)
        BY DEF Surjection
    <2> HIDE DEF f
    <2>2. IsFiniteSet(theirs) /\ Cardinality(theirs) <= Cardinality(others)
        BY <1>2, <2>1, FS_Surjection
    <2> QED BY <1>2, <2>2
<1> HIDE DEF theirs, others
<1>4. /\ IsFiniteSet(theirs \cup foreign)
      /\ Cardinality(theirs \cup foreign)
           = Cardinality(theirs) + Cardinality(foreign) - Cardinality(theirs \cap foreign)
    BY <1>3, FS_Union DEF TableInv
<1>5. Cardinality(theirs \cap foreign) \in Nat /\ Cardinality(theirs) \in Nat
      /\ Cardinality(foreign) \in Nat
    <2>1. IsFiniteSet(theirs \cap foreign)
        BY <1>3, FS_Subset
    <2> QED BY <1>3, <2>1, FS_CardinalityType DEF TableInv
<1>6. Cardinality(Fd) \in Nat /\ Cardinality(Fd) <= Cardinality(theirs \cup foreign)
    BY <1>1, <1>4, FS_Subset, FdAssumption, FS_CardinalityType
<1>7. Cardinality(foreign) <= MaxForeign /\ MaxForeign \in Nat
      /\ Cardinality(Fd) >= Size + MaxForeign
    BY FdAssumption DEF TableInv
<1> QED BY <1>3, <1>4, <1>5, <1>6, <1>7, ThreadsFacts

LEMMA InitIInv == Init => IInv
<1> SUFFICES ASSUME Init PROVE IInv
    OBVIOUS
<1> USE DEF Init
<1>1. Min(Fd) \in Fd
    <2>1. Cardinality({}) = 0
        BY FS_EmptySet
    <2>2. Fd # {}
        BY <2>1, FdAssumption, ThreadsFacts
    <2> QED BY <2>2, FdAssumption, MinIsMember
<1>2. TypeOK
    <2>1. /\ {running_, loop_, promise_, once_, looping_} \subseteq [Threads -> BOOLEAN]
          /\ epoll_ \in [Threads -> Fd]
        BY <1>1
    <2>2. /\ turn \in Threads /\ {destroying, touched} \subseteq BOOLEAN
          /\ asked = {} /\ left = {} /\ lost = {} /\ foreign = {}
        BY ThreadsFacts
    <2>3. loop_index_ \in 0 .. 2 * Size - 1 /\ held \in 0 .. Size
        BY ThreadsFacts
    <2>4. open \in [Fd -> Threads \cup {Free, Foreign}]
        OBVIOUS
    <2> QED BY <2>1, <2>2, <2>3, <2>4 DEF TypeOK
<1>3. StartInv /\ EndInv
    BY DEF StartInv, EndInv
<1>4. OwnerInv
    BY DEF OwnerInv
<1>5. TableInv
    BY FS_EmptySet, ThreadsFacts, FdAssumption DEF TableInv, Free, Foreign
<1>6. EpollInv
    BY DEF EpollInv, Created
<1> QED BY <1>2, <1>3, <1>4, <1>5, <1>6 DEF IInv

LEMMA TypeFacts ==
    ASSUME IInv
    PROVE  /\ running_ \in [Threads -> BOOLEAN] /\ loop_ \in [Threads -> BOOLEAN]
           /\ promise_ \in [Threads -> BOOLEAN] /\ once_ \in [Threads -> BOOLEAN]
           /\ looping_ \in [Threads -> BOOLEAN] /\ epoll_ \in [Threads -> Fd]
           /\ DOMAIN pc = Threads /\ pc = [t \in Threads |-> pc[t]]
           /\ open \in [Fd -> Threads \cup {Free, Foreign}] /\ foreign \subseteq Fd
           /\ turn \in Threads /\ destroying \in BOOLEAN /\ touched \in BOOLEAN
BY DEF IInv, TypeOK

-----------------------------------------------------------------------------
(***************************************************************************)
(* Steps that leave the descriptors alone.                                 *)
(***************************************************************************)
LEMMA TableKept ==
    ASSUME IInv, UNCHANGED <<open, foreign, epoll_>>,
           \A t \in Threads : Created(t)' <=> Created(t)
    PROVE  TableInv' /\ \A t \in Threads : OwnEpoll(t)' <=> OwnEpoll(t)
<1>1. TableInv'
    <2>1. \A n \in Fd : open[n] \in Threads => Created(open[n])'
        BY DEF IInv, TableInv
    <2> QED BY <2>1 DEF IInv, TableInv
<1> QED BY <1>1 DEF OwnEpoll

LEMMA EpollKept ==
    ASSUME IInv, UNCHANGED <<open, foreign, epoll_>>,
           \A t \in Threads : Created(t)' <=> Created(t),
           Early' => Early, touched => touched',
           \A t \in Threads :
               once_'[t] /\ ~Told(t)' => (once_[t] /\ ~Told(t)) \/ OwnEpoll(t)
    PROVE  TableInv' /\ EpollInv'
<1>1. TableInv' /\ \A t \in Threads : OwnEpoll(t)' <=> OwnEpoll(t)
    BY TableKept
<1>2. Early' => (\A t \in Threads : Created(t)' => OwnEpoll(t)')
                /\ \A n \in foreign' : open'[n] = Foreign
    BY <1>1 DEF IInv, EpollInv
<1>3. ~touched' => \A t \in Threads : once_'[t] /\ ~Told(t)' => OwnEpoll(t)'
    BY <1>1 DEF IInv, EpollInv
<1> QED BY <1>1, <1>2, <1>3 DEF EpollInv

\* A step of one thread that none but itself sees.
LEMMA LocalStep ==
    ASSUME IInv, NEW t \in Threads,
           \/ Wait(t) \/ SpuriousWake(t) \/ Publish(t) \/ SetPromise(t)
           \/ EnterLoop(t) \/ Test(t) \/ Poll(t) \/ Leave(t)
    PROVE  IInv'
<1> DEFINE Locals == {"wait", "asleep", "publish", "promise", "loop", "test", "poll",
                      "round", "leave", "destroy"}
<1>1. /\ UNCHANGED <<epoll_, asked, ownerVars, tableVars, ghosts>>
      /\ pc[t] \in Locals /\ pc'[t] \in Locals
      /\ pc' = [pc EXCEPT ![t] = pc'[t]]
    BY TypeFacts
       DEF Wait, SpuriousWake, Publish, SetPromise, EnterLoop, Test, Poll, Leave, Go
<1>2. \A u \in Threads \ {t} : /\ pc'[u] = pc[u] /\ loop_'[u] = loop_[u]
                               /\ promise_'[u] = promise_[u] /\ running_'[u] = running_[u]
                               /\ looping_'[u] = looping_[u]
    BY TypeFacts
       DEF Wait, SpuriousWake, Publish, SetPromise, EnterLoop, Test, Poll, Leave, Go
<1>3. TypeOK'
    <2>1. pc' \in [Threads -> {"unborn", "create", "wait", "asleep", "publish", "promise",
                               "loop", "test", "poll", "round", "leave", "destroy", "ended"}]
        BY <1>1 DEF IInv, TypeOK
    <2>2. {running_', loop_', promise_', once_', looping_'} \subseteq [Threads -> BOOLEAN]
        BY TypeFacts, ZenonT(60)
           DEF Wait, SpuriousWake, Publish, SetPromise, EnterLoop, Test, Poll, Leave,
               ownerVars
    <2> QED BY <1>1, <2>1, <2>2 DEF IInv, TypeOK, ownerVars, tableVars, ghosts
<1>4. /\ UNCHANGED <<open, foreign, epoll_, asked, left, touched, once_, owner, turn,
                     destroying, held>>
      /\ \A u \in Threads : (Created(u)' <=> Created(u)) /\ (Told(u)' <=> Told(u))
                              /\ (Released(u)' <=> Released(u))
    BY <1>1, <1>2 DEF ownerVars, tableVars, ghosts, Created, Told, Released
<1>5. TableInv' /\ EpollInv'
    BY <1>4, EpollKept DEF Early
<1>6. OwnerInv'
    <2>1. \A u \in Threads : pc'[u] = "unborn" <=> pc[u] = "unborn"
        BY <1>1, <1>2
    <2> QED BY <1>4, <2>1 DEF IInv, OwnerInv
<1>7. StartInv'
    <2> SUFFICES ASSUME NEW u \in Threads
                 PROVE  /\ loop_'[u] <=> pc'[u] \in {"promise", "loop", "test", "poll",
                                                     "round", "leave"}
                        /\ promise_'[u] <=> pc'[u] \in {"loop", "test", "poll", "round",
                                                        "leave", "destroy", "ended"}
                        /\ running_'[u] => Released(u)
                        /\ pc'[u] \in {"publish", "promise"} \/ promise_'[u] => Released(u)
                        /\ once_[u] => promise_'[u]
        BY <1>4 DEF StartInv
    <2>1. CASE u # t
        BY <1>2, <2>1 DEF IInv, StartInv
    <2>2. CASE u = t
        BY <2>2, TypeFacts
           DEF IInv, StartInv, Wait, SpuriousWake, Publish, SetPromise, EnterLoop, Test,
               Poll, Leave, Go
    <2> QED BY <2>1, <2>2
<1>8. EndInv'
    <2> SUFFICES ASSUME NEW u \in Threads, ~Told(u),
                        pc'[u] \in {"leave", "destroy", "ended"}
                          \/ (pc'[u] \in {"test", "poll", "round"} /\ ~looping_'[u])
                 PROVE  FALSE
        BY <1>4 DEF EndInv
    <2>1. CASE u # t
        BY <1>2, <2>1 DEF IInv, EndInv
    <2>2. CASE u = t
        BY <2>2, TypeFacts
           DEF IInv, EndInv, Wait, SpuriousWake, Publish, SetPromise, EnterLoop, Test,
               Poll, Leave, Go
    <2> QED BY <2>1, <2>2
<1> QED BY <1>3, <1>5, <1>6, <1>7, <1>8 DEF IInv

-----------------------------------------------------------------------------
(***************************************************************************)
(* Steps of a thread that open or close its epoll.                         *)
(***************************************************************************)
LEMMA CreateStep ==
    ASSUME IInv, NEW t \in Threads, Create(t)
    PROVE  IInv'
<1> DEFINE n == LowestFree
<1>1. /\ pc[t] = "create" /\ pc' = [pc EXCEPT ![t] = "wait"]
      /\ epoll_' = [epoll_ EXCEPT ![t] = n] /\ open' = [open EXCEPT ![n] = t]
      /\ UNCHANGED <<running_, loop_, promise_, looping_, asked, ownerVars, foreign, ghosts>>
    BY DEF Create, Go
<1>2. n \in Fd /\ open[n] = Free
    BY <1>1, OneIsFree DEF IInv, Created
<1> HIDE DEF n
<1>3. /\ pc'[t] = "wait" /\ \A u \in Threads \ {t} : pc'[u] = pc[u] /\ epoll_'[u] = epoll_[u]
      /\ open'[n] = t /\ \A m \in Fd \ {n} : open'[m] = open[m]
      /\ epoll_'[t] = n
    BY <1>1, <1>2, TypeFacts
<1>4. \A m \in Fd : open[m] # t
    BY <1>1 DEF IInv, TableInv, Created
<1>5. TypeOK'
    <2>1. /\ pc' \in [Threads -> {"unborn", "create", "wait", "asleep", "publish", "promise",
                                  "loop", "test", "poll", "round", "leave", "destroy", "ended"}]
          /\ epoll_' \in [Threads -> Fd] /\ open' \in [Fd -> Threads \cup {Free, Foreign}]
        BY <1>1, <1>2 DEF IInv, TypeOK
    <2> QED BY <1>1, <2>1 DEF IInv, TypeOK, ownerVars, ghosts
<1>6. StartInv' /\ EndInv' /\ OwnerInv'
    <2>1. \A u \in Threads : (Told(u)' <=> Told(u)) /\ (Released(u)' <=> Released(u))
        BY <1>1 DEF Told, Released, ownerVars, ghosts
    <2>2. StartInv'
        BY <1>1, <1>3, <2>1, TypeFacts DEF IInv, StartInv, ownerVars
    <2>3. EndInv'
        BY <1>1, <1>3, <2>1 DEF IInv, EndInv
    <2>4. OwnerInv'
        BY <1>1, <1>3 DEF IInv, OwnerInv, ownerVars, ghosts
    <2> QED BY <2>2, <2>3, <2>4
<1>7. TableInv'
    BY <1>1, <1>2, <1>3, <1>4, ThreadsFacts DEF IInv, TableInv, Created
<1>8. ASSUME NEW u \in Threads \ {t}, OwnEpoll(u)
      PROVE  OwnEpoll(u)'
    <2>1. epoll_[u] \in Fd /\ epoll_[u] # n
        BY <1>2, <1>8, ThreadsFacts, TypeFacts DEF OwnEpoll
    <2>2. \A v \in Threads \ {t} : Created(v)' <=> Created(v)
        BY <1>3 DEF Created
    <2> QED BY <1>1, <1>3, <1>8, <2>1, <2>2 DEF OwnEpoll
<1>9. ASSUME Early' PROVE /\ \A u \in Threads : Created(u)' => OwnEpoll(u)'
                          /\ \A m \in foreign' : open'[m] = Foreign
    <2>1. Early
        BY <1>1, <1>9 DEF Early, ownerVars, ghosts
    <2>2. /\ \A u \in Threads : Created(u) => OwnEpoll(u)
          /\ \A m \in foreign : open[m] = Foreign
        BY <2>1 DEF IInv, EpollInv
    <2>3. n \notin foreign
        BY <1>2, <2>2 DEF Free, Foreign
    <2>4. \A u \in Threads \ {t} : Created(u)' => OwnEpoll(u)'
        BY <1>3, <1>8, <2>2 DEF Created
    <2>5. OwnEpoll(t)'
        <3>1. \A u \in Threads \ {t} : Created(u)' => epoll_'[u] # n
            BY <1>2, <1>3, <2>2, ThreadsFacts DEF Created, OwnEpoll
        <3> QED BY <1>1, <1>3, <2>3, <3>1 DEF OwnEpoll
    <2> QED BY <1>1, <1>3, <2>2, <2>3, <2>4, <2>5, TypeFacts
<1>10. ASSUME ~touched', NEW u \in Threads, once_'[u], ~Told(u)' PROVE OwnEpoll(u)'
    <2>1. ~touched /\ once_[u] /\ ~Told(u)
        BY <1>1, <1>10 DEF Told, ownerVars, ghosts
    <2>2. OwnEpoll(u)
        BY <2>1 DEF IInv, EpollInv
    <2>3. u # t
        BY <1>1, <2>1 DEF IInv, StartInv
    <2> QED BY <1>8, <2>2, <2>3
<1>11. EpollInv'
    BY <1>9, <1>10 DEF EpollInv
<1> QED BY <1>5, <1>6, <1>7, <1>11 DEF IInv

\* Whoever closes the number of a thread that has been told to end takes nothing
\* from the others.
LEMMA CloseOne ==
    ASSUME IInv, NEW t \in Threads, Created(t),
           open' = [open EXCEPT ![epoll_[t]] = Free],
           UNCHANGED <<epoll_, foreign>>, ~Early',
           \A u \in Threads : Created(u)' <=> Created(u),
           touched => touched',
           \A u \in Threads : once_'[u] /\ ~Told(u)' => once_[u] /\ ~Told(u) /\ u # t
    PROVE  TableInv' /\ EpollInv'
<1>1. epoll_[t] \in Fd
    BY TypeFacts
<1>2. /\ open'[epoll_[t]] = Free /\ \A m \in Fd \ {epoll_[t]} : open'[m] = open[m]
    BY <1>1, TypeFacts
<1>3. TableInv'
    <2>1. \A m \in Fd : open'[m] \in Threads => 
                         pc'[open'[m]] \notin {"unborn", "create"} /\ epoll_'[open'[m]] = m
        <3> TAKE m \in Fd
        <3>1. CASE m = epoll_[t]
            BY <1>2, <3>1, ThreadsFacts
        <3>2. CASE m # epoll_[t]
            <4>1. open'[m] = open[m]
                BY <1>2, <3>2
            <4>2. open[m] \in Threads => Created(open[m]) /\ epoll_[open[m]] = m
                BY DEF IInv, TableInv
            <4> QED BY <4>1, <4>2 DEF Created
        <3> QED BY <3>1, <3>2
    <2>2. \A m \in Fd : open'[m] = Foreign => m \in foreign'
        BY <1>2 DEF IInv, TableInv, Free, Foreign
    <2>3. IsFiniteSet(foreign') /\ Cardinality(foreign') <= MaxForeign
        BY DEF IInv, TableInv
    <2> QED BY <2>1, <2>2, <2>3 DEF TableInv, Created
<1>4. ASSUME ~touched', NEW u \in Threads, once_'[u], ~Told(u)' PROVE OwnEpoll(u)'
    <2>1. OwnEpoll(u) /\ u # t
        BY <1>4 DEF IInv, EpollInv
    <2>2. epoll_[u] # epoll_[t] /\ epoll_[u] \in Fd
        BY <2>1, TypeFacts DEF OwnEpoll
    <2> QED BY <1>2, <2>1, <2>2 DEF OwnEpoll
<1> QED BY <1>3, <1>4 DEF EpollInv

LEMMA RoundStep ==
    ASSUME IInv, NEW t \in Threads, Round(t)
    PROVE  IInv'
<1>1. /\ pc[t] = "round" /\ pc' = [pc EXCEPT ![t] = "test"]
      /\ UNCHANGED <<running_, loop_, promise_, epoll_, ownerVars, foreign, lost, touched>>
      /\ looping_' = looping_ \/ (t \in asked /\ looping_' = [looping_ EXCEPT ![t] = FALSE])
      /\ open' = open \/ (t \in asked /\ open' = [open EXCEPT ![epoll_[t]] = Free])
      /\ asked' \subseteq asked /\ left \subseteq left'
      /\ left' \subseteq Threads
    BY DEF Round, Go, IInv, TypeOK
<1>2. pc'[t] = "test" /\ \A u \in Threads \ {t} : pc'[u] = pc[u]
    BY <1>1, TypeFacts
<1>3. TypeOK'
    <2>1. /\ pc' \in [Threads -> {"unborn", "create", "wait", "asleep", "publish", "promise",
                                  "loop", "test", "poll", "round", "leave", "destroy", "ended"}]
          /\ looping_' \in [Threads -> BOOLEAN]
          /\ open' \in [Fd -> Threads \cup {Free, Foreign}]
        BY <1>1, TypeFacts DEF IInv, TypeOK
    <2> QED BY <1>1, <2>1 DEF IInv, TypeOK, ownerVars
<1>4. StartInv'
    BY <1>1, <1>2 DEF IInv, StartInv, Released, ownerVars
<1>5. OwnerInv'
    <2>1. \A u \in Threads : pc'[u] = "unborn" <=> pc[u] = "unborn"
        BY <1>1, <1>2
    <2>2. held # 0 \/ asked' # {} \/ left' # {} => \A u \in Threads : once_[u]
        BY DEF Round, IInv, OwnerInv
    <2> QED BY <1>1, <2>1, <2>2 DEF IInv, OwnerInv, ownerVars
<1>6. EndInv'
    BY <1>1, <1>2, TypeFacts DEF Round, IInv, EndInv, Told, ownerVars
<1>7. \A u \in Threads : Created(u)' <=> Created(u)
    BY <1>1, <1>2 DEF Created
<1>8. CASE t \in asked
    <2>1. /\ open' = [open EXCEPT ![epoll_[t]] = Free] /\ left' = left \cup {t}
        BY <1>8 DEF Round
    <2>2. ~Early' /\ Created(t)
        BY <1>1, <2>1 DEF Early, Created
    <2>3. \A u \in Threads : once_'[u] /\ ~Told(u)' => once_[u] /\ ~Told(u) /\ u # t
        BY <1>1, <2>1 DEF Told, ownerVars
    <2> QED BY <1>1, <1>3, <1>4, <1>5, <1>6, <1>7, <2>1, <2>2, <2>3, CloseOne DEF IInv
<1>9. CASE t \notin asked
    <2>1. UNCHANGED <<open, foreign, epoll_, asked, left, touched, ownerVars>>
        BY <1>1, <1>9 DEF Round
    <2> QED BY <1>3, <1>4, <1>5, <1>6, <1>7, <2>1, EpollKept
            DEF IInv, Early, Told, ownerVars
<1> QED BY <1>8, <1>9

LEMMA DestroyStep ==
    ASSUME IInv, NEW t \in Threads, Destroy(t)
    PROVE  IInv'
<1>1. /\ pc[t] = "destroy" /\ pc' = [pc EXCEPT ![t] = "ended"]
      /\ looping_' = [looping_ EXCEPT ![t] = FALSE]
      /\ open' = [open EXCEPT ![epoll_[t]] = Free]
      /\ UNCHANGED <<running_, loop_, promise_, epoll_, asked, ownerVars, foreign, ghosts>>
    BY DEF Destroy, Go
<1>2. /\ pc'[t] = "ended"
      /\ \A u \in Threads \ {t} : pc'[u] = pc[u] /\ looping_'[u] = looping_[u]
    BY <1>1, TypeFacts
<1>3. TypeOK'
    <2>1. /\ pc' \in [Threads -> {"unborn", "create", "wait", "asleep", "publish", "promise",
                                  "loop", "test", "poll", "round", "leave", "destroy", "ended"}]
          /\ looping_' \in [Threads -> BOOLEAN]
          /\ open' \in [Fd -> Threads \cup {Free, Foreign}]
        BY <1>1, TypeFacts DEF IInv, TypeOK
    <2> QED BY <1>1, <2>1 DEF IInv, TypeOK, ownerVars, ghosts
<1>4. \A u \in Threads : (Told(u)' <=> Told(u)) /\ (Released(u)' <=> Released(u))
    BY <1>1 DEF Told, Released, ownerVars, ghosts
<1>5. StartInv'
    BY <1>1, <1>2, <1>4 DEF IInv, StartInv, ownerVars
<1>6. OwnerInv'
    <2>1. \A u \in Threads : pc'[u] = "unborn" <=> pc[u] = "unborn"
        BY <1>1, <1>2
    <2> QED BY <1>1, <2>1 DEF IInv, OwnerInv, ownerVars, ghosts
<1>7. EndInv'
    BY <1>1, <1>2, <1>4 DEF IInv, EndInv
<1>8. Told(t)
    BY <1>1 DEF IInv, EndInv
<1>9. ~Early' /\ Created(t) /\ \A u \in Threads : Created(u)' <=> Created(u)
    BY <1>1, <1>2, <1>8 DEF Early, Told, Created, ownerVars, ghosts
<1>10. \A u \in Threads : once_'[u] /\ ~Told(u)' => once_[u] /\ ~Told(u) /\ u # t
    BY <1>1, <1>4, <1>8 DEF ownerVars
<1> QED BY <1>1, <1>3, <1>5, <1>6, <1>7, <1>9, <1>10, CloseOne DEF IInv, ghosts

-----------------------------------------------------------------------------
(***************************************************************************)
(* Steps of the pool's owner.                                              *)
(***************************************************************************)
LEMMA NextTurnFacts ==
    ASSUME IInv, NEW again, NEW end, NextTurn(again, end)
    PROVE  /\ turn' \in Threads
           /\ \/ owner' = again /\ turn' = turn + 1 /\ turn < Size
              \/ owner' = end /\ turn' = 1 /\ turn = Size
<1>1. turn \in Nat /\ turn >= 1 /\ turn <= Size /\ Size \in Nat
    BY ThreadsFacts, TypeFacts
<1> QED BY <1>1 DEF NextTurn, Threads

LEMMA AfterRunFacts ==
    ASSUME IInv, AfterRun
    PROVE  /\ turn' \in Threads
           /\ \/ owner' = "check" /\ turn' = turn /\ destroying
              \/ owner' = "run" /\ turn' = turn + 1 /\ turn < Size /\ ~destroying
              \/ owner' = "idle" /\ turn' = 1 /\ turn = Size /\ ~destroying
BY NextTurnFacts, TypeFacts DEF AfterRun

LEMMA ConstructStep ==
    ASSUME IInv, Construct
    PROVE  IInv'
<1>1. /\ owner = "construct" /\ pc' = [pc EXCEPT ![turn] = "create"]
      /\ UNCHANGED <<running_, loop_, promise_, looping_, epoll_, asked, once_, destroying,
                     loop_index_, held, tableVars, ghosts>>
      /\ turn' \in Threads
      /\ \/ owner' = "construct" /\ turn' = turn + 1
         \/ owner' = "idle" /\ turn' = 1
    BY NextTurnFacts DEF Construct
<1>2. /\ pc[turn] = "unborn" /\ ~destroying /\ \A t \in Threads : ~once_[t]
      /\ turn \in Threads /\ \A t \in Threads : t >= turn => pc[t] = "unborn"
    <2>1. turn >= turn /\ turn \in Threads
        BY ThreadsFacts, TypeFacts
    <2> QED BY <1>1, <2>1 DEF IInv, OwnerInv
<1>3. pc'[turn] = "create" /\ \A t \in Threads \ {turn} : pc'[t] = pc[t]
    BY <1>1, <1>2, TypeFacts
<1>4. TypeOK'
    <2>1. pc' \in [Threads -> {"unborn", "create", "wait", "asleep", "publish", "promise",
                               "loop", "test", "poll", "round", "leave", "destroy", "ended"}]
        BY <1>1 DEF IInv, TypeOK
    <2> QED BY <1>1, <2>1 DEF IInv, TypeOK, tableVars, ghosts
<1>5. \A t \in Threads : (Created(t)' <=> Created(t)) /\ (Told(t)' <=> Told(t))
                           /\ ~Released(t) /\ ~Released(t)'
    BY <1>1, <1>2, <1>3 DEF Created, Told, Released, ghosts
<1>6. StartInv' /\ EndInv'
    BY <1>1, <1>2, <1>3, <1>5 DEF IInv, StartInv, EndInv
<1>7. OwnerInv'
    <2>1. owner' = "construct" => \A t \in Threads : t >= turn' => pc'[t] = "unborn"
        <3> SUFFICES ASSUME owner' = "construct", NEW t \in Threads, t >= turn'
                     PROVE  pc'[t] = "unborn"
            OBVIOUS
        <3>1. t # turn /\ t >= turn
            BY <1>1, <1>2, ThreadsFacts
        <3> QED BY <1>2, <1>3, <3>1
    <2> QED BY <1>1, <1>2, <2>1 DEF IInv, OwnerInv, ghosts
<1>8. TableInv' /\ EpollInv'
    BY <1>1, <1>5, EpollKept DEF Early, tableVars, ghosts
<1> QED BY <1>4, <1>6, <1>7, <1>8 DEF IInv

\* The owner's steps that leave pc, loop_, promise_, looping_ and the table alone.
LEMMA QuietOwner ==
    ASSUME IInv, UNCHANGED <<pc, loop_, promise_, looping_, epoll_, tableVars, left>>,
           TypeOK', OwnerInv', Early' => Early, touched => touched',
           \A t \in Threads :
               /\ once_'[t] => promise_[t]
               /\ Released(t) => Released(t)'
               /\ running_'[t] => running_[t] \/ Released(t)'
               /\ Told(t) => Told(t)'
               /\ once_'[t] /\ ~Told(t)' => (once_[t] /\ ~Told(t)) \/ OwnEpoll(t)
    PROVE  IInv'
<1>1. StartInv'
    BY DEF IInv, StartInv
<1>2. EndInv'
    BY DEF IInv, EndInv
<1>3. \A t \in Threads : Created(t)' <=> Created(t)
    BY DEF Created
<1>4. TableInv' /\ EpollInv'
    BY <1>3, EpollKept DEF tableVars
<1> QED BY <1>1, <1>2, <1>4 DEF IInv

LEMMA StartStep ==
    ASSUME IInv, Start \/ BeginDestroy
    PROVE  IInv'
<1>1. /\ owner = "idle" /\ owner' = "run" /\ turn = 1 /\ ~destroying
      /\ destroying' \in BOOLEAN /\ held' \in {0, held}
      /\ UNCHANGED <<threadVars, once_, turn, loop_index_, tableVars, ghosts>>
    BY TypeFacts DEF Start, BeginDestroy, IInv, OwnerInv
<1>2. TypeOK'
    <2>1. held' \in 0 .. Size
        BY <1>1, ThreadsFacts DEF IInv, TypeOK
    <2> QED BY <1>1, <2>1 DEF IInv, TypeOK, threadVars, tableVars, ghosts
<1>3. OwnerInv'
    <2>1. \A t, u \in Threads : once_[t] => once_[u]
        BY <1>1 DEF IInv, OwnerInv
    <2>2. \A t \in Threads : ~(t < 1)
        BY ThreadsFacts
    <2> QED BY <1>1, <2>1, <2>2 DEF IInv, OwnerInv, threadVars, ghosts
<1>4. \A t \in Threads : once_[t] => promise_[t]
    BY DEF IInv, StartInv
<1> QED BY <1>1, <1>2, <1>3, <1>4, QuietOwner
        DEF Early, Told, Released, threadVars, tableVars, ghosts

LEMMA RunAgainStep ==
    ASSUME IInv, RunAgain \/ RunGet
    PROVE  IInv'
<1>1. /\ owner \in {"run", "get"} /\ once_'[turn] /\ promise_[turn]
      /\ \A t \in Threads \ {turn} : once_'[t] = once_[t]
      /\ once_' \in [Threads -> BOOLEAN]
      /\ UNCHANGED <<threadVars, destroying, loop_index_, held, tableVars, ghosts>>
      /\ owner = "run" => once_[turn]
    <2>1. turn \in Threads
        BY TypeFacts
    <2>2. CASE RunAgain
        BY <2>1, <2>2, TypeFacts DEF RunAgain, IInv, StartInv
    <2>3. CASE RunGet
        BY <2>1, <2>3, TypeFacts DEF RunGet
    <2> QED BY <2>2, <2>3
<1>2. /\ turn' \in Threads /\ turn \in Threads
      /\ \/ owner' = "check" /\ turn' = turn /\ destroying
         \/ owner' = "run" /\ turn' = turn + 1 /\ turn < Size /\ ~destroying
         \/ owner' = "idle" /\ turn' = 1 /\ turn = Size /\ ~destroying
    BY AfterRunFacts, TypeFacts DEF RunAgain, RunGet
<1>3. TypeOK'
    BY <1>1, <1>2 DEF IInv, TypeOK, threadVars, tableVars, ghosts
<1>4. \A t \in Threads : once_[t] => once_'[t]
    BY <1>1
<1>5. ~destroying => \A t \in Threads : t < turn => once_[t]
    BY <1>1 DEF IInv, OwnerInv
<1>6. OwnerInv'
    <2>1. ~destroying /\ owner' = "run" => \A t \in Threads : t < turn' => once_'[t]
        <3> SUFFICES ASSUME ~destroying, owner' = "run", NEW t \in Threads, t < turn'
                     PROVE  once_'[t]
            OBVIOUS
        <3>1. t = turn \/ t < turn
            BY <1>2, ThreadsFacts
        <3> QED BY <1>1, <1>4, <1>5, <3>1
    <2>2. owner' = "idle" => \A t \in Threads : once_'[t]
        <3> SUFFICES ASSUME owner' = "idle", NEW t \in Threads PROVE once_'[t]
            OBVIOUS
        <3>1. t = turn \/ t < turn
            BY <1>2, ThreadsFacts
        <3> QED BY <1>1, <1>2, <1>4, <1>5, <3>1
    <2>3. held # 0 \/ asked # {} \/ left # {} => \A t \in Threads : once_'[t]
        BY <1>4 DEF IInv, OwnerInv
    <2>4. destroying /\ owner' # "gone" =>
            \A t \in Threads : once_'[t] /\ turn' < t => \A u \in Threads : once_'[u]
        <3> SUFFICES ASSUME destroying, NEW t \in Threads, once_'[t], turn < t,
                            NEW u \in Threads
                     PROVE  once_'[u]
            BY <1>2
        <3>1. t # turn /\ owner # "gone"
            BY <1>1, <1>2, ThreadsFacts
        <3>2. once_[t]
            BY <1>1, <3>1
        <3> QED BY <1>4, <3>1, <3>2 DEF IInv, OwnerInv
    <2> QED BY <1>1, <1>2, <2>1, <2>2, <2>3, <2>4
            DEF IInv, OwnerInv, threadVars, ghosts
<1>7. ASSUME NEW t \in Threads
      PROVE  /\ once_'[t] => promise_[t]
             /\ Released(t) => Released(t)'
             /\ Told(t) => Told(t)'
             /\ once_'[t] /\ ~Told(t)' => (once_[t] /\ ~Told(t)) \/ OwnEpoll(t)
    <2>1. once_'[t] => promise_[t]
        BY <1>1 DEF IInv, StartInv
    <2>2. Released(t) => Released(t)'
        BY <1>1 DEF Released
    <2>3. Told(t) => Told(t)'
        BY <1>1, <1>2 DEF Told, ghosts
    <2>4. ASSUME once_'[t], ~Told(t)', ~once_[t] PROVE OwnEpoll(t)
        <3>1. t = turn
            BY <1>1, <2>4
        <3>2. ~destroying
            <4>1. turn >= turn
                BY <1>2, ThreadsFacts
            <4> QED BY <1>1, <1>2, <2>4, <3>1, <4>1 DEF Told
        <3>3. Early
            BY <2>4, <3>2 DEF Early, IInv, OwnerInv
        <3>4. Created(t)
            BY <1>1, <3>1 DEF IInv, StartInv, Created
        <3> QED BY <3>3, <3>4 DEF IInv, EpollInv
    <2> QED BY <2>1, <2>2, <2>3, <2>4
<1> QED BY <1>1, <1>3, <1>6, <1>7, QuietOwner DEF Early, threadVars, tableVars, ghosts

LEMMA RunSetStep ==
    ASSUME IInv, RunSet
    PROVE  IInv'
<1>1. /\ owner = "run" /\ ~once_[turn] /\ owner' = "notify"
      /\ running_' = [running_ EXCEPT ![turn] = TRUE] /\ turn \in Threads
      /\ UNCHANGED <<pc, loop_, promise_, looping_, epoll_, asked, once_, turn, destroying,
                     loop_index_, held, tableVars, ghosts>>
    BY TypeFacts DEF RunSet
<1>2. /\ running_' \in [Threads -> BOOLEAN]
      /\ \A t \in Threads \ {turn} : running_'[t] = running_[t]
    BY <1>1, TypeFacts
<1>3. TypeOK'
    BY <1>1, <1>2 DEF IInv, TypeOK, tableVars, ghosts
<1>4. OwnerInv'
    BY <1>1 DEF IInv, OwnerInv, ghosts
<1>5. \A t \in Threads : once_[t] => promise_[t]
    BY DEF IInv, StartInv
<1> QED BY <1>1, <1>2, <1>3, <1>4, <1>5, QuietOwner
        DEF Early, Told, Released, tableVars, ghosts

LEMMA RunNotifyStep ==
    ASSUME IInv, RunNotify
    PROVE  IInv'
<1>1. /\ owner = "notify" /\ owner' = "get" /\ turn \in Threads
      /\ UNCHANGED <<running_, loop_, promise_, looping_, epoll_, asked, once_, turn,
                     destroying, loop_index_, held, tableVars, ghosts>>
      /\ \A t \in Threads : pc'[t] = pc[t] \/ (pc[t] = "asleep" /\ pc'[t] = "wait")
      /\ pc' \in [Threads -> {"unborn", "create", "wait", "asleep", "publish", "promise",
                              "loop", "test", "poll", "round", "leave", "destroy", "ended"}]
    BY TypeFacts DEF RunNotify, IInv, TypeOK
<1>2. TypeOK'
    BY <1>1 DEF IInv, TypeOK, tableVars, ghosts
<1>3. OwnerInv'
    BY <1>1 DEF IInv, OwnerInv, ghosts
<1>4. \A t \in Threads : (Created(t)' <=> Created(t)) /\ (Told(t)' <=> Told(t))
                           /\ (Released(t)' <=> Released(t))
    BY <1>1 DEF Created, Told, Released, ghosts
<1>5. StartInv' /\ EndInv'
    BY <1>1, <1>4 DEF IInv, StartInv, EndInv
<1>6. TableInv' /\ EpollInv'
    BY <1>1, <1>4, EpollKept DEF Early, tableVars, ghosts
<1> QED BY <1>2, <1>3, <1>5, <1>6 DEF IInv

LEMMA GetNextLoopStep ==
    ASSUME IInv, GetNextLoop
    PROVE  IInv'
<1> DEFINE t == 1 + (loop_index_ % Size)
<1>1. /\ owner = "idle" /\ held' = (IF loop_[t] THEN t ELSE 0)
      /\ loop_index_' = (loop_index_ + 1) % (2 * Size)
      /\ UNCHANGED <<threadVars, once_, owner, turn, destroying, tableVars, ghosts>>
    BY DEF GetNextLoop
<1>2. t \in Threads /\ loop_index_' \in 0 .. 2 * Size - 1
    <2>1. loop_index_ \in Nat /\ Size \in Nat /\ Size >= 1
        BY ThreadsFacts DEF IInv, TypeOK
    <2>2. loop_index_ % Size \in 0 .. Size - 1
        BY <2>1
    <2>3. \A i, k \in Nat : k >= 1 => i % k \in 0 .. k - 1
        OBVIOUS
    <2>4. loop_index_ + 1 \in Nat /\ 2 * Size \in Nat /\ 2 * Size >= 1
        BY <2>1
    <2>5. (loop_index_ + 1) % (2 * Size) \in 0 .. 2 * Size - 1
        BY <2>3, <2>4
    <2> QED BY <1>1, <2>1, <2>2, <2>5 DEF Threads
<1> HIDE DEF t
<1>3. TypeOK'
    <2>1. held' \in 0 .. Size
        BY <1>1, <1>2, ThreadsFacts
    <2> QED BY <1>1, <1>2, <2>1 DEF IInv, TypeOK, threadVars, tableVars, ghosts
<1>4. held' # 0 => \A u \in Threads : once_[u]
    <2>1. loop_[t] => Released(t)
        BY <1>2 DEF IInv, StartInv
    <2>2. loop_[t] => once_[t]
        BY <1>1, <2>1 DEF Released
    <2> QED BY <1>1, <1>2, <2>2 DEF IInv, OwnerInv
<1>5. OwnerInv'
    BY <1>1, <1>4 DEF IInv, OwnerInv, threadVars, ghosts
<1>6. \A u \in Threads : once_[u] => promise_[u]
    BY DEF IInv, StartInv
<1> QED BY <1>1, <1>3, <1>5, <1>6, QuietOwner
        DEF Early, Told, Released, threadVars, tableVars, ghosts

LEMMA AskToQuitStep ==
    ASSUME IInv, AskToQuit
    PROVE  IInv'
<1>1. /\ owner = "idle" /\ held # 0
      /\ asked' = asked \cup {held} /\ held' = 0
      /\ UNCHANGED <<pc, running_, loop_, promise_, looping_, epoll_, once_, owner, turn,
                     destroying, loop_index_, tableVars, ghosts>>
    BY DEF AskToQuit
<1>2. TypeOK'
    <2>1. held \in Threads /\ 0 \in 0 .. Size
        BY <1>1, ThreadsFacts DEF IInv, TypeOK, Threads
    <2> QED BY <1>1, <2>1 DEF IInv, TypeOK, tableVars, ghosts
<1>3. OwnerInv'
    BY <1>1 DEF IInv, OwnerInv, ghosts
<1>4. \A t \in Threads : once_[t] => promise_[t]
    BY DEF IInv, StartInv
<1> QED BY <1>1, <1>2, <1>3, <1>4, QuietOwner
        DEF Early, Told, Released, tableVars, ghosts

\* The destructor's turn is told to end, and so is no other thread.
LEMMA TurnIsTold ==
    ASSUME IInv, owner \in {"check", "quit", "close", "join"}
    PROVE  destroying /\ turn \in Threads /\ Told(turn)
<1>1. turn >= turn
    BY ThreadsFacts, TypeFacts
<1> QED BY <1>1, TypeFacts DEF IInv, OwnerInv, Told

LEMMA CheckStep ==
    ASSUME IInv, Check
    PROVE  IInv'
<1>1. /\ owner = "check" /\ owner' \in {"quit", "join"} /\ destroying
      /\ UNCHANGED <<threadVars, once_, turn, destroying, loop_index_, held, tableVars,
                     ghosts>>
    BY TurnIsTold DEF Check
<1>2. TypeOK'
    BY <1>1 DEF IInv, TypeOK, threadVars, tableVars, ghosts
<1>3. OwnerInv'
    BY <1>1 DEF IInv, OwnerInv, threadVars, ghosts
<1>4. \A t \in Threads : once_[t] => promise_[t]
    BY DEF IInv, StartInv
<1> QED BY <1>1, <1>2, <1>3, <1>4, QuietOwner
        DEF Early, Told, Released, threadVars, tableVars, ghosts

LEMMA QuitStopStep ==
    ASSUME IInv, QuitStop
    PROVE  IInv'
<1>1. /\ owner = "quit" /\ owner' = "close"
      /\ looping_' = [looping_ EXCEPT ![turn] = FALSE]
      /\ lost' \subseteq lost \cup {turn}
      /\ touched' \in BOOLEAN /\ (touched => touched')
      /\ UNCHANGED <<pc, running_, loop_, promise_, epoll_, asked, once_, turn, destroying,
                     loop_index_, held, tableVars, left>>
      /\ destroying /\ turn \in Threads /\ Told(turn)
    BY TurnIsTold, TypeFacts DEF QuitStop
<1>2. TypeOK'
    <2>1. looping_' \in [Threads -> BOOLEAN]
        BY <1>1, TypeFacts
    <2> QED BY <1>1, <2>1 DEF IInv, TypeOK, tableVars
<1>3. OwnerInv'
    BY <1>1 DEF IInv, OwnerInv
<1>4. \A t \in Threads : (Created(t)' <=> Created(t)) /\ (Told(t)' <=> Told(t))
                           /\ (Released(t)' <=> Released(t))
    BY <1>1 DEF Created, Told, Released
<1>5. StartInv'
    BY <1>1, <1>4 DEF IInv, StartInv
<1>6. EndInv'
    <2>1. \A t \in Threads \ {turn} : looping_'[t] = looping_[t]
        BY <1>1, TypeFacts
    <2> QED BY <1>1, <1>4, <2>1 DEF IInv, EndInv
<1>7. TableInv' /\ EpollInv'
    BY <1>1, <1>4, EpollKept DEF Early, tableVars
<1> QED BY <1>2, <1>3, <1>5, <1>6, <1>7 DEF IInv

\* Of a loop that is gone quit closes any descriptor: nothing is said of the
\* others then, except who they take to be theirs.
LEMMA CloseAny ==
    ASSUME IInv, NEW n \in Fd, open' = [open EXCEPT ![n] = Free],
           UNCHANGED <<epoll_, foreign>>,
           \A u \in Threads : Created(u)' <=> Created(u)
    PROVE  TableInv'
<1>1. \A m \in Fd : open'[m] = open[m] \/ open'[m] = Free
    BY TypeFacts
<1>2. \A m \in Fd : open'[m] \in Threads => Created(open[m])' /\ epoll_'[open'[m]] = m
                                              /\ open'[m] = open[m]
    BY <1>1, ThreadsFacts DEF IInv, TableInv
<1>3. \A m \in Fd : open'[m] \in Threads =>
                         pc'[open'[m]] \notin {"unborn", "create"} /\ epoll_'[open'[m]] = m
    BY <1>2 DEF Created
<1>4. \A m \in Fd : open'[m] = Foreign => m \in foreign'
    BY <1>1 DEF IInv, TableInv, Free, Foreign
<1> QED BY <1>3, <1>4 DEF IInv, TableInv, Created

LEMMA QuitCloseStep ==
    ASSUME IInv, QuitClose
    PROVE  IInv'
<1>1. /\ owner = "close" /\ owner' = "join"
      /\ touched' = (touched \/ ~Exists(turn))
      /\ UNCHANGED <<threadVars, once_, turn, destroying, loop_index_, held, foreign, left,
                     lost>>
      /\ destroying /\ turn \in Threads /\ Told(turn)
    BY TurnIsTold DEF QuitClose
<1>2. PICK n \in Fd : /\ open' = [open EXCEPT ![n] = Free]
                      /\ Exists(turn) => n = epoll_[turn]
    BY <1>1, TypeFacts DEF QuitClose
<1>3. TypeOK'
    <2>1. open' \in [Fd -> Threads \cup {Free, Foreign}] /\ touched' \in BOOLEAN
        BY <1>1, <1>2, TypeFacts
    <2> QED BY <1>1, <2>1 DEF IInv, TypeOK, threadVars
<1>4. OwnerInv'
    BY <1>1 DEF IInv, OwnerInv, threadVars
<1>5. /\ ~Early'
      /\ \A t \in Threads : (Created(t)' <=> Created(t)) /\ (Told(t)' <=> Told(t))
                              /\ (Released(t)' <=> Released(t))
    BY <1>1 DEF Early, Created, Told, Released, threadVars
<1>6. StartInv' /\ EndInv'
    BY <1>1, <1>5 DEF IInv, StartInv, EndInv, threadVars
<1>7. TableInv' /\ EpollInv'
    <2>1. CASE Exists(turn)
        <3>1. \A u \in Threads : once_'[u] /\ ~Told(u)' => once_[u] /\ ~Told(u) /\ u # turn
            BY <1>1, <1>5
        <3>2. Created(turn)
            BY <2>1 DEF Exists, Created
        <3> QED BY <1>1, <1>2, <1>5, <2>1, <3>1, <3>2, CloseOne DEF threadVars
    <2>2. CASE ~Exists(turn)
        <3>1. TableInv'
            BY <1>1, <1>2, <1>5, CloseAny DEF threadVars
        <3> QED BY <1>1, <1>5, <2>2, <3>1 DEF EpollInv
    <2> QED BY <2>1, <2>2
<1> QED BY <1>3, <1>4, <1>6, <1>7 DEF IInv

LEMMA JoinStep ==
    ASSUME IInv, Join
    PROVE  IInv'
<1>1. /\ owner = "join" /\ destroying /\ turn \in Threads /\ turn' \in Threads
      /\ \/ owner' = "run" /\ turn' = turn + 1
         \/ owner' = "gone"
      /\ UNCHANGED <<threadVars, once_, destroying, loop_index_, held, tableVars, ghosts>>
    BY TurnIsTold, NextTurnFacts DEF Join
<1>2. TypeOK'
    BY <1>1 DEF IInv, TypeOK, threadVars, tableVars, ghosts
<1>3. OwnerInv'
    <2>1. owner' # "gone" =>
            \A t \in Threads : once_[t] /\ turn' < t => \A u \in Threads : once_[u]
        <3> SUFFICES ASSUME owner' # "gone", NEW t \in Threads, once_[t], turn' < t
                     PROVE  \A u \in Threads : once_[u]
            OBVIOUS
        <3>1. turn < t
            BY <1>1, ThreadsFacts
        <3> QED BY <1>1, <3>1 DEF IInv, OwnerInv
    <2> QED BY <1>1, <2>1 DEF IInv, OwnerInv, threadVars, ghosts
<1>4. \A t \in Threads : /\ once_[t] => promise_[t]
                         /\ Released(t) => Released(t)'
                         /\ Told(t) => Told(t)'
    <2>1. \A t \in Threads : turn >= t => owner' = "gone" \/ turn' >= t
        BY <1>1, ThreadsFacts
    <2> QED BY <1>1, <2>1 DEF IInv, StartInv, Released, Told, threadVars, ghosts
<1> QED BY <1>1, <1>2, <1>3, <1>4, QuietOwner DEF Early, threadVars, tableVars, ghosts

-----------------------------------------------------------------------------
(***************************************************************************)
(* The rest of the program.                                                *)
(***************************************************************************)
\* A step that changes the table alone.
LEMMA ForeignStep ==
    ASSUME IInv, UNCHANGED <<threadVars, ownerVars, ghosts>>,
           open' \in [Fd -> Threads \cup {Free, Foreign}], foreign' \subseteq Fd,
           TableInv', EpollInv'
    PROVE  IInv'
<1>1. TypeOK'
    BY DEF IInv, TypeOK, threadVars, ownerVars, ghosts
<1>2. StartInv'
    BY DEF IInv, StartInv, Released, threadVars, ownerVars
<1>3. OwnerInv'
    BY DEF IInv, OwnerInv, threadVars, ownerVars, ghosts
<1>4. EndInv'
    BY DEF IInv, EndInv, Told, threadVars, ownerVars, ghosts
<1> QED BY <1>1, <1>2, <1>3, <1>4 DEF IInv

LEMMA OpenForeignStep ==
    ASSUME IInv, OpenForeign
    PROVE  IInv'
<1> DEFINE n == LowestFree
<1>1. /\ open' = [open EXCEPT ![n] = Foreign] /\ foreign' = foreign \cup {n}
      /\ UNCHANGED <<threadVars, ownerVars, ghosts>>
      /\ Cardinality(foreign) < MaxForeign
    BY DEF OpenForeign
<1>2. n \in Fd /\ open[n] = Free
    BY LowestIsFree DEF OpenForeign
<1> HIDE DEF n
<1>3. open'[n] = Foreign /\ \A m \in Fd \ {n} : open'[m] = open[m]
    BY <1>1, <1>2, TypeFacts
<1>4. open' \in [Fd -> Threads \cup {Free, Foreign}] /\ foreign' \subseteq Fd
    BY <1>1, <1>2, TypeFacts
<1>5. \A t \in Threads : (Created(t)' <=> Created(t)) /\ (Told(t)' <=> Told(t))
    BY <1>1 DEF Created, Told, threadVars, ownerVars, ghosts
<1>6. TableInv'
    <2>1. IsFiniteSet(foreign') /\ Cardinality(foreign') <= MaxForeign
        <3>1. IsFiniteSet(foreign) /\ Cardinality(foreign) \in Nat /\ MaxForeign \in Nat
            BY FS_CardinalityType, FdAssumption DEF IInv, TableInv
        <3>2. IsFiniteSet(foreign') /\ (\/ Cardinality(foreign') = Cardinality(foreign)
                                        \/ Cardinality(foreign') = Cardinality(foreign) + 1)
            BY <1>1, <3>1, FS_AddElement
        <3> QED BY <1>1, <3>1, <3>2
    <2>2. \A m \in Fd : open'[m] \in Threads =>
                         pc'[open'[m]] \notin {"unborn", "create"} /\ epoll_'[open'[m]] = m
        BY <1>1, <1>3, ThreadsFacts DEF IInv, TableInv, Created, threadVars
    <2>3. \A m \in Fd : open'[m] = Foreign => m \in foreign'
        BY <1>1, <1>3 DEF IInv, TableInv
    <2> QED BY <2>1, <2>2, <2>3 DEF TableInv, Created
<1>7. ASSUME NEW t \in Threads, OwnEpoll(t) PROVE OwnEpoll(t)'
    <2>1. epoll_[t] \in Fd /\ epoll_[t] # n
        BY <1>2, <1>7, ThreadsFacts, TypeFacts DEF OwnEpoll
    <2> QED BY <1>1, <1>3, <1>5, <1>7, <2>1 DEF OwnEpoll, threadVars
<1>8. EpollInv'
    <2>1. Early' => Early
        BY <1>1 DEF Early, threadVars, ownerVars, ghosts
    <2>2. Early' => \A m \in foreign' : open'[m] = Foreign
        BY <1>1, <1>3, <2>1, TypeFacts DEF IInv, EpollInv
    <2>3. Early' => \A t \in Threads : Created(t)' => OwnEpoll(t)'
        BY <1>5, <1>7, <2>1 DEF IInv, EpollInv
    <2>4. ~touched' => \A t \in Threads : once_'[t] /\ ~Told(t)' => OwnEpoll(t)'
        BY <1>1, <1>5, <1>7 DEF IInv, EpollInv, ownerVars, ghosts
    <2> QED BY <2>2, <2>3, <2>4 DEF EpollInv
<1> QED BY <1>1, <1>4, <1>6, <1>8, ForeignStep

LEMMA CloseForeignStep ==
    ASSUME IInv, NEW n \in Fd, CloseForeign(n)
    PROVE  IInv'
<1>1. /\ open' = [open EXCEPT ![n] = Free] /\ foreign' = foreign \ {n} /\ n \in foreign
      /\ UNCHANGED <<threadVars, ownerVars, ghosts>>
    BY DEF CloseForeign
<1>2. open'[n] = Free /\ \A m \in Fd \ {n} : open'[m] = open[m]
    BY <1>1, TypeFacts
<1>3. open' \in [Fd -> Threads \cup {Free, Foreign}] /\ foreign' \subseteq Fd
    BY <1>1, TypeFacts
<1>4. \A t \in Threads : (Created(t)' <=> Created(t)) /\ (Told(t)' <=> Told(t))
    BY <1>1 DEF Created, Told, threadVars, ownerVars, ghosts
<1>5. TableInv'
    <2>1. IsFiniteSet(foreign') /\ Cardinality(foreign') <= MaxForeign
        <3>1. IsFiniteSet(foreign) /\ Cardinality(foreign) \in Nat /\ MaxForeign \in Nat
              /\ Cardinality(foreign) <= MaxForeign
            BY FS_CardinalityType, FdAssumption DEF IInv, TableInv
        <3>2. IsFiniteSet(foreign') /\ Cardinality(foreign') = Cardinality(foreign) - 1
            BY <1>1, <3>1, FS_RemoveElement
        <3> QED BY <3>1, <3>2
    <2>2. \A m \in Fd : open'[m] \in Threads =>
                         pc'[open'[m]] \notin {"unborn", "create"} /\ epoll_'[open'[m]] = m
        BY <1>1, <1>2, ThreadsFacts DEF IInv, TableInv, Created, threadVars
    <2>3. \A m \in Fd : open'[m] = Foreign => m \in foreign'
        BY <1>1, <1>2, ThreadsFacts DEF IInv, TableInv, Free, Foreign
    <2> QED BY <2>1, <2>2, <2>3 DEF TableInv, Created
<1>6. ASSUME NEW t \in Threads, OwnEpoll(t) PROVE OwnEpoll(t)'
    <2>1. epoll_[t] \in Fd /\ epoll_[t] # n
        BY <1>1, <1>6, TypeFacts DEF OwnEpoll
    <2> QED BY <1>1, <1>2, <1>4, <1>6, <2>1 DEF OwnEpoll, threadVars
<1>7. EpollInv'
    <2>1. Early' => Early
        BY <1>1 DEF Early, threadVars, ownerVars, ghosts
    <2>2. Early' => \A m \in foreign' : open'[m] = Foreign
        BY <1>1, <1>2, <2>1, TypeFacts DEF IInv, EpollInv
    <2>3. Early' => \A t \in Threads : Created(t)' => OwnEpoll(t)'
        BY <1>4, <1>6, <2>1 DEF IInv, EpollInv
    <2>4. ~touched' => \A t \in Threads : once_'[t] /\ ~Told(t)' => OwnEpoll(t)'
        BY <1>1, <1>4, <1>6 DEF IInv, EpollInv, ownerVars, ghosts
    <2> QED BY <2>2, <2>3, <2>4 DEF EpollInv
<1> QED BY <1>1, <1>3, <1>5, <1>7, ForeignStep

-----------------------------------------------------------------------------
LEMMA NextIInv == IInv /\ [Next]_vars => IInv'
<1> SUFFICES ASSUME IInv, [Next]_vars PROVE IInv'
    OBVIOUS
<1>1. ASSUME NEW t \in Threads, ThreadStep(t) \/ SpuriousWake(t) PROVE IInv'
    BY <1>1, CreateStep, LocalStep, RoundStep, DestroyStep DEF ThreadStep
<1>2. CASE OwnerStep
    BY <1>2, ConstructStep, RunAgainStep, RunSetStep, RunNotifyStep, CheckStep,
       QuitStopStep, QuitCloseStep, JoinStep DEF OwnerStep
<1>3. CASE Start \/ BeginDestroy \/ GetNextLoop \/ AskToQuit
    BY <1>3, StartStep, GetNextLoopStep, AskToQuitStep
<1>4. CASE OpenForeign \/ \E n \in Fd : CloseForeign(n)
    BY <1>4, OpenForeignStep, CloseForeignStep
<1>5. CASE UNCHANGED vars
    <2>1. UNCHANGED <<threadVars, ownerVars, tableVars, ghosts>>
        BY <1>5 DEF vars
    <2>2. /\ \A t \in Threads : /\ Created(t)' <=> Created(t)
                                /\ Told(t)' <=> Told(t)
                                /\ OwnEpoll(t)' <=> OwnEpoll(t)
          /\ Early' <=> Early
        BY <2>1
           DEF Created, Told, OwnEpoll, Early, threadVars, ownerVars, tableVars, ghosts
    <2>3. TableInv' /\ EpollInv'
        BY <2>1, <2>2 DEF IInv, TableInv, EpollInv, Created, threadVars, ownerVars,
                          tableVars, ghosts
    <2> QED BY <2>1, <2>3, ForeignStep DEF IInv, TypeOK, tableVars
<1> QED BY <1>1, <1>2, <1>3, <1>4, <1>5 DEF Next

LEMMA InductiveInvariant == Spec => []IInv
BY InitIInv, NextIInv, PTL DEF Spec

\* The state of the pool, of its threads and of the process's descriptors has
\* its type: above all, a thread that creates its epoll always finds a descriptor,
\* whatever was closed twice.
THEOREM PoolTypeCorrect == Spec => []TypeOK
<1>1. IInv => TypeOK
    BY DEF IInv
<1> QED BY <1>1, InductiveInvariant, PTL

\* EventLoopThread::getLoop returns a pointer only to a loop that exists, and
\* returns one from the return of run until the loop is told to end: startLoop
\* sets, announces and clears loop_ in the right order, in a pool of any size.
THEOREM GetLoopTellsTruth == Spec => []GetLoopIsTrue
<1>1. IInv => GetLoopIsTrue
    <2> SUFFICES ASSUME IInv, NEW t \in Threads
                 PROVE  (loop_[t] => Exists(t)) /\ (InService(t) => loop_[t])
        BY DEF GetLoopIsTrue
    <2>1. loop_[t] => Exists(t)
        BY DEF IInv, StartInv, Exists
    <2>2. ASSUME InService(t) PROVE loop_[t]
        <3>1. once_[t] /\ ~Told(t)
            BY <2>2, ThreadsFacts, TypeFacts DEF InService, Told
        <3> QED BY <3>1 DEF IInv, StartInv, EndInv
    <2> QED BY <2>1, <2>2
<1> QED BY <1>1, InductiveInvariant, PTL

\* As long as no destructor has read epoll_ from a loop that is gone, the epoll a
\* loop in service waits on is the one it created, whatever quit and the
\* destructors of the other loops, each of which closes its number twice, and
\* the rest of the program have closed.
THEOREM LoopsKeepTheirEpoll == Spec => []EpollIsItsOwn
<1>1. IInv => EpollIsItsOwn
    <2> SUFFICES ASSUME IInv, ~touched, NEW t \in Threads, InService(t)
                 PROVE  open[epoll_[t]] = t
        BY DEF EpollIsItsOwn
    <2>1. once_[t] /\ ~Told(t)
        BY ThreadsFacts, TypeFacts DEF InService, Told
    <2> QED BY <2>1 DEF IInv, EpollInv, OwnEpoll
<1> QED BY <1>1, InductiveInvariant, PTL

-----------------------------------------------------------------------------
(***************************************************************************)
(* The worker of DnsService.                                               *)
(***************************************************************************)
\* start and stop are called in one thread.
OneCaller == \A a, b \in Caller : a = b

\* Who looks hosts up is the worker that thread_ stands for: stop has waited for
\* the one before, or start would have ended the process.
DnsWorkerInv == ~terminated => Alive \subseteq {thread_}

\* Where the only caller finds thread_ free.
DnsCallerInv ==
  OneCaller =>
    /\ ~terminated
    /\ \A c \in Caller :
         /\ call[c] \in {"set", "create"} => thread_ = 0
         /\ call[c] = "create" => serving
         /\ call[c] = "none" /\ ~serving => thread_ = 0

\* What a worker has found is no newer than the record and no older than what
\* the table has.
DnsTableInv ==
  /\ \A h \in Known : host_infos_[h] <= record[h]
  /\ \A w \in Worker :
       /\ todo[w] \subseteq Known
       /\ worker[w] \in {"lookup", "update"} => host[w] \in Known
       /\ worker[w] = "update" =>
            /\ addrs[w] <= record[host[w]]
            /\ host[w] \notin meddled => host_infos_[host[w]] <= addrs[w]

DnsIInv == DnsTypeOK /\ DnsWorkerInv /\ DnsCallerInv /\ DnsTableInv

LEMMA DnsFacts ==
  ASSUME DnsIInv
  PROVE  /\ Known \subseteq Host /\ \A h \in Known : host_infos_[h] \in 0 .. MaxVersion
         /\ serving \in BOOLEAN /\ terminated \in BOOLEAN
         /\ thread_ \in 0 .. MaxStarts /\ started \in 0 .. MaxStarts
         /\ call \in [Caller -> {"none", "set", "create", "clear", "join"}]
         /\ worker \in [Worker -> {"unborn", "test", "next", "lookup", "update", "ended"}]
         /\ todo \in [Worker -> SUBSET Host] /\ host \in [Worker -> Host \cup {NoHost}]
         /\ tries \in [Worker -> 0 .. Retry - 1] /\ addrs \in [Worker -> 0 .. MaxVersion]
         /\ record \in [Host -> 1 .. MaxVersion] /\ meddled \subseteq Host
         /\ Retry \in Nat /\ MaxStarts \in Nat /\ MaxVersion \in Nat /\ MaxVersion >= 1
         /\ Worker = 1 .. MaxStarts
BY BoundsAssumption DEF DnsIInv, DnsTypeOK, Worker

LEMMA DnsInitIInv == DnsInit => DnsIInv
<1> SUFFICES ASSUME DnsInit PROVE DnsIInv
  OBVIOUS
<1> USE DEF DnsInit
<1>1. Known = {}
  BY DEF Known
<1>2. DnsTypeOK
  <2>1. {serving, terminated} \subseteq BOOLEAN
    OBVIOUS
  <2>2. /\ record \in [Host -> 1 .. MaxVersion] /\ tries \in [Worker -> 0 .. Retry - 1]
        /\ addrs \in [Worker -> 0 .. MaxVersion]
        /\ thread_ \in 0 .. MaxStarts /\ started \in 0 .. MaxStarts
    BY BoundsAssumption
  <2>3. /\ todo \in [Worker -> SUBSET Host] /\ host \in [Worker -> Host \cup {NoHost}]
        /\ call \in [Caller -> {"none", "set", "create", "clear", "join"}]
        /\ worker \in [Worker -> {"unborn", "test", "next", "lookup", "update", "ended"}]
    OBVIOUS
  <2> QED BY <1>1, <2>1, <2>2, <2>3 DEF DnsTypeOK
<1>3. DnsWorkerInv
  BY DEF DnsWorkerInv, Alive
<1>4. DnsCallerInv
  BY DEF DnsCallerInv
<1>5. DnsTableInv
  BY <1>1 DEF DnsTableInv
<1> QED BY <1>2, <1>3, <1>4, <1>5 DEF DnsIInv

\* Steps of the callers of start and stop, which leave the table alone.
LEMMA DnsCallerStep ==
  ASSUME DnsIInv, ~terminated, NEW c \in Caller,
         DnsStart(c) \/ Stop(c) \/ StartSet(c) \/ StopClear(c) \/ StopJoin(c)
  PROVE  DnsIInv'
<1>1. PICK to \in {"none", "set", "create", "clear", "join"} :
        call' = [call EXCEPT ![c] = to]
  BY DEF DnsStart, Stop, StartSet, StopClear, StopJoin, Goes
<1>2. /\ UNCHANGED <<started, terminated, worker, todo, host, tries, addrs,
                     host_infos_, meddled, record>>
      /\ serving' \in BOOLEAN /\ thread_' \in {0, thread_}
      /\ thread_' # thread_ => StopJoin(c)
  BY DnsFacts DEF DnsStart, Stop, StartSet, StopClear, StopJoin,
     workerVars, hostVars
<1>3. DnsTypeOK'
  BY <1>1, <1>2, DnsFacts DEF DnsTypeOK, Known, Worker
<1>4. DnsWorkerInv'
  <2>1. Alive' = Alive
    BY <1>2 DEF Alive
  <2>2. thread_' # thread_ => Alive \subseteq {}
    <3>1. ASSUME StopJoin(c), NEW w \in Alive PROVE FALSE
      <4>1. w = thread_ /\ w \in Worker /\ worker[w] # "ended"
        BY <3>1 DEF DnsIInv, DnsWorkerInv, Alive
      <4>2. thread_ # 0
        BY <4>1, DnsFacts
      <4> QED BY <3>1, <4>1, <4>2 DEF StopJoin
    <3> QED BY <1>2, <3>1
  <2> QED BY <2>1, <2>2 DEF DnsIInv, DnsWorkerInv
<1>5. DnsCallerInv'
  <2> SUFFICES ASSUME OneCaller, NEW d \in Caller
               PROVE  /\ call'[d] \in {"set", "create"} => thread_' = 0
                      /\ call'[d] = "create" => serving'
                      /\ call'[d] = "none" /\ ~serving' => thread_' = 0
    BY <1>2 DEF DnsCallerInv, OneCaller
  <2>1. d = c
    BY DEF OneCaller
  <2>2. /\ call[c] \in {"set", "create"} => thread_ = 0
        /\ call[c] = "create" => serving
        /\ call[c] = "none" /\ ~serving => thread_ = 0
    BY DEF DnsIInv, DnsCallerInv
  <2>3. call'[c] = to
    BY <1>1, DnsFacts
  <2>4. CASE DnsStart(c)
    BY <2>1, <2>2, <2>3, <2>4, <1>1, DnsFacts DEF DnsStart, Goes
  <2>5. CASE Stop(c)
    BY <2>1, <2>2, <2>3, <2>5, <1>1, DnsFacts DEF Stop, Goes
  <2>6. CASE StartSet(c)
    BY <2>1, <2>2, <2>3, <2>6, <1>1, DnsFacts DEF StartSet, Goes
  <2>7. CASE StopClear(c)
    BY <2>1, <2>2, <2>3, <2>7, <1>1, DnsFacts DEF StopClear, Goes
  <2>8. CASE StopJoin(c)
    BY <2>1, <2>2, <2>3, <2>8, <1>1, DnsFacts DEF StopJoin, Goes
  <2> QED BY <2>4, <2>5, <2>6, <2>7, <2>8
<1>6. DnsTableInv'
  BY <1>2 DEF DnsIInv, DnsTableInv, Known
<1> QED BY <1>3, <1>4, <1>5, <1>6 DEF DnsIInv

LEMMA DnsStartThreadStep ==
  ASSUME DnsIInv, ~terminated, NEW c \in Caller, StartThread(c)
  PROVE  DnsIInv'
<1>1. /\ call[c] = "create" /\ call' = [call EXCEPT ![c] = "none"]
      /\ started < MaxStarts /\ started' = started + 1
      /\ worker' = [worker EXCEPT ![started + 1] = "test"]
      /\ thread_ = 0 => thread_' = started + 1 /\ terminated' = terminated
      /\ thread_ # 0 => terminated' = TRUE /\ thread_' = thread_
      /\ UNCHANGED <<serving, todo, host, tries, addrs, host_infos_, meddled, record>>
  BY DEF StartThread, Goes, hostVars
<1>2. started + 1 \in Worker
  BY <1>1, DnsFacts
<1>3. DnsTypeOK'
  <2>1. started' \in 0 .. MaxStarts /\ thread_' \in 0 .. MaxStarts
    BY <1>1, DnsFacts
  <2>a. terminated' \in BOOLEAN
    BY <1>1, DnsFacts, Zenon
  <2> QED BY <1>1, <2>1, <2>a, DnsFacts DEF DnsTypeOK, Known, Worker
<1>4. DnsWorkerInv'
  <2> SUFFICES ASSUME ~terminated', NEW w \in Alive'
               PROVE  w = thread_'
    BY DEF DnsWorkerInv
  <2>1. thread_ = 0 /\ thread_' = started + 1
    BY <1>1
  <2>2. w \in Worker /\ worker'[w] \notin {"unborn", "ended"}
    BY DEF Alive, Worker
  <2>3. w # started + 1 => w \in Alive
    BY <1>1, <2>2, DnsFacts DEF Alive
  <2>4. w \in Alive => w = 0
    BY <2>1 DEF DnsIInv, DnsWorkerInv
  <2> QED BY <2>1, <2>2, <2>3, <2>4, DnsFacts
<1>5. DnsCallerInv'
  <2> SUFFICES ASSUME OneCaller
               PROVE  /\ ~terminated'
                      /\ \A d \in Caller : call'[d] = "none" /\ serving'
    BY DEF DnsCallerInv, OneCaller
  <2>1. thread_ = 0 /\ serving
    BY <1>1 DEF DnsIInv, DnsCallerInv
  <2>2. \A d \in Caller : d = c
    BY DEF OneCaller
  <2> QED BY <1>1, <2>1, <2>2, DnsFacts
<1>6. DnsTableInv'
  <2>1. \A w \in Worker : worker'[w] = worker[w] \/ worker'[w] = "test"
    BY <1>1, DnsFacts
  <2>2. Worker' = Worker /\ Known' = Known
    BY <1>1 DEF Worker, Known
  <2> QED BY <1>1, <2>1, <2>2 DEF DnsIInv, DnsTableInv
<1> QED BY <1>3, <1>4, <1>5, <1>6 DEF DnsIInv

\* A step of a worker changes what DnsTableInv says of that worker only.
LEMMA DnsWorkerStep ==
  ASSUME DnsIInv, ~terminated, NEW w \in Worker, WorkerStep(w)
  PROVE  /\ DnsIInv'
         /\ \A h \in Known :
              h \in meddled' \/ (h \in Known' /\ host_infos_'[h] >= host_infos_[h])
<1>1. w \in Alive /\ w = thread_ /\ \A v \in Alive : v = w
  <2>1. w \in Alive
    BY DEF WorkerStep, Copy, Sleep, NextHost, LookupFinds,
       LookupFails, Update, At, Alive
  <2> QED BY <2>1 DEF DnsIInv, DnsWorkerInv
<1>2. UNCHANGED <<serving, thread_, started, call, terminated, record, meddled>>
  BY DEF WorkerStep, Copy, Sleep, NextHost, LookupFinds,
     LookupFails, Update, callVars, hostVars
<1>3. PICK to \in {"test", "next", "lookup", "update", "ended"} :
        worker' = [worker EXCEPT ![w] = to]
  BY DEF WorkerStep, Copy, Sleep, NextHost, LookupFinds,
     LookupFails, Update, At
<1>4. /\ worker'[w] = to
      /\ \A v \in Worker \ {w} : worker'[v] = worker[v]
  BY <1>3, DnsFacts
<1>5. DnsWorkerInv'
  <2>1. \A v \in Worker : worker'[v] \notin {"unborn", "ended"} => v \in Alive
    BY <1>1, <1>4 DEF Alive
  <2> QED BY <1>1, <1>2, <2>1 DEF DnsWorkerInv, Alive, Worker
<1>6. DnsCallerInv'
  BY <1>2 DEF DnsIInv, DnsCallerInv
<1>7. \A v \in Worker \ {w} : worker[v] \notin {"lookup", "update"}
  BY <1>1 DEF Alive
<1> DEFINE Typed ==
      /\ Known' \subseteq Host /\ \A h \in Known' : host_infos_'[h] \in 0 .. MaxVersion
      /\ todo' \in [Worker -> SUBSET Host] /\ host' \in [Worker -> Host \cup {NoHost}]
      /\ tries' \in [Worker -> 0 .. Retry - 1] /\ addrs' \in [Worker -> 0 .. MaxVersion]
    Mine ==
      /\ todo'[w] \subseteq Known'
      /\ to \in {"lookup", "update"} => host'[w] \in Known'
      /\ to = "update" =>
           /\ addrs'[w] <= record[host'[w]]
           /\ host'[w] \notin meddled => host_infos_'[host'[w]] <= addrs'[w]
    Table ==
      /\ Known' = Known
      /\ \A h \in Known : host_infos_'[h] <= record[h]
      /\ \A h \in Known : h \in meddled \/ host_infos_'[h] >= host_infos_[h]
<1>8. ASSUME Typed, Mine, Table, \A v \in Worker \ {w} : todo'[v] = todo[v]
      PROVE  /\ DnsIInv'
             /\ \A h \in Known :
                  h \in meddled' \/ (h \in Known' /\ host_infos_'[h] >= host_infos_[h])
  <2>1. DnsTypeOK'
    <3>1. worker' \in [Worker -> {"unborn", "test", "next", "lookup", "update", "ended"}]
      BY <1>3, DnsFacts
    <3>2. Worker' = Worker
      BY DEF Worker
    <3> QED BY <1>2, <1>8, <3>1, <3>2, DnsFacts DEF DnsTypeOK
  <2>2. DnsTableInv'
    <3> SUFFICES ASSUME NEW v \in Worker
                 PROVE  /\ todo'[v] \subseteq Known'
                        /\ worker'[v] \in {"lookup", "update"} => host'[v] \in Known'
                        /\ worker'[v] = "update" =>
                             /\ addrs'[v] <= record[host'[v]]
                             /\ host'[v] \notin meddled => host_infos_'[host'[v]] <= addrs'[v]
      BY <1>2, <1>8 DEF DnsTableInv, Worker
    <3>1. CASE v = w
      BY <1>4, <1>8, <3>1
    <3>2. CASE v # w
      BY <1>4, <1>7, <1>8, <3>2 DEF DnsIInv, DnsTableInv
    <3> QED BY <3>1, <3>2
  <2> QED BY <1>2, <1>5, <1>6, <1>8, <2>1, <2>2 DEF DnsIInv
<1>9. ASSUME host_infos_' = host_infos_
      PROVE  Table /\ Known' = Known
  <2>1. Known' = Known
    BY <1>9 DEF Known
  <2>2. \A h \in Known : host_infos_[h] \in Int /\ host_infos_[h] <= record[h]
    BY DnsFacts DEF DnsIInv, DnsTableInv
  <2> QED BY <1>9, <2>1, <2>2
<1>10. /\ todo[w] \subseteq Known
       /\ worker[w] \in {"lookup", "update"} => host[w] \in Known
       /\ worker[w] = "update" =>
            /\ addrs[w] <= record[host[w]]
            /\ host[w] \notin meddled => host_infos_[host[w]] <= addrs[w]
       /\ \A h \in Known : host_infos_[h] <= record[h]
  BY DEF DnsIInv, DnsTableInv
<1> HIDE DEF Table
<1>11. CASE Copy(w)
  <2>1. /\ UNCHANGED <<host, tries, addrs, host_infos_>>
        /\ to \in {"next", "ended"}
        /\ todo' = todo \/ todo' = [todo EXCEPT ![w] = Known]
    BY <1>3, <1>4, <1>11, DnsFacts DEF Copy, At, hostVars
  <2>2. Table /\ Known' = Known
    BY <1>9, <2>1
  <2>3. Typed /\ Mine /\ \A v \in Worker \ {w} : todo'[v] = todo[v]
    BY <1>10, <2>1, <2>2, DnsFacts
  <2> QED BY <1>8, <2>2, <2>3
<1>12. CASE Sleep(w)
  <2>1. UNCHANGED <<todo, host, tries, addrs, host_infos_>> /\ to = "test"
    BY <1>3, <1>4, <1>12, DnsFacts DEF Sleep, At, hostVars
  <2>2. Table /\ Known' = Known
    BY <1>9, <2>1
  <2>3. Typed /\ Mine /\ \A v \in Worker \ {w} : todo'[v] = todo[v]
    BY <1>10, <2>1, <2>2, DnsFacts
  <2> QED BY <1>8, <2>2, <2>3
<1>13. CASE NextHost(w)
  <2>1. PICK h \in todo[w] :
          /\ host' = [host EXCEPT ![w] = h] /\ todo' = [todo EXCEPT ![w] = @ \ {h}]
          /\ UNCHANGED <<tries, addrs, host_infos_>> /\ worker' = [worker EXCEPT ![w] = "lookup"]
    BY <1>13 DEF NextHost, At, hostVars
  <2>2. Table /\ Known' = Known
    BY <1>9, <2>1
  <2>3. to = "lookup" /\ h \in Known /\ h \in Host
    BY <1>4, <1>10, <2>1, DnsFacts
  <2>4. Typed /\ Mine /\ \A v \in Worker \ {w} : todo'[v] = todo[v]
    BY <1>10, <2>1, <2>2, <2>3, DnsFacts
  <2> QED BY <1>8, <2>2, <2>4
<1>14. CASE LookupFinds(w)
  <2>1. /\ worker[w] = "lookup" /\ to = "update"
        /\ addrs' = [addrs EXCEPT ![w] = record[host[w]]]
        /\ UNCHANGED <<todo, host, tries, host_infos_>>
    BY <1>3, <1>4, <1>14, DnsFacts DEF LookupFinds, At, hostVars
  <2>2. Table /\ Known' = Known
    BY <1>9, <2>1
  <2>3. host[w] \in Known /\ record[host[w]] \in 0 .. MaxVersion
    BY <1>10, <2>1, DnsFacts
  <2>4. addrs' \in [Worker -> 0 .. MaxVersion] /\ addrs'[w] = record[host[w]]
    BY <2>1, <2>3, DnsFacts
  <2>5. Mine
    BY <1>10, <2>1, <2>2, <2>3, <2>4
  <2>6. Typed /\ \A v \in Worker \ {w} : todo'[v] = todo[v]
    BY <2>1, <2>2, <2>4, DnsFacts
  <2> QED BY <1>8, <2>2, <2>5, <2>6
<1>15. CASE LookupFails(w)
  <2>1. /\ worker[w] = "lookup" /\ to \in {"lookup", "next"}
        /\ to = "lookup" => host' = host
        /\ host' = host \/ host' = [host EXCEPT ![w] = NoHost]
        /\ tries' \in [Worker -> 0 .. Retry - 1]
        /\ UNCHANGED <<todo, addrs, host_infos_>>
    <3>1. /\ worker[w] = "lookup" /\ UNCHANGED <<todo, addrs, host_infos_>>
      BY <1>15 DEF LookupFails, At, hostVars
    <3>2. CASE tries[w] + 1 < Retry
      <4>1. /\ worker' = [worker EXCEPT ![w] = "lookup"] /\ host' = host
            /\ tries' = [tries EXCEPT ![w] = @ + 1]
        BY <1>15, <3>2 DEF LookupFails, At
      <4>2. tries[w] + 1 \in 0 .. Retry - 1
        BY <3>2, DnsFacts
      <4> QED BY <1>4, <3>1, <4>1, <4>2, DnsFacts
    <3>3. CASE ~(tries[w] + 1 < Retry)
      <4>1. /\ worker' = [worker EXCEPT ![w] = "next"] /\ host' = [host EXCEPT ![w] = NoHost]
            /\ tries' = [tries EXCEPT ![w] = 0]
        BY <1>15, <3>3 DEF LookupFails, At, EndHost
      <4>2. 0 \in 0 .. Retry - 1
        BY BoundsAssumption
      <4> QED BY <1>4, <3>1, <4>1, <4>2, DnsFacts
    <3> QED BY <3>2, <3>3
  <2>2. Table /\ Known' = Known
    BY <1>9, <2>1
  <2>3. Typed /\ Mine /\ \A v \in Worker \ {w} : todo'[v] = todo[v]
    BY <1>10, <2>1, <2>2, DnsFacts
  <2> QED BY <1>8, <2>2, <2>3
<1>16. CASE Update(w)
  <2>1. /\ worker[w] = "update" /\ to = "next"
        /\ host_infos_' = Put(host[w], addrs[w])
        /\ host' = [host EXCEPT ![w] = NoHost] /\ tries' = [tries EXCEPT ![w] = 0]
        /\ addrs' = [addrs EXCEPT ![w] = 0] /\ todo' = todo
    BY <1>3, <1>4, <1>16, DnsFacts DEF Update, EndHost, At
  <2>2. host[w] \in Known /\ addrs[w] \in 0 .. MaxVersion
    BY <1>10, <2>1, DnsFacts
  <2>3. /\ Known' = Known
        /\ \A h \in Known :
             host_infos_'[h] = IF h = host[w] THEN addrs[w] ELSE host_infos_[h]
    <3>1. Known \cup {host[w]} = Known
      BY <2>2
    <3>2. host_infos_' = [k \in Known |-> IF k = host[w] THEN addrs[w] ELSE host_infos_[k]]
      BY <2>1, <3>1 DEF Put
    <3> QED BY <3>2 DEF Known
  <2>4. Table
    <3>1. \A h \in Known : host_infos_[h] \in Int
      BY DnsFacts
    <3> QED BY <1>10, <2>1, <2>2, <2>3, <3>1 DEF Table
  <2>5. Typed /\ Mine
    <3>1. 0 \in 0 .. Retry - 1 /\ 0 \in 0 .. MaxVersion
      BY BoundsAssumption
    <3> QED BY <1>10, <2>1, <2>2, <2>3, <3>1, DnsFacts
  <2> QED BY <1>8, <2>1, <2>4, <2>5
<1> QED BY <1>11, <1>12, <1>13, <1>14, <1>15, <1>16 DEF WorkerStep

\* addHost, updateHostAddress from outside, and changes of the records.
LEMMA DnsTableStep ==
  ASSUME DnsIInv, NEW h \in Host,
         AddHost(h) \/ UpdateHostAddress(h) \/ RecordChanges(h)
  PROVE  /\ DnsIInv'
         /\ \A k \in Known :
              k \in meddled' \/ (k \in Known' /\ host_infos_'[k] >= host_infos_[k])
<1>1. UNCHANGED <<serving, thread_, started, call, terminated, worker, todo, host, tries, addrs>>
  BY DEF AddHost, UpdateHostAddress, RecordChanges, callVars, workerVars
<1>2. DnsWorkerInv' /\ DnsCallerInv'
  BY <1>1 DEF DnsIInv, DnsWorkerInv, DnsCallerInv, Alive, Worker
<1> DEFINE After ==
      /\ Known' \subseteq Host /\ Known \subseteq Known'
      /\ record' \in [Host -> 1 .. MaxVersion] /\ \A k \in Host : record'[k] >= record[k]
      /\ \A k \in Known' : host_infos_'[k] \in 0 .. MaxVersion /\ host_infos_'[k] <= record'[k]
      /\ meddled' \subseteq Host /\ meddled \subseteq meddled'
      /\ \A k \in Known : k \notin meddled' => host_infos_'[k] = host_infos_[k]
<1>3. ASSUME After
      PROVE  /\ DnsIInv'
             /\ \A k \in Known :
                  k \in meddled' \/ (k \in Known' /\ host_infos_'[k] >= host_infos_[k])
  <2>1. DnsTypeOK'
    BY <1>1, <1>3, DnsFacts DEF DnsTypeOK, Worker
  <2>2. DnsTableInv'
    <3> SUFFICES ASSUME NEW w \in Worker
                 PROVE  /\ todo[w] \subseteq Known'
                        /\ worker[w] \in {"lookup", "update"} => host[w] \in Known'
                        /\ worker[w] = "update" =>
                             /\ addrs[w] <= record'[host[w]]
                             /\ host[w] \notin meddled' => host_infos_'[host[w]] <= addrs[w]
      BY <1>1, <1>3 DEF DnsTableInv, Worker
    <3>1. /\ todo[w] \subseteq Known
          /\ worker[w] \in {"lookup", "update"} => host[w] \in Known
          /\ worker[w] = "update" =>
               /\ addrs[w] <= record[host[w]]
               /\ host[w] \notin meddled => host_infos_[host[w]] <= addrs[w]
      BY DEF DnsIInv, DnsTableInv
    <3>2. CASE worker[w] = "update"
      <4>1. host[w] \in Known /\ host[w] \in Host
        BY <3>1, <3>2, DnsFacts
      <4>2. record'[host[w]] >= record[host[w]]
        BY <1>3, <4>1
      <4>3. /\ addrs[w] \in Int /\ record[host[w]] \in Int /\ record'[host[w]] \in Int
        BY <1>3, <4>1, DnsFacts
      <4>4. addrs[w] <= record'[host[w]]
        BY <3>1, <3>2, <4>2, <4>3
      <4> QED BY <1>3, <3>1, <3>2, <4>1, <4>4
    <3> QED BY <1>3, <3>1, <3>2
  <2>3. \A k \in Known :
          k \in meddled' \/ (k \in Known' /\ host_infos_'[k] >= host_infos_[k])
    BY <1>3, DnsFacts
  <2> QED BY <1>2, <2>1, <2>2, <2>3 DEF DnsIInv
<1>4. ASSUME NEW v \in 0 .. MaxVersion, host_infos_' = Put(h, v), v <= record[h],
             record' = record, meddled' \subseteq Host, meddled \subseteq meddled',
             h \in Known => h \in meddled'
      PROVE  After
  <2>1. /\ Known' = Known \cup {h}
        /\ \A k \in Known \cup {h} : host_infos_'[k] = IF k = h THEN v ELSE host_infos_[k]
    BY <1>4 DEF Put, Known
  <2>2. \A k \in Known : host_infos_[k] <= record[k]
    BY DEF DnsIInv, DnsTableInv
  <2> QED BY <1>4, <2>1, <2>2, DnsFacts
<1> HIDE DEF After
<1>5. CASE AddHost(h)
  <2>1. h \notin Known /\ host_infos_' = Put(h, 0) /\ record' = record /\ meddled' = meddled
    BY <1>5 DEF AddHost
  <2>2. 0 \in 0 .. MaxVersion /\ 0 <= record[h] /\ meddled \subseteq Host
    BY DnsFacts
  <2>3. After
    BY <1>4, <2>1, <2>2
  <2> QED BY <1>3, <2>3
<1>6. CASE UpdateHostAddress(h)
  <2>1. PICK v \in 0 .. record[h] : host_infos_' = Put(h, v)
    BY <1>6 DEF UpdateHostAddress
  <2>2. meddled' = meddled \cup {h} /\ record' = record
    BY <1>6 DEF UpdateHostAddress
  <2>3. v \in 0 .. MaxVersion /\ v <= record[h] /\ meddled \subseteq Host
    BY <2>1, DnsFacts
  <2>4. After
    BY <1>4, <2>1, <2>2, <2>3
  <2> QED BY <1>3, <2>4
<1>7. CASE RecordChanges(h)
  <2>1. /\ record[h] < MaxVersion /\ record' = [record EXCEPT ![h] = @ + 1]
        /\ host_infos_' = host_infos_ /\ meddled' = meddled /\ Known' = Known
    BY <1>7 DEF RecordChanges, hostVars, Known
  <2>2. record[h] \in 1 .. MaxVersion /\ record[h] + 1 \in 1 .. MaxVersion
    BY <2>1, DnsFacts
  <2>3. /\ record' \in [Host -> 1 .. MaxVersion]
        /\ \A k \in Host : record[k] \in Int /\ record'[k] \in Int /\ record'[k] >= record[k]
    BY <2>1, <2>2, DnsFacts
  <2>4. \A k \in Known : host_infos_[k] \in Int /\ host_infos_[k] <= record[k] /\ k \in Host
    BY DnsFacts DEF DnsIInv, DnsTableInv
  <2>5. \A k \in Known : host_infos_[k] <= record'[k]
    BY <2>3, <2>4
  <2>6. After
    BY <2>1, <2>3, <2>5, DnsFacts DEF After
  <2> QED BY <1>3, <2>6
<1> QED BY <1>5, <1>6, <1>7

LEMMA DnsNextIInv ==
  DnsIInv /\ [DnsNext]_dnsVars =>
    /\ DnsIInv'
    /\ [\A h \in Known :
          \/ h \in meddled'
          \/ h \in DOMAIN host_infos_' /\ host_infos_'[h] >= host_infos_[h]]_dnsVars
<1> SUFFICES ASSUME DnsIInv, [DnsNext]_dnsVars
             PROVE  /\ DnsIInv'
                    /\ \A h \in Known :
                         \/ h \in meddled'
                         \/ h \in Known' /\ host_infos_'[h] >= host_infos_[h]
  BY DEF Known
<1>1. ASSUME UNCHANGED host_infos_
      PROVE  \A h \in Known : h \in Known' /\ host_infos_'[h] >= host_infos_[h]
  <2>1. \A h \in Known : host_infos_[h] \in Int
    BY DnsFacts
  <2> QED BY <1>1, <2>1 DEF Known
<1>2. CASE UNCHANGED dnsVars
  <2>1. UNCHANGED <<serving, thread_, started, call, terminated, worker, todo, host, tries,
                    addrs, host_infos_, meddled, record>>
    BY <1>2 DEF dnsVars, callVars, workerVars, hostVars
  <2>2. DnsIInv'
    BY <2>1 DEF DnsIInv, DnsTypeOK, DnsWorkerInv, DnsCallerInv, DnsTableInv, Alive,
       Worker, Known
  <2> QED BY <1>1, <2>1, <2>2
<1>3. ASSUME DnsNext, NEW w \in Worker, WorkerStep(w)
      PROVE  /\ DnsIInv'
             /\ \A h \in Known :
                  \/ h \in meddled'
                  \/ h \in Known' /\ host_infos_'[h] >= host_infos_[h]
  <2>1. ~terminated
    BY <1>3 DEF DnsNext
  <2> QED BY <1>3, <2>1, DnsWorkerStep
<1>4. ASSUME DnsNext, NEW c \in Caller, CallStep(c) \/ DnsStart(c) \/ Stop(c)
      PROVE  DnsIInv' /\ UNCHANGED host_infos_
  <2>1. ~terminated
    BY <1>4 DEF DnsNext
  <2>2. DnsIInv'
    BY <1>4, <2>1, DnsCallerStep, DnsStartThreadStep DEF CallStep
  <2>3. UNCHANGED host_infos_
    BY <1>4 DEF CallStep, DnsStart, Stop, StartSet, StartThread,
       StopClear, StopJoin, hostVars
  <2> QED BY <2>2, <2>3
<1>5. ASSUME NEW h \in Host, AddHost(h) \/ UpdateHostAddress(h) \/ RecordChanges(h)
      PROVE  /\ DnsIInv'
             /\ \A k \in Known :
                  \/ k \in meddled'
                  \/ k \in Known' /\ host_infos_'[k] >= host_infos_[k]
  BY <1>5, DnsTableStep
<1> QED BY <1>1, <1>2, <1>3, <1>4, <1>5 DEF DnsNext

LEMMA DnsInvariant == DnsSpec => []DnsIInv
<1>1. DnsIInv /\ [DnsNext]_dnsVars => DnsIInv'
  BY DnsNextIInv
<1> QED BY <1>1, DnsInitIInv, PTL DEF DnsSpec

\* The table, the records, and where callers and workers are keep their types.
THEOREM DnsTypeCorrect == DnsSpec => []DnsTypeOK
<1>1. DnsIInv => DnsTypeOK
  BY DEF DnsIInv
<1> QED BY <1>1, DnsInvariant, PTL

\* If one thread calls start and stop, start does not assign to a thread_ that is
\* joinable, and there is one worker at most in onWorker, also when the service is
\* started again right after stop.
THEOREM OneWorkerAtMost ==
  ASSUME OneCaller
  PROVE  DnsSpec => []OneWorker
<1>1. DnsIInv => OneWorker
  <2> SUFFICES ASSUME DnsIInv PROVE OneWorker
    OBVIOUS
  <2>1. ~terminated /\ Alive \subseteq {thread_}
    BY DEF DnsIInv, DnsCallerInv, DnsWorkerInv
  <2> QED BY <2>1 DEF OneWorker
<1> QED BY <1>1, DnsInvariant, PTL

\* onWorker's updateHostAddress, with addresses found a while ago, never takes
\* the table back, however many threads add hosts and call start and stop, and
\* whatever the records do meanwhile.
THEOREM TableNeverGoesBack == DnsSpec => TableMovesForward
<1>1. DnsIInv /\ [DnsNext]_dnsVars =>
        [\A h \in Known :
           \/ h \in meddled'
           \/ h \in DOMAIN host_infos_' /\ host_infos_'[h] >= host_infos_[h]]_dnsVars
  BY DnsNextIInv
<1> QED BY <1>1, DnsInvariant, PTL DEF DnsSpec, TableMovesForward

-----------------------------------------------------------------------------
(***************************************************************************)
(* The log files that FileLogMgr rotates.                                  *)
(***************************************************************************)
\* The manager knows one log of a path, and a check is about logs it knows.
KnownInv ==
  /\ time \in 0 .. MaxTime /\ content \in Seq(SUBSET Line)
  /\ logs_ \subseteq Log /\ DOMAIN fd_ = Log
  /\ \A k, l \in logs_ : Path[k] = Path[l] => k = l
  /\ check = [running |-> check.running, at |-> check.at, changed |-> check.changed,
              todo |-> check.todo, log |-> check.log, types |-> check.types,
              renamed |-> check.renamed, opened |-> check.opened]
  /\ check.renamed \in BOOLEAN
  /\ check.todo \subseteq logs_ /\ (~check.running => check.todo = {})
  /\ check.types # <<>> \/ check.renamed => check.running /\ check.log \in logs_

\* Between rename and dup2 the name of the log is free, or it is the new file's.
RotationInv ==
  /\ check.opened # NoFile => check.renamed
  /\ check.renamed /\ check.opened = NoFile => Own(check.log) \notin DOMAIN names
  /\ check.renamed /\ check.opened # NoFile =>
       Own(check.log) \in DOMAIN names /\ names[Own(check.log)] = check.opened

LogIInv == KnownInv /\ RotationInv /\ WritersFollow

LEMMA OwnNames ==
  ASSUME NEW k, NEW v
  PROVE  /\ \A l : Own(k) = Own(l) <=> Path[k] = Path[l]
         /\ v # <<>> => \A l : Own(l) # <<Path[k], v>>
BY DEF Own

\* A rotated file has a date.
LEMMA StampNotEmpty == ASSUME NEW type PROVE Stamp(type) # <<>>
<1> DEFINE S == {month.year, month.month, last.day, last.hour, last.minute}
           a == <<month.year, month.month, last.day>>
           b == IF type = "day" THEN <<>> ELSE <<last.hour>>
           c == IF type = "minute" THEN <<last.minute>> ELSE <<>>
<1>1. a \in Seq(S) /\ Len(a) = 3
  OBVIOUS
<1>2. b \in Seq(S) /\ c \in Seq(S)
  <2>1. <<>> \in Seq(S)
    BY EmptySeq
  <2>2. <<last.hour>> \in Seq(S) /\ <<last.minute>> \in Seq(S)
    OBVIOUS
  <2> QED BY <2>1, <2>2
<1>3. Stamp(type) = a \o b \o c
  BY DEF Stamp
<1> HIDE DEF a, b, c, S
<1>4. a \o b \in Seq(S) /\ Len(a \o b) = 3 + Len(b) /\ Len(b) \in Nat
  <2>1. Len(b) \in Nat
    BY <1>2, LenProperties
  <2>2. a \o b \in Seq(S) /\ Len(a \o b) = Len(a) + Len(b)
    BY <1>1, <1>2, ConcatProperties
  <2> QED BY <1>1, <2>1, <2>2
<1>5. Len(a \o b \o c) = 3 + Len(b) + Len(c) /\ Len(c) \in Nat
  BY <1>2, <1>4, ConcatProperties, LenProperties
<1>6. Len(Stamp(type)) # 0
  BY <1>3, <1>4, <1>5
<1> QED BY <1>6, EmptySeq

LEMMA CreateFacts ==
  ASSUME LogIInv, NEW name, CreateFile(name)
  PROVE  /\ content' \in Seq(SUBSET Line)
         /\ DOMAIN names' = DOMAIN names \cup {name}
         /\ names'[name] = Opened(name)
         /\ \A n \in DOMAIN names : names'[n] = names[n]
<1>1. content' \in Seq(SUBSET Line)
  <2>1. content \in Seq(SUBSET Line) /\ {} \in SUBSET Line
    BY DEF LogIInv, KnownInv
  <2> QED BY <2>1, AppendProperties DEF CreateFile, disk
<1>2. CASE name \in DOMAIN names
  BY <1>1, <1>2 DEF CreateFile, disk, Opened
<1>3. CASE name \notin DOMAIN names
  BY <1>1, <1>3 DEF CreateFile, Opened
<1> QED BY <1>2, <1>3

LEMMA LogInitIInv == LogInit => LogIInv
<1> SUFFICES ASSUME LogInit PROVE LogIInv
  OBVIOUS
<1>1. KnownInv
  <2>1. content \in Seq(SUBSET Line)
    BY EmptySeq DEF LogInit
  <2> QED BY <2>1, CalendarAssumption DEF LogInit, KnownInv, NoCheck
<1>2. RotationInv /\ WritersFollow
  BY DEF LogInit, RotationInv, WritersFollow, NoCheck, NoFile
<1> QED BY <1>1, <1>2 DEF LogIInv

\* Steps that open and forget logs.
LEMMA GetFileLogStep ==
  ASSUME LogIInv, NEW l \in Log, GetFileLog(l)
  PROVE  LogIInv'
<1>1. /\ logs_ \cap SamePath(l) = {} /\ ~check.running /\ logs_' = logs_ \cup {l}
      /\ CreateFile(Own(l)) /\ fd_' = [fd_ EXCEPT ![l] = Opened(Own(l))]
      /\ UNCHANGED <<time, check>>
  BY DEF GetFileLog, manager
<1>2. /\ content' \in Seq(SUBSET Line)
      /\ DOMAIN names' = DOMAIN names \cup {Own(l)} /\ names'[Own(l)] = Opened(Own(l))
      /\ \A n \in DOMAIN names : names'[n] = names[n]
  BY <1>1, CreateFacts
<1>3. /\ ~check.renamed /\ check.opened = NoFile /\ logs_ \subseteq Log /\ DOMAIN fd_ = Log
      /\ \A k \in logs_ : Path[k] # Path[l]
  BY <1>1 DEF LogIInv, KnownInv, RotationInv, SamePath
<1>4. KnownInv'
  BY <1>1, <1>2, <1>3 DEF LogIInv, KnownInv
<1>5. RotationInv'
  BY <1>1, <1>3 DEF RotationInv
<1>6. WritersFollow'
  <2> SUFFICES ASSUME NEW k \in logs_', Own(k) \in DOMAIN names'
               PROVE  fd_'[k] = names'[Own(k)]
    BY DEF WritersFollow, Own
  <2>1. CASE k = l
    BY <1>1, <1>2, <1>3, <2>1
  <2>2. CASE k # l
    <3>1. k \in logs_ /\ Own(k) # Own(l) /\ fd_'[k] = fd_[k]
      BY <1>1, <1>3, <2>2, OwnNames
    <3>2. Own(k) \in DOMAIN names /\ names'[Own(k)] = names[Own(k)]
      BY <1>2, <3>1
    <3> QED BY <1>3, <3>1, <3>2 DEF LogIInv, WritersFollow
  <2> QED BY <2>1, <2>2
<1> QED BY <1>4, <1>5, <1>6 DEF LogIInv

LEMMA RemoveFileLogStep ==
  ASSUME LogIInv, NEW l \in Log, RemoveFileLog(l)
  PROVE  LogIInv'
<1>1. /\ ~check.running /\ logs_' = logs_ \ SamePath(l)
      /\ UNCHANGED <<time, check, content, names, fd_>>
  BY DEF RemoveFileLog, manager, disk
<1>2. KnownInv' /\ RotationInv'
  BY <1>1 DEF LogIInv, KnownInv, RotationInv, Own
<1>3. WritersFollow'
  BY <1>1 DEF LogIInv, WritersFollow, Own
<1> QED BY <1>2, <1>3 DEF LogIInv

\* Steps that leave the directory, the descriptors and the check alone.
LEMMA QuietStep ==
  ASSUME LogIInv,
         \/ UNCHANGED logVars
         \/ Minute
         \/ \E l \in Log : SetRotateType(l) \/ WriteLog(l)
  PROVE  LogIInv'
<1>1. UNCHANGED <<check, names, logs_, fd_>>
  BY DEF logVars, manager, disk, objects, Minute, SetRotateType, WriteLog
<1>2. time' \in 0 .. MaxTime
  <2>1. time' = time \/ (time < MaxTime /\ time' = time + 1)
    BY DEF logVars, Minute, SetRotateType, WriteLog
  <2> QED BY <2>1, CalendarAssumption DEF LogIInv, KnownInv
<1>3. content' \in Seq(SUBSET Line)
  <2>1. content \in Seq(SUBSET Line)
    BY DEF LogIInv, KnownInv
  <2>2. CASE UNCHANGED content
    BY <2>1, <2>2
  <2>3. ASSUME NEW l \in Log, WriteLog(l)
        PROVE  content' \in Seq(SUBSET Line)
    <3>1. content' = [content EXCEPT ![fd_[l]] = @ \cup { <<l, time>> }]
      BY <2>3 DEF WriteLog
    <3>2. <<l, time>> \in Line
      BY DEF LogIInv, KnownInv, Line
    <3>3. CASE fd_[l] \in 1 .. Len(content)
      <4>1. content[fd_[l]] \cup { <<l, time>> } \in SUBSET Line
        BY <2>1, <3>2, <3>3, ElementOfSeq
      <4> QED BY <2>1, <3>1, <3>3, <4>1, ExceptSeq
    <3>4. CASE fd_[l] \notin 1 .. Len(content)
      <4>1. content' = content
        BY <2>1, <3>1, <3>4, SeqDef
      <4> QED BY <2>1, <4>1
    <3> QED BY <3>3, <3>4
  <2> QED BY <2>2, <2>3 DEF logVars, disk, Minute, SetRotateType
<1>4. KnownInv' /\ RotationInv'
  BY <1>1, <1>2, <1>3 DEF LogIInv, KnownInv, RotationInv, Own
<1>5. WritersFollow'
  BY <1>1 DEF LogIInv, WritersFollow, Own
<1> QED BY <1>4, <1>5 DEF LogIInv

\* The steps of a check that rename and open nothing.
LEMMA LogCheckStep ==
  ASSUME LogIInv, OnCheck \/ FinishCheck \/ \E l \in Log : Visit(l)
  PROVE  LogIInv'
<1>1. /\ UNCHANGED <<time, content, names, logs_, fd_>>
      /\ ~check.renamed /\ check.opened = NoFile
  BY DEF OnCheck, FinishCheck, Visit, Between, disk, objects, LogIInv, KnownInv, RotationInv
<1>2. /\ check' = [running |-> check'.running, at |-> check'.at,
                   changed |-> check'.changed, todo |-> check'.todo, log |-> check'.log,
                   types |-> check'.types, renamed |-> check'.renamed,
                   opened |-> check'.opened]
      /\ ~check'.renamed /\ check'.renamed \in BOOLEAN /\ check'.opened = NoFile
      /\ check'.todo \subseteq logs_ /\ (~check'.running => check'.todo = {})
      /\ check'.types # <<>> => check'.running /\ check'.log \in logs_
  <2>1. CASE OnCheck
    <3>1. \/ check' = check
          \/ check' = [NoCheck EXCEPT !.running = TRUE, !.at = time, !.changed = Changed,
                                      !.todo = logs_]
      BY <2>1 DEF OnCheck
    <3>2. CASE check' = check
      BY <1>1, <3>2 DEF LogIInv, KnownInv
    <3>3. CASE check' = [NoCheck EXCEPT !.running = TRUE, !.at = time, !.changed = Changed,
                                        !.todo = logs_]
      BY <3>3 DEF NoCheck
    <3> QED BY <3>1, <3>2, <3>3
  <2>2. CASE FinishCheck
    BY <2>2 DEF FinishCheck, NoCheck
  <2>3. CASE \E l \in Log : Visit(l)
    <3> DEFINE types == <<"day", "hour", "minute">>
    <3>1. PICK l \in check.todo : /\ check.running
                                 /\ check' = [check EXCEPT !.todo = @ \ {l}, !.log = l,
                                                           !.types = types]
      BY <2>3 DEF Visit, Between
    <3> HIDE DEF types
    <3> QED BY <1>1, <3>1 DEF LogIInv, KnownInv
  <2> QED BY <2>1, <2>2, <2>3
<1>3. KnownInv' /\ RotationInv'
  BY <1>1, <1>2 DEF LogIInv, KnownInv, RotationInv
<1>4. WritersFollow'
  BY <1>1, <1>2 DEF LogIInv, WritersFollow, Own
<1> QED BY <1>3, <1>4 DEF LogIInv

\* The steps of a rotation.
LEMMA RenameStep ==
  ASSUME LogIInv, Rename
  PROVE  LogIInv'
<1> DEFINE l == check.log
           type == Head(check.types)
           new == <<Path[l], Stamp(type)>>
<1>1. /\ check.types # <<>> /\ ~check.renamed /\ check.opened = NoFile
      /\ check.running /\ l \in logs_
      /\ UNCHANGED <<time, content, logs_, fd_>>
  BY DEF Rename, objects, LogIInv, KnownInv, RotationInv
<1>2. \/ check' = [check EXCEPT !.types = Tail(@)] /\ UNCHANGED names
      \/ /\ check' = [[check EXCEPT !.types = Tail(@)] EXCEPT !.renamed = TRUE]
         /\ names' = [n \in (DOMAIN names \ {Own(l)}) \cup {new} |->
                        IF n = new THEN names[Own(l)] ELSE names[n]]
  BY DEF Rename
<1>3. CASE check' = [check EXCEPT !.types = Tail(@)] /\ UNCHANGED names
  <2>1. /\ check'.types = Tail(check.types)
        /\ check' = [check EXCEPT !.types = check'.types]
    BY <1>3 DEF LogIInv, KnownInv
  <2> HIDE DEF l, type, new
  <2>2. KnownInv' /\ RotationInv'
    BY <1>1, <1>3, <2>1 DEF LogIInv, KnownInv, RotationInv, Own, l
  <2>3. WritersFollow'
    BY <1>1, <1>3, <2>1 DEF LogIInv, KnownInv, WritersFollow, Own
  <2> QED BY <2>2, <2>3 DEF LogIInv
<1>4. CASE /\ check' = [[check EXCEPT !.types = Tail(@)] EXCEPT !.renamed = TRUE]
           /\ names' = [n \in (DOMAIN names \ {Own(l)}) \cup {new} |->
                          IF n = new THEN names[Own(l)] ELSE names[n]]
  <2>1. check' = [check EXCEPT !.types = check'.types, !.renamed = TRUE]
    BY <1>4 DEF LogIInv, KnownInv
  <2>2. /\ \A k : Own(k) # new
        /\ \A k : Own(k) = Own(l) <=> Path[k] = Path[l]
    BY StampNotEmpty, OwnNames
  <2> HIDE DEF new, l, type
  <2>3. Own(l) \notin DOMAIN names'
    BY <1>4, <2>2
  <2>4. ASSUME NEW k, Own(k) \in DOMAIN names'
        PROVE  Own(k) \in DOMAIN names /\ names'[Own(k)] = names[Own(k)] /\ Path[k] # Path[l]
    BY <1>4, <2>2, <2>4
  <2>5. KnownInv'
    BY <1>1, <2>1 DEF LogIInv, KnownInv, l
  <2>6. check'.renamed /\ check'.opened = NoFile /\ check'.log = l
    BY <1>1, <2>1 DEF LogIInv, KnownInv, l
  <2>7. RotationInv'
    BY <2>3, <2>6 DEF RotationInv, Own
  <2>8. WritersFollow'
    BY <1>1, <2>4 DEF LogIInv, WritersFollow, Own
  <2> QED BY <2>5, <2>7, <2>8 DEF LogIInv
<1> QED BY <1>2, <1>3, <1>4

LEMMA OpenNewStep ==
  ASSUME LogIInv, OpenNew
  PROVE  LogIInv'
<1> DEFINE l == check.log
<1>1. /\ check.renamed /\ check.opened = NoFile /\ check.running /\ l \in logs_
      /\ Own(l) \notin DOMAIN names /\ content \in Seq(SUBSET Line)
      /\ UNCHANGED <<time, logs_, fd_>>
  BY DEF OpenNew, objects, LogIInv, KnownInv, RotationInv
<1>2. CASE CreateFile(Own(l)) /\ check' = [check EXCEPT !.opened = Opened(Own(l))]
  <2>1. /\ content' \in Seq(SUBSET Line)
        /\ DOMAIN names' = DOMAIN names \cup {Own(l)} /\ names'[Own(l)] = Opened(Own(l))
        /\ \A n \in DOMAIN names : names'[n] = names[n]
    BY <1>2, CreateFacts
  <2>2. Opened(Own(l)) # NoFile
    <3>1. Opened(Own(l)) = Len(content) + 1 /\ Len(content) \in Nat
      BY <1>1, LenProperties DEF Opened
    <3> QED BY <3>1 DEF NoFile
  <2>3. check'.renamed /\ check'.log = l /\ check'.opened = Opened(Own(l))
    BY <1>1, <1>2 DEF LogIInv, KnownInv
  <2>4. KnownInv'
    BY <1>1, <1>2, <2>1 DEF LogIInv, KnownInv
  <2>5. RotationInv'
    BY <2>1, <2>2, <2>3 DEF RotationInv, Own
  <2>6. WritersFollow'
    <3> SUFFICES ASSUME NEW k \in logs_, k # l, Own(k) \in DOMAIN names'
                 PROVE  fd_[k] = names'[Own(k)]
      BY <1>1, <2>3 DEF WritersFollow, Own
    <3>1. Own(k) # Own(l)
      BY <1>1, OwnNames DEF LogIInv, KnownInv
    <3>2. Own(k) \in DOMAIN names /\ names'[Own(k)] = names[Own(k)]
      BY <2>1, <3>1
    <3> QED BY <3>2 DEF LogIInv, WritersFollow
  <2> QED BY <2>4, <2>5, <2>6 DEF LogIInv
<1>3. CASE check' = [check EXCEPT !.renamed = FALSE] /\ UNCHANGED disk
  <2>1. ~check'.renamed /\ check'.opened = NoFile
    BY <1>1, <1>3 DEF LogIInv, KnownInv
  <2>2. KnownInv' /\ RotationInv'
    BY <1>1, <1>3, <2>1 DEF disk, LogIInv, KnownInv, RotationInv
  <2>3. WritersFollow'
    <3> SUFFICES ASSUME NEW k \in logs_, Own(k) \in DOMAIN names
                 PROVE  fd_[k] = names[Own(k)]
      BY <1>1, <1>3 DEF WritersFollow, Own, disk
    <3>1. k # l
      BY <1>1
    <3> QED BY <3>1 DEF LogIInv, WritersFollow
  <2> QED BY <2>2, <2>3 DEF LogIInv
<1> QED BY <1>2, <1>3 DEF OpenNew

LEMMA DupStep ==
  ASSUME LogIInv, Dup
  PROVE  LogIInv'
<1> DEFINE l == check.log
<1>1. /\ check.renamed /\ check.running /\ l \in logs_ /\ logs_ \subseteq Log
      /\ DOMAIN fd_ = Log /\ names[Own(l)] = check.opened
      /\ fd_' = [fd_ EXCEPT ![l] = check.opened]
      /\ check' = [check EXCEPT !.renamed = FALSE, !.opened = NoFile]
      /\ UNCHANGED <<time, content, names, logs_>>
  BY DEF Dup, disk, LogIInv, KnownInv, RotationInv
<1>2. ~check'.renamed /\ check'.opened = NoFile
  BY <1>1 DEF LogIInv, KnownInv
<1>3. KnownInv' /\ RotationInv'
  BY <1>1, <1>2 DEF LogIInv, KnownInv, RotationInv
<1>4. WritersFollow'
  <2> SUFFICES ASSUME NEW k \in logs_, Own(k) \in DOMAIN names
               PROVE  fd_'[k] = names[Own(k)]
    BY <1>1 DEF WritersFollow, Own
  <2>1. CASE k = l
    BY <1>1, <2>1
  <2>2. CASE k # l
    BY <1>1, <2>2 DEF LogIInv, WritersFollow
  <2> QED BY <2>1, <2>2
<1> QED BY <1>3, <1>4 DEF LogIInv

LEMMA RestartStep ==
  ASSUME LogIInv, Restart
  PROVE  LogIInv'
<1>1. /\ check' = NoCheck /\ logs_' = {} /\ DOMAIN fd_' = Log
      /\ UNCHANGED <<time, content>>
  BY DEF Restart, disk
<1>2. KnownInv' /\ RotationInv' /\ WritersFollow'
  BY <1>1 DEF LogIInv, KnownInv, RotationInv, WritersFollow, NoCheck, NoFile
<1> QED BY <1>2 DEF LogIInv

LEMMA LogNextIInv == LogIInv /\ [LogNext]_logVars => LogIInv'
<1> SUFFICES ASSUME LogIInv, [LogNext]_logVars PROVE LogIInv'
  OBVIOUS
<1>1. CASE \E l \in Log : GetFileLog(l) \/ RemoveFileLog(l)
  BY <1>1, GetFileLogStep, RemoveFileLogStep
<1>2. CASE \/ UNCHANGED logVars
           \/ Minute
           \/ \E l \in Log : SetRotateType(l) \/ WriteLog(l)
  BY <1>2, QuietStep
<1>3. CASE OnCheck \/ FinishCheck \/ \E l \in Log : Visit(l)
  BY <1>3, LogCheckStep
<1>4. CASE Rename \/ OpenNew \/ Dup \/ Restart
  BY <1>4, RenameStep, OpenNewStep, DupStep, RestartStep
<1> QED BY <1>1, <1>2, <1>3, <1>4 DEF LogNext

\* Except within a rotation, the lines of a log that the manager knows go to the
\* file of its name, if there is one (rotate's dup2): in every calendar, with any
\* logs, two of a path among them, whatever is rotated, fails or crashes.
THEOREM LogsFollowTheirName == LogSpec => []WritersFollow
<1>1. LogIInv => WritersFollow
  BY DEF LogIInv
<1> QED BY <1>1, LogInitIInv, LogNextIInv, PTL DEF LogSpec

-----------------------------------------------------------------------------
(***************************************************************************)
(* The calendar, and names made from dates.  Minutes are local ones.        *)
(***************************************************************************)
\* The count of days, hours or minutes at t.
Period(type, t) ==
  CASE type = "day" -> (t \div calendar.minutes) \div calendar.hours
    [] type = "hour" -> t \div calendar.minutes
    [] type = "minute" -> t

LEMMA QuotientFacts ==
  ASSUME NEW a \in Nat, NEW n \in Nat \ {0}
  PROVE  /\ a \div n \in Nat /\ a % n \in 0 .. (n - 1)
         /\ a = (a \div n) * n + (a % n)
<1>1. ASSUME NEW q, q = a \div n, NEW r, r = a % n
      PROVE  a = q * n + r
  BY <1>1, Z3
<1>2. a = (a \div n) * n + (a % n)
  BY <1>1, Zenon
<1>3. a \div n \in Nat
  BY Z3
<1>4. a % n \in 0 .. (n - 1)
  BY Z3
<1> QED BY <1>2, <1>3, <1>4, Zenon

LEMMA QuotientsGrow ==
  ASSUME NEW a \in Nat, NEW b \in Nat, a <= b, NEW n \in Nat \ {0}
  PROVE  a \div n <= b \div n
<1> DEFINE p == a \div n
           q == b \div n
           r == a % n
           s == b % n
<1>1. /\ p \in Nat /\ r \in 0 .. (n - 1) /\ a = p * n + r
      /\ q \in Nat /\ s \in 0 .. (n - 1) /\ b = q * n + s
  BY QuotientFacts
<1> HIDE DEF p, q, r, s
<1>2. SUFFICES ASSUME q + 1 <= p PROVE FALSE
  BY <1>1 DEF p, q
<1>3. (q + 1) * n = q * n + n
  BY <1>1, Z3
<1>4. (q + 1) * n <= p * n
  BY <1>1, <1>2, Z3
<1>5. p * n \in Int /\ q * n \in Int
  BY <1>1, Z3
<1> QED BY <1>1, <1>3, <1>4, <1>5

LEMMA QuotientAndRest ==
  ASSUME NEW a \in Nat, NEW b \in Nat, NEW n \in Nat \ {0},
         a \div n = b \div n, a % n = b % n
  PROVE  a = b
<1> DEFINE p == a \div n
           q == b \div n
           r == a % n
           s == b % n
<1>1. a = p * n + r /\ b = q * n + s /\ p = q /\ r = s
  BY QuotientFacts
<1> HIDE DEF p, q, r, s
<1> QED BY <1>1

LEMMA MaxIsMember ==
  ASSUME NEW n \in Nat, NEW S, S \subseteq 1 .. n, S # {}
  PROVE  Max(S) \in S /\ \A x \in S : Max(S) >= x
<1> DEFINE R == {n - x : x \in S}
<1>1. R \subseteq Nat /\ R # {}
  <2>1. \A x \in S : n - x \in Nat
    OBVIOUS
  <2> QED BY <2>1
<1>2. IsWellFoundedOn(OpToRel(<, Nat), Nat)
  BY NatLessThanWellFounded
<1>3. PICK y \in R : \A z \in R : ~(<<z, y>> \in OpToRel(<, Nat))
  BY <1>1, <1>2, WFMin
<1>4. \A z \in R : y <= z
  <2> TAKE z \in R
  <2>1. ~(z < y)
    BY <1>1, <1>3 DEF OpToRel
  <2> QED BY <1>1, <2>1
<1>5. PICK m \in S : y = n - m
  OBVIOUS
<1>6. \A x \in S : m >= x
  BY <1>4, <1>5
<1> QED BY <1>6 DEF Max

LEMMA CalendarFacts ==
  ASSUME calendar \in Calendars
  PROVE  /\ calendar.days \in Nat \ {0} /\ calendar.hours \in Nat \ {0}
         /\ calendar.minutes \in Nat \ {0}
         /\ calendar.starts \in Seq(Nat) /\ 1 \in DOMAIN calendar.starts
         /\ calendar.starts[1] = 0
         /\ DOMAIN calendar.starts = 1 .. Len(calendar.starts)
         /\ Len(calendar.starts) \in Nat
<1>1. /\ calendar.days \in Nat \ {0} /\ calendar.hours \in Nat \ {0}
      /\ calendar.minutes \in Nat \ {0} /\ calendar.starts \in Seq(Nat)
      /\ calendar.starts # <<>> /\ calendar.starts[1] = 0
  BY CalendarAssumption
<1> QED BY <1>1

\* The months that have begun on the day d of a year.
MonthsTo(d) == {m \in DOMAIN calendar.starts : calendar.starts[m] <= d}

LEMMA LastMonth ==
  ASSUME calendar \in Calendars, NEW d \in Nat
  PROVE  /\ Max(MonthsTo(d)) \in MonthsTo(d)
         /\ \A m \in MonthsTo(d) : Max(MonthsTo(d)) >= m
         /\ MonthsTo(d) \subseteq Nat
         /\ calendar.starts[Max(MonthsTo(d))] \in Nat
<1>1. MonthsTo(d) \subseteq 1 .. Len(calendar.starts) /\ 1 \in MonthsTo(d)
  BY CalendarFacts DEF MonthsTo
<1>2. Len(calendar.starts) \in Nat
  BY CalendarFacts
<1>3. Max(MonthsTo(d)) \in MonthsTo(d) /\ \A m \in MonthsTo(d) : Max(MonthsTo(d)) >= m
  BY <1>1, <1>2, MaxIsMember
<1>4. \A m \in MonthsTo(d) : calendar.starts[m] \in Nat
  BY CalendarFacts, ElementOfSeq DEF MonthsTo
<1> QED BY <1>1, <1>3, <1>4

\* A day between two of one month is of that month.
LEMMA MonthsAreIntervals ==
  ASSUME calendar \in Calendars, NEW a \in Nat, NEW b \in Nat, NEW c \in Nat,
         a <= b, b <= c, Max(MonthsTo(a)) = Max(MonthsTo(c))
  PROVE  Max(MonthsTo(b)) = Max(MonthsTo(a))
<1>1. MonthsTo(a) \subseteq MonthsTo(b) /\ MonthsTo(b) \subseteq MonthsTo(c)
  <2>1. \A m \in DOMAIN calendar.starts : calendar.starts[m] \in Nat
    BY CalendarFacts, ElementOfSeq
  <2> QED BY <2>1 DEF MonthsTo
<1> DEFINE k == Max(MonthsTo(a))
           m == Max(MonthsTo(b))
<1>2. k \in MonthsTo(a) /\ \A x \in MonthsTo(c) : k >= x
  BY LastMonth
<1>3. m \in MonthsTo(b) /\ \A x \in MonthsTo(b) : m >= x
  BY LastMonth
<1>4. k \in Nat /\ m \in Nat
  BY <1>2, <1>3, LastMonth
<1> HIDE DEF k, m
<1>5. k = m
  BY <1>1, <1>2, <1>3, <1>4
<1> QED BY <1>5 DEF k, m

LEMMA PeriodFacts ==
  ASSUME calendar \in Calendars, NEW type \in Type, NEW t \in Nat
  PROVE  /\ Period(type, t) \in Nat
         /\ \A u \in Nat : t <= u => Period(type, t) <= Period(type, u)
<1>1. calendar.minutes \in Nat \ {0} /\ calendar.hours \in Nat \ {0}
  BY CalendarFacts
<1>2. \A u \in Nat : u \div calendar.minutes \in Nat
  BY <1>1, QuotientFacts
<1>3. \A u \in Nat : (u \div calendar.minutes) \div calendar.hours \in Nat
  BY <1>1, <1>2, QuotientFacts
<1>4. ASSUME NEW u \in Nat, t <= u
      PROVE  /\ t \div calendar.minutes <= u \div calendar.minutes
             /\ (t \div calendar.minutes) \div calendar.hours
                  <= (u \div calendar.minutes) \div calendar.hours
  <2>1. t \div calendar.minutes <= u \div calendar.minutes
    BY <1>1, <1>4, QuotientsGrow
  <2> QED BY <1>1, <1>2, <2>1, QuotientsGrow
<1>5. CASE type = "day"
  BY <1>3, <1>4, <1>5 DEF Period
<1>6. CASE type = "hour"
  BY <1>2, <1>4, <1>6 DEF Period
<1>7. CASE type = "minute"
  BY <1>7 DEF Period
<1> QED BY <1>5, <1>6, <1>7 DEF Type

OfYear(t) == Period("day", t) % calendar.days

LEMMA DateParts ==
  ASSUME NEW t
  PROVE  Date(t) =
           [year |-> Period("day", t) \div calendar.days,
            month |-> Max(MonthsTo(OfYear(t))),
            day |-> 1 + OfYear(t) - calendar.starts[Max(MonthsTo(OfYear(t)))],
            hour |-> Period("hour", t) % calendar.hours,
            minute |-> t % calendar.minutes]
BY DEF Date, Period, OfYear, MonthsTo

\* A date tells its day, hour and minute from all others.
LEMMA DateIsUnique ==
  ASSUME calendar \in Calendars, NEW t \in Nat, NEW u \in Nat,
         Date(t).year = Date(u).year, Date(t).month = Date(u).month,
         Date(t).day = Date(u).day
  PROVE  /\ Period("day", t) = Period("day", u)
         /\ Date(t).hour = Date(u).hour => Period("hour", t) = Period("hour", u)
         /\ Date(t).hour = Date(u).hour /\ Date(t).minute = Date(u).minute
              => t = u
<1>1. /\ Period("day", t) \in Nat /\ Period("day", u) \in Nat
      /\ Period("hour", t) \in Nat /\ Period("hour", u) \in Nat
  BY PeriodFacts DEF Type
<1>2. /\ calendar.days \in Nat \ {0} /\ calendar.hours \in Nat \ {0}
      /\ calendar.minutes \in Nat \ {0}
  BY CalendarFacts
<1>3. OfYear(t) \in Nat /\ OfYear(u) \in Nat
  <2>1. \A n \in Nat \ {0} : \A p \in Nat : p % n \in 0 .. (n - 1)
    BY QuotientFacts, Zenon
  <2>2. \A n \in Nat \ {0} : \A p \in Nat : p % n \in Nat
    BY <2>1
  <2> QED BY <1>1, <1>2, <2>2, Zenon DEF OfYear
<1>4. OfYear(t) = OfYear(u)
  <2> DEFINE s == calendar.starts[Max(MonthsTo(OfYear(t)))]
             a == OfYear(t)
             b == OfYear(u)
  <2>1. s \in Nat
    BY <1>3, LastMonth
  <2>2. calendar.starts[Max(MonthsTo(OfYear(u)))] = s
    BY DateParts
  <2>3. 1 + a - s = 1 + b - s
    BY <2>2, DateParts
  <2> HIDE DEF s, a, b
  <2>4. a \in Nat /\ b \in Nat
    BY <1>3 DEF a, b
  <2>5. a = b
    BY <2>1, <2>3, <2>4
  <2> QED BY <2>5 DEF a, b
<1>5. Period("day", t) \div calendar.days = Period("day", u) \div calendar.days
  BY DateParts
<1>6. Period("day", t) = Period("day", u)
  BY <1>1, <1>2, <1>4, <1>5, QuotientAndRest DEF OfYear
<1>7. ASSUME Date(t).hour = Date(u).hour
      PROVE  Period("hour", t) = Period("hour", u)
  <2>1. Period("hour", t) % calendar.hours = Period("hour", u) % calendar.hours
    BY <1>7, DateParts
  <2>2. Period("hour", t) \div calendar.hours = Period("hour", u) \div calendar.hours
    BY <1>6 DEF Period
  <2> QED BY <1>1, <1>2, <2>1, <2>2, QuotientAndRest
<1>8. ASSUME Date(t).hour = Date(u).hour, Date(t).minute = Date(u).minute
      PROVE  t = u
  <2>1. t % calendar.minutes = u % calendar.minutes
    BY <1>8, DateParts
  <2>2. t \div calendar.minutes = u \div calendar.minutes
    BY <1>7, <1>8 DEF Period
  <2> QED BY <1>2, <2>1, <2>2, QuotientAndRest
<1> QED BY <1>6, <1>7, <1>8

\* Whatever is between two minutes of one month is of that month.
LEMMA MonthsDoNotInterleave ==
  ASSUME calendar \in Calendars, NEW t \in Nat, NEW u \in Nat, NEW v \in Nat,
         Period("day", t) <= Period("day", u), Period("day", u) <= Period("day", v),
         Date(t).year = Date(v).year, Date(t).month = Date(v).month
  PROVE  Date(u).year = Date(v).year /\ Date(u).month = Date(v).month
<1> DEFINE p == Period("day", t)
           q == Period("day", u)
           r == Period("day", v)
           Y == calendar.days
<1>1. p \in Nat /\ q \in Nat /\ r \in Nat /\ Y \in Nat \ {0} /\ p <= q /\ q <= r
  BY PeriodFacts, CalendarFacts DEF Type
<1>2. /\ Date(t).year = p \div Y /\ Date(t).month = Max(MonthsTo(p % Y))
      /\ Date(u).year = q \div Y /\ Date(u).month = Max(MonthsTo(q % Y))
      /\ Date(v).year = r \div Y /\ Date(v).month = Max(MonthsTo(r % Y))
  BY DateParts DEF OfYear
<1>3. p \div Y = r \div Y /\ Max(MonthsTo(p % Y)) = Max(MonthsTo(r % Y))
  BY <1>2
<1> HIDE DEF p, q, r, Y
<1>4. /\ p \div Y \in Nat /\ q \div Y \in Nat /\ r \div Y \in Nat
      /\ p \div Y <= q \div Y /\ q \div Y <= r \div Y
  BY <1>1, QuotientFacts, QuotientsGrow
<1>5. q \div Y = p \div Y
  BY <1>3, <1>4
<1> DEFINE a == p % Y
           b == q % Y
           c == r % Y
           k == p \div Y
<1>6. /\ p = k * Y + a /\ q = k * Y + b /\ r = k * Y + c
      /\ a \in 0 .. (Y - 1) /\ b \in 0 .. (Y - 1) /\ c \in 0 .. (Y - 1)
  <2>1. q = (q \div Y) * Y + (q % Y) /\ r = (r \div Y) * Y + (r % Y) /\ p = (p \div Y) * Y + (p % Y)
    BY <1>1, QuotientFacts
  <2>2. p % Y \in 0 .. (Y - 1) /\ q % Y \in 0 .. (Y - 1) /\ r % Y \in 0 .. (Y - 1)
    BY <1>1, QuotientFacts
  <2> QED BY <1>3, <1>5, <2>1, <2>2, Zenon
<1>7. a \in Nat /\ b \in Nat /\ c \in Nat
  <2> HIDE DEF a, b, c
  <2> QED BY <1>1, <1>6
<1>8. a <= b /\ b <= c
  <2>1. k * Y \in Int
    <3>1. k \in Nat
      BY <1>4
    <3> HIDE DEF k
    <3> QED BY <1>1, <3>1, Z3
  <2> DEFINE m == k * Y
  <2> HIDE DEF m, a, b, c
  <2>2. m \in Int /\ p = m + a /\ q = m + b /\ r = m + c
    BY <1>6, <2>1 DEF m
  <2> QED BY <1>1, <1>7, <2>2
<1>9. Max(MonthsTo(b)) = Max(MonthsTo(a))
  <2> HIDE DEF a, b, c
  <2>1. Max(MonthsTo(a)) = Max(MonthsTo(c))
    BY <1>3 DEF a, c
  <2> QED BY <1>7, <1>8, <2>1, MonthsAreIntervals
<1> QED BY <1>2, <1>3, <1>5, <1>9

LEMMA OneMore ==
  ASSUME NEW S, NEW x \in Seq(S), NEW v \in S, NEW z \in Seq(S),
         Len(z) = Len(x) + 1, \A i \in 1 .. Len(x) : z[i] = x[i], z[Len(x) + 1] = v
  PROVE  x \o <<v>> = z
<1> DEFINE y == Append(x, v)
<1>1. /\ y \in Seq(S) /\ Len(y) = Len(x) + 1 /\ y[Len(x) + 1] = v /\ Len(x) \in Nat
      /\ \A i \in 1 .. Len(x) : y[i] = x[i]
  BY AppendProperties, LenProperties
<1>2. y = x \o <<v>>
  BY AppendIsConcat
<1> HIDE DEF y
<1>3. \A i \in 1 .. Len(y) : y[i] = z[i]
  BY <1>1
<1>4. y = z
  BY <1>1, <1>3, SeqEqual
<1> QED BY <1>2, <1>4

LEMMA Joined ==
  ASSUME NEW a, NEW b, NEW c, NEW d, NEW e
  PROVE  /\ <<a, b, c>> \o <<>> \o <<>> = <<a, b, c>>
         /\ <<a, b, c>> \o <<d>> \o <<>> = <<a, b, c, d>>
         /\ <<a, b, c>> \o <<d>> \o <<e>> = <<a, b, c, d, e>>
<1> DEFINE S == {a, b, c, d, e}
           x == <<a, b, c>>
           y == <<a, b, c, d>>
           z == <<a, b, c, d, e>>
<1>1. x \in Seq(S) /\ y \in Seq(S) /\ z \in Seq(S) /\ d \in S /\ e \in S
  OBVIOUS
<1>2. /\ Len(y) = Len(x) + 1 /\ y[Len(x) + 1] = d /\ \A i \in 1 .. Len(x) : y[i] = x[i]
      /\ Len(z) = Len(y) + 1 /\ z[Len(y) + 1] = e /\ \A i \in 1 .. Len(y) : z[i] = y[i]
  <2>1. Len(x) = 3 /\ Len(y) = 4 /\ Len(z) = 5
    OBVIOUS
  <2>2. /\ y[4] = d /\ \A i \in 1 .. 3 : y[i] = x[i]
        /\ z[5] = e /\ \A i \in 1 .. 4 : z[i] = y[i]
    OBVIOUS
  <2> HIDE DEF x, y, z
  <2> QED BY <2>1, <2>2
<1> HIDE DEF S, x, y, z
<1>3. x \o <<>> = x /\ y \o <<>> = y
  BY <1>1, ConcatEmptySeq
<1>4. x \o <<d>> = y
  BY <1>1, <1>2, OneMore
<1>5. y \o <<e>> = z
  BY <1>1, <1>2, OneMore
<1> QED BY <1>3, <1>4, <1>5 DEF x, y, z

LEMMA StampParts ==
  ASSUME NEW t
  PROVE  /\ StampOf("day", t) = <<DateOf(t).year, DateOf(t).month, DateOf(t).day>>
         /\ StampOf("hour", t) =
              <<DateOf(t).year, DateOf(t).month, DateOf(t).day, DateOf(t).hour>>
         /\ StampOf("minute", t) =
              <<DateOf(t).year, DateOf(t).month, DateOf(t).day, DateOf(t).hour,
                DateOf(t).minute>>
<1> DEFINE a == DateOf(t).year
           b == DateOf(t).month
           c == DateOf(t).day
           d == DateOf(t).hour
           e == DateOf(t).minute
<1>1. /\ StampOf("day", t) = <<a, b, c>> \o <<>> \o <<>>
      /\ StampOf("hour", t) = <<a, b, c>> \o <<d>> \o <<>>
      /\ StampOf("minute", t) = <<a, b, c>> \o <<d>> \o <<e>>
  BY DEF StampOf
<1> HIDE DEF a, b, c, d, e
<1>2. /\ StampOf("day", t) = <<a, b, c>> /\ StampOf("hour", t) = <<a, b, c, d>>
      /\ StampOf("minute", t) = <<a, b, c, d, e>>
  <2>1. /\ <<a, b, c>> \o <<>> \o <<>> = <<a, b, c>>
        /\ <<a, b, c>> \o <<d>> \o <<>> = <<a, b, c, d>>
        /\ <<a, b, c>> \o <<d>> \o <<e>> = <<a, b, c, d, e>>
    BY Joined
  <2> QED BY <1>1, <2>1
<1> QED BY <1>2 DEF a, b, c, d, e

\* What the local clock shows in a minute, and the month of it.
LEMMA ShownFacts ==
  ASSUME calendar \in Calendars, NEW t \in 0 .. MaxTime
  PROVE  /\ calendar.local[t] \in Nat
         /\ \A u : MonthOf(t) = MonthOf(u) <=>
                     /\ Date(calendar.local[t]).year = Date(calendar.local[u]).year
                     /\ Date(calendar.local[t]).month = Date(calendar.local[u]).month
<1>1. calendar.local \in [0 .. MaxTime -> Nat]
  BY CalendarAssumption
<1> QED BY <1>1 DEF MonthOf, DateOf

\* Names for different types differ, and those of one type tell its periods apart.
LEMMA StampsAreUnique ==
  ASSUME calendar \in Calendars, NEW type \in Type, NEW t \in 0 .. MaxTime,
         NEW u \in 0 .. MaxTime
  PROVE  StampOf(type, t) = StampOf(type, u) <=>
           Period(type, calendar.local[t]) = Period(type, calendar.local[u])
<1> DEFINE p == calendar.local[t]
           q == calendar.local[u]
<1>1. p \in Nat /\ q \in Nat /\ DateOf(t) = Date(p) /\ DateOf(u) = Date(q)
  BY ShownFacts DEF DateOf
<1> HIDE DEF p, q
<1>2. ASSUME StampOf(type, t) = StampOf(type, u)
      PROVE  Period(type, p) = Period(type, q)
  <2>1. /\ Date(p).year = Date(q).year /\ Date(p).month = Date(q).month
        /\ Date(p).day = Date(q).day
        /\ type # "day" => Date(p).hour = Date(q).hour
        /\ type = "minute" => Date(p).minute = Date(q).minute
    <3>1. CASE type = "day"
      BY <1>1, <1>2, <3>1, StampParts
    <3>2. CASE type = "hour"
      BY <1>1, <1>2, <3>2, StampParts
    <3>3. CASE type = "minute"
      BY <1>1, <1>2, <3>3, StampParts
    <3> QED BY <3>1, <3>2, <3>3 DEF Type
  <2>2. type = "minute" => Period(type, p) = p /\ Period(type, q) = q
    BY DEF Period
  <2> QED BY <1>1, <2>1, <2>2, DateIsUnique DEF Type
<1>3. ASSUME Period(type, p) = Period(type, q)
      PROVE  StampOf(type, t) = StampOf(type, u)
  <2>1. type = "minute" => Period("hour", p) = Period("hour", q)
    BY <1>3 DEF Period
  <2>2. type # "day" => Period("hour", p) = Period("hour", q)
    BY <1>3, <2>1 DEF Type
  <2>3. Period("day", p) = Period("day", q)
    <3>1. Period("hour", p) = Period("hour", q) => Period("day", p) = Period("day", q)
      BY DEF Period
    <3> QED BY <1>3, <2>2, <3>1
  <2>4. OfYear(p) = OfYear(q)
    BY <2>3 DEF OfYear
  <2>5. /\ Date(p).year = Date(q).year /\ Date(p).month = Date(q).month
        /\ Date(p).day = Date(q).day
        /\ type # "day" => Date(p).hour = Date(q).hour
        /\ type = "minute" => Date(p).minute = Date(q).minute
    BY <1>3, <2>2, <2>3, <2>4, DateParts DEF Period
  <2> QED BY <1>1, <2>5, StampParts DEF Type
<1> QED BY <1>2, <1>3 DEF p, q

\* A local clock that is never set back shows no day, hour, minute or month again: in
\* every calendar, whatever it skips (TTime::now).  Only the mixed month is left then
\* of what makes a file misdated.
THEOREM SteadyClockShowsNothingAgain ==
  ASSUME calendar \in Calendars,
         \A t, u \in 0 .. MaxTime : t <= u => calendar.local[t] <= calendar.local[u],
         NEW type \in Type, NEW t \in 0 .. MaxTime
  PROVE  ~ShownAgain(type, t)
<1> SUFFICES ASSUME ShownAgain(type, t) PROVE FALSE
  OBVIOUS
<1>1. PICK v, u \in 0 .. MaxTime :
        /\ t < v /\ v < u
        /\ \/ StampOf(type, v) # StampOf(type, t) /\ StampOf(type, u) = StampOf(type, t)
           \/ MonthOf(v) # MonthOf(t) /\ MonthOf(u) = MonthOf(t)
  BY DEF ShownAgain
<1> DEFINE p == calendar.local[t]
           q == calendar.local[v]
           r == calendar.local[u]
<1>2. p \in Nat /\ q \in Nat /\ r \in Nat
  BY ShownFacts
<1>3. p <= q /\ q <= r
  BY <1>1, CalendarAssumption
<1>4. CASE StampOf(type, v) # StampOf(type, t) /\ StampOf(type, u) = StampOf(type, t)
  <2>1. Period(type, p) # Period(type, q) /\ Period(type, p) = Period(type, r)
    BY <1>4, StampsAreUnique
  <2> HIDE DEF p, q, r
  <2>2. /\ Period(type, p) \in Nat /\ Period(type, q) \in Nat /\ Period(type, r) \in Nat
        /\ Period(type, p) <= Period(type, q) /\ Period(type, q) <= Period(type, r)
    BY <1>2, <1>3, PeriodFacts
  <2> QED BY <2>1, <2>2
<1>5. CASE MonthOf(v) # MonthOf(t) /\ MonthOf(u) = MonthOf(t)
  <2>1. Date(p).year = Date(r).year /\ Date(p).month = Date(r).month
    BY <1>5, ShownFacts
  <2>2. Period("day", p) <= Period("day", q) /\ Period("day", q) <= Period("day", r)
    <3> HIDE DEF p, q, r
    <3> QED BY <1>2, <1>3, PeriodFacts DEF Type
  <2>3. Date(q).year = Date(r).year /\ Date(q).month = Date(r).month
    <3> HIDE DEF p, q, r
    <3> QED BY <1>2, <2>1, <2>2, MonthsDoNotInterleave
  <2>4. MonthOf(v) = MonthOf(u)
    BY <2>3, ShownFacts
  <2> QED BY <1>5, <2>4
<1> QED BY <1>1, <1>4, <1>5

-----------------------------------------------------------------------------
(***************************************************************************)
(* No name is used twice.                                                  *)
(***************************************************************************)
\* The minute that the check that runs has read, or else the last one.
Clock == IF check.running THEN check.at ELSE IF last # Unset THEN seen ELSE time

\* n is a name for a day, hour or minute that had ended at the minute limit, and
\* that the clock does not show again.
Ended(n, type, limit) ==
  \E t \in 0 .. MaxTime :
    /\ n[2] = StampOf(type, t) /\ ~ShownAgain(type, t)
    /\ \E v \in 0 .. MaxTime :
         t < v /\ v <= limit /\ StampOf(type, v) # StampOf(type, t)

\* The names of rotated files, but for the misdated.
Dated == {n \in Rotated : names[n] \notin misdated}

\* The check has not come to the comparison with type, of the log it looks at.
StillToCompare(type) ==
  CASE type = "day" -> check.types = <<"day", "hour", "minute">>
    [] type = "hour" -> check.types \in {<<"day", "hour", "minute">>, <<"hour", "minute">>}
    [] type = "minute" -> check.types # <<>>

\* What is known of time: the last reading is that of the minute seen, and what a check
\* takes to have changed has ended since.
ClockInv ==
  /\ calendar \in Calendars /\ time \in 0 .. MaxTime /\ seen \in 0 .. time
  /\ last # Unset => last = Reading(seen)
  /\ check.running =>
       /\ last # Unset /\ check.at \in seen .. time /\ month = MonthOf(check.at)
       /\ check.changed \subseteq Type
       /\ \A type \in check.changed : StampOf(type, seen) # StampOf(type, check.at)

\* A file has a name or was misdated, and a line that was written is in a file.
FilesInv ==
  /\ \A n \in DOMAIN names : names[n] \in 1 .. Len(content)
  /\ \A file \in 1 .. Len(content) :
       file \in misdated \/ \E n \in DOMAIN names : names[n] = file
  /\ \A l \in Log : fd_[l] # NoFile => fd_[l] \in 1 .. Len(content)
  /\ \A line \in written : \E file \in 1 .. Len(content) : line \in content[file]

\* A file that was not misdated has the name of a period that had ended when the last
\* check read the time; while a check runs, of a log it has still to look at, that of
\* one that had ended at the check before.
NamesInv ==
  /\ \A n \in Dated : \E type \in Type : Ended(n, type, Clock)
  /\ check.types \in {<<"day", "hour", "minute">>, <<"hour", "minute">>, <<"minute">>, <<>>}
  /\ check.types # <<>> => check.log \notin check.todo
  /\ check.running => \A n \in Dated : \A l \in check.todo :
       n[1] = Path[l] => \E type \in Type : Ended(n, type, seen)
  /\ check.types # <<>> => \A n \in Dated :
       n[1] = Path[check.log] =>
         \E type \in Type :
           Ended(n, type, check.at) /\ (StillToCompare(type) => Ended(n, type, seen))

\* The calendar stays, and with it what a date says.
LEMMA TimeStays ==
  ASSUME UNCHANGED calendar, NEW t
  PROVE  /\ \A type : StampOf(type, t)' = StampOf(type, t)
         /\ Reading(t)' = Reading(t) /\ MonthOf(t)' = MonthOf(t)
         /\ \A n, type : Ended(n, type, t)' = Ended(n, type, t)
<1>1. /\ \A u : DateOf(u)' = DateOf(u) /\ MonthOf(u)' = MonthOf(u)
      /\ \A type, u : StampOf(type, u)' = StampOf(type, u)
  BY DEF StampOf, MonthOf, DateOf, Date
<1>2. Reading(t)' = Reading(t)
  BY <1>1 DEF Reading
<1>3. \A type, u : ShownAgain(type, u)' = ShownAgain(type, u)
  BY <1>1 DEF ShownAgain
<1>4. \A n, type : Ended(n, type, t)' = Ended(n, type, t)
  BY <1>1, <1>3 DEF Ended
<1> QED BY <1>1, <1>2, <1>4

LEMMA EndedLater ==
  ASSUME NEW n, NEW type, NEW t \in Nat, NEW u \in Nat, t <= u, Ended(n, type, t)
  PROVE  Ended(n, type, u)
<1>1. \A v \in 0 .. MaxTime : v <= t => v <= u
  BY CalendarAssumption
<1> QED BY <1>1 DEF Ended

LEMMA ClockTypes ==
  ASSUME ClockInv
  PROVE  /\ time \in Nat /\ seen \in Nat /\ seen <= time
         /\ Clock \in Nat /\ Clock <= time
         /\ check.running => check.at \in Nat /\ seen <= check.at /\ check.at <= time
BY CalendarAssumption DEF ClockInv, Clock

\* Steps that are neither the beginning nor the end of a check.
LEMMA ClockStays ==
  ASSUME ClockInv, UNCHANGED <<calendar, last, month, seen>>, time' \in time .. MaxTime,
         check'.running = check.running, check'.at = check.at,
         check'.changed = check.changed
  PROVE  ClockInv'
<1>1. time' \in 0 .. MaxTime /\ seen' \in 0 .. time' /\ calendar' \in Calendars
  BY ClockTypes, CalendarAssumption DEF ClockInv
<1>2. last' # Unset => last' = Reading(seen)'
  BY TimeStays DEF ClockInv
<1>3. check'.running =>
        /\ last' # Unset /\ check'.at \in seen' .. time' /\ month' = MonthOf(check.at)'
        /\ check'.changed \subseteq Type
        /\ \A type \in check'.changed : StampOf(type, seen)' # StampOf(type, check.at)'
  <2> SUFFICES ASSUME check'.running
               PROVE  /\ last' # Unset /\ check'.at \in seen' .. time'
                      /\ month' = MonthOf(check.at)' /\ check'.changed \subseteq Type
                      /\ \A type \in check'.changed :
                           StampOf(type, seen)' # StampOf(type, check.at)'
    OBVIOUS
  <2>1. check'.at \in seen' .. time'
    BY ClockTypes, CalendarAssumption DEF ClockInv
  <2>2. month' = MonthOf(check.at)'
    BY TimeStays DEF ClockInv
  <2>3. \A type \in check'.changed : StampOf(type, seen)' # StampOf(type, check.at)'
    BY TimeStays DEF ClockInv
  <2> QED BY <2>1, <2>2, <2>3 DEF ClockInv
<1> QED BY <1>1, <1>2, <1>3 DEF ClockInv

LEMMA OnCheckClock ==
  ASSUME LogIInv, ClockInv, OnCheck
  PROVE  ClockInv'
<1>1. ~check.running /\ UNCHANGED <<calendar, time>>
  BY DEF OnCheck
<1>2. CASE last = Unset
  <2>1. last' = Reading(time) /\ seen' = time /\ check' = check
    BY <1>2 DEF OnCheck
  <2>2. last' = Reading(seen)'
    BY <1>1, <2>1, TimeStays
  <2> QED BY <1>1, <2>1, <2>2, ClockTypes DEF ClockInv
<1>3. CASE last # Unset
  <2>1. /\ month' = MonthOf(time) /\ UNCHANGED <<last, seen>>
        /\ check'.running /\ check'.at = time /\ check'.changed = Changed
    BY <1>3 DEF OnCheck, NoCheck
  <2>2. last' = Reading(seen)' /\ last = Reading(seen) /\ month' = MonthOf(check.at)'
    BY <1>1, <1>3, <2>1, TimeStays DEF ClockInv
  <2>3. Changed \subseteq Type
    BY DEF Changed, Type
  <2>4. ASSUME NEW type \in Changed
        PROVE  StampOf(type, seen)' # StampOf(type, check.at)'
    <3>1. \/ type = "day" /\ DateOf(seen).day # DateOf(time).day
          \/ type = "hour" /\ DateOf(seen).hour # DateOf(time).hour
          \/ type = "minute" /\ DateOf(seen).minute # DateOf(time).minute
      BY <2>2 DEF Changed, Reading, Now
    <3>2. StampOf(type, seen) # StampOf(type, time)
      BY <3>1, StampParts
    <3> QED BY <1>1, <2>1, <3>2, TimeStays
  <2>5. check'.at \in seen' .. time'
    BY <1>1, <2>1, ClockTypes
  <2> QED BY <1>1, <1>3, <2>1, <2>2, <2>3, <2>4, <2>5, ClockTypes DEF ClockInv
<1> QED BY <1>2, <1>3

LEMMA FinishCheckClock ==
  ASSUME ClockInv, FinishCheck
  PROVE  ClockInv'
<1>1. /\ check.running /\ last' = Reading(check.at) /\ seen' = check.at
      /\ ~check'.running /\ UNCHANGED <<calendar, time>>
  BY DEF FinishCheck, Between, NoCheck
<1>2. last' = Reading(seen)'
  BY <1>1, TimeStays
<1> QED BY <1>1, <1>2, ClockTypes DEF ClockInv

LEMMA NextClock ==
  ASSUME LogIInv, ClockInv, [LogNext]_logVars
  PROVE  ClockInv'
<1>1. time \in time .. MaxTime
  BY ClockTypes, CalendarAssumption DEF ClockInv
<1>2. CASE OnCheck \/ FinishCheck
  BY <1>2, OnCheckClock, FinishCheckClock
<1>3. CASE Restart
  <2>1. last' = Unset /\ ~check'.running /\ seen' = 0 /\ UNCHANGED <<calendar, time>>
    BY <1>3 DEF Restart, NoCheck
  <2> QED BY <2>1, ClockTypes DEF ClockInv
<1>4. CASE \/ UNCHANGED logVars
           \/ Minute
           \/ \E l \in Log :
                GetFileLog(l) \/ RemoveFileLog(l) \/ SetRotateType(l) \/ WriteLog(l)
  <2>1. UNCHANGED <<calendar, last, month, seen, check>>
    BY <1>4 DEF logVars, manager, logGhosts, Minute, GetFileLog, RemoveFileLog, SetRotateType,
                WriteLog
  <2>2. time' \in time .. MaxTime
    <3>1. time' = time \/ (time < MaxTime /\ time' = time + 1)
      BY <1>4 DEF logVars, Minute, GetFileLog, RemoveFileLog, SetRotateType, WriteLog
    <3> QED BY <1>1, <3>1, ClockTypes, CalendarAssumption
  <2> QED BY <2>1, <2>2, ClockStays
<1>5. CASE Rename \/ OpenNew \/ Dup \/ \E l \in Log : Visit(l)
  <2>1. UNCHANGED <<calendar, time, last, month, seen>>
    BY <1>5 DEF logGhosts, Rename, OpenNew, Dup, Visit
  <2>2. /\ check'.running = check.running /\ check'.at = check.at
        /\ check'.changed = check.changed
    BY <1>5 DEF Rename, OpenNew, Dup, Visit, LogIInv, KnownInv
  <2> QED BY <1>1, <2>1, <2>2, ClockStays
<1> QED BY <1>2, <1>3, <1>4, <1>5 DEF LogNext

\* Every file is reached by a name or was misdated, and every line is in a file.
LEMMA FilesStay ==
  ASSUME FilesInv, UNCHANGED <<content, names, misdated, written>>,
         \A l \in Log : fd_'[l] = NoFile \/ fd_'[l] = fd_[l]
                          \/ \E n \in DOMAIN names : fd_'[l] = names[n]
  PROVE  FilesInv'
BY DEF FilesInv

LEMMA FilesCreated ==
  ASSUME LogIInv, FilesInv, NEW name, CreateFile(name), UNCHANGED <<misdated, written>>,
         \A l \in Log : fd_'[l] = fd_[l] \/ fd_'[l] = Opened(name)
  PROVE  FilesInv'
<1>1. /\ content \in Seq(SUBSET Line) /\ Len(content) \in Nat
      /\ DOMAIN names' = DOMAIN names \cup {name} /\ names'[name] = Opened(name)
      /\ \A n \in DOMAIN names : names'[n] = names[n]
  BY CreateFacts, LenProperties DEF LogIInv, KnownInv
<1>2. CASE name \in DOMAIN names
  <2>1. UNCHANGED <<content, names>> /\ Opened(name) = names[name]
    BY <1>2 DEF CreateFile, disk, Opened
  <2> QED BY <1>2, <2>1 DEF FilesInv
<1>3. CASE name \notin DOMAIN names
  <2>1. content' = Append(content, {}) /\ Opened(name) = Len(content) + 1
    BY <1>3 DEF CreateFile, Opened
  <2>2. /\ Len(content') = Len(content) + 1
        /\ \A file \in 1 .. Len(content) : content'[file] = content[file]
    BY <1>1, <2>1, AppendProperties
  <2>3. \A n \in DOMAIN names' : names'[n] \in 1 .. Len(content')
    BY <1>1, <2>1, <2>2 DEF FilesInv
  <2>4. \A file \in 1 .. Len(content') :
          file \in misdated' \/ \E n \in DOMAIN names' : names'[n] = file
    <3> TAKE file \in 1 .. Len(content')
    <3>1. file \in 1 .. Len(content) \/ file = Opened(name)
      BY <1>1, <2>1, <2>2
    <3> QED BY <1>1, <3>1 DEF FilesInv
  <2>5. \A l \in Log : fd_'[l] # NoFile => fd_'[l] \in 1 .. Len(content')
    BY <1>1, <2>1, <2>2 DEF FilesInv
  <2>6. \A line \in written' : \E file \in 1 .. Len(content') : line \in content'[file]
    BY <1>1, <2>2 DEF FilesInv
  <2> QED BY <2>3, <2>4, <2>5, <2>6 DEF FilesInv
<1> QED BY <1>2, <1>3

LEMMA WriteLogFiles ==
  ASSUME LogIInv, FilesInv, NEW l \in Log, WriteLog(l)
  PROVE  FilesInv'
<1> DEFINE f == fd_[l]
           new == <<l, time>>
<1>1. /\ f # NoFile /\ content' = [content EXCEPT ![f] = @ \cup {new}]
      /\ written' = written \cup {new} /\ UNCHANGED <<names, fd_, misdated>>
  BY DEF WriteLog, objects
<1>2. f \in 1 .. Len(content) /\ content \in Seq(SUBSET Line)
  BY <1>1 DEF FilesInv, LogIInv, KnownInv
<1> HIDE DEF f, new
<1>3. /\ Len(content') = Len(content) /\ DOMAIN content = 1 .. Len(content)
      /\ content'[f] = content[f] \cup {new}
      /\ \A file \in 1 .. Len(content) : content[file] \subseteq content'[file]
  BY <1>1, <1>2
<1>4. \A line \in written' : \E file \in 1 .. Len(content') : line \in content'[file]
  BY <1>1, <1>2, <1>3 DEF FilesInv
<1> QED BY <1>1, <1>3, <1>4 DEF FilesInv

\* What the name of this check says.
LEMMA StampTells ==
  ASSUME calendar \in Calendars, NEW type \in Type, NEW other \in Type, NEW t,
         Stamp(type) = StampOf(other, t)
  PROVE  type = other /\ MonthOf(t) = [year |-> month.year, month |-> month.month]
<1> DEFINE a == month.year
           b == month.month
           c == last.day
           d == last.hour
           e == last.minute
<1>1. /\ type = "day" => Stamp(type) = <<a, b, c>> \o <<>> \o <<>>
      /\ type = "hour" => Stamp(type) = <<a, b, c>> \o <<d>> \o <<>>
      /\ type = "minute" => Stamp(type) = <<a, b, c>> \o <<d>> \o <<e>>
  BY DEF Stamp
<1> HIDE DEF a, b, c, d, e
<1>2. /\ <<a, b, c>> \o <<>> \o <<>> = <<a, b, c>>
      /\ <<a, b, c>> \o <<d>> \o <<>> = <<a, b, c, d>>
      /\ <<a, b, c>> \o <<d>> \o <<e>> = <<a, b, c, d, e>>
  BY Joined
<1>3. /\ type = "day" => Stamp(type) = <<a, b, c>>
      /\ type = "hour" => Stamp(type) = <<a, b, c, d>>
      /\ type = "minute" => Stamp(type) = <<a, b, c, d, e>>
  BY <1>1, <1>2
<1>4. Stamp(type)[1] = a /\ Stamp(type)[2] = b
      /\ Len(Stamp(type)) = IF type = "day" THEN 3 ELSE IF type = "hour" THEN 4 ELSE 5
  BY <1>3 DEF Type
<1>5. /\ StampOf(other, t)[1] = DateOf(t).year /\ StampOf(other, t)[2] = DateOf(t).month
      /\ Len(StampOf(other, t)) = IF other = "day" THEN 3 ELSE IF other = "hour" THEN 4 ELSE 5
  BY StampParts DEF Type
<1> QED BY <1>4, <1>5 DEF Type, MonthOf, a, b

LEMMA StampOfLast ==
  ASSUME NEW type, last = Reading(seen), month = MonthOf(seen)
  PROVE  Stamp(type) = StampOf(type, seen)
BY DEF Stamp, StampOf, Reading, MonthOf

LEMMA HeadIsToCompare ==
  ASSUME NamesInv, check.types # <<>>
  PROVE  /\ Head(check.types) \in Type /\ StillToCompare(Head(check.types))
         /\ Tail(check.types) \in {<<"day", "hour", "minute">>, <<"hour", "minute">>,
                                   <<"minute">>, <<>>}
         /\ check'.types = Tail(check.types) =>
              \A type \in Type : StillToCompare(type)' =>
                StillToCompare(type) /\ type # Head(check.types)
<1>1. CASE check.types = <<"day", "hour", "minute">>
  <2>1. Head(check.types) = "day" /\ Tail(check.types) = <<"hour", "minute">>
    BY <1>1
  <2> QED BY <1>1, <2>1 DEF Type, StillToCompare
<1>2. CASE check.types = <<"hour", "minute">>
  <2>1. Head(check.types) = "hour" /\ Tail(check.types) = <<"minute">>
    BY <1>2
  <2> QED BY <1>2, <2>1 DEF Type, StillToCompare
<1>3. CASE check.types = <<"minute">>
  <2>1. Head(check.types) = "minute" /\ Tail(check.types) = <<>>
    BY <1>3
  <2> QED BY <1>3, <2>1 DEF Type, StillToCompare
<1> QED BY <1>1, <1>2, <1>3 DEF NamesInv

\* A rotation takes no name that is in use, but that of a misdated file.
LEMMA NewNameIsFree ==
  ASSUME LogIInv, ClockInv, NamesInv, check.types # <<>>,
         NEW new, new = <<Path[check.log], Stamp(Head(check.types))>>, new \in DOMAIN names
  PROVE  names[new] \in misdated
<1> DEFINE type == Head(check.types)
<1>1. type \in Type /\ StillToCompare(type)
  BY HeadIsToCompare
<1>2. /\ check.running /\ calendar \in Calendars /\ last = Reading(seen)
      /\ month = MonthOf(check.at) /\ seen \in Nat /\ check.at \in Nat /\ seen <= check.at
  BY ClockTypes DEF LogIInv, KnownInv, ClockInv
<1>3. new[1] = Path[check.log] /\ new[2] = Stamp(type)
  OBVIOUS
<1> HIDE DEF type
<1> SUFFICES ASSUME names[new] \notin misdated PROVE FALSE
  OBVIOUS
<1>4. new \in Dated
  BY <1>3, StampNotEmpty DEF Dated, Rotated
<1>5. PICK other \in Type : /\ Ended(new, other, check.at)
                            /\ StillToCompare(other) => Ended(new, other, seen)
  BY <1>3, <1>4 DEF NamesInv
<1>6. type = other
  <2>1. PICK t \in 0 .. MaxTime : Stamp(type) = StampOf(other, t)
    BY <1>3, <1>5 DEF Ended
  <2> QED BY <1>1, <1>2, <2>1, StampTells
<1>7. PICK t \in 0 .. MaxTime :
        /\ Stamp(type) = StampOf(type, t) /\ ~ShownAgain(type, t)
        /\ \E v \in 0 .. MaxTime :
             t < v /\ v <= seen /\ StampOf(type, v) # StampOf(type, t)
  BY <1>1, <1>3, <1>5, <1>6 DEF Ended
<1>8. PICK v \in 0 .. MaxTime :
        t < v /\ v <= seen /\ StampOf(type, v) # StampOf(type, t)
  BY <1>7
<1>9. MonthOf(t) = MonthOf(check.at)
  BY <1>1, <1>2, <1>7, StampTells DEF MonthOf
<1>10. seen \in 0 .. MaxTime /\ check.at \in 0 .. MaxTime
  BY <1>2, CalendarAssumption, ClockTypes DEF ClockInv
\* The period of t would be shown again at seen, or its month at this check.
<1>11. CASE MonthOf(seen) = MonthOf(check.at)
  <2>1. StampOf(type, seen) = StampOf(type, t)
    BY <1>2, <1>7, <1>11, StampOfLast
  <2>2. v < seen
    BY <1>8, <1>10, <2>1, CalendarAssumption
  <2> QED BY <1>7, <1>8, <1>10, <2>1, <2>2 DEF ShownAgain
<1>12. CASE MonthOf(seen) # MonthOf(check.at)
  <2>1. t < seen /\ seen < check.at
    BY <1>2, <1>8, <1>10, <1>12, CalendarAssumption
  <2> QED BY <1>7, <1>9, <1>10, <1>12, <2>1 DEF ShownAgain
<1> QED BY <1>11, <1>12

LEMMA ClockGoesOn ==
  ASSUME ClockInv, UNCHANGED <<last, seen, check>>, time' \in time .. MaxTime
  PROVE  Clock' \in Nat /\ Clock <= Clock'
BY ClockTypes, CalendarAssumption DEF Clock, ClockInv

LEMMA EndedNow ==
  ASSUME ClockInv, UNCHANGED calendar, NEW n, NEW type \in Type,
         Ended(n, type, Clock), NEW u \in Nat, Clock <= u
  PROVE  Ended(n, type, u)'
<1>1. Ended(n, type, u)
  BY ClockTypes, EndedLater DEF ClockInv
<1> QED BY <1>1, TimeStays

\* Steps after which there is no new name.
LEMMA NamesStay ==
  ASSUME LogIInv, ClockInv, NamesInv, UNCHANGED <<calendar, last, seen>>,
         time' \in time .. MaxTime, \A n \in Dated' : n \in Dated,
         check'.running = check.running, check'.at = check.at, check'.todo = check.todo,
         check'.log = check.log, check'.types = check.types
  PROVE  NamesInv'
<1>1. Clock' \in Nat /\ Clock <= Clock'
  BY ClockTypes, CalendarAssumption DEF Clock, ClockInv
<1>2. \A n \in Dated' : \E type \in Type : Ended(n, type, Clock)'
  <2> TAKE n \in Dated'
  <2>1. PICK type \in Type : Ended(n, type, Clock)
    BY DEF NamesInv
  <2>2. Ended(n, type, Clock)'
    BY <1>1, <2>1, EndedNow
  <2> QED BY <2>2
<1>3. /\ check'.types \in {<<"day", "hour", "minute">>, <<"hour", "minute">>, <<"minute">>, <<>>}
      /\ check'.types # <<>> => check'.log \notin check'.todo
  BY DEF NamesInv
<1>4. check'.running => \A n \in Dated' : \A l \in check'.todo :
        n[1] = Path[l] => \E type \in Type : Ended(n, type, seen)'
  BY TimeStays DEF NamesInv
<1>5. check'.types # <<>> => \A n \in Dated' :
        n[1] = Path[check'.log] =>
          \E type \in Type :
            Ended(n, type, check.at)' /\ (StillToCompare(type)' => Ended(n, type, seen)')
  <2>1. \A type : StillToCompare(type)' => StillToCompare(type)
    BY DEF StillToCompare
  <2>2. \A n, type : Ended(n, type, check.at)' = Ended(n, type, check.at)
                     /\ Ended(n, type, seen)' = Ended(n, type, seen)
    BY TimeStays
  <2> QED BY <2>1, <2>2 DEF NamesInv
<1> QED BY <1>1, <1>2, <1>3, <1>4, <1>5 DEF NamesInv

LEMMA OnCheckNames ==
  ASSUME LogIInv, ClockInv, NamesInv, OnCheck
  PROVE  NamesInv'
<1>1. /\ ~check.running /\ check.types = <<>> /\ UNCHANGED <<calendar, time, names, misdated>>
  BY DEF OnCheck, disk, LogIInv, KnownInv
<1>2. Dated' = Dated
  BY <1>1 DEF Dated, Rotated
<1>3. CASE last = Unset
  <2>1. last' = Reading(time) /\ seen' = time /\ check' = check
    BY <1>3 DEF OnCheck
  <2>2. Clock' = time' /\ Clock = time /\ time \in Nat
    BY <1>1, <1>3, <2>1, ClockTypes DEF Clock
  <2>3. \A n \in Dated' : \E type \in Type : Ended(n, type, Clock)'
    <3> TAKE n \in Dated'
    <3>1. PICK type \in Type : Ended(n, type, Clock)
      BY <1>2 DEF NamesInv
    <3>2. Ended(n, type, Clock)'
      BY <1>1, <2>2, <3>1, EndedNow
    <3> QED BY <3>2
  <2> QED BY <1>1, <2>1, <2>3 DEF NamesInv
<1>4. CASE last # Unset
  <2>1. /\ UNCHANGED <<last, seen>> /\ check'.running /\ check'.at = time
        /\ check'.types = <<>>
    BY <1>4 DEF OnCheck, NoCheck
  <2>2. Clock' = time /\ Clock = seen /\ time \in Nat /\ seen \in Nat /\ seen <= time
    BY <1>1, <1>4, <2>1, ClockTypes DEF Clock
  <2>3. \A n \in Dated' : \E type \in Type : Ended(n, type, Clock)' /\ Ended(n, type, seen)'
    <3> TAKE n \in Dated'
    <3>1. PICK type \in Type : Ended(n, type, Clock)
      BY <1>2 DEF NamesInv
    <3>2. Ended(n, type, Clock)'
      BY <1>1, <2>2, <3>1, EndedNow
    <3>3. Ended(n, type, seen)'
      BY <1>1, <2>1, <2>2, <3>1, EndedNow
    <3> QED BY <3>2, <3>3
  <2> QED BY <2>1, <2>3 DEF NamesInv
<1> QED BY <1>3, <1>4

LEMMA VisitNames ==
  ASSUME LogIInv, ClockInv, NamesInv, NEW l \in Log, Visit(l)
  PROVE  NamesInv'
<1>1. /\ check.running /\ l \in check.todo
      /\ check'.running /\ check'.at = check.at /\ check'.todo = check.todo \ {l}
      /\ check'.log = l /\ check'.types = <<"day", "hour", "minute">>
      /\ UNCHANGED <<calendar, time, last, seen, names, misdated>>
  BY DEF Visit, Between, disk, logGhosts, LogIInv, KnownInv
<1>2. Dated' = Dated /\ Clock' = check.at /\ Clock = check.at
  BY <1>1 DEF Dated, Rotated, Clock
<1>3. check.at \in Nat /\ seen \in Nat /\ seen <= check.at
  BY <1>1, ClockTypes
<1>4. \A n, type : /\ Ended(n, type, check.at)' = Ended(n, type, check.at)
                   /\ Ended(n, type, seen)' = Ended(n, type, seen)
                   /\ Ended(n, type, Clock)' = Ended(n, type, Clock)
  BY <1>1, <1>2, TimeStays
<1>5. \A n \in Dated' : \E type \in Type : Ended(n, type, Clock)'
  BY <1>2, <1>4 DEF NamesInv
<1>6. \A n \in Dated' : \A k \in check'.todo :
        n[1] = Path[k] => \E type \in Type : Ended(n, type, seen)'
  BY <1>1, <1>2, <1>4 DEF NamesInv
<1>7. ASSUME NEW n \in Dated', n[1] = Path[l]
      PROVE  \E type \in Type : Ended(n, type, check.at)' /\ Ended(n, type, seen)'
  <2>1. PICK type \in Type : Ended(n, type, seen)
    BY <1>1, <1>2, <1>7 DEF NamesInv
  <2>2. Ended(n, type, check.at)
    BY <1>3, <2>1, EndedLater DEF ClockInv
  <2> QED BY <1>4, <2>1, <2>2
<1>8. check'.types # <<>> /\ check'.log \notin check'.todo
  BY <1>1
<1> QED BY <1>1, <1>5, <1>6, <1>7, <1>8 DEF NamesInv

LEMMA EndNames ==
  ASSUME LogIInv, ClockInv, NamesInv, FinishCheck \/ Restart
  PROVE  NamesInv'
<1>1. /\ ~check'.running /\ check'.types = <<>> /\ UNCHANGED <<calendar, time, names, misdated>>
  BY DEF FinishCheck, Restart, NoCheck, disk
<1>2. Dated' = Dated
  BY <1>1 DEF Dated, Rotated
<1>3. Clock' \in Nat /\ Clock <= Clock'
  <2>1. CASE FinishCheck
    <3>1. check.running /\ seen' = check.at
      BY <2>1 DEF FinishCheck, Between
    <3> QED BY <1>1, <3>1, ClockTypes DEF Clock
  <2>2. CASE Restart
    <3>1. last' = Unset
      BY <2>2 DEF Restart
    <3> QED BY <1>1, <3>1, ClockTypes DEF Clock
  <2> QED BY <2>1, <2>2
<1>4. \A n \in Dated' : \E type \in Type : Ended(n, type, Clock)'
  <2> TAKE n \in Dated'
  <2>1. PICK type \in Type : Ended(n, type, Clock)
    BY <1>2 DEF NamesInv
  <2>2. Ended(n, type, Clock)'
    BY <1>1, <1>3, <2>1, EndedNow
  <2> QED BY <2>2
<1> QED BY <1>1, <1>4 DEF NamesInv

\* What a rename that succeeds does to the directory.
LEMMA RenameFacts ==
  ASSUME LogIInv, ClockInv, NamesInv, Rename, check'.renamed,
         NEW l, l = check.log, NEW new, new = <<Path[l], Stamp(Head(check.types))>>
  PROVE  /\ Own(l) \in DOMAIN names /\ new # Own(l) /\ new[1] = Path[l]
         /\ new[2] = Stamp(Head(check.types)) /\ Head(check.types) \in check.changed
         /\ DOMAIN names' = (DOMAIN names \ {Own(l)}) \cup {new}
         /\ names'[new] = names[Own(l)]
         /\ \A n \in DOMAIN names : n # Own(l) /\ n # new =>
              n \in DOMAIN names' /\ names'[n] = names[n]
         /\ new \in DOMAIN names => names[new] \in misdated
         /\ misdated' = IF MonthOf(seen) = month /\ ~ShownAgain(Head(check.types), seen)
                          THEN misdated ELSE misdated \cup {names[Own(l)]}
         /\ UNCHANGED content
<1>1. ~check.renamed /\ check.types # <<>> /\ UNCHANGED content
  BY DEF Rename
<1>2. ~[check EXCEPT !.types = Tail(@)].renamed
  BY <1>1 DEF LogIInv, KnownInv
<1>3. /\ Head(check.types) \in check.changed /\ Own(l) \in DOMAIN names
      /\ names' = [n \in (DOMAIN names \ {Own(l)}) \cup {new} |->
                     IF n = new THEN names[Own(l)] ELSE names[n]]
      /\ misdated' = IF MonthOf(seen) = month /\ ~ShownAgain(Head(check.types), seen)
                       THEN misdated ELSE misdated \cup {names[Own(l)]}
  BY <1>2 DEF Rename
<1>4. new # Own(l) /\ new[1] = Path[l] /\ new[2] = Stamp(Head(check.types))
  <2>1. Stamp(Head(check.types)) # <<>>
    BY StampNotEmpty
  <2> QED BY <2>1 DEF Own
<1>5. new \in DOMAIN names => names[new] \in misdated
  BY <1>1, NewNameIsFree
<1> HIDE DEF Own
<1> QED BY <1>1, <1>3, <1>4, <1>5

LEMMA RenameFiles ==
  ASSUME LogIInv, ClockInv, NamesInv, FilesInv, Rename
  PROVE  FilesInv'
<1>1. CASE ~check'.renamed
  <2>1. ~check.renamed /\ UNCHANGED <<content, fd_, written>>
    BY DEF Rename, objects
  <2>2. UNCHANGED <<names, misdated>>
    BY <1>1, <2>1 DEF Rename, LogIInv, KnownInv
  <2> QED BY <2>1, <2>2, FilesStay
<1>2. CASE check'.renamed
  <2> DEFINE l == check.log
             own == Own(l)
             new == <<Path[l], Stamp(Head(check.types))>>
  <2>1. /\ own \in DOMAIN names /\ new # own
        /\ DOMAIN names' = (DOMAIN names \ {own}) \cup {new} /\ names'[new] = names[own]
        /\ \A n \in DOMAIN names : n # own /\ n # new =>
             n \in DOMAIN names' /\ names'[n] = names[n]
        /\ new \in DOMAIN names => names[new] \in misdated
        /\ misdated \subseteq misdated'
    BY <1>2, RenameFacts
  <2>2. UNCHANGED <<content, fd_, written>>
    BY DEF Rename, objects
  <2> HIDE DEF l, own, new
  <2>3. \A n \in DOMAIN names' : names'[n] \in 1 .. Len(content)
    BY <2>1 DEF FilesInv
  <2>4. \A file \in 1 .. Len(content) :
          file \in misdated' \/ \E n \in DOMAIN names' : names'[n] = file
    <3> TAKE file \in 1 .. Len(content)
    <3>1. file \in misdated \/ \E n \in DOMAIN names : names[n] = file
      BY DEF FilesInv
    <3> QED BY <2>1, <3>1
  <2> QED BY <2>2, <2>3, <2>4 DEF FilesInv
<1> QED BY <1>1, <1>2 DEF Rename, LogIInv, KnownInv

LEMMA RenameNames ==
  ASSUME LogIInv, ClockInv, NamesInv, FilesInv, Rename
  PROVE  NamesInv'
<1> DEFINE l == check.log
           type == Head(check.types)
           new == <<Path[l], Stamp(type)>>
<1>1. /\ check.types # <<>> /\ check.running /\ ~check.renamed
      /\ l \in logs_ /\ l \notin check.todo /\ check.todo \subseteq logs_
      /\ UNCHANGED <<calendar, time, last, seen>>
  BY DEF Rename, LogIInv, KnownInv, NamesInv
<1>2. /\ check'.types = Tail(check.types) /\ check'.running /\ check'.at = check.at
      /\ check'.todo = check.todo /\ check'.log = l
  BY <1>1 DEF Rename, LogIInv, KnownInv
<1>3. /\ type \in Type /\ StillToCompare(type)
      /\ check'.types \in {<<"day", "hour", "minute">>, <<"hour", "minute">>, <<"minute">>, <<>>}
      /\ \A other \in Type : StillToCompare(other)' => StillToCompare(other) /\ other # type
  BY <1>1, <1>2, HeadIsToCompare
<1>4. Clock' = check.at /\ Clock = check.at
  BY <1>1, <1>2 DEF Clock
<1>5. \A n, other : /\ Ended(n, other, check.at)' = Ended(n, other, check.at)
                    /\ Ended(n, other, seen)' = Ended(n, other, seen)
                    /\ Ended(n, other, Clock)' = Ended(n, other, Clock)
  BY <1>1, <1>2, <1>4, TimeStays
\* The new name is one for this check's type and log, unless the file is misdated.
<1>6. ASSUME NEW n \in Dated', n \notin Dated
      PROVE  n = new /\ Ended(n, type, check.at)
  <2>1. check'.renamed
    <3>1. CASE ~check'.renamed
      <4>1. UNCHANGED <<names, misdated>>
        BY <1>1, <3>1 DEF Rename, LogIInv, KnownInv
      <4> QED BY <1>6, <4>1 DEF Dated, Rotated
    <3> QED BY <3>1
  <2>2. /\ Own(l) \in DOMAIN names /\ new[2] = Stamp(type) /\ type \in check.changed
        /\ DOMAIN names' = (DOMAIN names \ {Own(l)}) \cup {new}
        /\ names'[new] = names[Own(l)]
        /\ \A k \in DOMAIN names : k # Own(l) /\ k # new =>
             k \in DOMAIN names' /\ names'[k] = names[k]
        /\ misdated' = IF MonthOf(seen) = month /\ ~ShownAgain(type, seen)
                         THEN misdated ELSE misdated \cup {names[Own(l)]}
    BY <2>1, RenameFacts
  <2> HIDE DEF l, type, new
  <2>3. n = new
    <3> SUFFICES ASSUME n # new PROVE FALSE
      OBVIOUS
    <3>1. n \in DOMAIN names /\ n # Own(l) /\ n[2] # <<>> /\ names'[n] \notin misdated'
      BY <1>6, <2>2 DEF Dated, Rotated
    <3>2. names'[n] = names[n] /\ misdated \subseteq misdated'
      BY <2>2, <3>1
    <3> QED BY <1>6, <3>1, <3>2 DEF Dated, Rotated
  <2>4. MonthOf(seen) = month /\ ~ShownAgain(type, seen)
    BY <1>6, <2>2, <2>3 DEF Dated
  <2>5. Stamp(type) = StampOf(type, seen)
    BY <1>1, <2>4, StampOfLast DEF ClockInv
  <2>6. /\ StampOf(type, check.at) # StampOf(type, seen)
        /\ seen \in 0 .. MaxTime /\ check.at \in 0 .. MaxTime /\ seen < check.at
    <3>1. StampOf(type, check.at) # StampOf(type, seen)
      BY <1>1, <2>2 DEF ClockInv
    <3>2. /\ seen \in 0 .. MaxTime /\ check.at \in 0 .. MaxTime /\ seen <= check.at
      BY <1>1, ClockTypes, CalendarAssumption DEF ClockInv
    <3> QED BY <3>1, <3>2, CalendarAssumption
  <2>7. check.at <= check.at
    BY <2>6, CalendarAssumption
  <2> QED BY <2>2, <2>3, <2>4, <2>5, <2>6, <2>7 DEF Ended
<1> HIDE DEF type, new
<1>7. \A n \in Dated' : \E other \in Type : Ended(n, other, Clock)'
  <2> TAKE n \in Dated'
  <2>1. CASE n \in Dated
    BY <1>5, <2>1 DEF NamesInv
  <2>2. CASE n \notin Dated
    BY <1>3, <1>4, <1>5, <1>6, <2>2
  <2> QED BY <2>1, <2>2
<1>8. ASSUME NEW n \in Dated', NEW k \in check'.todo, n[1] = Path[k]
      PROVE  \E other \in Type : Ended(n, other, seen)'
  <2>1. n \in Dated
    <3>1. Path[k] # Path[l]
      BY <1>1, <1>2 DEF LogIInv, KnownInv
    <3>2. n # new
      BY <1>8, <3>1 DEF new
    <3> QED BY <1>6, <3>2
  <2>2. \E other \in Type : Ended(n, other, seen)
    BY <1>1, <1>2, <1>8, <2>1 DEF NamesInv
  <2> QED BY <1>5, <2>2
<1>9. ASSUME NEW n \in Dated', n[1] = Path[l]
      PROVE  \E other \in Type :
               Ended(n, other, check.at)' /\ (StillToCompare(other)' => Ended(n, other, seen)')
  <2>1. CASE n \in Dated
    <3>1. PICK other \in Type :
            Ended(n, other, check.at) /\ (StillToCompare(other) => Ended(n, other, seen))
      BY <1>1, <1>9, <2>1 DEF NamesInv
    <3> QED BY <1>3, <1>5, <3>1
  <2>2. CASE n \notin Dated
    <3>1. PICK other \in Type : other = type
      BY <1>3
    <3>2. Ended(n, other, check.at) /\ ~StillToCompare(other)'
      BY <1>3, <1>6, <2>2, <3>1
    <3> QED BY <1>5, <3>2
  <2> QED BY <2>1, <2>2
<1> QED BY <1>1, <1>2, <1>3, <1>7, <1>8, <1>9 DEF NamesInv

DirIInv == LogIInv /\ ClockInv /\ FilesInv /\ NamesInv

LEMMA LogInitDirIInv == LogInit => DirIInv
<1> SUFFICES ASSUME LogInit PROVE DirIInv
  OBVIOUS
<1>1. ClockInv
  BY CalendarAssumption DEF LogInit, ClockInv, NoCheck
<1>2. FilesInv
  <2>1. Len(content) = 0 /\ DOMAIN names = {} /\ written = {} /\ \A l \in Log : fd_[l] = NoFile
    BY DEF LogInit
  <2> QED BY <2>1 DEF FilesInv
<1>3. NamesInv
  <2>1. Dated = {} /\ check.types = <<>> /\ ~check.running
    BY DEF LogInit, NoCheck, Dated, Rotated
  <2> QED BY <2>1 DEF NamesInv
<1> QED BY <1>1, <1>2, <1>3, LogInitIInv DEF DirIInv

LEMMA CreatedNames ==
  ASSUME LogIInv, FilesInv, NEW l, CreateFile(Own(l)), UNCHANGED misdated
  PROVE  \A n \in Dated' : n \in Dated
<1> TAKE n \in Dated'
<1>1. n \in DOMAIN names' /\ n[2] # <<>> /\ names'[n] \notin misdated'
  BY DEF Dated, Rotated
<1>2. n # Own(l)
  BY <1>1 DEF Own
<1>3. n \in DOMAIN names /\ names'[n] = names[n]
  <2>1. /\ DOMAIN names' = DOMAIN names \cup {Own(l)}
        /\ \A k \in DOMAIN names : names'[k] = names[k]
    BY CreateFacts
  <2> QED BY <1>1, <1>2, <2>1
<1> QED BY <1>1, <1>3 DEF Dated, Rotated

LEMMA NextFiles ==
  ASSUME DirIInv, [LogNext]_logVars
  PROVE  FilesInv'
<1> USE DEF DirIInv
<1>1. ASSUME NEW l \in Log, GetFileLog(l) PROVE FilesInv'
  <2>1. /\ CreateFile(Own(l)) /\ UNCHANGED <<misdated, written>>
        /\ fd_' = [fd_ EXCEPT ![l] = Opened(Own(l))]
    BY <1>1 DEF GetFileLog, logGhosts
  <2>2. \A k \in Log : fd_'[k] = fd_[k] \/ fd_'[k] = Opened(Own(l))
    BY <2>1 DEF LogIInv, KnownInv
  <2> QED BY <2>1, <2>2, FilesCreated
<1>2. CASE OpenNew
  <2>1. UNCHANGED <<fd_, misdated, written>>
    BY <1>2 DEF OpenNew, objects, logGhosts
  <2>2. CreateFile(Own(check.log)) \/ UNCHANGED <<names, content>>
    BY <1>2 DEF OpenNew, disk
  <2>3. CASE CreateFile(Own(check.log))
    BY <2>1, <2>3, FilesCreated
  <2>4. CASE UNCHANGED <<names, content>>
    BY <2>1, <2>4, FilesStay
  <2> QED BY <2>2, <2>3, <2>4
<1>3. ASSUME NEW l \in Log, WriteLog(l) PROVE FilesInv'
  BY <1>3, WriteLogFiles
<1>4. CASE Rename
  BY <1>4, RenameFiles
<1>5. CASE Dup
  <2>1. /\ Own(check.log) \in DOMAIN names /\ names[Own(check.log)] = check.opened
        /\ fd_' = [fd_ EXCEPT ![check.log] = check.opened]
        /\ UNCHANGED <<content, names, misdated, written>>
    BY <1>5 DEF Dup, disk, logGhosts, LogIInv, RotationInv
  <2>2. \A l \in Log : fd_'[l] = fd_[l] \/ fd_'[l] = names[Own(check.log)]
    BY <2>1 DEF LogIInv, KnownInv
  <2> QED BY <2>1, <2>2, FilesStay
<1>6. CASE Restart
  <2>1. UNCHANGED <<content, names, misdated, written>> /\ \A l \in Log : fd_'[l] = NoFile
    BY <1>6 DEF Restart, disk
  <2> QED BY <2>1, FilesStay
<1>7. CASE \/ UNCHANGED logVars
           \/ Minute \/ OnCheck \/ FinishCheck
           \/ \E l \in Log : RemoveFileLog(l) \/ SetRotateType(l) \/ Visit(l)
  <2>1. UNCHANGED <<content, names, misdated, written, fd_>>
    BY <1>7 DEF logVars, disk, objects, logGhosts, Minute, OnCheck, FinishCheck, RemoveFileLog,
                SetRotateType, Visit
  <2> QED BY <2>1, FilesStay
<1> QED BY <1>1, <1>2, <1>3, <1>4, <1>5, <1>6, <1>7 DEF LogNext

LEMMA NextNames ==
  ASSUME DirIInv, [LogNext]_logVars
  PROVE  NamesInv'
<1> USE DEF DirIInv
<1>1. CASE OnCheck \/ FinishCheck \/ Restart \/ Rename \/ \E l \in Log : Visit(l)
  BY <1>1, OnCheckNames, EndNames, RenameNames, VisitNames
<1>2. CASE \/ UNCHANGED logVars
           \/ Minute
           \/ \E l \in Log :
                GetFileLog(l) \/ RemoveFileLog(l) \/ SetRotateType(l) \/ WriteLog(l)
  <2>1. UNCHANGED <<calendar, last, seen, check, misdated>>
    BY <1>2 DEF logVars, manager, logGhosts, Minute, GetFileLog, RemoveFileLog, SetRotateType,
                WriteLog
  <2>2. time' \in time .. MaxTime
    <3>1. time' = time \/ (time < MaxTime /\ time' = time + 1)
      BY <1>2 DEF logVars, Minute, GetFileLog, RemoveFileLog, SetRotateType, WriteLog
    <3> QED BY <3>1, CalendarAssumption DEF ClockInv
  <2>3. UNCHANGED names \/ \E l \in Log : CreateFile(Own(l))
    BY <1>2 DEF logVars, disk, Minute, GetFileLog, RemoveFileLog, SetRotateType, WriteLog
  <2>4. \A n \in Dated' : n \in Dated
    <3>1. CASE UNCHANGED names
      BY <2>1, <3>1 DEF Dated, Rotated
    <3>2. CASE \E l \in Log : CreateFile(Own(l))
      BY <2>1, <3>2, CreatedNames
    <3> QED BY <2>3, <3>1, <3>2
  <2> QED BY <2>1, <2>2, <2>4, NamesStay
<1>3. CASE OpenNew \/ Dup
  <2>1. UNCHANGED <<calendar, time, last, seen, misdated>>
    BY <1>3 DEF OpenNew, Dup, logGhosts
  <2>2. /\ check'.running = check.running /\ check'.at = check.at
        /\ check'.todo = check.todo /\ check'.log = check.log /\ check'.types = check.types
    BY <1>3 DEF OpenNew, Dup, LogIInv, KnownInv
  <2>3. time' \in time .. MaxTime
    BY <2>1, CalendarAssumption DEF ClockInv
  <2>4. UNCHANGED names \/ CreateFile(Own(check.log))
    BY <1>3 DEF OpenNew, Dup, disk
  <2>5. \A n \in Dated' : n \in Dated
    <3>1. CASE UNCHANGED names
      BY <2>1, <3>1 DEF Dated, Rotated
    <3>2. CASE CreateFile(Own(check.log))
      BY <2>1, <3>2, CreatedNames
    <3> QED BY <2>4, <3>1, <3>2
  <2> QED BY <2>1, <2>2, <2>3, <2>5, NamesStay
<1> QED BY <1>1, <1>2, <1>3 DEF LogNext

LEMMA LogNextDirIInv == DirIInv /\ [LogNext]_logVars => DirIInv'
BY LogNextIInv, NextClock, NextFiles, NextNames DEF DirIInv

\* Of the lines that were written none is lost but those of a file that was renamed
\* by a check in another month than the one before it (FileLogMgr::rotateDays,
\* rotateHours and rotateMinutes), or for a date that the local clock shows again:
\* in every calendar, with any local clock, however late checks come, with any
\* logs, whatever is rotated, fails or crashes.
THEOREM NoLineIsLost == LogSpec => []LostOnlyIfMisdated
<1>1. DirIInv => LostOnlyIfMisdated
  <2> SUFFICES ASSUME DirIInv, NEW line \in written
               PROVE  \/ \E n \in DOMAIN names : line \in content[names[n]]
                      \/ \E file \in misdated : line \in content[file]
    BY DEF LostOnlyIfMisdated
  <2>1. PICK file \in 1 .. Len(content) : line \in content[file]
    BY DEF DirIInv, FilesInv
  <2>2. file \in misdated \/ \E n \in DOMAIN names : names[n] = file
    BY DEF DirIInv, FilesInv
  <2> QED BY <2>1, <2>2
<1> QED BY <1>1, LogInitDirIInv, LogNextDirIInv, PTL DEF LogSpec

LEMMA RotatedStays ==
  ASSUME DirIInv, [LogNext]_logVars, NEW n \in Rotated,
         names[n] \notin Range(fd_) \cup misdated
  PROVE  n \in DOMAIN names' /\ names'[n] = names[n]
         /\ content'[names[n]] = content[names[n]]
<1> DEFINE f == names[n]
<1>1. /\ n \in DOMAIN names /\ n[2] # <<>> /\ f \in 1 .. Len(content) /\ f \notin misdated
      /\ content \in Seq(SUBSET Line) /\ DOMAIN fd_ = Log
      /\ \A l \in Log : fd_[l] # f
  <2>1. DOMAIN fd_ = Log /\ content \in Seq(SUBSET Line)
    BY DEF DirIInv, LogIInv, KnownInv
  <2>2. \A l \in Log : fd_[l] \in Range(fd_)
    BY <2>1 DEF Range
  <2> QED BY <2>1, <2>2 DEF Rotated, DirIInv, FilesInv
<1>2. ASSUME NEW l, CreateFile(Own(l))
      PROVE  n \in DOMAIN names' /\ names'[n] = f /\ content'[f] = content[f]
  <2>1. /\ DOMAIN names' = DOMAIN names \cup {Own(l)}
        /\ \A k \in DOMAIN names : names'[k] = names[k]
    BY <1>2, CreateFacts DEF DirIInv
  <2>2. content' = content \/ content' = Append(content, {})
    BY <1>2 DEF CreateFile, disk
  <2>3. content'[f] = content[f]
    <3> HIDE DEF f
    <3> QED BY <1>1, <2>2, AppendProperties
  <2> QED BY <1>1, <2>1, <2>3
<1>3. CASE \E l \in Log : GetFileLog(l)
  BY <1>2, <1>3 DEF GetFileLog
<1>4. CASE OpenNew
  <2>1. CreateFile(Own(check.log)) \/ UNCHANGED disk
    BY <1>4 DEF OpenNew
  <2> QED BY <1>1, <1>2, <2>1 DEF disk
<1>5. ASSUME NEW l \in Log, WriteLog(l)
      PROVE  n \in DOMAIN names' /\ names'[n] = f /\ content'[f] = content[f]
  <2>1. content' = [content EXCEPT ![fd_[l]] = @ \cup { <<l, time>> }] /\ UNCHANGED names
    BY <1>5 DEF WriteLog
  <2>2. fd_[l] # f
    BY <1>1
  <2>3. content'[f] = content[f]
    <3> HIDE DEF f
    <3> QED BY <1>1, <2>1, <2>2
  <2> QED BY <1>1, <2>1, <2>3
<1>6. CASE Rename
  <2>1. CASE ~check'.renamed
    <3>1. UNCHANGED <<names, content>>
      BY <1>6, <2>1 DEF Rename, DirIInv, LogIInv, KnownInv
    <3> QED BY <1>1, <3>1
  <2>2. CASE check'.renamed
    <3> DEFINE l == check.log
               own == Own(l)
               new == <<Path[l], Stamp(Head(check.types))>>
    <3>1. LogIInv /\ ClockInv /\ NamesInv
      BY DEF DirIInv
    <3>2. /\ own \in DOMAIN names /\ new # own
          /\ DOMAIN names' = (DOMAIN names \ {own}) \cup {new} /\ names'[new] = names[own]
          /\ \A k \in DOMAIN names : k # own /\ k # new =>
               k \in DOMAIN names' /\ names'[k] = names[k]
          /\ new \in DOMAIN names => names[new] \in misdated
      BY ONLY <1>6, <2>2, <3>1, RenameFacts
    <3>3. n # own /\ UNCHANGED content
      BY <1>1, <1>6 DEF Own, Rename
    <3> HIDE DEF l, own, new
    <3> QED BY <1>1, <3>2, <3>3
  <2> QED BY <1>6, <2>1, <2>2 DEF Rename, DirIInv, LogIInv, KnownInv
<1>7. CASE \/ UNCHANGED logVars
           \/ Minute \/ OnCheck \/ FinishCheck \/ Dup \/ Restart
           \/ \E l \in Log : RemoveFileLog(l) \/ SetRotateType(l) \/ Visit(l)
  <2>1. UNCHANGED <<names, content>>
    BY <1>7 DEF logVars, disk, Minute, OnCheck, FinishCheck, Dup, Restart, RemoveFileLog,
                SetRotateType, Visit
  <2> QED BY <1>1, <2>1
<1> QED BY <1>3, <1>4, <1>5, <1>6, <1>7 DEF LogNext

\* A file that was rotated, that no log writes to and that was not misdated, keeps its
\* name and its lines (FileLogMgr::rotateDays, rotateHours and rotateMinutes): in
\* every calendar, with any local clock, however late checks come.
THEOREM RotatedFilesAreFinal == LogSpec => RotatedIsFinal
<1>1. DirIInv /\ [LogNext]_logVars =>
        [\A n \in Rotated :
           names[n] \notin Range(fd_) \cup misdated
             => n \in DOMAIN names' /\ names'[n] = names[n]
                /\ content'[names[n]] = content[names[n]]]_logVars
  BY RotatedStays
<1> QED BY <1>1, LogInitDirIInv, LogNextDirIInv, PTL DEF LogSpec, RotatedIsFinal

\* What LogTypeOK says beyond the other invariants.
ShapeInv ==
  /\ check.log \in Log \cup {None}
  /\ \A n \in DOMAIN names : n[1] \in Range(Path)
  /\ rotateType_ \in [Log -> Type \cup {"none"}]
  /\ fd_ \in [Log -> Nat]
  /\ written \subseteq Line

LEMMA LogInitShape == LogInit => ShapeInv
<1> SUFFICES ASSUME LogInit PROVE ShapeInv
  OBVIOUS
<1>1. DOMAIN names = {}
  BY DEF LogInit
<1> QED BY <1>1 DEF LogInit, ShapeInv, NoCheck, None, NoFile

LEMMA PathsKnown ==
  ASSUME NEW l \in Log, NEW stamp
  PROVE  <<Path[l], stamp>>[1] \in Range(Path) /\ Own(l)[1] \in Range(Path)
BY CalendarAssumption DEF Range, Own

LEMMA CreatedShape ==
  ASSUME DirIInv, ShapeInv, NEW l \in Log, CreateFile(Own(l))
  PROVE  Opened(Own(l)) \in Nat /\ \A n \in DOMAIN names' : n[1] \in Range(Path)
<1>1. DOMAIN names' = DOMAIN names \cup {Own(l)}
  BY CreateFacts DEF DirIInv
<1>2. Own(l)[1] \in Range(Path)
  BY PathsKnown
<1>3. Len(content) \in Nat /\ \A n \in DOMAIN names : names[n] \in Nat
  BY LenProperties DEF DirIInv, LogIInv, KnownInv, FilesInv
<1>4. Opened(Own(l)) \in Nat
  BY <1>3 DEF Opened
<1> QED BY <1>1, <1>2, <1>4 DEF ShapeInv

LEMMA NextShape ==
  ASSUME DirIInv, ShapeInv, [LogNext]_logVars
  PROVE  ShapeInv'
<1>1. ASSUME NEW l \in Log, GetFileLog(l) PROVE ShapeInv'
  <2>1. /\ CreateFile(Own(l)) /\ fd_' = [fd_ EXCEPT ![l] = Opened(Own(l))]
        /\ UNCHANGED <<check, rotateType_, written>>
    BY <1>1 DEF GetFileLog, manager, logGhosts
  <2>2. Opened(Own(l)) \in Nat /\ \A n \in DOMAIN names' : n[1] \in Range(Path)
    BY <2>1, CreatedShape
  <2> QED BY <2>1, <2>2 DEF ShapeInv
<1>2. CASE OpenNew
  <2>1. /\ check.log \in Log /\ check'.log = check.log /\ UNCHANGED <<rotateType_, fd_, written>>
    BY <1>2 DEF OpenNew, objects, logGhosts, DirIInv, LogIInv, KnownInv, RotationInv
  <2>2. \A n \in DOMAIN names' : n[1] \in Range(Path)
    <3>1. CreateFile(Own(check.log)) \/ UNCHANGED disk
      BY <1>2 DEF OpenNew
    <3> QED BY <2>1, <3>1, CreatedShape DEF ShapeInv, disk
  <2> QED BY <2>1, <2>2 DEF ShapeInv
<1>3. ASSUME NEW l \in Log, WriteLog(l) PROVE ShapeInv'
  <2>1. written' = written \cup { <<l, time>> } /\ <<l, time>> \in Line
    BY <1>3 DEF WriteLog, DirIInv, ClockInv, Line
  <2>2. UNCHANGED <<check, names, rotateType_, fd_>>
    BY <1>3 DEF WriteLog, manager, objects
  <2> QED BY <2>1, <2>2 DEF ShapeInv
<1>4. CASE Rename
  <2> DEFINE l == check.log
             new == <<Path[l], Stamp(Head(check.types))>>
  <2>1. l \in Log /\ check'.log = l /\ UNCHANGED <<rotateType_, fd_, written>>
    BY <1>4 DEF Rename, objects, DirIInv, LogIInv, KnownInv
  <2>2. \A n \in DOMAIN names' : n \in DOMAIN names \/ n = new
    BY <1>4 DEF Rename
  <2>3. new[1] \in Range(Path)
    BY <2>1, PathsKnown
  <2> HIDE DEF l, new
  <2> QED BY <2>1, <2>2, <2>3 DEF ShapeInv, l
<1>5. CASE Dup
  <2>1. /\ check.opened = names[Own(check.log)] /\ Own(check.log) \in DOMAIN names
        /\ fd_' = [fd_ EXCEPT ![check.log] = check.opened] /\ check'.log = check.log
        /\ UNCHANGED <<names, rotateType_, written>>
    BY <1>5 DEF Dup, disk, logGhosts, DirIInv, LogIInv, KnownInv, RotationInv
  <2>2. check.opened \in Nat
    BY <2>1 DEF DirIInv, FilesInv
  <2> QED BY <2>1, <2>2 DEF ShapeInv
<1>6. CASE Restart
  BY <1>6 DEF Restart, ShapeInv, NoCheck, NoFile, disk
<1>7. ASSUME NEW l \in Log, SetRotateType(l) PROVE ShapeInv'
  <2>1. PICK type \in Type : rotateType_' = [rotateType_ EXCEPT ![l] = type]
    BY <1>7 DEF SetRotateType, Type
  <2>2. UNCHANGED <<check, names, fd_, written>>
    BY <1>7 DEF SetRotateType, manager, disk, logGhosts
  <2> QED BY <2>1, <2>2 DEF ShapeInv
<1>8. CASE \/ UNCHANGED logVars
           \/ Minute \/ OnCheck \/ FinishCheck
           \/ \E l \in Log : RemoveFileLog(l) \/ Visit(l)
  <2>1. UNCHANGED <<names, rotateType_, fd_, written>>
    BY <1>8 DEF logVars, disk, objects, logGhosts, Minute, OnCheck, FinishCheck, RemoveFileLog,
                Visit
  <2>2. check'.log \in Log \cup {None}
    <3>1. CASE UNCHANGED logVars \/ Minute \/ \E l \in Log : RemoveFileLog(l)
      BY <3>1 DEF logVars, manager, Minute, RemoveFileLog, ShapeInv
    <3>2. CASE OnCheck \/ FinishCheck
      <4>1. \/ check' = check
            \/ check' = NoCheck
            \/ check' = [NoCheck EXCEPT !.running = TRUE, !.at = time, !.changed = Changed,
                                        !.todo = logs_]
        BY <3>2 DEF OnCheck, FinishCheck
      <4>2. check'.log = check.log \/ check'.log = None
        <5> DEFINE c == Changed
        <5> HIDE DEF c
        <5>1. [NoCheck EXCEPT !.running = TRUE, !.at = time, !.changed = c, !.todo = logs_].log
                = None
          BY DEF NoCheck
        <5> QED BY <4>1, <5>1 DEF NoCheck, c
      <4> QED BY <4>2 DEF ShapeInv
    <3>3. CASE \E l \in Log : Visit(l)
      BY <3>3 DEF Visit, DirIInv, LogIInv, KnownInv
    <3> QED BY <1>8, <3>1, <3>2, <3>3
  <2> QED BY <2>1, <2>2 DEF ShapeInv
<1> QED BY <1>1, <1>2, <1>3, <1>4, <1>5, <1>6, <1>7, <1>8 DEF LogNext

LEMMA DaysOfReading ==
  ASSUME calendar \in Calendars, NEW t \in 0 .. MaxTime
  PROVE  Reading(t).day \in 1 .. calendar.days
<1> DEFINE p == calendar.local[t]
           d == OfYear(p)
           s == calendar.starts[Max(MonthsTo(d))]
<1>1. calendar.days \in Nat \ {0} /\ d \in 0 .. (calendar.days - 1)
  <2>1. calendar.days \in Nat \ {0} /\ Period("day", p) \in Nat
    BY ShownFacts, CalendarFacts, PeriodFacts DEF Type
  <2>2. \A n \in Nat \ {0} : \A q \in Nat : q % n \in 0 .. (n - 1)
    BY QuotientFacts, Zenon
  <2> QED BY <2>1, <2>2, Zenon DEF OfYear
<1>2. d \in Nat
  BY <1>1
<1>3. s \in Nat /\ s <= d
  BY <1>2, LastMonth DEF MonthsTo
<1>4. Reading(t).day = 1 + d - s
  BY DateParts DEF Reading, DateOf
<1> HIDE DEF d, s, p
<1> QED BY <1>1, <1>3, <1>4

\* The variables of the log files keep to their types: a descriptor is that of a file
\* there is, and a day read is one of the calendar (FileLogMgr::onCheck).
THEOREM LogTypeCorrect == LogSpec => []LogTypeOK
<1>1. DirIInv /\ ShapeInv => LogTypeOK
  <2> SUFFICES ASSUME DirIInv, ShapeInv PROVE LogTypeOK
    OBVIOUS
  <2>1. last = Unset \/ last.day \in 1 .. calendar.days
    <3>1. seen \in 0 .. MaxTime
      BY ClockTypes, CalendarAssumption DEF DirIInv, ClockInv
    <3> QED BY <3>1, DaysOfReading DEF DirIInv, ClockInv
  <2>2. check.types \in Seq(Type)
    <3>1. /\ <<"day", "hour", "minute">> \in Seq(Type) /\ <<"hour", "minute">> \in Seq(Type)
          /\ <<"minute">> \in Seq(Type) /\ <<>> \in Seq(Type)
      BY EmptySeq DEF Type
    <3> QED BY <3>1 DEF DirIInv, NamesInv
  <2>3. fd_ \in [Log -> (1 .. Len(content)) \cup {NoFile}]
    BY DEF DirIInv, FilesInv, ShapeInv
  <2>4. /\ time \in 0 .. MaxTime /\ check.todo \subseteq Log /\ logs_ \subseteq Log
        /\ content \in Seq(SUBSET Line)
    BY DEF DirIInv, LogIInv, KnownInv
  <2> QED BY <2>1, <2>2, <2>3, <2>4 DEF LogTypeOK, ShapeInv, DirIInv, FilesInv
<1>2. LogInit => DirIInv /\ ShapeInv
  BY LogInitDirIInv, LogInitShape
<1>3. DirIInv /\ ShapeInv /\ [LogNext]_logVars => (DirIInv /\ ShapeInv)'
  BY LogNextDirIInv, NextShape
<1> QED BY <1>1, <1>2, <1>3, PTL DEF LogSpec

=============================================================================
