-------------------------- MODULE EventLoopProofs --------------------------
(***************************************************************************)
(* Theorems about EventLoop for any number of loops, threads and tasks.    *)
(***************************************************************************)
EXTENDS EventLoop, WellFoundedInduction, TLAPS

\* Who holds a mutex is what the program counters say.
MutexInv ==
  /\ \A l \in Loop : func_mtx_[l] = l <=> pc[l] \in {"run", "body"}
  /\ \A t \in Thread, l \in Loop :
       t # l => (func_mtx_[l] = t <=>
                   stage[t] \in {"open", "write"} /\ Target[call[t]] = l)

\* A call in progress goes to another thread's loop; a loop makes one only in
\* a handler or in the body of a task.
CallInv ==
  /\ \A t \in Thread :
       stage[t] # "none" => call[t] \in Task /\ Target[call[t]] # t
  /\ \A l \in Loop : stage[l] # "none" => pc[l] \in {"dispatch", "body"}

Tokens(l) == IF pipe_[l] = NoPipe THEN 0 ELSE pipe_[l]

\* The poster that has pushed a task and not yet written its token.
InFlight(l) == IF func_mtx_[l] \in Thread \ {l} THEN 1 ELSE 0

\* While a loop sleeps each queued task has its token, or a poster about to
\* write it; one token may be gone once the loop is awake.
TokenInv ==
  /\ \A l \in Loop : pc[l] = "wait" => Len(functions_[l]) <= Tokens(l) + InFlight(l)
  /\ \A l \in Loop : pc[l] \in {"dispatch", "lock"} =>
                       Len(functions_[l]) <= Tokens(l) + InFlight(l) + 1
  /\ \A l \in Loop : pc[l] = "body" => functions_[l] # <<>>
  /\ \A t \in Thread :
       /\ stage[t] = "open" => pipe_[Target[call[t]]] = NoPipe
       /\ stage[t] = "write" => pipe_[Target[call[t]]] # NoPipe

IInv == TypeOK /\ MutexInv /\ CallInv /\ TokenInv

LEMMA InitIInv == Init => IInv
<1> SUFFICES ASSUME Init PROVE IInv
  OBVIOUS
<1> USE DEF Init
<1>1. TypeOK
  BY TasksAssumption, PipeAssumption
     DEF TypeOK, Pc, Stage, NoPipe, CallsOf, Thread
<1>2. MutexInv
  BY TasksAssumption DEF MutexInv, Thread
<1>3. CallInv
  BY DEF CallInv, Thread
<1>4. TokenInv
  BY DEF TokenInv, Tokens, InFlight, Thread
<1> QED BY <1>1, <1>2, <1>3, <1>4 DEF IInv

-----------------------------------------------------------------------------
(***************************************************************************)
(* Steps of runInLoop.                                                     *)
(***************************************************************************)
LEMMA CallIInv ==
  ASSUME IInv, NEW t \in Thread, NEW c \in Task,
         CallInline(t, c) \/ CallFromOutside(t, c)
  PROVE  IInv'
<1> USE DEF IInv
<1>1. CASE CallInline(t, c)
  <2> USE <1>1 DEF CallInline
  <2>1. TypeOK'
    BY DEF TypeOK, CallsOf
  <2>2. MutexInv' /\ CallInv' /\ TokenInv'
    BY DEF MutexInv, CallInv, TokenInv, Tokens, InFlight
  <2> QED BY <2>1, <2>2
<1>2. CASE CallFromOutside(t, c)
  <2> USE <1>2 DEF CallFromOutside, Running
  <2>1. TypeOK'
    BY DEF TypeOK, Stage
  <2>2. /\ stage[t] = "none" /\ stage'[t] = "lock" /\ call'[t] = c
        /\ \A u \in Thread \ {t} : stage'[u] = stage[u] /\ call'[u] = call[u]
        /\ UNCHANGED <<pc, functions_, func_mtx_, pipe_>>
    BY DEF TypeOK
  <2>3. MutexInv'
    BY <2>2 DEF MutexInv
  <2>4. CallInv'
    BY <2>2, TasksAssumption DEF CallInv, Thread
  <2>5. TokenInv'
    BY <2>2 DEF TokenInv, Tokens, InFlight
  <2> QED BY <2>1, <2>3, <2>4, <2>5
<1> QED BY <1>1, <1>2

LEMMA PushIInv ==
  ASSUME IInv, NEW t \in Thread, Push(t),
         NEW l \in Loop, Target[call[t]] = l
  PROVE  IInv'
<1> USE DEF IInv
<1>1. call[t] \in Task /\ l # t
  BY DEF Push, CallInv
<1>2. /\ stage[t] = "lock"
      /\ func_mtx_[l] = NoOwner /\ func_mtx_'[l] = t
      /\ functions_'[l] = Append(functions_[l], call[t])
      /\ stage'[t] = IF pipe_[l] = NoPipe THEN "open" ELSE "write"
      /\ \A m \in Loop \ {l} : func_mtx_'[m] = func_mtx_[m]
                               /\ functions_'[m] = functions_[m]
      /\ \A u \in Thread \ {t} : stage'[u] = stage[u]
      /\ UNCHANGED <<pc, pipe_, pending, todo, call, ran>>
  BY <1>1 DEF Push, TypeOK
<1>3. TypeOK'
  BY <1>1, <1>2 DEF Push, TypeOK, Stage
<1>4. MutexInv'
  <2>1. ASSUME NEW m \in Loop
        PROVE  func_mtx_'[m] = m <=> pc'[m] \in {"run", "body"}
    BY <1>1, <1>2, TasksAssumption DEF MutexInv, Thread
  <2>2. ASSUME NEW u \in Thread, NEW m \in Loop, u # m
        PROVE  func_mtx_'[m] = u <=>
                 stage'[u] \in {"open", "write"} /\ Target[call'[u]] = m
    <3>1. CASE u = t
      BY <1>1, <1>2, <2>2, <3>1 DEF MutexInv
    <3>2. CASE u # t
      BY <1>1, <1>2, <2>2, <3>2, TasksAssumption DEF MutexInv
    <3> QED BY <3>1, <3>2
  <2> QED BY <2>1, <2>2 DEF MutexInv
<1>5. CallInv'
  <2>1. \A u \in Thread :
          stage'[u] # "none" => call'[u] \in Task /\ Target[call'[u]] # u
    BY <1>1, <1>2 DEF CallInv
  <2>2. \A m \in Loop : stage'[m] # "none" => pc'[m] \in {"dispatch", "body"}
    BY <1>2 DEF CallInv, Thread
  <2> QED BY <2>1, <2>2 DEF CallInv
<1>6. TokenInv'
  <2>1. Len(functions_'[l]) = Len(functions_[l]) + 1 /\ functions_'[l] # <<>>
    <3>1. functions_[l] \in Seq(Task)
      BY DEF TypeOK
    <3>2. Len(Append(functions_[l], call[t])) = Len(functions_[l]) + 1
      BY <1>1, <3>1
    <3>3. Len(functions_[l]) \in Nat
      BY <3>1
    <3>4. Append(functions_[l], call[t]) # <<>>
      BY <1>1, <3>1
    <3> QED BY <1>2, <3>2, <3>4
  <2>2. InFlight(l) = 0 /\ InFlight(l)' = 1
    BY <1>1, <1>2, TasksAssumption DEF InFlight
  <2>3. \A m \in Loop : Tokens(m)' = Tokens(m)
    BY <1>2 DEF Tokens
  <2>4. \A m \in Loop \ {l} : InFlight(m)' = InFlight(m)
    BY <1>2 DEF InFlight
  <2>5. \A m \in Loop : Tokens(m) \in Int /\ InFlight(m) \in Int /\ Len(functions_[m]) \in Int
    BY DEF Tokens, InFlight, TypeOK, NoPipe
  <2>6. ASSUME NEW m \in Loop
        PROVE  /\ pc'[m] = "wait" =>
                    Len(functions_'[m]) <= Tokens(m)' + InFlight(m)'
               /\ pc'[m] \in {"dispatch", "lock"} =>
                    Len(functions_'[m]) <= Tokens(m)' + InFlight(m)' + 1
               /\ pc'[m] = "body" => functions_'[m] # <<>>
    <3>1. CASE m = l
      BY <1>2, <2>1, <2>2, <2>3, <2>5, <3>1 DEF TokenInv
    <3>2. CASE m # l
      BY <1>2, <2>3, <2>4, <3>2 DEF TokenInv
    <3> QED BY <3>1, <3>2
  <2>7. \A u \in Thread :
          /\ stage'[u] = "open" => pipe_'[Target[call'[u]]] = NoPipe
          /\ stage'[u] = "write" => pipe_'[Target[call'[u]]] # NoPipe
    BY <1>2 DEF TokenInv
  <2> QED BY <2>6, <2>7 DEF TokenInv
<1> QED BY <1>3, <1>4, <1>5, <1>6

LEMMA OpenPipeIInv ==
  ASSUME IInv, NEW t \in Thread, OpenPipe(t),
         NEW l \in Loop, Target[call[t]] = l
  PROVE  IInv'
<1> USE DEF IInv
<1>1. call[t] \in Task /\ l # t
  BY DEF OpenPipe, CallInv
<1>2. /\ stage[t] = "open" /\ stage'[t] = "write"
      /\ pipe_[l] = NoPipe /\ pipe_'[l] = 0
      /\ \A m \in Loop \ {l} : pipe_'[m] = pipe_[m]
      /\ \A u \in Thread \ {t} : stage'[u] = stage[u]
      /\ UNCHANGED <<pc, functions_, func_mtx_, pending, todo, call, ran>>
  BY <1>1 DEF OpenPipe, TypeOK, TokenInv
<1>3. \A u \in Thread \ {t} : stage[u] \in {"open", "write"} => Target[call[u]] # l
  <2> SUFFICES ASSUME NEW u \in Thread \ {t}, stage[u] \in {"open", "write"},
                      Target[call[u]] = l
               PROVE  FALSE
    OBVIOUS
  <2>1. func_mtx_[l] = t
    BY <1>1, <1>2 DEF MutexInv
  <2>2. u # l
    BY DEF CallInv
  <2> QED BY <1>1, <2>1, <2>2 DEF MutexInv
<1>4. TypeOK'
  BY <1>1, PipeAssumption DEF OpenPipe, TypeOK, Stage, NoPipe
<1>5. MutexInv'
  BY <1>1, <1>2 DEF MutexInv
<1>6. CallInv'
  <2>1. \A u \in Thread :
          stage'[u] # "none" => call'[u] \in Task /\ Target[call'[u]] # u
    BY <1>1, <1>2 DEF CallInv
  <2>2. \A m \in Loop : stage'[m] # "none" => pc'[m] \in {"dispatch", "body"}
    BY <1>2 DEF CallInv, Thread
  <2> QED BY <2>1, <2>2 DEF CallInv
<1>7. TokenInv'
  <2>1. \A m \in Loop : Tokens(m)' = Tokens(m) /\ InFlight(m)' = InFlight(m)
    BY <1>1, <1>2 DEF Tokens, InFlight, NoPipe
  <2>2. \A u \in Thread :
          /\ stage'[u] = "open" => pipe_'[Target[call'[u]]] = NoPipe
          /\ stage'[u] = "write" => pipe_'[Target[call'[u]]] # NoPipe
    <3> TAKE u \in Thread
    <3>1. CASE u = t
      BY <1>1, <1>2, <3>1 DEF NoPipe
    <3>2. CASE u # t
      <4>1. stage[u] # "none" => Target[call[u]] \in Loop
        BY TasksAssumption DEF CallInv
      <4> QED BY <1>2, <1>3, <3>2, <4>1 DEF TokenInv
    <3> QED BY <3>1, <3>2
  <2> QED BY <1>2, <2>1, <2>2 DEF TokenInv
<1> QED BY <1>4, <1>5, <1>6, <1>7

LEMMA WriteTokenIInv ==
  ASSUME IInv, NEW t \in Thread, WriteToken(t),
         NEW l \in Loop, Target[call[t]] = l
  PROVE  IInv'
<1> USE DEF IInv
<1>1. call[t] \in Task /\ l # t
  BY DEF WriteToken, CallInv
<1>2. /\ stage[t] = "write" /\ stage'[t] = "none"
      /\ pipe_[l] # NoPipe /\ pipe_[l] \in NoPipe..PipeCap /\ pipe_[l] < PipeCap
      /\ pipe_'[l] = pipe_[l] + 1
      /\ func_mtx_[l] = t /\ func_mtx_'[l] = NoOwner
      /\ \A m \in Loop \ {l} : pipe_'[m] = pipe_[m] /\ func_mtx_'[m] = func_mtx_[m]
      /\ \A u \in Thread \ {t} : stage'[u] = stage[u] /\ call'[u] = call[u]
      /\ UNCHANGED <<pc, functions_, pending, todo, ran>>
  BY <1>1 DEF WriteToken, TypeOK, TokenInv, MutexInv
<1>3. \A u \in Thread \ {t} : stage[u] \in {"open", "write"} => Target[call[u]] # l
  <2> SUFFICES ASSUME NEW u \in Thread \ {t}, stage[u] \in {"open", "write"},
                      Target[call[u]] = l
               PROVE  FALSE
    OBVIOUS
  <2>1. u # l
    BY DEF CallInv
  <2> QED BY <1>1, <1>2, <2>1 DEF MutexInv
<1>4. TypeOK'
  <2>1. pipe_[l] + 1 \in NoPipe..PipeCap
    BY <1>2, PipeAssumption DEF NoPipe
  <2> QED BY <1>1, <2>1 DEF WriteToken, TypeOK, Stage
<1>5. MutexInv'
  <2>1. ASSUME NEW m \in Loop
        PROVE  func_mtx_'[m] = m <=> pc'[m] \in {"run", "body"}
    BY <1>1, <1>2, TasksAssumption DEF MutexInv, Thread
  <2>2. ASSUME NEW u \in Thread, NEW m \in Loop, u # m
        PROVE  func_mtx_'[m] = u <=>
                 stage'[u] \in {"open", "write"} /\ Target[call'[u]] = m
    <3>1. CASE u = t
      BY <1>1, <1>2, <2>2, <3>1, TasksAssumption DEF MutexInv
    <3>2. CASE u # t
      BY <1>1, <1>2, <1>3, <2>2, <3>2, TasksAssumption DEF MutexInv
    <3> QED BY <3>1, <3>2
  <2> QED BY <2>1, <2>2 DEF MutexInv
<1>6. CallInv'
  <2>1. \A u \in Thread :
          stage'[u] # "none" => call'[u] \in Task /\ Target[call'[u]] # u
    BY <1>1, <1>2 DEF CallInv
  <2>2. \A m \in Loop : stage'[m] # "none" => pc'[m] \in {"dispatch", "body"}
    BY <1>2 DEF CallInv, Thread
  <2> QED BY <2>1, <2>2 DEF CallInv
<1>7. TokenInv'
  <2>1. Tokens(l)' = Tokens(l) + 1 /\ InFlight(l)' = 0 /\ InFlight(l) = 1
    BY <1>1, <1>2, TasksAssumption, PipeAssumption DEF Tokens, InFlight, NoPipe
  <2>2. \A m \in Loop \ {l} : Tokens(m)' = Tokens(m) /\ InFlight(m)' = InFlight(m)
    BY <1>2 DEF Tokens, InFlight
  <2>3. \A m \in Loop : Tokens(m) \in Int /\ Len(functions_[m]) \in Int
    BY DEF Tokens, TypeOK, NoPipe
  <2>4. ASSUME NEW m \in Loop
        PROVE  /\ pc'[m] = "wait" =>
                    Len(functions_'[m]) <= Tokens(m)' + InFlight(m)'
               /\ pc'[m] \in {"dispatch", "lock"} =>
                    Len(functions_'[m]) <= Tokens(m)' + InFlight(m)' + 1
               /\ pc'[m] = "body" => functions_'[m] # <<>>
    <3>1. CASE m = l
      BY <1>2, <2>1, <2>3, <3>1 DEF TokenInv
    <3>2. CASE m # l
      BY <1>2, <2>2, <3>2 DEF TokenInv
    <3> QED BY <3>1, <3>2
  <2>5. \A u \in Thread :
          /\ stage'[u] = "open" => pipe_'[Target[call'[u]]] = NoPipe
          /\ stage'[u] = "write" => pipe_'[Target[call'[u]]] # NoPipe
    <3> TAKE u \in Thread
    <3>1. CASE u = t
      BY <1>2, <3>1
    <3>2. CASE u # t
      <4>1. stage[u] # "none" => Target[call[u]] \in Loop
        BY TasksAssumption DEF CallInv
      <4> QED BY <1>2, <1>3, <3>2, <4>1 DEF TokenInv
    <3> QED BY <3>1, <3>2
  <2> QED BY <2>4, <2>5 DEF TokenInv
<1> QED BY <1>4, <1>5, <1>6, <1>7

-----------------------------------------------------------------------------
(***************************************************************************)
(* Steps of a loop's round.                                                *)
(***************************************************************************)
LEMMA PollIInv ==
  ASSUME IInv, NEW l \in Loop, Poll(l)
  PROVE  IInv'
<1> USE DEF IInv
<1>1. /\ pc[l] = "wait" /\ pc'[l] = "dispatch"
      /\ pipe_[l] \in NoPipe..PipeCap
      /\ pipe_'[l] = IF pipe_[l] > 0 THEN pipe_[l] - 1 ELSE pipe_[l]
      /\ \A m \in Loop \ {l} : pc'[m] = pc[m] /\ pipe_'[m] = pipe_[m]
      /\ UNCHANGED <<functions_, func_mtx_, pending, todo, stage, call, ran>>
  BY DEF Poll, ReadToken, TypeOK
<1>2. pipe_'[l] \in NoPipe..PipeCap /\ (pipe_'[l] = NoPipe <=> pipe_[l] = NoPipe)
  BY <1>1, PipeAssumption DEF NoPipe
<1>3. TypeOK'
  BY <1>2 DEF Poll, ReadToken, TypeOK, Pc
<1>4. MutexInv'
  BY <1>1 DEF MutexInv
<1>5. CallInv'
  BY <1>1 DEF CallInv
<1>6. TokenInv'
  <2>1. /\ Tokens(l) <= Tokens(l)' + 1
        /\ \A m \in Loop \ {l} : Tokens(m)' = Tokens(m)
        /\ \A m \in Loop : InFlight(m)' = InFlight(m)
    BY <1>1, PipeAssumption DEF Tokens, InFlight, NoPipe
  <2>2. /\ Tokens(l) \in Int /\ Tokens(l)' \in Int
        /\ InFlight(l) \in Int /\ Len(functions_[l]) \in Int
    BY <1>2, PipeAssumption DEF Tokens, InFlight, TypeOK, NoPipe
  <2>3. ASSUME NEW m \in Loop
        PROVE  /\ pc'[m] = "wait" =>
                    Len(functions_'[m]) <= Tokens(m)' + InFlight(m)'
               /\ pc'[m] \in {"dispatch", "lock"} =>
                    Len(functions_'[m]) <= Tokens(m)' + InFlight(m)' + 1
               /\ pc'[m] = "body" => functions_'[m] # <<>>
    <3>1. CASE m = l
      BY <1>1, <2>1, <2>2, <3>1 DEF TokenInv
    <3>2. CASE m # l
      BY <1>1, <2>1, <3>2 DEF TokenInv
    <3> QED BY <3>1, <3>2
  <2>4. \A u \in Thread :
          /\ stage'[u] = "open" => pipe_'[Target[call'[u]]] = NoPipe
          /\ stage'[u] = "write" => pipe_'[Target[call'[u]]] # NoPipe
    <3> TAKE u \in Thread
    <3>1. stage[u] # "none" => Target[call[u]] \in Loop
      BY TasksAssumption DEF CallInv
    <3> QED BY <1>1, <1>2, <3>1 DEF TokenInv
  <2> QED BY <2>3, <2>4 DEF TokenInv
<1> QED BY <1>3, <1>4, <1>5, <1>6

LEMMA DispatchIInv ==
  ASSUME IInv, NEW l \in Loop,
         (\E c \in Task : HandleEvent(l, c)) \/ FinishDispatch(l)
  PROVE  IInv'
<1> USE DEF IInv
<1>1. CASE \E c \in Task : HandleEvent(l, c)
  <2>1. PICK c \in Task : HandleEvent(l, c)
    BY <1>1
  <2> USE <2>1 DEF HandleEvent
  <2>2. TypeOK'
    BY DEF TypeOK, Thread
  <2>3. MutexInv' /\ CallInv' /\ TokenInv'
    BY DEF MutexInv, CallInv, TokenInv, Tokens, InFlight
  <2> QED BY <2>2, <2>3
<1>2. CASE FinishDispatch(l)
  <2>1. /\ pc[l] = "dispatch" /\ pc'[l] = "lock" /\ stage[l] = "none"
        /\ \A m \in Loop \ {l} : pc'[m] = pc[m]
        /\ UNCHANGED <<functions_, func_mtx_, pipe_, pending, todo, stage, call, ran>>
    BY <1>2 DEF FinishDispatch, Idle, TypeOK
  <2>2. TypeOK'
    BY <1>2 DEF FinishDispatch, TypeOK, Pc
  <2>3. MutexInv'
    BY <2>1 DEF MutexInv
  <2>4. CallInv'
    BY <2>1 DEF CallInv
  <2>5. TokenInv'
    BY <2>1 DEF TokenInv, Tokens, InFlight
  <2> QED BY <2>2, <2>3, <2>4, <2>5
<1> QED BY <1>1, <1>2

LEMMA LockFunctionsIInv ==
  ASSUME IInv, NEW l \in Loop, LockFunctions(l)
  PROVE  IInv'
<1> USE DEF IInv
<1>1. /\ pc[l] = "lock" /\ pc'[l] = "run"
      /\ func_mtx_[l] = NoOwner /\ func_mtx_'[l] = l
      /\ \A m \in Loop \ {l} : pc'[m] = pc[m] /\ func_mtx_'[m] = func_mtx_[m]
      /\ UNCHANGED <<functions_, pipe_, pending, todo, stage, call, ran>>
  BY DEF LockFunctions, TypeOK
<1>2. TypeOK'
  BY DEF LockFunctions, TypeOK, Pc, Thread
<1>3. MutexInv'
  <2>1. \A m \in Loop : func_mtx_'[m] = m <=> pc'[m] \in {"run", "body"}
    BY <1>1 DEF MutexInv
  <2>2. ASSUME NEW u \in Thread, NEW m \in Loop, u # m
        PROVE  func_mtx_'[m] = u <=>
                 stage'[u] \in {"open", "write"} /\ Target[call'[u]] = m
    <3>1. CASE m = l
      BY <1>1, <2>2, <3>1, TasksAssumption DEF MutexInv
    <3>2. CASE m # l
      BY <1>1, <2>2, <3>2 DEF MutexInv
    <3> QED BY <3>1, <3>2
  <2> QED BY <2>1, <2>2 DEF MutexInv
<1>4. stage[l] = "none"
  BY <1>1 DEF CallInv
<1>5. CallInv'
  BY <1>1, <1>4 DEF CallInv
<1>6. TokenInv'
  <2>1. \A m \in Loop \ {l} : Tokens(m)' = Tokens(m) /\ InFlight(m)' = InFlight(m)
    BY <1>1 DEF Tokens, InFlight
  <2> QED BY <1>1, <2>1 DEF TokenInv
<1> QED BY <1>2, <1>3, <1>5, <1>6

LEMMA RunIInv ==
  ASSUME IInv, NEW l \in Loop, RunFront(l) \/ PopFront(l)
  PROVE  IInv'
<1> USE DEF IInv
<1>1. /\ pc[l] \in {"run", "body"} /\ pc'[l] \in {"run", "body"}
      /\ stage[l] = "none"
      /\ pc'[l] = "body" => functions_'[l] # <<>>
      /\ \A m \in Loop \ {l} : pc'[m] = pc[m] /\ functions_'[m] = functions_[m]
      /\ UNCHANGED <<func_mtx_, pipe_, pending, stage, call>>
  BY DEF RunFront, PopFront, Idle, CallInv, TypeOK
<1>2. TypeOK'
  <2>1. CASE RunFront(l)
    <3>1. Head(functions_[l]) \in Task
      BY <2>1 DEF RunFront, TypeOK
    <3> QED BY <2>1, <3>1 DEF RunFront, TypeOK, Pc, CallsOf, Thread
  <2>2. CASE PopFront(l)
    <3>1. Tail(functions_[l]) \in Seq(Task)
      BY <2>2 DEF PopFront, TypeOK, TokenInv
    <3> QED BY <2>2, <3>1 DEF PopFront, TypeOK, Pc
  <2> QED BY <2>1, <2>2
<1>3. MutexInv'
  BY <1>1 DEF MutexInv
<1>4. CallInv'
  BY <1>1 DEF CallInv
<1>5. TokenInv'
  BY <1>1 DEF TokenInv, Tokens, InFlight
<1> QED BY <1>2, <1>3, <1>4, <1>5

LEMMA FinishFunctionsIInv ==
  ASSUME IInv, NEW l \in Loop, FinishFunctions(l)
  PROVE  IInv'
<1> USE DEF IInv
<1>1. /\ pc[l] = "run" /\ pc'[l] = "wait" /\ functions_[l] = <<>>
      /\ func_mtx_[l] = l /\ func_mtx_'[l] = NoOwner
      /\ \A m \in Loop \ {l} : pc'[m] = pc[m] /\ func_mtx_'[m] = func_mtx_[m]
      /\ UNCHANGED <<functions_, pipe_, pending, todo, stage, call, ran>>
  BY DEF FinishFunctions, TypeOK, MutexInv
<1>2. TypeOK'
  BY DEF FinishFunctions, TypeOK, Pc
<1>3. MutexInv'
  <2>1. \A m \in Loop : func_mtx_'[m] = m <=> pc'[m] \in {"run", "body"}
    BY <1>1, TasksAssumption DEF MutexInv, Thread
  <2>2. ASSUME NEW u \in Thread, NEW m \in Loop, u # m
        PROVE  func_mtx_'[m] = u <=>
                 stage'[u] \in {"open", "write"} /\ Target[call'[u]] = m
    <3>1. CASE m = l
      BY <1>1, <2>2, <3>1, TasksAssumption DEF MutexInv
    <3>2. CASE m # l
      BY <1>1, <2>2, <3>2 DEF MutexInv
    <3> QED BY <3>1, <3>2
  <2> QED BY <2>1, <2>2 DEF MutexInv
<1>4. stage[l] = "none"
  BY <1>1 DEF CallInv
<1>5. CallInv'
  BY <1>1, <1>4 DEF CallInv
<1>6. TokenInv'
  <2>1. \A m \in Loop \ {l} : Tokens(m)' = Tokens(m) /\ InFlight(m)' = InFlight(m)
    BY <1>1 DEF Tokens, InFlight
  <2>2. Len(functions_'[l]) = 0 /\ Tokens(l)' >= 0 /\ InFlight(l)' = 0
    BY <1>1, <1>2, TasksAssumption, PipeAssumption
       DEF Tokens, InFlight, TypeOK, NoPipe
  <2>3. Tokens(l)' \in Int
    BY <1>2, PipeAssumption DEF Tokens, TypeOK, NoPipe
  <2>4. ASSUME NEW m \in Loop
        PROVE  /\ pc'[m] = "wait" =>
                    Len(functions_'[m]) <= Tokens(m)' + InFlight(m)'
               /\ pc'[m] \in {"dispatch", "lock"} =>
                    Len(functions_'[m]) <= Tokens(m)' + InFlight(m)' + 1
               /\ pc'[m] = "body" => functions_'[m] # <<>>
    <3>1. CASE m = l
      BY <1>1, <2>2, <2>3, <3>1
    <3>2. CASE m # l
      BY <1>1, <2>1, <3>2 DEF TokenInv
    <3> QED BY <3>1, <3>2
  <2> QED BY <1>1, <2>4 DEF TokenInv
<1> QED BY <1>2, <1>3, <1>5, <1>6

LEMMA NextIInv ==
  ASSUME IInv, [Next]_vars
  PROVE  IInv'
<1>1. ASSUME NEW t \in Thread, RunInLoop(t)
      PROVE  IInv'
  <2>1. stage[t] # "none" => Target[call[t]] \in Loop
    BY TasksAssumption DEF IInv, CallInv
  <2>2. CASE \E c \in Task : CallInline(t, c) \/ CallFromOutside(t, c)
    BY <2>2, CallIInv
  <2>3. CASE Push(t)
    BY <2>1, <2>3, PushIInv DEF Push
  <2>4. CASE OpenPipe(t)
    BY <2>1, <2>4, OpenPipeIInv DEF OpenPipe
  <2>5. CASE WriteToken(t)
    BY <2>1, <2>5, WriteTokenIInv DEF WriteToken
  <2> QED BY <1>1, <2>2, <2>3, <2>4, <2>5 DEF RunInLoop
<1>2. ASSUME NEW l \in Loop, Round(l)
      PROVE  IInv'
  BY <1>2, PollIInv, DispatchIInv, LockFunctionsIInv, RunIInv, FinishFunctionsIInv
     DEF Round
<1>3. CASE UNCHANGED vars
  BY <1>3 DEF vars, IInv, TypeOK, MutexInv, CallInv, TokenInv, Tokens, InFlight
<1> QED BY <1>1, <1>2, <1>3 DEF Next

-----------------------------------------------------------------------------
\* The invariant behind the theorems below.
THEOREM InductiveInvariant == Spec => []IInv
<1>1. Init => IInv
  BY InitIInv
<1>2. IInv /\ [Next]_vars => IInv'
  BY NextIInv
<1> QED BY <1>1, <1>2, PTL DEF Spec

\* Type correctness of the loops' state.
THEOREM TypeCorrect == Spec => []TypeOK
<1>1. IInv => TypeOK
  BY DEF IInv
<1> QED BY <1>1, InductiveInvariant, PTL

\* A loop never sleeps on a task that runInLoop has queued: the write to the
\* wake-up pipe and the single read per round never cross so as to lose it.
THEOREM WakeupsAreNotLost == Spec => []NoLostWakeup
<1>1. ASSUME IInv PROVE NoLostWakeup
  <2> SUFFICES ASSUME NEW l \in Loop, pc[l] = "wait", functions_[l] # <<>>,
                      func_mtx_[l] = NoOwner
               PROVE  pipe_[l] > 0
    BY DEF NoLostWakeup
  <2>1. functions_[l] \in Seq(Task)
    BY <1>1 DEF IInv, TypeOK
  <2>2. Len(functions_[l]) \in Nat /\ Len(functions_[l]) # 0
    BY <2>1
  <2>3. InFlight(l) = 0
    BY TasksAssumption DEF InFlight
  <2>4. Len(functions_[l]) <= Tokens(l) + InFlight(l)
    BY <1>1 DEF IInv, TokenInv
  <2>5. pipe_[l] \in Int
    BY <1>1, PipeAssumption DEF IInv, TypeOK, NoPipe
  <2> QED BY <2>2, <2>3, <2>4, <2>5 DEF Tokens, NoPipe
<1>2. IInv => NoLostWakeup
  BY <1>1
<1> QED BY <1>2, InductiveInvariant, PTL

-----------------------------------------------------------------------------
(***************************************************************************)
(* When running tasks post to other loops in one direction only, no set of *)
(* threads waits for itself.                                               *)
(***************************************************************************)

\* Tasks run with the mutex of their loop held, and post to lower loops only,
\* in an order Below of the loops that never descends for ever.
Ordered(Below) ==
  /\ IsWellFoundedOn(Below, Loop)
  /\ \A c \in Task :
       Origin[c] \in Task /\ Target[Origin[c]] # Target[c]
         => <<Target[c], Target[Origin[c]]>> \in Below

PipesHaveRoom == \A l \in Loop : pipe_[l] < PipeCap

TasksOf(l) == {c \in Task : Target[c] = l}

\* A queue holds tasks of its loop; what a task's body has still to post, or
\* is posting, are the task's own calls.
BodyInv ==
  /\ \A l \in Loop : functions_[l] \in Seq(TasksOf(l))
  /\ \A l \in Loop : pc[l] = "body" =>
       \A c \in todo[l] : Origin[c] \in Task /\ Target[Origin[c]] = l
  /\ \A l \in Loop : pc[l] = "body" /\ stage[l] # "none" =>
       Origin[call[l]] \in Task /\ Target[Origin[call[l]]] = l

LEMMA NextBodyInv ==
  ASSUME IInv, BodyInv, [Next]_vars
  PROVE  BodyInv'
<1> USE DEF BodyInv
<1>1. ASSUME NEW t \in Thread, NEW c \in Task, CallInline(t, c)
      PROVE  BodyInv'
  <2>1. /\ Target[c] = t /\ stage[t] = "none"
        /\ UNCHANGED <<pc, functions_, stage, call>>
        /\ todo'[t] = (todo[t] \ {c}) \cup CallsOf(c)
        /\ \A u \in Thread \ {t} : todo'[u] = todo[u]
    BY <1>1 DEF CallInline, Running, IInv, TypeOK
  <2>2. ASSUME NEW l \in Loop, pc[l] = "body", NEW d \in todo'[l]
        PROVE  Origin[d] \in Task /\ Target[Origin[d]] = l
    BY <2>1, <2>2 DEF CallsOf, Thread
  <2> QED BY <2>1, <2>2
<1>2. ASSUME NEW t \in Thread, NEW c \in Task, CallFromOutside(t, c)
      PROVE  BodyInv'
  <2>1. /\ c \in todo[t]
        /\ UNCHANGED <<pc, functions_>>
        /\ call'[t] = c
        /\ todo'[t] = todo[t] \ {c}
        /\ \A u \in Thread \ {t} :
             todo'[u] = todo[u] /\ stage'[u] = stage[u] /\ call'[u] = call[u]
    BY <1>2 DEF CallFromOutside, IInv, TypeOK
  <2>2. \A l \in Loop : todo'[l] \subseteq todo[l]
    BY <2>1 DEF Thread
  <2>3. ASSUME NEW l \in Loop, pc[l] = "body", stage'[l] # "none"
        PROVE  Origin[call'[l]] \in Task /\ Target[Origin[call'[l]]] = l
    BY <2>1, <2>3 DEF Thread
  <2> QED BY <2>1, <2>2, <2>3
<1>3. ASSUME NEW t \in Thread, Push(t)
      PROVE  BodyInv'
  <2>1. PICK l \in Loop : l = Target[call[t]]
    BY <1>3, TasksAssumption DEF Push, IInv, CallInv
  <2>2. call[t] \in TasksOf(l)
    BY <1>3, <2>1 DEF Push, IInv, CallInv, TasksOf
  <2>3. /\ functions_'[l] = Append(functions_[l], call[t])
        /\ \A m \in Loop \ {l} : functions_'[m] = functions_[m]
        /\ stage[t] # "none"
        /\ \A u \in Thread \ {t} : stage'[u] = stage[u]
        /\ UNCHANGED <<pc, todo, call>>
    BY <1>3, <2>1 DEF Push, IInv, TypeOK
  <2>4. functions_'[l] \in Seq(TasksOf(l))
    BY <2>2, <2>3
  <2>5. \A m \in Loop : functions_'[m] \in Seq(TasksOf(m))
    BY <2>3, <2>4
  <2>6. ASSUME NEW m \in Loop, pc[m] = "body", stage'[m] # "none"
        PROVE  stage[m] # "none"
    BY <2>3, <2>6 DEF Thread
  <2> QED BY <2>3, <2>5, <2>6
<1>4. ASSUME NEW t \in Thread, OpenPipe(t) \/ WriteToken(t)
      PROVE  BodyInv'
  <2>1. /\ stage[t] # "none"
        /\ stage'[t] = "none" \/ call'[t] = call[t]
        /\ \A u \in Thread \ {t} : stage'[u] = stage[u] /\ call'[u] = call[u]
        /\ UNCHANGED <<pc, todo, functions_>>
    BY <1>4 DEF OpenPipe, WriteToken, IInv, TypeOK
  <2>2. \A u \in Thread : stage'[u] # "none" => stage[u] # "none" /\ call'[u] = call[u]
    BY <2>1
  <2> QED BY <2>1, <2>2 DEF Thread
<1>5. ASSUME NEW l \in Loop, Round(l)
      PROVE  BodyInv'
  <2>1. CASE Poll(l) \/ FinishDispatch(l) \/ LockFunctions(l) \/ FinishFunctions(l)
    <3>1. /\ pc'[l] # "body"
          /\ \A m \in Loop \ {l} : pc'[m] = pc[m]
          /\ UNCHANGED <<functions_, todo, stage, call>>
      BY <2>1 DEF Poll, FinishDispatch, LockFunctions, FinishFunctions, IInv, TypeOK
    <3> QED BY <3>1
  <2>2. CASE \E c \in Task : HandleEvent(l, c)
    <3>1. /\ pc[l] = "dispatch"
          /\ \A m \in Loop \ {l} : todo'[m] = todo[m]
          /\ UNCHANGED <<functions_, pc, stage, call>>
      BY <2>2 DEF HandleEvent, IInv, TypeOK, Thread
    <3> QED BY <3>1
  <2>3. CASE RunFront(l)
    <3>1. /\ stage[l] = "none"
          /\ \A m \in Loop \ {l} : todo'[m] = todo[m] /\ pc'[m] = pc[m]
          /\ todo'[l] = CallsOf(Head(functions_[l]))
          /\ functions_[l] # <<>>
          /\ UNCHANGED <<functions_, stage, call>>
      BY <2>3 DEF RunFront, IInv, TypeOK, Thread, CallInv
    <3>2. Head(functions_[l]) \in TasksOf(l)
      BY <3>1
    <3>3. \A c \in todo'[l] : Origin[c] \in Task /\ Target[Origin[c]] = l
      BY <3>1, <3>2 DEF CallsOf, TasksOf
    <3> QED BY <3>1, <3>3
  <2>4. CASE PopFront(l)
    <3>1. /\ pc[l] = "body" /\ pc'[l] = "run"
          /\ functions_'[l] = Tail(functions_[l])
          /\ \A m \in Loop \ {l} : functions_'[m] = functions_[m] /\ pc'[m] = pc[m]
          /\ UNCHANGED <<todo, stage, call>>
      BY <2>4 DEF PopFront, IInv, TypeOK
    <3>2. functions_[l] # <<>>
      BY <3>1 DEF IInv, TokenInv
    <3>3. functions_'[l] \in Seq(TasksOf(l))
      BY <3>1, <3>2
    <3> QED BY <3>1, <3>3
  <2> QED BY <1>5, <2>1, <2>2, <2>3, <2>4 DEF Round
<1>6. CASE UNCHANGED vars
  BY <1>6 DEF vars
<1> QED BY <1>1, <1>2, <1>3, <1>4, <1>5, <1>6 DEF Next, RunInLoop

\* What a thread that holds the mutex of l can be waiting for.
LEMMA HolderWaitsLower ==
  ASSUME IInv, BodyInv, NEW Below, Ordered(Below),
         NEW l \in Loop, NEW u \in Thread, func_mtx_[l] = u,
         NEW m \in Wants(u)
  PROVE  m \in Loop /\ <<m, l>> \in Below
<1> USE DEF IInv
<1>1. u = l
  <2> SUFFICES ASSUME u # l PROVE FALSE
    OBVIOUS
  <2>1. stage[u] \in {"open", "write"}
    BY DEF MutexInv
  <2>2. u \in Loop /\ pc[u] = "lock"
    BY <2>1 DEF Wants
  <2> QED BY <2>1, <2>2 DEF CallInv
<1>2. pc[l] \in {"run", "body"}
  BY <1>1 DEF MutexInv
<1>3. stage[l] = "lock" /\ m = Target[call[l]]
  BY <1>1, <1>2 DEF Wants
<1>4. pc[l] = "body" /\ call[l] \in Task /\ Target[call[l]] # l
  BY <1>1, <1>2, <1>3 DEF CallInv
<1>5. Origin[call[l]] \in Task /\ Target[Origin[call[l]]] = l
  BY <1>3, <1>4 DEF BodyInv
<1> QED BY <1>3, <1>4, <1>5, TasksAssumption DEF Ordered

\* No threads wait for one another in a circle, whatever their number, as long
\* as running tasks post to lower loops in some well-founded order and no wake-up
\* pipe is full: the two ways in which runInLoop, which writes to the pipe,
\* and runFunctions, which runs tasks, can block with func_mtx_ held.
THEOREM OrderedPostsDoNotDeadlock ==
  ASSUME NEW Below, Ordered(Below)
  PROVE  Spec /\ []PipesHaveRoom => []NoCircularWait
<1>1. Init => BodyInv
  BY DEF Init, BodyInv
<1>2. IInv /\ BodyInv /\ [Next]_vars => BodyInv'
  BY NextBodyInv
<1>3. ASSUME IInv, BodyInv, PipesHaveRoom
      PROVE  NoCircularWait
  <2> SUFFICES ASSUME NEW S \in SUBSET Thread, S # {},
                      \A t \in S : \E u \in S : WaitsFor(t, u)
               PROVE  FALSE
    BY DEF NoCircularWait
  <2>1. ASSUME NEW t \in S
        PROVE  \E u \in S, l \in Wants(t) : func_mtx_[l] = u /\ l \in Loop
    <3>1. PICK u \in S : WaitsFor(t, u)
      OBVIOUS
    <3>2. stage[t] # "write" \/ pipe_[Target[call[t]]] # PipeCap
      <4>1. stage[t] = "write" => Target[call[t]] \in Loop
        BY <1>3, TasksAssumption DEF IInv, CallInv
      <4>2. \A l \in Loop : pipe_[l] # PipeCap
        <5> TAKE l \in Loop
        <5>1. pipe_[l] \in Int /\ PipeCap \in Int /\ pipe_[l] < PipeCap
          BY <1>3, PipeAssumption DEF PipesHaveRoom, IInv, TypeOK, NoPipe
        <5> QED BY <5>1
      <4> QED BY <4>1, <4>2
    <3>3. \A l \in Wants(t) : l \in Loop
      <4>1. stage[t] = "lock" => Target[call[t]] \in Loop
        BY <1>3, TasksAssumption DEF IInv, CallInv
      <4> QED BY <4>1 DEF Wants
    <3> QED BY <3>1, <3>2, <3>3 DEF WaitsFor
  <2> DEFINE held == {l \in Loop : func_mtx_[l] \in S}
  <2>2. held # {}
    BY <2>1
  <2>3. PICK l \in held : \A m \in held : <<m, l>> \notin Below
    <3>1. IsWellFoundedOn(Below, Loop) /\ held \subseteq Loop
      BY DEF Ordered
    <3> HIDE DEF held
    <3> QED BY <2>2, <3>1, WFMin
  <2>4. PICK m \in Wants(func_mtx_[l]) : m \in Loop /\ func_mtx_[m] \in S
    BY <2>1
  <2>5. <<m, l>> \in Below
    BY <1>3, <2>4, HolderWaitsLower
  <2> QED BY <2>3, <2>4, <2>5
<1>4. IInv /\ BodyInv /\ PipesHaveRoom => NoCircularWait
  BY <1>3
<1> QED BY <1>1, <1>2, <1>4, InductiveInvariant, PTL DEF Spec

-----------------------------------------------------------------------------
(***************************************************************************)
(* No task runs twice.  A call is, one after the other, in the handler that *)
(* will make it, in the code that is about to make it, waiting for the      *)
(* mutex, and in the queue; each of these places is in one thread only.     *)
(***************************************************************************)

\* The thread that makes the call c.
Home(c) == IF Origin[c] \in Task THEN Target[Origin[c]] ELSE Origin[c]

HandlerHas(c) == Origin[c] \in Loop /\ c \in pending[Origin[c]]
CodeHas(c) == c \in todo[Home(c)]
CallHas(c) == stage[Home(c)] = "lock" /\ call[Home(c)] = c
QueueHas(c) ==
  \E i \in 1..Len(functions_[Target[c]]) :
    functions_[Target[c]][i] = c /\ (pc[Target[c]] = "body" => i # 1)

\* Calls are found where they belong, a queue holds none twice, and the task
\* that is running is the front of its loop's queue.
PlaceInv ==
  /\ \A l \in Loop : pending[l] \subseteq CallsOf(l)
  /\ \A t \in Thread : \A c \in todo[t] : Home(c) = t
  /\ \A t \in Thread : stage[t] # "none" => Home(call[t]) = t
  /\ \A l \in Loop : functions_[l] \in Seq(TasksOf(l))
  /\ \A l \in Loop : \A i, j \in 1..Len(functions_[l]) :
       functions_[l][i] = functions_[l][j] => i = j
  /\ \A l \in Loop : pc[l] = "body" => ran[functions_[l][1]] # 0

Nowhere(c) == ~HandlerHas(c) /\ ~CodeHas(c) /\ ~CallHas(c) /\ ~QueueHas(c)

OnePlace(c) ==
  /\ HandlerHas(c) => ~CodeHas(c) /\ ~CallHas(c) /\ ~QueueHas(c)
  /\ CodeHas(c) => ~CallHas(c) /\ ~QueueHas(c)
  /\ CallHas(c) => ~QueueHas(c)

Released(c) == Origin[c] \in Task => ran[Origin[c]] # 0

\* A call is in one place at most until it runs, and in none before the task
\* that makes it has run or once it has run itself.
OnceInv ==
  \A c \in Task :
    /\ ran[c] <= 1
    /\ OnePlace(c)
    /\ ran[c] # 0 => Nowhere(c)
    /\ ~Released(c) => Nowhere(c) /\ ran[c] = 0

LEMMA HomeType ==
  ASSUME NEW c \in Task
  PROVE  Home(c) \in Thread /\ Target[c] \in Loop /\ Target[c] \in Thread
BY TasksAssumption DEF Home, Thread

LEMMA InitOnceInv == Init => PlaceInv /\ OnceInv
<1> SUFFICES ASSUME Init PROVE PlaceInv /\ OnceInv
  OBVIOUS
<1>1. PlaceInv
  <2>1. \A t \in Thread : \A c \in todo[t] : Home(c) = t
    BY TasksAssumption DEF Init, CallsOf, Home, Thread
  <2>2. \A l \in Loop : functions_[l] = <<>> /\ pending[l] = CallsOf(l)
    BY DEF Init
  <2>3. \A l \in Loop : functions_[l] \in Seq(TasksOf(l)) /\ Len(functions_[l]) = 0
    <3> TAKE l \in Loop
    <3>1. <<>> \in Seq(TasksOf(l)) /\ Len(<<>>) = 0
      OBVIOUS
    <3> QED BY <2>2, <3>1
  <2>4. (\A t \in Thread : stage[t] = "none") /\ \A l \in Loop : pc[l] = "wait"
    BY DEF Init
  <2> QED BY <2>1, <2>2, <2>3, <2>4 DEF PlaceInv
<1>2. ASSUME NEW c \in Task
      PROVE  /\ ran[c] = 0 /\ ~CallHas(c) /\ ~QueueHas(c)
             /\ HandlerHas(c) => Origin[c] \in Loop
             /\ CodeHas(c) => Origin[c] \in Poster
  <2>1. stage[Home(c)] = "none" /\ functions_[Target[c]] = <<>>
    BY HomeType DEF Init
  <2>2. CodeHas(c) => Origin[c] \in Poster
    BY HomeType DEF Init, CodeHas, CallsOf
  <2> QED BY <2>1, <2>2 DEF Init, CallHas, QueueHas, HandlerHas
<1> QED BY <1>1, <1>2, TasksAssumption DEF OnceInv, OnePlace, Nowhere, Released, Thread

-----------------------------------------------------------------------------
\* Nothing new comes to c.
Stays(c) ==
  /\ HandlerHas(c)' => HandlerHas(c)
  /\ CodeHas(c)' => CodeHas(c)
  /\ CallHas(c)' => CallHas(c)
  /\ QueueHas(c)' => QueueHas(c)

LEMMA MoveOnce ==
  ASSUME OnceInv, ran' = ran,
         \A c \in Task : Stays(c) \/ (~Nowhere(c) /\ OnePlace(c)')
  PROVE  OnceInv'
BY DEF OnceInv, Stays, Nowhere, OnePlace, Released

LEMMA RunOnce ==
  ASSUME IInv, OnceInv, NEW c \in Task, ran' = [ran EXCEPT ![c] = @ + 1],
         ~Nowhere(c), Nowhere(c)',
         \A d \in Task \ {c} : Stays(d) \/ (Origin[d] = c /\ OnePlace(d)')
  PROVE  OnceInv'
<1>1. ran[c] = 0 /\ Released(c)
  BY DEF OnceInv
<1>2. ran'[c] = 1 /\ \A d \in Task \ {c} : ran'[d] = ran[d]
  BY <1>1 DEF IInv, TypeOK
<1>3. OnePlace(c)'
  BY DEF OnePlace, Nowhere
<1>4. ASSUME NEW d \in Task \ {c}, Stays(d)
      PROVE  /\ ran'[d] <= 1 /\ OnePlace(d)' /\ (ran'[d] # 0 => Nowhere(d)')
             /\ ~Released(d)' => Nowhere(d)' /\ ran'[d] = 0
  <2>1. OnePlace(d)' /\ (Nowhere(d) => Nowhere(d)')
    BY <1>4 DEF OnceInv, Stays, OnePlace, Nowhere
  <2>2. ~Released(d)' => ~Released(d)
    BY <1>1, <1>2 DEF Released
  <2> QED BY <1>2, <2>1, <2>2 DEF OnceInv
<1>5. ASSUME NEW d \in Task \ {c}, Origin[d] = c, OnePlace(d)'
      PROVE  /\ ran'[d] <= 1 /\ OnePlace(d)' /\ (ran'[d] # 0 => Nowhere(d)')
             /\ ~Released(d)' => Nowhere(d)' /\ ran'[d] = 0
  <2>1. ~Released(d) /\ Released(d)'
    BY <1>1, <1>2, <1>5 DEF Released
  <2> QED BY <1>2, <1>5, <2>1 DEF OnceInv
<1>6. Released(c)'
  <2>1. Origin[c] \in Task => ran[Origin[c]] # 0
    BY <1>1 DEF Released
  <2> QED BY <1>1, <1>2, <2>1 DEF Released
<1> QED BY <1>2, <1>3, <1>4, <1>5, <1>6 DEF OnceInv

-----------------------------------------------------------------------------
\* Steps after which every call of a body and every queue is where it was.
LEMMA QuietOnce ==
  ASSUME IInv, PlaceInv, OnceInv, UNCHANGED <<functions_, pending, todo, ran>>,
         \A t \in Thread :
           \/ stage'[t] = stage[t] /\ call'[t] = call[t]
           \/ stage'[t] = "none"
           \/ stage[t] = "open" /\ stage'[t] = "write" /\ call'[t] = call[t],
         \A l \in Loop : pc'[l] = "body" <=> pc[l] = "body"
  PROVE  PlaceInv' /\ OnceInv'
<1>1. PlaceInv'
  BY DEF PlaceInv
<1>2. ASSUME NEW c \in Task PROVE Stays(c)
  BY HomeType DEF Stays, HandlerHas, CodeHas, CallHas, QueueHas
<1> QED BY <1>1, <1>2, MoveOnce

LEMMA FrontIsTask ==
  ASSUME IInv, NEW l \in Loop, functions_[l] # <<>>
  PROVE  /\ 1 \in 1..Len(functions_[l])
         /\ functions_[l][1] \in Task /\ functions_[l][1] = Head(functions_[l])
BY DEF IInv, TypeOK

LEMMA CallInlineOnce ==
  ASSUME IInv, PlaceInv, OnceInv, NEW t \in Thread, NEW c \in Task, CallInline(t, c)
  PROVE  PlaceInv' /\ OnceInv'
<1>1. /\ c \in todo[t] /\ Target[c] = t /\ Home(c) = t
      /\ ran' = [ran EXCEPT ![c] = @ + 1]
      /\ todo'[t] = (todo[t] \ {c}) \cup CallsOf(c)
      /\ \A u \in Thread \ {t} : todo'[u] = todo[u]
      /\ UNCHANGED <<pc, functions_, pending, stage, call>>
  BY DEF CallInline, IInv, TypeOK, PlaceInv
<1>2. \A d \in CallsOf(c) : d \in Task /\ Origin[d] = c /\ Home(d) = t
  BY <1>1 DEF CallsOf, Home
<1>3. PlaceInv'
  <2>1. \A d \in Task : ran[d] \in Nat /\ (ran'[d] = ran[d] \/ ran'[d] = ran[d] + 1)
    BY <1>1 DEF IInv, TypeOK
  <2>2. \A l \in Loop : pc[l] = "body" => functions_[l][1] \in Task
    BY FrontIsTask DEF IInv, TokenInv
  <2>3. \A l \in Loop : pc'[l] = "body" => ran'[functions_'[l][1]] # 0
    BY <1>1, <2>1, <2>2 DEF PlaceInv
  <2>4. \A u \in Thread : \A d \in todo'[u] : Home(d) = u
    BY <1>1, <1>2 DEF PlaceInv
  <2> QED BY <1>1, <2>3, <2>4 DEF PlaceInv
<1>4. \A d \in Task : /\ HandlerHas(d)' <=> HandlerHas(d)
                      /\ CallHas(d)' <=> CallHas(d)
                      /\ QueueHas(d)' <=> QueueHas(d)
  BY <1>1 DEF HandlerHas, CallHas, QueueHas
<1>5. CodeHas(c)
  BY <1>1 DEF CodeHas
<1>6. Released(c) /\ ran[c] = 0
  BY <1>5 DEF OnceInv, Nowhere
<1>7. Origin[c] # c
  BY <1>6 DEF Released
<1>8. ~CodeHas(c)'
  BY <1>1, <1>2, <1>7 DEF CodeHas
<1>9. Nowhere(c)'
  BY <1>4, <1>5, <1>8 DEF OnceInv, OnePlace, Nowhere
<1>10. ASSUME NEW d \in Task \ {c}
       PROVE  Stays(d) \/ (Origin[d] = c /\ OnePlace(d)')
  <2>1. CASE Origin[d] = c
    <3>1. Nowhere(d)
      BY <1>6, <2>1 DEF OnceInv, Released
    <3> QED BY <1>4, <2>1, <3>1 DEF OnePlace, Nowhere
  <2>2. CASE Origin[d] # c
    <3>1. CodeHas(d)' => CodeHas(d)
      BY <1>1, <1>2, <2>2, HomeType DEF CodeHas
    <3> QED BY <1>4, <3>1 DEF Stays
  <2> QED BY <2>1, <2>2
<1>11. ~Nowhere(c)
  BY <1>5 DEF Nowhere
<1> QED BY <1>1, <1>3, <1>9, <1>10, <1>11, RunOnce

LEMMA CallFromOutsideOnce ==
  ASSUME IInv, PlaceInv, OnceInv, NEW t \in Thread, NEW c \in Task,
         CallFromOutside(t, c)
  PROVE  PlaceInv' /\ OnceInv'
<1>1. /\ c \in todo[t] /\ Home(c) = t /\ stage[t] = "none"
      /\ todo'[t] = todo[t] \ {c}
      /\ stage'[t] = "lock" /\ call'[t] = c
      /\ \A u \in Thread \ {t} :
           todo'[u] = todo[u] /\ stage'[u] = stage[u] /\ call'[u] = call[u]
      /\ UNCHANGED <<pc, functions_, pending, ran>>
  BY DEF CallFromOutside, Running, IInv, TypeOK, PlaceInv
<1>2. PlaceInv'
  BY <1>1 DEF PlaceInv
<1>3. \A d \in Task : /\ HandlerHas(d)' <=> HandlerHas(d)
                      /\ QueueHas(d)' <=> QueueHas(d)
  BY <1>1 DEF HandlerHas, QueueHas
<1>4. CodeHas(c) /\ ~CodeHas(c)'
  BY <1>1 DEF CodeHas
<1>5. \A d \in Task \ {c} : CodeHas(d)' <=> CodeHas(d)
  BY <1>1, HomeType DEF CodeHas
<1>6. \A d \in Task \ {c} : CallHas(d)' => CallHas(d)
  BY <1>1, HomeType DEF CallHas
<1>7. ~HandlerHas(c) /\ ~QueueHas(c)
  BY <1>4 DEF OnceInv, OnePlace
<1>8. ~Nowhere(c) /\ OnePlace(c)'
  BY <1>3, <1>4, <1>7 DEF Nowhere, OnePlace
<1>9. \A d \in Task \ {c} : Stays(d)
  BY <1>3, <1>5, <1>6 DEF Stays
<1> QED BY <1>1, <1>2, <1>8, <1>9, MoveOnce

LEMMA PushOnce ==
  ASSUME IInv, PlaceInv, OnceInv, NEW t \in Thread, Push(t),
         NEW c \in Task, call[t] = c, NEW l \in Loop, Target[c] = l
  PROVE  PlaceInv' /\ OnceInv'
<1>1. /\ stage[t] = "lock" /\ Home(c) = t
      /\ functions_'[l] = Append(functions_[l], c)
      /\ \A m \in Loop \ {l} : functions_'[m] = functions_[m]
      /\ stage'[t] \in {"open", "write"}
      /\ \A u \in Thread \ {t} : stage'[u] = stage[u]
      /\ UNCHANGED <<pc, pending, todo, call, ran>>
  BY DEF Push, IInv, TypeOK, PlaceInv
<1>2. CallHas(c) /\ ~CallHas(c)'
  BY <1>1 DEF CallHas
<1>3. ~HandlerHas(c) /\ ~CodeHas(c) /\ ~QueueHas(c) /\ ran[c] = 0
  BY <1>2 DEF OnceInv, OnePlace, Nowhere
<1>4. functions_[l] \in Seq(TasksOf(l)) /\ c \in TasksOf(l)
  BY DEF PlaceInv, TasksOf
<1> DEFINE q == functions_[l]
<1>5. /\ Len(q) \in Nat /\ Len(functions_'[l]) = Len(q) + 1
      /\ \A i \in 1..Len(q) : functions_'[l][i] = q[i]
      /\ functions_'[l][Len(q) + 1] = c
      /\ functions_'[l] \in Seq(TasksOf(l))
  BY <1>1, <1>4
<1>6. \A i \in 1..Len(q) : q[i] # c
  <2> SUFFICES ASSUME NEW i \in 1..Len(q), q[i] = c PROVE FALSE
    OBVIOUS
  <2>1. pc[l] = "body" /\ i = 1
    BY <1>3 DEF QueueHas
  <2> QED BY <1>3, <2>1 DEF PlaceInv
<1>7. PlaceInv'
  <2>1. \A m \in Loop : functions_'[m] \in Seq(TasksOf(m))
    BY <1>1, <1>5 DEF PlaceInv
  <2>2. \A i, j \in 1..(Len(q) + 1) : functions_'[l][i] = functions_'[l][j] => i = j
    <3>1. \A i, j \in 1..Len(q) : q[i] = q[j] => i = j
      BY DEF PlaceInv
    <3>2. /\ Len(q) \in Nat /\ functions_'[l][Len(q) + 1] = c
          /\ \A i \in 1..Len(q) : functions_'[l][i] = q[i] /\ q[i] # c
      BY <1>5, <1>6
    <3> HIDE DEF q
    <3> QED BY ONLY <3>1, <3>2
  <2>3. \A m \in Loop : \A i, j \in 1..Len(functions_'[m]) :
          functions_'[m][i] = functions_'[m][j] => i = j
    <3> TAKE m \in Loop
    <3>1. CASE m = l
      BY <1>5, <2>2, <3>1
    <3>2. CASE m # l
      BY <1>1, <3>2 DEF PlaceInv
    <3> QED BY <3>1, <3>2
  <2>4. ASSUME NEW m \in Loop, pc'[m] = "body"
        PROVE  ran'[functions_'[m][1]] # 0
    <3>1. 1 \in 1..Len(functions_[m])
      BY <1>1, <2>4, FrontIsTask DEF IInv, TokenInv
    <3>2. functions_'[m][1] = functions_[m][1]
      BY <1>1, <1>5, <3>1
    <3> QED BY <1>1, <2>4, <3>2 DEF PlaceInv
  <2>5. /\ \A m \in Loop : pending'[m] \subseteq CallsOf(m)
        /\ \A u \in Thread : \A d \in todo'[u] : Home(d) = u
        /\ \A u \in Thread : stage'[u] # "none" => Home(call'[u]) = u
    BY <1>1 DEF PlaceInv
  <2> HIDE DEF q
  <2> QED BY <2>1, <2>3, <2>4, <2>5 DEF PlaceInv
<1>8. \A d \in Task : /\ HandlerHas(d)' <=> HandlerHas(d)
                      /\ CodeHas(d)' <=> CodeHas(d)
                      /\ CallHas(d)' => CallHas(d)
  BY <1>1, HomeType DEF HandlerHas, CodeHas, CallHas
<1>9. ASSUME NEW d \in Task \ {c} PROVE QueueHas(d)' => QueueHas(d)
  <2> SUFFICES ASSUME QueueHas(d)' PROVE QueueHas(d)
    OBVIOUS
  <2>1. CASE Target[d] = l
    <3>1. PICK i \in 1..Len(functions_'[l]) :
            functions_'[l][i] = d /\ (pc[l] = "body" => i # 1)
      BY <1>1, <2>1 DEF QueueHas
    <3>2. i \in 1..Len(q) /\ q[i] = d
      BY <1>5, <3>1
    <3> QED BY <2>1, <3>1, <3>2 DEF QueueHas
  <2>2. CASE Target[d] # l
    BY <1>1, <2>2, HomeType DEF QueueHas
  <2> QED BY <2>1, <2>2
<1>10. ~Nowhere(c) /\ OnePlace(c)'
  BY <1>2, <1>3, <1>8 DEF Nowhere, OnePlace
<1> QED BY <1>1, <1>7, <1>8, <1>9, <1>10, MoveOnce DEF Stays

LEMMA HandleEventOnce ==
  ASSUME IInv, PlaceInv, OnceInv, NEW l \in Loop, NEW c \in Task, HandleEvent(l, c)
  PROVE  PlaceInv' /\ OnceInv'
<1>1. /\ c \in pending[l] /\ Origin[c] = l /\ Home(c) = l
      /\ pending'[l] = pending[l] \ {c}
      /\ \A m \in Loop \ {l} : pending'[m] = pending[m]
      /\ todo'[l] = {c} /\ \A t \in Thread \ {l} : todo'[t] = todo[t]
      /\ UNCHANGED <<pc, functions_, stage, call, ran>>
  BY TasksAssumption DEF HandleEvent, IInv, TypeOK, PlaceInv, CallsOf, Home, Thread
<1>2. PlaceInv'
  <2>1. \A m \in Loop : pending'[m] \subseteq CallsOf(m)
    BY <1>1 DEF PlaceInv
  <2>2. \A t \in Thread : \A d \in todo'[t] : Home(d) = t
    BY <1>1 DEF PlaceInv
  <2> QED BY <1>1, <2>1, <2>2 DEF PlaceInv
<1>3. \A d \in Task : /\ CallHas(d)' <=> CallHas(d)
                      /\ QueueHas(d)' <=> QueueHas(d)
  BY <1>1 DEF CallHas, QueueHas
<1>4. HandlerHas(c) /\ ~HandlerHas(c)'
  BY <1>1 DEF HandlerHas
<1>5. ~CallHas(c) /\ ~QueueHas(c)
  BY <1>4 DEF OnceInv, OnePlace
<1>6. \A d \in Task \ {c} : HandlerHas(d)' => HandlerHas(d)
  BY <1>1 DEF HandlerHas
<1>7. \A d \in Task \ {c} : CodeHas(d)' => CodeHas(d)
  BY <1>1, HomeType DEF CodeHas
<1>8. ~Nowhere(c) /\ OnePlace(c)'
  BY <1>3, <1>4, <1>5 DEF Nowhere, OnePlace
<1> QED BY <1>1, <1>2, <1>3, <1>6, <1>7, <1>8, MoveOnce DEF Stays

LEMMA RunFrontOnce ==
  ASSUME IInv, PlaceInv, OnceInv, NEW l \in Loop, RunFront(l),
         NEW c \in Task, c = Head(functions_[l])
  PROVE  PlaceInv' /\ OnceInv'
<1>1. /\ pc[l] = "run" /\ pc'[l] = "body" /\ functions_[l] # <<>>
      /\ \A m \in Loop \ {l} : pc'[m] = pc[m]
      /\ ran' = [ran EXCEPT ![c] = @ + 1]
      /\ todo'[l] = CallsOf(c) /\ \A t \in Thread \ {l} : todo'[t] = todo[t]
      /\ UNCHANGED <<functions_, pending, stage, call>>
  BY DEF RunFront, IInv, TypeOK, Thread
<1>2. /\ 1 \in 1..Len(functions_[l]) /\ functions_[l][1] = c /\ Target[c] = l
      /\ \A i \in 1..Len(functions_[l]) : functions_[l][i] = c => i = 1
  <2>1. 1 \in 1..Len(functions_[l]) /\ functions_[l][1] = c
    BY <1>1, FrontIsTask
  <2>2. c \in TasksOf(l)
    BY <2>1 DEF PlaceInv
  <2> QED BY <2>1, <2>2 DEF PlaceInv, TasksOf
<1>3. QueueHas(c) /\ ~QueueHas(c)'
  BY <1>1, <1>2 DEF QueueHas
<1>4. Released(c) /\ ran[c] = 0
  BY <1>3 DEF OnceInv, Nowhere
<1>5. Origin[c] # c
  BY <1>4 DEF Released
<1>6. ran'[c] = 1 /\ \A d \in Task \ {c} : ran'[d] = ran[d]
  BY <1>1, <1>4 DEF IInv, TypeOK
<1>7. \A d \in CallsOf(c) : d \in Task /\ Origin[d] = c /\ Home(d) = l
  BY <1>2 DEF CallsOf, Home
<1>8. PlaceInv'
  <2>1. \A t \in Thread : \A d \in todo'[t] : Home(d) = t
    BY <1>1, <1>7 DEF PlaceInv
  <2>2. ASSUME NEW m \in Loop, pc'[m] = "body" PROVE ran'[functions_'[m][1]] # 0
    <3>1. CASE m = l
      BY <1>1, <1>2, <1>6, <3>1
    <3>2. CASE m # l
      <4>1. functions_[m][1] \in Task /\ ran[functions_[m][1]] # 0
        BY <1>1, <2>2, <3>2, FrontIsTask DEF IInv, TokenInv, PlaceInv
      <4> QED BY <1>1, <1>6, <4>1
    <3> QED BY <3>1, <3>2
  <2> QED BY <1>1, <2>1, <2>2 DEF PlaceInv
<1>9. \A d \in Task : /\ HandlerHas(d)' <=> HandlerHas(d)
                      /\ CallHas(d)' <=> CallHas(d)
                      /\ QueueHas(d)' => QueueHas(d)
  BY <1>1, HomeType DEF HandlerHas, CallHas, QueueHas
<1>10. ~CodeHas(c)'
  <2>1. ~CodeHas(c)
    BY <1>3 DEF OnceInv, OnePlace
  <2>2. c \notin CallsOf(c)
    BY <1>5 DEF CallsOf
  <2> QED BY <1>1, <2>1, <2>2, HomeType DEF CodeHas
<1>11. ~Nowhere(c) /\ Nowhere(c)'
  BY <1>3, <1>9, <1>10 DEF Nowhere, OnceInv, OnePlace
<1>12. ASSUME NEW d \in Task \ {c}
       PROVE  Stays(d) \/ (Origin[d] = c /\ OnePlace(d)')
  <2>1. CASE Origin[d] = c
    <3>1. Nowhere(d)
      BY <1>4, <2>1 DEF OnceInv, Released
    <3> QED BY <1>9, <2>1, <3>1 DEF OnePlace, Nowhere
  <2>2. CASE Origin[d] # c
    <3>1. CodeHas(d)' => CodeHas(d)
      BY <1>1, <1>7, <2>2, HomeType DEF CodeHas
    <3> QED BY <1>9, <3>1 DEF Stays
  <2> QED BY <2>1, <2>2
<1> QED BY <1>1, <1>8, <1>11, <1>12, RunOnce

LEMMA PopFrontOnce ==
  ASSUME IInv, PlaceInv, OnceInv, NEW l \in Loop, PopFront(l)
  PROVE  PlaceInv' /\ OnceInv'
<1> DEFINE q == functions_[l]
<1>1. /\ pc[l] = "body" /\ pc'[l] = "run" /\ q # <<>>
      /\ functions_'[l] = Tail(q)
      /\ \A m \in Loop \ {l} : pc'[m] = pc[m] /\ functions_'[m] = functions_[m]
      /\ UNCHANGED <<pending, todo, stage, call, ran>>
  BY DEF PopFront, IInv, TypeOK, TokenInv
<1>2. q \in Seq(TasksOf(l))
  BY DEF PlaceInv
<1>3. /\ Len(q) \in Nat /\ Len(q) > 0 /\ Len(functions_'[l]) = Len(q) - 1
      /\ functions_'[l] \in Seq(TasksOf(l))
      /\ \A i \in 1..(Len(q) - 1) : functions_'[l][i] = q[i + 1]
  BY <1>1, <1>2
<1>4. \A i, j \in 1..Len(q) : q[i] = q[j] => i = j
  BY DEF PlaceInv
<1>5. PlaceInv'
  <2>1. \A m \in Loop : functions_'[m] \in Seq(TasksOf(m))
    BY <1>1, <1>3 DEF PlaceInv
  <2>2. ASSUME NEW i \in 1..(Len(q) - 1), NEW j \in 1..(Len(q) - 1),
               functions_'[l][i] = functions_'[l][j]
        PROVE  i = j
    <3>1. i + 1 \in 1..Len(q) /\ j + 1 \in 1..Len(q) /\ q[i + 1] = q[j + 1]
      BY <1>3, <2>2
    <3>2. i + 1 = j + 1
      BY <1>4, <3>1
    <3> QED BY <3>2
  <2>3. \A m \in Loop : \A i, j \in 1..Len(functions_'[m]) :
          functions_'[m][i] = functions_'[m][j] => i = j
    <3> TAKE m \in Loop
    <3>1. CASE m = l
      <4>1. Len(functions_'[m]) = Len(q) - 1
        BY <1>3, <3>1
      <4> HIDE DEF q
      <4> QED BY ONLY <2>2, <3>1, <4>1
    <3>2. CASE m # l
      BY <1>1, <3>2 DEF PlaceInv
    <3> QED BY <3>1, <3>2
  <2> HIDE DEF q
  <2>4. \A m \in Loop : pc'[m] = "body" => ran'[functions_'[m][1]] # 0
    BY <1>1 DEF PlaceInv
  <2>5. /\ \A m \in Loop : pending'[m] \subseteq CallsOf(m)
        /\ \A u \in Thread : \A d \in todo'[u] : Home(d) = u
        /\ \A u \in Thread : stage'[u] # "none" => Home(call'[u]) = u
    BY <1>1 DEF PlaceInv
  <2> QED BY <2>1, <2>3, <2>4, <2>5 DEF PlaceInv
<1>6. ASSUME NEW d \in Task PROVE Stays(d)
  <2>1. /\ HandlerHas(d)' <=> HandlerHas(d)
        /\ CodeHas(d)' <=> CodeHas(d)
        /\ CallHas(d)' <=> CallHas(d)
    BY <1>1 DEF HandlerHas, CodeHas, CallHas
  <2>2. ASSUME QueueHas(d)' PROVE QueueHas(d)
    <3>1. CASE Target[d] = l
      <4>1. PICK i \in 1..Len(functions_'[l]) : functions_'[l][i] = d
        BY <2>2, <3>1 DEF QueueHas
      <4>2. i + 1 \in 1..Len(q) /\ q[i + 1] = d /\ i + 1 # 1
        BY <1>3, <4>1
      <4> QED BY <3>1, <4>2 DEF QueueHas
    <3>2. CASE Target[d] # l
      BY <1>1, <2>2, <3>2, HomeType DEF QueueHas
    <3> QED BY <3>1, <3>2
  <2> QED BY <2>1, <2>2 DEF Stays
<1> QED BY <1>1, <1>5, <1>6, MoveOnce

LEMMA NextOnceInv ==
  ASSUME IInv, PlaceInv, OnceInv, [Next]_vars
  PROVE  PlaceInv' /\ OnceInv'
<1>1. ASSUME NEW t \in Thread, RunInLoop(t)
      PROVE  PlaceInv' /\ OnceInv'
  <2>1. CASE \E c \in Task : CallInline(t, c) \/ CallFromOutside(t, c)
    BY <2>1, CallInlineOnce, CallFromOutsideOnce
  <2>2. CASE Push(t)
    <3>1. call[t] \in Task
      BY <2>2 DEF Push, IInv, CallInv
    <3> QED BY <2>2, <3>1, HomeType, PushOnce
  <2>3. CASE OpenPipe(t) \/ WriteToken(t)
    <3>1. UNCHANGED <<functions_, pending, todo, ran, pc>>
      BY <2>3 DEF OpenPipe, WriteToken
    <3>2. \A u \in Thread :
            \/ stage'[u] = stage[u] /\ call'[u] = call[u]
            \/ stage'[u] = "none"
            \/ stage[u] = "open" /\ stage'[u] = "write" /\ call'[u] = call[u]
      BY <2>3 DEF OpenPipe, WriteToken, IInv, TypeOK
    <3> QED BY <3>1, <3>2, QuietOnce
  <2> QED BY <1>1, <2>1, <2>2, <2>3 DEF RunInLoop
<1>2. ASSUME NEW l \in Loop, Round(l)
      PROVE  PlaceInv' /\ OnceInv'
  <2>1. CASE \E c \in Task : HandleEvent(l, c)
    BY <2>1, HandleEventOnce
  <2>2. CASE RunFront(l)
    <3>1. Head(functions_[l]) \in Task
      BY <2>2, FrontIsTask DEF RunFront
    <3> QED BY <2>2, <3>1, RunFrontOnce
  <2>3. CASE PopFront(l)
    BY <2>3, PopFrontOnce
  <2>4. CASE Poll(l) \/ FinishDispatch(l) \/ LockFunctions(l) \/ FinishFunctions(l)
    <3>1. UNCHANGED <<functions_, pending, todo, ran, stage, call>>
      BY <2>4 DEF Poll, FinishDispatch, LockFunctions, FinishFunctions
    <3>2. \A m \in Loop : pc'[m] = "body" <=> pc[m] = "body"
      BY <2>4 DEF Poll, FinishDispatch, LockFunctions, FinishFunctions, IInv, TypeOK
    <3> QED BY <3>1, <3>2, QuietOnce
  <2> QED BY <1>2, <2>1, <2>2, <2>3, <2>4 DEF Round
<1>3. CASE UNCHANGED vars
  <2>1. UNCHANGED <<functions_, pending, todo, ran, stage, call, pc>>
    BY <1>3 DEF vars
  <2> QED BY <2>1, QuietOnce
<1> QED BY <1>1, <1>2, <1>3 DEF Next

\* No task runs twice, however its posting, its queueing by another thread and
\* the round of its loop interleave (runInLoop, runFunctions).
THEOREM TasksRunAtMostOnce == Spec => []RunsAtMostOnce
<1>1. IInv /\ PlaceInv /\ OnceInv /\ [Next]_vars => (PlaceInv /\ OnceInv)'
  BY NextOnceInv
<1>2. OnceInv => RunsAtMostOnce
  BY DEF OnceInv, RunsAtMostOnce
<1> QED BY InductiveInvariant, InitOnceInv, <1>1, <1>2, PTL DEF Spec

=============================================================================
