----------------------------- MODULE DnsService -----------------------------
(***************************************************************************)
(* The DNS service of network/DndService.cpp: a table from hosts to their  *)
(* addresses, a thread that looks all hosts up again and again, and        *)
(* callers in any thread that add hosts, set addresses, start and stop the *)
(* service.  The list of addresses of a host is modelled by the version of *)
(* the host's record it was read from, 0 for the empty list.               *)
(* Names that EventLoopThread has too, next to which ThreadProofs proves   *)
(* the theorems, begin with Dns or dns.                                    *)
(***************************************************************************)
EXTENDS Integers

CONSTANTS
    Host, Caller,
    NoHost,       \* a worker between two hosts
    Answers,      \* hosts whose name can be resolved
    Retry,        \* retry_
    MaxStarts,    \* threads the service ever starts
    MaxVersion    \* how often a record changes

ASSUME HostsAssumption == Answers \subseteq Host /\ NoHost \notin Host

\* With retry_ of 0 or less no host would ever be looked up.
ASSUME BoundsAssumption ==
    Retry \in Nat \ {0} /\ MaxStarts \in Nat \ {0} /\ MaxVersion \in Nat \ {0}

Worker == 1 .. MaxStarts

VARIABLES
    host_infos_,  \* the table, a function on the hosts added
    serving,      \* running_, read and written without the mutex
    thread_,      \* the worker thread_ stands for, 0 if it is not joinable
    started,      \* workers started so far
    call,         \* where each caller is in start or stop
    worker,       \* where each worker is
    todo,         \* of each worker: hosts of its copy of the table still to do
    host,         \* of each worker: the host it looks up
    tries,        \* of each worker: i of the inner loop
    addrs,        \* of each worker: what getHostInfo returned
    record,       \* the current version of each host's record
    terminated,   \* the process has been ended by std::terminate
    meddled       \* ghost: hosts whose addresses a caller has set

callVars   == <<serving, thread_, started, call, terminated>>
workerVars == <<worker, todo, host, tries, addrs>>
hostVars   == <<host_infos_, meddled>>
dnsVars == <<callVars, workerVars, hostVars, record>>

DnsInit ==
    /\ host_infos_ = [h \in {} |-> 0]
    /\ serving = FALSE /\ thread_ = 0 /\ started = 0
    /\ call = [c \in Caller |-> "none"]
    /\ worker = [w \in Worker |-> "unborn"]
    /\ todo = [w \in Worker |-> {}]
    /\ host = [w \in Worker |-> NoHost]
    /\ tries = [w \in Worker |-> 0]
    /\ addrs = [w \in Worker |-> 0]
    /\ record = [h \in Host |-> 1]
    /\ terminated = FALSE /\ meddled = {}

-----------------------------------------------------------------------------
(* The table; each operation holds the mutex throughout *)

Known == DOMAIN host_infos_

Put(h, v) == [k \in Known \cup {h} |-> IF k = h THEN v ELSE host_infos_[k]]

\* Mutant: addHost does not look whether the host is there.
AddHostAnew(h) ==
    /\ host_infos_' = Put(h, 0)
    /\ UNCHANGED <<callVars, workerVars, record, meddled>>

AddHost(h) ==
    /\ h \notin Known
    /\ host_infos_' = Put(h, 0)
    /\ UNCHANGED <<callVars, workerVars, record, meddled>>

\* updateHostAddress called from outside: any list, of any age, or empty.
UpdateHostAddress(h) ==
    /\ \E v \in 0 .. record[h] : host_infos_' = Put(h, v)
    /\ meddled' = meddled \cup {h}
    /\ UNCHANGED <<callVars, workerVars, record>>

-----------------------------------------------------------------------------
(* start and stop *)

Goes(c, from, to) == call[c] = from /\ call' = [call EXCEPT ![c] = to]

DnsStart(c) ==
    /\ ~serving /\ started < MaxStarts
    /\ Goes(c, "none", "set")
    /\ UNCHANGED <<serving, thread_, started, terminated, workerVars, hostVars, record>>

StartSet(c) ==
    /\ Goes(c, "set", "create") /\ serving' = TRUE
    /\ UNCHANGED <<thread_, started, terminated, workerVars, hostVars, record>>

\* The new thread runs from its construction on.  Assigning it to a thread_
\* that is still joinable ends the process.
StartThread(c) ==
    /\ Goes(c, "create", "none") /\ started < MaxStarts
    /\ started' = started + 1
    /\ worker' = [worker EXCEPT ![started'] = "test"]
    /\ IF thread_ = 0 THEN thread_' = started' /\ UNCHANGED terminated
                      ELSE terminated' = TRUE /\ UNCHANGED thread_
    /\ UNCHANGED <<serving, todo, host, tries, addrs, hostVars, record>>

Stop(c) ==
    /\ serving /\ Goes(c, "none", "clear")
    /\ UNCHANGED <<serving, thread_, started, terminated, workerVars, hostVars, record>>

StopClear(c) ==
    /\ Goes(c, "clear", "join") /\ serving' = FALSE
    /\ UNCHANGED <<thread_, started, terminated, workerVars, hostVars, record>>

\* Mutant: stop does not wait for the thread.
StopAtOnce(c) ==
    /\ Goes(c, "join", "none")
    /\ UNCHANGED <<serving, thread_, started, terminated, workerVars, hostVars, record>>

StopJoin(c) ==
    /\ Goes(c, "join", "none")
    /\ thread_ # 0 => worker[thread_] = "ended"
    /\ thread_' = 0
    /\ UNCHANGED <<serving, started, terminated, workerVars, hostVars, record>>

-----------------------------------------------------------------------------
(* onWorker *)

At(w, from, to) == worker[w] = from /\ worker' = [worker EXCEPT ![w] = to]

\* Mutant: the worker does not look at running_.
CopyForEver(w) ==
    /\ At(w, "test", "next") /\ todo' = [todo EXCEPT ![w] = Known]
    /\ UNCHANGED <<host, tries, addrs, callVars, hostVars, record>>

\* The test of the loop, and getHostInfos when the service is to go on.
Copy(w) ==
    /\ IF serving THEN At(w, "test", "next") /\ todo' = [todo EXCEPT ![w] = Known]
                   ELSE At(w, "test", "ended") /\ UNCHANGED todo
    /\ UNCHANGED <<host, tries, addrs, callVars, hostVars, record>>

\* After the last host the worker sleeps for interval_ and comes back.
Sleep(w) ==
    /\ todo[w] = {} /\ At(w, "next", "test")
    /\ UNCHANGED <<todo, host, tries, addrs, callVars, hostVars, record>>

\* Mutant: only hosts without an address are looked up.
NextUnresolved(w) ==
    \E h \in todo[w] :
        /\ worker[w] = "next"
        /\ worker' = [worker EXCEPT ![w] = IF host_infos_[h] = 0 THEN "lookup" ELSE "next"]
        /\ host' = [host EXCEPT ![w] = IF host_infos_[h] = 0 THEN h ELSE NoHost]
        /\ todo' = [todo EXCEPT ![w] = @ \ {h}]
        /\ UNCHANGED <<tries, addrs, callVars, hostVars, record>>

\* The copy is an unordered map: its hosts come in any order.
NextHost(w) ==
    \E h \in todo[w] :
        /\ At(w, "next", "lookup")
        /\ host' = [host EXCEPT ![w] = h]
        /\ todo' = [todo EXCEPT ![w] = @ \ {h}]
        /\ UNCHANGED <<tries, addrs, callVars, hostVars, record>>

\* getHostInfo finds the addresses of the host as they are now.
LookupFinds(w) ==
    /\ host[w] \in Answers
    /\ At(w, "lookup", "update")
    /\ addrs' = [addrs EXCEPT ![w] = record[host[w]]]
    /\ UNCHANGED <<todo, host, tries, callVars, hostVars, record>>

\* The worker's variables for a host go out of scope.
EndHost(w) ==
    host' = [host EXCEPT ![w] = NoHost] /\ tries' = [tries EXCEPT ![w] = 0]

\* getHostInfo finds nothing; after retry_ attempts the host has to wait for
\* the next round.
LookupFails(w) ==
    /\ IF tries[w] + 1 < Retry
       THEN /\ At(w, "lookup", "lookup")
            /\ tries' = [tries EXCEPT ![w] = @ + 1]
            /\ UNCHANGED host
       ELSE At(w, "lookup", "next") /\ EndHost(w)
    /\ UNCHANGED <<todo, addrs, callVars, hostVars, record>>

\* updateHostAddress, with the list found a while ago.
Update(w) ==
    /\ At(w, "update", "next")
    /\ host_infos_' = Put(host[w], addrs[w])
    /\ EndHost(w) /\ addrs' = [addrs EXCEPT ![w] = 0]
    /\ UNCHANGED <<todo, meddled, callVars, record>>

WorkerStep(w) ==
    \/ Copy(w) \/ Sleep(w) \/ NextHost(w)
    \/ LookupFinds(w) \/ LookupFails(w) \/ Update(w)

-----------------------------------------------------------------------------
\* Whoever keeps the host's name server changes its addresses.
RecordChanges(h) ==
    /\ h \in Answers /\ record[h] < MaxVersion
    /\ record' = [record EXCEPT ![h] = @ + 1]
    /\ UNCHANGED <<callVars, workerVars, hostVars>>

CallStep(c) == StartSet(c) \/ StartThread(c) \/ StopClear(c) \/ StopJoin(c)

DnsNext ==
    /\ ~terminated
    /\ \/ \E w \in Worker : WorkerStep(w)
       \/ \E c \in Caller : CallStep(c) \/ DnsStart(c) \/ Stop(c)
       \/ \E h \in Host : AddHost(h) \/ UpdateHostAddress(h) \/ RecordChanges(h)

DnsSpec == DnsInit /\ [][DnsNext]_dnsVars

\* Threads go on when they can, and a lookup that is made again and again for a
\* name that exists succeeds at some time.  Nobody has to call the service.
DnsFairness ==
    /\ \A w \in Worker : WF_dnsVars(~terminated /\ WorkerStep(w))
    /\ \A c \in Caller : WF_dnsVars(~terminated /\ CallStep(c))
    /\ \A w \in Worker, h \in Answers :
          SF_dnsVars(~terminated /\ host[w] = h /\ LookupFinds(w))

DnsFairSpec == DnsSpec /\ DnsFairness

-----------------------------------------------------------------------------
Alive == {w \in Worker : worker[w] \notin {"unborn", "ended"}}

DnsTypeOK ==
    /\ Known \subseteq Host /\ \A h \in Known : host_infos_[h] \in 0 .. MaxVersion
    /\ {serving, terminated} \subseteq BOOLEAN
    /\ thread_ \in 0 .. MaxStarts /\ started \in 0 .. MaxStarts
    /\ call \in [Caller -> {"none", "set", "create", "clear", "join"}]
    /\ worker \in [Worker -> {"unborn", "test", "next", "lookup", "update", "ended"}]
    /\ todo \in [Worker -> SUBSET Host] /\ host \in [Worker -> Host \cup {NoHost}]
    /\ tries \in [Worker -> 0 .. Retry - 1] /\ addrs \in [Worker -> 0 .. MaxVersion]
    /\ record \in [Host -> 1 .. MaxVersion] /\ meddled \subseteq Host

\* As long as one thread calls start and stop, one thread at most looks hosts
\* up, also when the service is stopped and started while the last worker is
\* in the middle of a round, and start never ends the process.
OneWorker ==
    ~terminated /\ \A v, w \in Alive : v = w

\* The table never takes a step back: a host that has been added stays, one
\* that has addresses keeps some through lookups that fail, and addresses are
\* not replaced by older ones.  Only callers of updateHostAddress may do that.
TableMovesForward ==
    [][\A h \in Known :
          \/ h \in meddled'
          \/ h \in DOMAIN host_infos_' /\ host_infos_'[h] >= host_infos_[h]]_dnsVars

\* A caller of stop gets back, whatever the worker was doing.
StopEnds ==
    \A c \in Caller : (call[c] = "join") ~> (call[c] = "none")

\* If the service runs for good, each host added that can be resolved has its
\* current addresses in the end, although other hosts never resolve and
\* hosts are added and records change in the middle of a round.
FollowsRecord ==
    \A h \in Answers :
       <>[](serving /\ h \in Known /\ h \notin meddled)
          => <>[](h \in Known /\ host_infos_[h] = record[h])

\* Not true of the code, see README: start and stop in several threads.
NeverTerminated == ~terminated

=============================================================================
