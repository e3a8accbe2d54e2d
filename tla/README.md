# Verification of TurboMultimediaServer

TurboMultimediaServer is a C++ media server in the making: a small network
library in the style of one event loop per thread (`src/src/network`), a base
library with logging (`src/src/base`), and the RTMP handshake
(`src/src/mmedia`). This directory holds TLA+ models of its core, the TLC runs
that check them, and proofs that TLAPS checks. Paths below are relative to
`src/src/`.

1. [The system](#1-the-system)
2. [Conventions](#2-conventions)
3. [Modules](#3-modules)
4. [Runs](#4-runs)
5. [Fairness](#5-fairness)
6. [Proofs](#6-proofs)
7. [Known defects](#7-known-defects)
8. [What is not modelled](#8-what-is-not-modelled)
9. [Plan](#9-plan)

## 1. The system

An application starts one or more threads, each with an `EventLoop`. A loop
waits in `epoll_wait`, calls the handler of each ready descriptor, then runs the
tasks other threads posted to it, then turns its timing wheel. Sockets, timers
and protocol code hang off a loop and are meant to be touched by its thread
only; other threads reach them by posting tasks. The hard part of the code is
what runs *inside* what: a callback of the application runs inside the handler
of a socket, may send or close, and the handler goes on afterwards with whatever
state that left.

| Component | State | Operations | Talks to | Hard because | Correct when |
|---|---|---|---|---|---|
| `EventLoop`, `PipeEvent` | `functions_`, `func_mtx_`, wake-up pipe, `events_`, `timing_wheel_` | `runInLoop`, `weakup`, `loop`, `runFunctions`, `addEvent`, `removeEvent`, `enableEventWriting` | every other component | several threads; a mutex held while tasks run and while the pipe is written | no wake-up is lost, nobody waits in a circle, each task runs once and in the end |
| `TimingWheel` | four wheels of slots of `shared_ptr`s, `tick_`, `last_ts_` | `insertEntry`, `onTimer`, `runAfter`, `runEvery` | `EventLoop::loop`, idle guards of connections | a callback is a destructor; an entry may be in many slots at once; boundaries between wheels | a timer runs once, not early, not late, never lost |
| `MsgBuffer` | a vector and two indices | append, retrieve, prepend, unwrite, `readFd`, `shrink` | `TcpConnection`, protocol code | room is made in three ways; unsigned index arithmetic | it is a byte queue, and does not grow without need |
| `TcpConnection` | `io_vec_list_`, `closed_`, interest in EPOLLOUT | `send` of a buffer or a list, `sendInLoop`, `onWrite`, `onRead`, `onClose` | loop, application callbacks | callbacks nest; partial and failed writes; sends from other threads | bytes keep their order, none is stranded or lost, completion is true |
| `TcpServer`, `Acceptor`, `Event` | `connections_`, listening descriptor, `events_` by descriptor | `start`, `stop`, `onAccept`, `onConnectionClose`, `Acceptor::onRead`, `onClose` | loop, kernel, application | descriptors are reused; objects die when the last `shared_ptr` does | table, kernel and objects agree; nobody is forgotten |
| `TcpClient` | `status_` of the attempt, and what `TcpConnection` has | `connectInLoop`, `onRead`, `onWrite`, `onClose`, `send` | loop, network | one handler serves attempt and connection; closed clients stay in the table | an attempt ends, and its callback tells the truth |
| `UdpSocket`, `UdpClient` | `buffer_list_`, `connected_`, `closed_` | `send`, `sendInLoop`, `onWrite`, `onRead`, `onClose`, `connect` | loop, callbacks | as TCP; empty datagrams; connecting anew | order, one copy of each, completion, descriptor follows the table |
| `UdpServer` | bound socket | `start`, `stop` | loop | restart; `stop` leaves its entry in `events_` | a stopped server gives its descriptor back |
| `RtmpHandShake` | `state_`, `C2S2_`, `is_complex_handshake_` | `start`, `handshake`, `writeComplete` | `TcpConnection` callbacks | write-complete may run inside send or later; packets may arrive early | packets in order, done means exchanged, it ends |
| `FileLogMgr`, `FileLog` | `logs_`, last time seen, a descriptor for each log | `getFileLog`, `removeFileLog`, `onCheck`, `rotate`, `writeLog`, `setRotateType` | file system, writers in all threads | rename, open and dup2 are three steps; any may fail; crashes | no written line is lost, a rotated file is final, unless its name mixes two months or the clock shows its date again |
| `EventLoopThread(Pool)` | thread, condition variable, promise, `running_`, `loop_` | `start`, `run`, `getLoop`, `getNextLoop`, destructors, `EventLoop::quit` | `EventLoop`, kernel | the loop is an object on another thread's stack; `quit` and the destructor close the same number | a pointer to a loop is good, its epoll its own, joins end |
| `DnsService` | `host_infos_`, worker thread, `running_` | `addHost`, `updateHostAddress`, `start`, `stop`, `onWorker` | resolver, callers in any thread | the worker acts on copies; `running_` is read and written without a lock | one worker, the table moves forward, stop returns, hosts get their addresses |
| `Connection` | contexts, `active_` | `active`, `deactive` | loop | read and post are two steps | one callback for one activation |
| `Packet`, `InetAddress`, `SocketOpt`, `StringUtils`, `Logger`, `TTime`, `Singleton` | plain data or none | conversions, wrappers of system calls | — | — | — |

`PROJECT.json` lists the same components with the modules that model them, and
under `hazards` every place where a mistake would hardly be caught by a test.

## 2. Conventions

* A definition has the name of the function or the member it models where TLA+
  allows it: `io_vec_list_`, `OnWrite`, `sendInLoop` as `SendInLoop`. Variables
  marked *ghost* record what happened for the properties and decide nothing.
* One action is what one thread does without another being able to interfere:
  a handler up to the point where it calls out to the application, or up to a
  mutex or a system call another thread can see. Where the application is
  called, the handler's remainder waits on a stack (`callbacks` in
  `TcpConnection`, `calls` in `TcpServer`, `TcpClient`, `UdpSocket` and
  `RtmpHandshake`) and
  the application may do anything it may do there: send, close, or nothing.
* Each mutated definition (*Mutant:* in its comment) stands before the
  definition it would replace. It is not used by the specification; it shows,
  for each property, a plausible bug that the property detects.
* Some properties do not hold for ever but until the code has met one of its
  defects. The model then has a ghost that says so (`refused`, `crossed`,
  `startedTwice`, `spoilt`, `nested`, `lost`, `touched`, `misdated`), the property has it as a premise, and
  a configuration of section 7 shows what happens without the premise.
* `MC<Module>.tla` gives the constants of `<Module>` small values; the `.cfg`
  files choose among them.

## 3. Modules

### Timers and TimingWheel

`TimingWheel` models `network/net/TimingWheel.{h,cpp}` with the calls that feed
it. `wheels_` maps each wheel and slot to the set of entries it holds; an entry
whose last slot is popped is dead and its callback has run, since the callback
is the destructor of `CallbackEntry`. The same entry can be in several slots:
that is how `TcpConnection::extendLife` works, which inserts the idle entry once
more for every read. `RunAfter`, `RunEvery`, `EnableCheckIdleTime` and
`ExtendLife` insert; `Elapse` lets the clock go on; `OnTimer` is the call at the
end of each round, `FirstReading` its first one and `Tick` one in which a second
has gone by. `kind` says what the code armed the entry as, the ghost `asked`
what the caller wanted (they differ for `EventLoop::runEvery` called in the
loop's thread, see section 7), `left` counts down to the tick on which the
callback is due.

`Timers` is the abstract specification: a table of countdowns and a `Tick` that
runs those whose time is up, and, for delays of `Minute` or more, perhaps some
that are early: that is all the code makes of long delays (section 7).
`TimingWheel!ImplementsTimers` states that the wheel implements it under the
mapping `kind <- asked, Minute <- kTimingMinute`: below a minute every timer is
exact, above it none is lost or late.

Correspondence of the properties: `NeverEarly`, `NeverLate` and `NoEntryLost`
(armed iff held by a slot) together say that a wheel of sets of shared pointers
behaves as a table of deadlines.

### EventLoop

Several loops and other threads (`Poster`). A task is one call of `runInLoop`
with an `Origin` (a poster, a handler of a loop, the body of another task) and a
`Target` loop. `RunInLoop(t)` goes through `CallInline` (own thread: run at
once) or `CallFromOutside`, `Push` (lock, append), `OpenPipe` (the first
`weakup` creates the pipe and registers it in the *calling* thread) and
`WriteToken` (which blocks while the pipe is full, the mutex held). `Round(l)`
is the body of `loop`: `Poll` reads at most one token, `HandleEvent` makes a
call from a handler, `FinishDispatch`, then `runFunctions` as `LockFunctions`,
`RunFront`, `PopFront`, `FinishFunctions`. The code keeps `func_mtx_` for all of
`runFunctions`, so the model does.

`NoCircularWait` is deadlock-freedom stated on the wait-for graph: no non-empty
set of threads in which everyone waits for a member. It is stronger than the
absence of a global deadlock: two loops may block one another while a third runs.

### EventLoopThread

The threads of an `EventLoopThreadPool`, its owner, and the kernel's table of
descriptors. A thread goes through `startLoop`: `Create` is `EventLoop`'s
constructor, `Wait` the condition variable, `Publish` and `SetPromise` make the
loop known, `EnterLoop` is the first statement of `loop`, `Test`, `Poll` and
`Round` its rounds, `Leave` the end of `startLoop` and `Destroy` `~EventLoop`.
The owner constructs the pool, starts it (`RunSet`, `RunNotify`, `RunGet` are the
three steps of `run`), asks for loops in turn (`GetNextLoop`), gives one a task
that calls `quit` (`AskToQuit`) and destroys the pool (`Check`, `QuitStop`,
`QuitClose`, `Join`). The rest of the program opens and closes descriptors
meanwhile, so that a number that is closed twice may hit somebody else. Three
ghosts keep what has happened: `lost`, a loop was told to quit
before it had set `looping_`; `touched`, `quit` has used a loop after its
destructor; `left`, a task has told a loop to quit. `GetLoopIsTrue` relates the
unlocked pointer `loop_` to the life of the object it points to.

### ByteQueue and MsgBuffer

`MsgBuffer` holds the vector byte by byte together with `readerIndex_` and
`writerIndex_`. Pure operators (`append`, `retrieve`, `makeSpace`, `readFd`, ...)
model the methods; each action applies one, under the guard its assertions ask
for. `readFd` includes the spill into `extrabuf`. `ReadInt` takes its guard from
the constant `Requirement`, what the caller makes sure of, so that the comment
of `readInt64` can be compared with its assertion. `ByteQueue` is the abstract
specification, and the content of the buffer, `SubSeq(buffer_, reader + 1,
writer)`, the refinement mapping. The searches for CRLF change nothing and are
left out.

### OrderedChannel

What a sending socket promises: what it accepted goes out in that order, nothing
twice and nothing left out, nothing once it cannot send, and completion is
confirmed when all of it is out. A flag `broken` ends the promise; it may not be
taken back. `TcpConnection` and `UdpSocket` implement it.

### TcpConnection

The sending half of a connection. `io_vec_list_` is flattened to the bytes it
points to. `Send` is `send` in the loop's thread, from a handler or a callback;
`PostSend` and `RunPosted` the two halves of `send` from another thread;
`OnWrite` one call of `onWrite`; `OnRead` stands for the fact that `loop` looks
at EPOLLIN first and calls `onWrite` only when nothing is readable. `OnClose`
runs up to `close_cb_`, which takes the connection out of the loop; `Return`
ends a callback and does what its caller does afterwards.

`WriteResults` are the values `::write` can return: a part, all, or -1, which
the code stores in a `size_t`. `Rest` does the arithmetic that follows modulo
`SizeMax + 1`, so that the code's behaviour after a failed write is in the
model: one byte too many is queued, from one before the buffer (position 0 of
a call). The ghost `refused` records that the kernel has refused bytes. Some
properties hold always (`PendingIsWatched`, `WireInOrder`, `NothingAfterClose`
and the first half of `SentOrClosed`, that what waits is drained), others,
because of that defect, until then (`NothingLost`, `CompletionInTime` and the
second half of `SentOrClosed`, that each send is written). `ImplementsChannel`
puts the safety of sending in one formula: the connection is an `OrderedChannel`
that is `broken` from the first refusal on, and `able` while its socket is open.

### RtmpHandshake

Both roles of `mmedia/rtmp/RtmpHandshake.cpp` on top of a connection, driven by
callbacks as `mmedia/tests/RtmpServer.cpp` does. A packet is its maker, its kind
and what the receiver finds when it checks it (`holds`); its bytes are a few
positions, so that a packet may arrive and be written in parts. `SendPacket` has
the three outcomes of `TcpConnection::sendInLoop`: queued behind others, written
whole (`writeComplete` runs inside it), or written in part. `Handshake` has one
disjunct for each case of the switch, and `HandshakeNothing` for the returns that change
nothing. The other end runs the same code or is another implementation that
follows the protocol (`OtherReads`, `OtherSends`); `Setups` lists which. The
digests are modelled by whose key made them, not by their bytes.

### TcpServer

The connections of one loop from `accept` to the destructor, with what must
agree: the loop's `events_`, from descriptors to events, and the kernel's `open`,
from descriptors to their owners, and `watched`, those that epoll watches
(`addEvent` does nothing when it finds an entry). The kernel gives out the lowest
free descriptor, so that closed descriptors are reused at once. `Poll` collects a
batch as `epoll_wait` does, an error of the listening socket at any time included;
`Dispatch` looks each descriptor up again in `events_` at the time of handling,
as `loop` does. `Accept` is one round of `Acceptor::onRead` up to
`new_connection_cb_`, which runs on top of it (`"accepted"` on the stack of
calls); `AcceptDone` is its end when `accept` says EAGAIN, `ReopenAcceptor` when it
says anything else, at any time: `onClose` then stops the acceptor and opens it
anew (`OpenAcceptor`), with the lowest number that other threads leave.
In every callback, that of a new connection included, `CallbackCloses` closes the
callback's own or another connection, and `Stop` and `Start`, if `Restarts`, stop
the server and start it; both may also be tasks. `LoopCloses` is the idle time or a
posted `forceClose`; `Return` ends a callback, drops the reference the call held,
destroys the connection if it was the last and goes on with what the caller does.
`Stop` takes the acceptor out of the loop and leaves its socket listening, and
`onRead`, if it is running, goes on accepting; `Start` closes that socket, which
turns away who waited, and opens another.

The ghost `touched` collects connections used after their destruction,
`misdelivered` notes an event handled by another connection than it was reported
for, `crossed` that a callback has closed a connection not its own, and
`startedTwice` that the server was started while the loop had its acceptor: the
application has started it twice, or has stopped it in a callback of the
acceptor's loop and an accept error has put it back. `Start` then closes the
descriptor and leaves its entry, whose number the next connection, or the acceptor
itself, gets without being added (section 7). From there on
`DescriptorsAgree` promises only that entries and descriptors of connections agree
and none leaks, and `NobodyIsForgotten` nothing.

### TcpClient

The clients of one loop with the states of their attempts (`status_`).
`ConnectInLoop` takes the lowest free descriptor, adds it to the loop
(`AddEventToWrite`) and does what `::connect` says (`Connected`); it may be
called in a callback. `Answer` and `ServerActs` are the network. `Dispatch`
looks a ready descriptor up in `events_` and calls the handler of whoever is
found there, which for a descriptor that was reused may be an earlier client;
`Handle` branches on `status_` as `onRead` and `onWrite` do, `Establish` is their
branch for an attempt, and `FinishClose` leaves the entry behind, as the code
does. `SendBuffer` is `send` of a buffer, which sends nothing and closes. The
ghost `lied` collects clients whose `connection_cb_` was called twice or without
a connection, `spoilt` those that were connected again or that called
`SendBuffer`. A client next to accepted connections is part of `TcpServer`.

### UdpSocket

A `UdpSocket` that is a `UdpClient` or a `UdpServer` (`role`): `Connect` or
`StartServer`, `Send`, `SendList`, `OnWrite` and `SendFront` (one round of its
loop), `OnRead`, `OnClose`, and `Return` with what the callers do after their
callbacks. `fd_` is the number of its descriptor, `open` are the numbers of its
descriptors that the kernel has, `events_` those under which the loop's table has
the socket, `watched` and `writing` those that epoll watches. The client's
`onClose` takes it out of the table, the server's does not: when the descriptor is
closed epoll drops it, and the entry stays. So `DescriptorFollowsLoop` says of a
closed server only that its descriptor is given back, and `ClosedLeavesLoop`, which
expects the entry to go, is false (section 7). `Connect` and `StartServer` run
in tasks and callbacks, also while the socket is open. `room` is the kernel's send
buffer; sends and writes may also fail for good at any time. The ghost `nested`
records that the `write_complete_cb_` called by `onWrite` has itself sent (see
section 7). `ImplementsChannel` maps the socket to an `OrderedChannel` that is
`broken` once an empty datagram was sent.

### FileLogMgr

Log rotation as a directory (`names`), files (`content`, sets of lines) and the
file each descriptor refers to (`fd_`), since `dup2` exchanges the file under a
descriptor that writers go on using. `OnCheck` reads the clock and takes the
mutex; `Visit` goes to the next log, `Rename` makes the next of the three
comparisons with the log's type, by day, hour and minute in turn, and `rotate`'s
`rename`, `OpenNew`, `Dup` and `FinishCheck` are the following steps. Between any two of them writers write, the clock goes on, the
type of a log is set, or the process dies (`Restart`). `rename` and `open` may
fail. The calendar is a parameter: the days of the year that months start with,
and the lengths of year, day and hour; and so is the local clock (`calendar.local`),
which may skip minutes and show others again: `localtime` repeats an hour when
daylight saving ends. `DateOf` is the date of the minute the clock shows. A check may
come any time after the last, as the code does not say how often it is called.
The names are the point of the model: `Stamp` takes year and month from this check
and day, hour and minute from the last, as the code does, so a check in another month
than the one before it makes a name of a day that is neither's. The ghost `seen` is
the minute of the last check and `misdated` the files whose name does not tell when
they were written: it mixes two months, or is of a day, hour or minute, or month, that
the clock shows again later (`ShownAgain`). Of these
`LostOnlyIfMisdated` and `RotatedIsFinal` promise nothing, of all others what one
expects of log files. `NoLineLost`, which excepts nothing, is false (section 7).
One thread calls `onCheck`, as the repository's own test does. A `FileLog` is an
object with a `Path`; `logs_` are those the manager knows, one for a path.
`RemoveFileLog` forgets one whose users write on, so that a second one of the
same path may be opened while the first still writes.

### DnsService

The table `host_infos_`, the worker and its callers. An address list is modelled
by the version of the host's record it was read from, 0 when it is empty, so
that an old list can be told from a new one. `start` is `DnsStart`, `StartSet` and
`StartThread`, `stop` is `Stop`, `StopClear` and `StopJoin`: `running_`, here
`serving`, is read, written and acted on in separate steps. `Copy` is the worker's
test and its copy of the table, `NextHost`, `LookupFinds`, `LookupFails`, `Update` and `Sleep` the
round that follows; records change meanwhile (`RecordChanges`). Assigning a
thread to one that is joinable ends the process (`terminated`). `meddled`
collects hosts whose addresses a caller has set itself.

## 4. Runs

| Run | Configuration | Shows | States |
|---|---|---|---|
| `wheel` | `TimingWheelAll` | delays that reach every wheel: none lost or late, each one-shot timer runs; below a minute every timer is exact: the wheel implements `Timers` | 90 156 |
| `wheel_long_early` | `TimingWheelLongEarly` | **violation** of `NeverEarly`: a delay of a minute or more runs early | |
| `loop_post` | `EventLoopPost` | two loops, two posters, five tasks: no lost wake-up, no circular wait, each task once and in the end | 7 319 |
| `loop_threads` | `EventLoopThreadPool` | a pool of two threads and a descriptor of others: `getLoop` never yields a loop that is gone, a loop in service keeps its epoll, the destructor ends | 193 936 |
| `buffer_stream` | `MsgBufferStream` | the buffer is a byte queue and grows no more than it must | 14 856 |
| `tcp_sends` | `TcpConnectionSends` | four sends, buffers and lists, own thread and others, any write refused or not: an ordered channel, nothing stranded | 109 604 |
| `tcp_client` | `TcpClientConnects` | two clients and two descriptors: callbacks tell the truth, descriptors agree, attempts end | 374 255 |
| `rtmp_ends` | `RtmpHandshakeEnds` | our server, our client, both | 3 426 |
| `server_connections` | `TcpServerConnections` | two connections, a client, other threads and three descriptors; accept fails at any time; callbacks, that of a new connection included, close connections and stop and start the server | 1 042 447 |
| `udp_sends` | `UdpSocketSends` | client or server, opened twice, in tasks and callbacks; a datagram, an empty one, and two that go alone or as a list | 1 400 880 |
| `log_rotation` | `FileLogMgrRotation` | two logs of one path, any type, seven calendars, clocks set back, late checks, failures and crashes: no line lost and a rotated file final, if not misdated; writers follow | 1 838 883 |
| `dns` | `DnsServiceRuns` | a host that resolves and one that does not, three starts, two changes of the record | 13 143 |

Why the bounds are enough for what they are to show:

* *TimingWheel.* A minute of three ticks, an hour of two minutes and a day of
  two hours give every wheel a boundary and every delay class a member with and
  without remainder (`MCDelays`). Two entries suffice because entries interact
  only by sharing slots. `MaxLag` of a tick and a half lets a round of the loop
  be late. `DelaysAssumption` excludes periodic timers that re-arm themselves
  without end (section 8).
* *EventLoop.* Two loops and two posters are the least with which a circle over
  mutexes could form; the tasks cover posting, running on the spot, posting on
  from a task and posting back from a handler. `PipeCap` of 3 is never reached
  with these tasks; `EventLoopOneLoop` reaches it.
* *EventLoopThread.* Two threads are the least in which one loop's number can be
  closed by the other's end; four descriptors and one of others leave a choice
  of numbers to be reused. `loop_index_` is kept below twice the pool's size,
  since only its remainder is used.
* *MsgBuffer.* Sizes of one to three bytes force growth, moving and spilling in
  all combinations; two byte values tell an order. `MaxReadable` bounds how far
  the reader may fall behind.
* *TcpConnection.* A two-byte buffer can be written whole, half or not at all;
  `SizeMax` only has to exceed the sizes for its arithmetic to wrap once.
* *RtmpHandshake.* Three positions for a packet allow partial arrival and
  partial writing; nothing in the code depends on their number.
* *TcpServer.* With three descriptors, one of them the acceptor's, two
  connections, a client and other threads run out of them and reuse them.
  `MCBound` leaves one descriptor to the client and the others together, and what
  follows a start of a server that the loop still has to `TcpServerStop`; the
  proofs have no such bounds.
* *TcpClient.* Two clients that share two descriptors are the least in which a
  client finds the entry of another under its number. One attempt each: what a
  second one breaks is known (`TcpClientReconnect`).
* *UdpSocket.* `MaxConnects` of 2 closes and opens again, or opens a socket that is
  open; two numbers let the second be the first again or another. `MaxCopies` bounds how
  often `sendto` succeeds, since an empty datagram is sent again and again;
  without empty ones it is never reached.
* *FileLogMgr.* `MCBound` takes two logs over two minutes or one over four. Two
  minutes reach the second month in the calendar whose minutes are days; in the
  other even ones the minutes are hours, and minutes of which two make an hour. So
  every type rotates and a type sees changes that are not its own. Two objects of
  one path let one be removed and the other opened while the first still writes;
  they are alike, hence the symmetry. In four minutes the last day of a short month
  is misdated and the day of the next month that really has its name is rotated
  after it; in the other uneven calendar a year of four hours ends. Two more clocks
  are set back by two minutes, within an hour and over the end of a month
  (`MCSetBack`).
* *DnsService.* `MaxStarts` of 3 stops and starts twice; a record that changes
  twice tells old, newer and newest; `Retry` of 2 has a first and a last attempt.

Deadlock checking is off where the modelled work is finite and the system may
come to rest: all bytes sent, all peers gone, the handshake over, the pool
destroyed, the service stopped for the last time, the time bound reached. It is
on for `TimingWheel`, `EventLoop` and `MsgBuffer`, whose loops never stop.

## 5. Fairness

* *TimingWheel*: `Elapse` and `OnTimer`, weakly. `epoll_wait` has a timeout of a
  second, so `loop` calls `onTimer` again and again.
* *EventLoop*: each thread goes on when it can. A post that waits for a mutex
  needs strong fairness, since the loop takes and releases the mutex every
  round; it leaves it free while it sleeps in `epoll_wait`, for long against
  the time a waiting thread needs to be woken, and `std::mutex` is not so
  unfair as to let it starve for ever.
* *TcpConnection*, *UdpSocket*: the loop's own steps weakly. `loop` calls
  `onRead` and not `onWrite` when a descriptor is ready for both, so a peer that
  sends without pause keeps the socket from being written; the liveness
  properties therefore have the premise `Quiet`, that the peer at last stops,
  rather than strong fairness of `onWrite`, which the code would not justify.
  In `UdpSocket` the kernel's buffer empties in the end.
* *EventLoopThread*: each thread of the pool and the owner's construction, `run`
  and destructor go on when they can, weakly; `epoll_wait` returns within a
  second. Nobody has to start or destroy the pool.
* *RtmpHandshake*: either end goes on while it can.
* *TcpServer*: the loop goes on (`LoopStep`); peers, the application and other
  threads need not do anything.
* *TcpClient*: the loop goes on, and the network answers an attempt in the end
  (the kernel gives up by itself after some minutes). Servers and the
  application need not do anything.
* *DnsService*: workers and calls that have begun go on, weakly. A lookup that is
  made again and again for a name that exists succeeds at some time: strong
  fairness of `LookupFinds` for each such host, without which the service
  promises nothing.
* *FileLogMgr*: none; it has only safety properties.

## 6. Proofs

`*Proofs.tla` hold theorems for every value of the constants, checked by TLAPS
with Z3, Zenon and LS4. Each follows the same pattern: an inductive invariant
`IInv` that strengthens the properties, a lemma for the initial state, one for
each action, `InductiveInvariant == Spec => []IInv`, then the theorems.

* `TimingWheelProofs`, for any numbers of slots, entries and delays, assuming
  `SlotsAssumption` (of the wheels that a coarser one stands above none has one
  slot only: that one would never be popped), `ClockAssumption` and
  `DelaysAssumption`. `Until(w, t)` is how many ticks from tick `t` it is to the
  first pop of wheel `w` that its span cannot do without, so that slot `i` is
  popped within `PoppedBy(w, i, t)` = `Until(w, t) + i * Span[w]` ticks. The
  invariant says that no slot of an entry is popped later than the entry is due
  (`InTime`), that an entry of less than a minute is in the slot of its due tick
  and in no coarse wheel (`Exact`), and that what is armed was accepted by
  `insertEntry` (`TimersInv`); being held by earlier slots is what extended lives
  look like and does no harm. A tick brings every `PoppedBy` down by one at least
  (`SlotAfterTick`), and it starts at the delay at most (`InsertInTime`). From it:
  `TypeCorrect`, `TimersNeverLate` and `TimersNotLost` with no premise;
  `ShortTimersNeverEarly` for delays below a minute (`ShortDelays`), without
  which it is false (section 7); `PeriodicTimersStayArmed` if `runEvery` is
  called by other threads; and `WheelImplementsTimers`, the step simulation of
  `Timers`, if moreover no delay is beyond the wheel of days (`AcceptedDelays`).
  `TimingWheelMisuse` shows what goes wrong without these two.
* `EventLoopProofs`, for any loops, threads and tasks. The invariant adds that
  the mutex's owner is determined by the program counters, and that while a loop
  sleeps there are as many tokens and posters about to write one as queued
  tasks, one less allowed once it is awake. From it: `TypeCorrect`,
  `WakeupsAreNotLost`. `OrderedPostsDoNotDeadlock` assumes that running tasks
  post only to loops below their own in some well-founded order and that no
  pipe is full: then no set of threads, of any size, waits in a circle. These
  two assumptions are exactly what the counterexamples `EventLoopCross` and
  `EventLoopOneLoop` violate.
* `BufferHandshakeProofs`, the buffer, for byte strings and sizes of any length.
  Each operation has a lemma that says what it does to the content and to the size
  of the vector. From the indices' order: `BufferTypeCorrect`, `GrowthIsBounded`,
  `BufferIsAQueue`, the last one the refinement of `ByteQueue`.
* `BufferHandshakeProofs`, the handshake, for any set of setups (both ends this
  code, or one or both another implementation), any forms of C0C1 and S0S1, and
  packets of any size, taken by the kernel and arriving in parts of any size. The
  properties speak of packets and the code reads bytes; `StreamInv` connects the two:
  what an end has taken, what has arrived, what is on its way and what still waits at
  the other end are, one after the other, the packets the other end has sent (exactly,
  as far as the first two go). So `kPacketSize + 1` bytes taken first can only be the other's first packet (`CarriesFirst`,
  `TakesFirst`) and `kPacketSize` taken next the second (`CarriesSecond`,
  `TakesSecond`). `ServerInv` and `ClientInv` say for each `state_` what the end has
  sent and taken and what it is about to call, and `WriteInv` that `writeComplete`
  is called only when nothing waits. From it: `HandshakeTypeCorrect`,
  `ServerSendsOnceInOrder` and `DoneIsExchanged`. The client's part includes the
  server's states that it falls into after C2 (section 7).
* `TcpConnectionProofs`, for any calls of `send` of any sizes. The invariant
  adds that a connection being closed is out of the loop, and that until the
  kernel refuses bytes the wire and the list make up what was taken on and
  completion was reported for no more than the wire holds. From it:
  `TypeCorrect`, `WaitingBytesAreWatched`, `ClosedSocketIsNotWritten`,
  `NothingIsLost`, `CompletionIsReportedInTime` and `ConnectionImplementsChannel`,
  the step simulation of `OrderedChannel`: each action extends what was accepted
  and what is delivered, and until the kernel refuses bytes what is delivered is
  how the accepted bytes begin. The lemma
  `RestCompletesBytes` shows that a write that takes *n* bytes leaves exactly
  the others, modular arithmetic included.

* `ThreadProofs`, for what is shared among threads. Of `EventLoopThread`, for a
  pool of any size and any descriptors, the invariant says what `loop_`, `promise_`, `running_` and `once_` are at each
  place of the threads (`StartInv`) and of the owner (`OwnerInv`), that a thread
  leaves its loop only when told (`EndInv`), whose each descriptor is
  (`TableInv`), and that before any loop was told to end nobody holds a number
  that is another's, afterwards nobody will close that of a loop in service
  (`EpollInv`). From it: `GetLoopTellsTruth` and `LoopsKeepTheirEpoll`, as long
  as no destructor has read `epoll_` from a loop that is gone, and
  `PoolTypeCorrect`, which has to show that `epoll_create` finds a number
  although numbers are closed twice: every other thread holds one at most.
  Of `DnsService`, for any hosts, callers and bounds, another one says that
  unless the process has ended who looks hosts up is the worker `thread_` stands
  for (`DnsWorkerInv`), that the only caller of `start`
  finds `thread_` free whenever `running_` is false (`DnsCallerInv`), and that
  what a worker has found is no newer than the record and no older than what the
  table has (`DnsTableInv`). From it: `DnsTypeCorrect`; `OneWorkerAtMost` if one
  thread calls `start` and `stop`, without which `DnsServiceOverlap` refutes it;
  and `TableNeverGoesBack` for any number of callers, which the run checks for
  one: a second worker beside the first ends the process, so that nobody writes
  behind the worker's back.
  Of `FileLogMgr`, for any logs and paths, in every calendar and however late
  checks come, the invariant has four parts. The manager knows one log of a path and
  a check rotates only logs it knows (`KnownInv`), and between `rename` and `dup2`
  the name of the log is free or the new file's (`RotationInv`); from these alone:
  `LogsFollowTheirName`. What a check takes to have changed is a period, a
  day, an hour or a minute, that has ended since the last check (`ClockInv`). Every
  line is in a file, and every file has a name or was misdated (`FilesInv`). And
  every name of a file that was not misdated is that of a period that had ended when
  the last check read the clock; while a check runs, for the logs it has still to look
  at, and for the types it has still to compare with the one it looks at, when the check
  before it did (`NamesInv`). `rename` gives the name of the period of that check,
  which had not ended then, and so the new name is not in use (`NewNameIsFree`).
  This needs that names of different types, or of different periods as the clock shows
  them, differ (`StampsAreUnique`), for which the calendar must tell local minutes
  apart: `DateIsUnique` proves it of any calendar from facts on quotients, remainders
  and the months' being intervals of the year. The clock itself may show anything at
  any time; what it shows again is misdated by definition, and
  `SteadyClockShowsNothingAgain` proves that a clock that is never set back, in local
  time without daylight saving, say, shows nothing again. A misdated file's name has the month of the check. A file
  that was not misdated and has this name is of a period of that month, which had ended at the check before;
  then that check was in the same month too, since the month was not shown again
  (`MonthsDoNotInterleave` for a clock that is never set back), and nothing
  is misdated. So a misdated file replaces only other misdated ones. From it:
  `NoLineIsLost`, `RotatedFilesAreFinal` and, with the shapes in `ShapeInv`,
  `LogTypeCorrect`.
* `UdpSocketProofs`, for any datagrams, lists, roles and bounds. `CloseInv` says
  that `close_cb_` is on the stack of calls once at most, `LifeInv` how the
  descriptor and the table go through the life of a socket of either role,
  `OnWriteInv` that `onWrite` calls nobody while datagrams are left, and `DataInv` that what waits is the end
  of what was taken and what is out comes from before it. From it:
  `UdpSocketTypeCorrect`, `DatagramsSentOnceInOrder`, `LoopFollowsDescriptor`
  and `UdpSocketImplementsChannel`, the step simulation of `OrderedChannel`
  until an empty datagram is sent.
* `TcpServerProofs`, for any connections, clients and descriptors. It has one
  premise, `ClientsStay`: no `TcpClient` of the loop closes. One that does leaves
  its entry behind, and then the theorems are false (`TcpServerClient`). Callbacks,
  that of a new connection within the acceptor's loop included, do what they like,
  and accept returns what it likes. The
  invariant ties `events_`, the kernel's table and `fd_` together (`TableInv`), and
  with them what epoll watches (`WatchedInv`), says that the acceptor has one
  descriptor, and no entry but that one's unless the server was started while the
  loop had its acceptor (`AcceptorInv`), that who is in `onClose` is out of the server
  and of the loop (`CallsInv`), that nothing is known of a peer before it is accepted
  (`FreshInv`), and that until a callback closes another connection whom a
  pending event is for keeps its descriptor until the event is handled
  (`BatchInv`). Without a stale entry `addEvent` always adds: that is why
  `EveryConnectionIsRegistered` has `~startedTwice` as a premise and the rest of
  `DescriptorsAgree` has none. From it: `ServerTypeCorrect`, `ServerAndKernelAgree` and
  `EventsReachTheirOwner`.
* `TcpClientProofs`, for any clients, descriptors and number of attempts, with
  no premise. The entries closed clients leave in `events_` make the invariant of
  `TcpServer` false here; what holds instead is that epoll watches a descriptor
  only for the client that `events_` names (`TableInv`), that a client which
  connects once is named by its own descriptor or one it has closed (`OnceInv`),
  that nothing is reported, closed or being closed while an attempt is in
  progress (`DialingInv`), and that a pending event which is no error, if it is
  for an attempt in progress, is for one that has succeeded (`BatchInv`): a
  handler of the same batch may close the client or its descriptor, but the new
  owner of the number is not found under it, because the old entry is still
  there. From it: `ClientTypeCorrect`, `ConnectedIsReportedTruly` and
  `ClientAndKernelAgree`. Clients that connect again or send a buffer are
  excepted by the properties themselves; for them they are false (section 7).

Two invariants have an argument of their own, next to `IInv`:

* `TasksRunAtMostOnce` of `EventLoopProofs`: a call that has not run is in one
  place at most, in a handler still to run, in the code of a thread, on its way
  into a queue or in a queue (`OnePlace`), in none before the task that makes it
  has run, and in none once it has run itself.
* `BytesStayInOrder` of `TcpConnectionProofs`: what is on the wire followed by
  what waits embeds into what was taken on (`OrderInv`). It holds after refused
  writes too, when bytes are missing and byte 0, which no caller gave, is among
  them; so it cannot follow from the refinement.

Only model-checked:

* every liveness property: proofs under fairness need `ENABLED`, which the
  prover does not handle.

## 7. Known defects

One disagreement between the code and what it says of itself is listed as a
finding, with a run that shows it:

* `TimingWheelLongEarly`: `insertMinuteEntry`, `insertHourEntry` and
  `insertDayEntry` build an entry that would insert the remainder and drop it,
  and the wheel of minutes is popped on every tick that is *not* a multiple of a
  minute (`TimingWheel.cpp:88`). A delay of a minute or more runs early.

The other configurations in this directory reproduce further ones and can be run
with `tlc -config <cfg> MC<Module>`, with `-continue` where a configuration
stands for several:

| Configuration | Property | What happens |
|---|---|---|
| `TimingWheelMisuse` | `NeverEarly` | a delay of over 30 days, which is refused, runs its callback at once (`TimingWheel.cpp:64`) |
| `TimingWheelMisuse` | `PeriodicStaysArmed` | `EventLoop::runEvery` in the loop's own thread runs once (`EventLoop.cpp:284`) |
| `EventLoopCross` | `NoCircularWait` | tasks of two loops that post to one another block for ever, `func_mtx_` being held while tasks run (`EventLoop.cpp:246`) |
| `EventLoopOneLoop` | `NoCircularWait` | the write that fills the wake-up pipe blocks with the mutex the loop needs (`EventLoop.cpp:226`) |
| `EventLoopOneLoop` | `EventsTouchedByOneThread` | the first post changes `events_` while the loop goes through it (`EventLoop.cpp:254`) |
| `EventLoopThreadEnd` | `DestructorAlwaysEnds` | a pool destroyed right after its start waits for ever: `loop` sets `looping_` after `quit` has cleared it (`EventLoop.cpp:41`) |
| `EventLoopThreadEnd` | `QuitOnLiveLoop` | a loop that a task has ended is gone when the destructor calls `quit` on it (`EventLoopThread.cpp:16`) |
| `EventLoopThreadEnd` | `ForeignStaysOpen` | `quit` and `~EventLoop` close the same number, the second time another's descriptor (`EventLoop.cpp:114`) |
| `MsgBufferInts` | `NeverAborts` | `readInt64` asserts eight bytes, its comment asks for four (`MsgBuffer.h:249`) |
| `TcpConnectionCompletion` | `CompletionIsTrue` | a failed `writev` returns -1 into a `size_t`: the list is emptied and reported written (`TcpConnection.cpp:107`) |
| `RtmpHandshakeDefects` | `ServerFinishes` | a C2 that arrives before S2 is written is never handled if nothing follows it (`RtmpHandshake.cpp:427`) |
| `RtmpHandshakeDefects` | `ClientStaysClient` | after C2 the client takes a server's state and sends C1 and C2 again (`RtmpHandshake.cpp:418`) |
| `RtmpHandshakeDefects` | `ZeroMeansDone` | `handshake` returns 0, which the test takes for done, long before (`RtmpHandshake.cpp:430`) |
| `RtmpHandshakeDefects` | `KeyedByPeer` | C2 and S2 are keyed by their own end's digest (`RtmpHandshake.cpp:329`) |
| `TcpServerClient` | `NotUsedAfterDestroyed` | a connection only the server holds is destroyed inside its own `onClose`, which goes on (`TcpConnection.cpp:34`) |
| `TcpServerClient` | `EveryConnectionIsRegistered` | `TcpClient::onClose` leaves its entry in `events_`; an accepted connection that gets the same descriptor is not added (`TcpClient.cpp:114`) |
| `TcpServerStop` | `StoppedLeavesLoop` | `new_connection_cb_` stops the server, the next `accept` fails, and `onClose` puts the acceptor back into the loop: a stopped server accepts (`Acceptor.cpp:79`) |
| `TcpServerStop` | `StartedIsWatched` | a start of a server that the loop has closes its descriptor and leaves the entry: the new socket, if it gets the number, is not watched (`Acceptor.cpp:26`) |
| `TcpClientReconnect` | `EveryAttemptEnds` | the same between two clients: the second is not added, and its attempt never ends (`TcpClient.cpp:114`) |
| `TcpClientReconnect` | `NoDescriptorLeaks` | `connect` of a client that has a descriptor forgets it (`TcpClient.cpp:36`) |
| `TcpClientReconnect` | `ConnectedIsOpen` | `send` of a buffer closes the connection and calls it connected (`TcpClient.cpp:125`) |
| `UdpSocketReconnect` | `OpenIsServed` | a client that connects again keeps `closed_`, a server that starts again finds its old entry: the open socket reads nothing (`UdpClient.cpp:53`, `UdpSocket.cpp:130`) |
| `UdpSocketReconnect` | `ClosedLeavesLoop` | a server that was stopped stays in `events_`, whose `shared_ptr` keeps it; the next socket of that number in the loop is not added (`UdpSocket.cpp:137`) |
| `DnsServiceOverlap` | `NeverTerminated` | a `start` between another caller's `stop` and its `join` assigns to a joinable thread, which ends the process (`DndService.cpp:73`) |
| `FileLogMgrMonth` | `NoLineLost` | the file of a short month's last day is overwritten a month later: its name has the new month and the old day (`FileLogMgr.cpp:43`); when checks come late, months of one length are no protection |
| `FileLogMgrMonth` with `Calendars <- MCSetBack` | `NoLineLost` | at the end of daylight saving `localtime_r` repeats an hour: the files of its first run are overwritten by those of its second (`FileLogMgr.cpp:129`, `TTime.cpp:24`) |

Four more show as premises of properties: in `UdpSocket`, what the
`write_complete_cb_` of `onWrite` sends is queued and then no longer watched
(`~nested` in `Drains`), and an empty datagram is sent again and again (the
premise of `SentOnceInOrder` and of the channel); in `TcpServer`, an event may
reach a new owner of its descriptor once a callback closes another connection
(`~crossed` in `DeliveredToOwner`), and a connection is not added once the server was
started while the loop had its acceptor (`~startedTwice` in `DescriptorsAgree`).

## 8. What is not modelled

* `Connection::active` and `deactive`: nothing in the repository calls them.
  `active` reads `active_` and posts, so two calls may run `active_cb_` twice.
* The destructors of `TcpClient` and `Acceptor`: they call `onClose` and `stop`,
  and these `shared_from_this`, which throws in a destructor.
* `Acceptor::stop` in another thread, which changes `events_` as `weakup` does
  (`EventLoopOneLoop`). `bind` and `listen` of a new acceptor are taken to succeed,
  and other threads' descriptors to be in no loop's table.
* In `TcpServer` a `TcpClient` connects in a task only, not in a callback of the
  server's: within a batch it could get the number of the acceptor's old socket
  and with it that socket's pending event. `TcpClient` has connects in callbacks.
* A `UdpServer::stop` before the first start, and sends of a `UdpSocket` that was
  never connected or started.
* A `writev` that returns 0 because its buffers are empty: `io_vec_list_` is modelled
  by its bytes, and a buffer without one leaves none.
* A callback that closes the connection whose `close_cb_` is running: `closed_`
  is set afterwards, so the calls nest without end. Likewise `runEvery` with an
  interval that is not positive or over 30 days, which re-arms itself from its
  own destructor until the stack is gone.
* `setTimeout` of a connection, whose lambda refers to parameters that are gone
  when it runs, and a second `enableCheckIdleTime`, which leaves the first entry
  in the wheel. The lifetimes of buffers that callers pass to `send` by address.
* A `TcpClient` on which `TcpConnection::send` is called through the base class:
  it would queue bytes before the connection is up.
* `getNextLoop` from several threads at once, `epoll_create` that fails (the
  program exits), `DnsService::setDnsServiceParams` while the worker runs, and
  concurrent calls of `onCheck`.
* The bytes of the handshake's digests and their offsets: long computations
  without control, whose results are modelled by whose key made them.
* `Packet`, which no code uses yet; `InetAddress`, `SocketOpt`, `StringUtils`,
  `Logger`, `LogStream`, `Singleton`: formatting, conversions and wrappers of
  system calls, which keep no state of the system.

## 9. Plan

All components with state of their own are modelled, most important first, as
far as section 8 says. Proved are the safety properties of `TimingWheel`,
`EventLoop`, `EventLoopThread`, `MsgBuffer`, `TcpConnection`, `UdpSocket`,
`TcpServer`, `TcpClient`, `DnsService`, `RtmpHandshake` and `FileLogMgr`. The
liveness properties stay with TLC, for the reason given in section 6.
