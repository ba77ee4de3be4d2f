# A TLA+ development for MyTinyMuduo

MyTinyMuduo is a C++ network library after muduo: a reactor per thread, a TCP
server on top of it, timers, an asynchronous logger and an HTTP layer. This
directory holds TLA+ models of its core, the TLC runs that check them on small
instances, and TLAPS proofs for every value of the parameters. `PROJECT.json`
lists components, runs, mutants, the map from definitions to source lines,
findings, hazards and theorems. Paths below are relative to
`src/myTinymuduo/`.

## 1. Inventory

| component | state | operations | shared with |
|---|---|---|---|
| `Eventloop` (resoure) | `quit_`, `looping_`, `callingPendingFunctors_`, `pendingFunctions_` under `m_mutex`, the eventfd, the active channels | `loop`, `quit`, `runInLoop`, `queueInLoop`, `wakeup`, `handleRead`, `doPendingFunctors` | every thread that hands it a functor or quits it |
| `EventLoopThread`, `Thread` | `loop_` under `m_mutex` with a condition variable, a semaphore, the thread, the `Eventloop` on its stack | `startloop`, `threadFunc`, the destructor; `start`, `join` | the owner's thread and the new one |
| `EventLoopThreadPool` | `loops_`, `next_`, `numThread_` | `start`, `getNextLoop` | the base loop only |
| `channel`, `EPollPoller` | `events_`, `revents_`, `index_`, `tie_`; `channels_`, the kernel's interest list | `enableReading` .. `disableAll`, `remove`, `handleEvent`; `poll`, `updateChannel`, `removeChannel` | the loop's thread only; bare pointers in the kernel |
| `TcpConnection` | `state_`, its channel and socket, `inputBuffer_`, `outputBuffer_` | `send`, `shutdown`, `connectEstablished`, `connectDestoryed`, the four handlers | its loop; any thread through `send` and `shutdown` |
| `TcpServer`, `Acceptor` | `connections_`, the listening channel | `start`, `newConnection`, `removeConnection(InLoop)`, the destructor | the base loop; functors to and from the other loops |
| `TimerQueue`, `Timer`, `Timestamp` | `timers_`, `activeTimers_`, `caneclingTimers_`, the timerfd, `Timer::s_numCreated` | `addTimer`, `cancel`, `handleRead`, `getExpired`, `reset` | the loop's thread, functors of others |
| `Buffer` | a vector and two indices | `append`, `retrieve`, `readFd`, `makeSpace` | one connection |
| `AsyncLogging`, `LogFile`, `AppendFile` (base) | current and next buffer, the full ones, `running_` | `append`, `threadFunc`, `stop`; `roll`, `flush` | every logging thread and the back end |
| `LogStream`, `Logging`, `logger` | a line buffer, the output function | formatting | – |
| `threadsafe_queue` (base/blockqueue.h) | a list with a head and a tail mutex | `push`, `wait_and_pop`, `try_pop` | producers and consumers |
| HTTP (Http) | parser state, request, response | `parseRequest`, `onMessage`, `OnRequest` | one connection |

**How they interact.** Everything a connection does happens in the thread of
its loop; other threads reach it through functors. A new connection is accepted
in the base loop, put into `connections_` and handed to a loop of the pool. Its
close runs through three queues: `handleClose` in the connection's loop queues
`removeConnectionInLoop` in the base loop, which queues `connectDestoryed` in
the connection's loop. With no pool all of that is one call chain. What keeps a
`TcpConnection` alive meanwhile is the map, the functors that carry a
`TcpConnectionPtr`, and the guard that `handleEvent` takes from `tie_`.

**What is hard.** The lost wakeup between push and `epoll_wait`; the swap of
the functors against pushes; starting and stopping a thread whose loop lives on
its stack; the agreement between `index_`, `channels_` and the kernel; a close
by end of file, by `EPOLLHUP` and by the server's destructor for the same
connection; partial writes and a `shutdown` that has to wait; `state_` read in
one thread and used in another; buffers, timers and log buffers at their edges.
`PROJECT.json` lists each hazard at its line, with the properties that cover it
or the reason why none does yet.

**What makes each part correct.** *Eventloop*: every functor runs once, in
order, without waiting for a time out; `quit` ends the loop. *EventLoopThread*:
`startloop` returns a loop that exists; the destructor returns, and not before
the thread has. *channel/poller*: no `epoll_ctl` is refused, no dead channel is
watched or dispatched. *TcpConnection*: up, messages, down, in that order; no
accepted data is lost; the FIN follows the data. *TcpServer*: a closed
connection is erased once and cleaned up; the destructor ends. *TimerQueue*: its
sets agree, a `TimerId` means one timer for ever, a cancelled timer goes, and
there is an alarm for the first timer. *Buffer*: both
indices stay inside the vector and bytes come out as they went in.
*AsyncLogging*: lines reach the file in order, none twice, and `stop` returns.
*HTTP*: answers come in the order of the requests, a closing one last, however
the bytes were split into reads.

## 2. Modules

| module | models |
|---|---|
| `SerialExecutor` | abstract: what `queueInLoop` promises – one line of functors, each run once, in order |
| `EventLoop` | `Eventloop` with any number of calling threads; implements `SerialExecutor` |
| `EventLoopThread` | `EventLoopThread` and `Thread`, composed with `EventLoop` (`L == INSTANCE EventLoop`) |
| `Channel` | `channel` and `EPollPoller` as operators on one channel |
| `TcpConnection` | the handlers of `TcpConnection` as operators on one connection |
| `TcpServer` | `TcpServer`, `Acceptor`, the pool, the loops and the connections as one state machine |
| `TcpServerUsers` | `TcpServer` with threads outside the loops that call `send` and `shutdown` |
| `TimerQueue` | `TimerQueue`, `Timer`, `TimerId`, `Timestamp`: the timers of one loop and another thread |
| `Buffer` | `Buffer` as operators on one buffer |
| `HttpServer` | `HttpServer`, parser and answers on one connection; composed of `TcpConnection` and `Buffer` |
| `LogFile` | `LogFile` and `AppendFile` as operators on one log file |
| `AsyncLogging` | `AsyncLogging`: the appending threads, the thread "Logging" and its `LogFile` |
| `EventLoopProofs`, `EventLoopThreadProofs`, `TcpServerProofs`, `TimerQueueProofs`, `HttpServerProofs`, `AsyncLoggingProofs` | the theorems |
| `TcpConnectionProofs` | lemmas on the operators of `Channel` and `TcpConnection`, for `TcpServerProofs` |
| `MC*` | the instances for TLC |

### EventLoop

A step is what a thread does between two points at which others can see its
effect: a store to an atomic, a critical section of `m_mutex`, a read or write
of the eventfd. `queueInLoop` and `quit` of another thread are therefore two
steps (push or store, then `wakeup`), and the loop's iteration is the cycle of
`pc`: `check` (`while(!quit_)`), `poll`, `handle`, `io` (a user's callback),
`run`, `functor`. Calls in the loop's own thread are the `Owner...` actions:
possible wherever user code runs there, before `loop()` too.

Abstractions. The eventfd counter is one bit, as neither epoll nor the reader,
which resets it, can tell more. All channels but the wakeup channel are one,
`"io"`. `Poll` may leave the eventfd out of a batch that reports others, since
`EPollPoller` reports at most 16 channels at a time (`events_` is reserved and
never resized, EpollPoll.cpp:54). A functor is handed over at most once, so a
functor is its own identity. Histories (`queued`, `executed`, `inlined`) are
read only by properties and by the bound on submissions; `early` marks the
functors that the loop's own thread queued before `loop()`, for which
`queueInLoop` (Eventloop.cpp:94) wakes nobody: they run after the first poll,
which may take the whole ten seconds of `KPollTimeMs`.

### EventLoopThread

Two threads around the loop: the owner (`Thread::start`, `startloop`, use, the
destructor) and the new thread (`threadFunc`). `startloop` waits on the
semaphore, then on the condition variable, with spurious wakeups. The
destructor reads `loop_` without the lock, stores `quit_`, wakes, joins. As in
the repository, `~EventLoopThread` is the only caller of `quit()` on such a
loop; were the loop's own callbacks to call it, `~EventLoopThread` would find
`loop_` null and detach a thread that still uses the object, or not, depending
on the moment.

### Channel, TcpConnection

Records and operators, so that the compositions can apply them to any number of
connections. A handler that asks the kernel or the user is a *set* of results,
one for each answer. A message is one unit; the kernel takes any number of
units of `outputBuffer_`, or none. `UserCode` is what a callback may do with its
own connection: nothing, `send`, `shutdown`, or `send` and then `shutdown`, as
`HttpServer::OnRequest` does. `connectEstablished` has an assignment inside its
assertion (`state_ = kConnecting`), so the model's next value is `kConnected`
from any state. The test for `kDisconnected` in `sendInLoop` only logs, and so it
does in `SendInLoop`. A reset leaves an
error on the socket that `getsockopt` in `handleError`, a `read` or a `write`
takes, whichever comes first: until then epoll reports `EPOLLERR`, and a read
fails once before it finds the end of file. The program is taken to ignore
`SIGPIPE`, which the branch for `EPIPE` in `sendInLoop` presupposes.

Both buffers of a connection may overflow (`Overflows` says which, in an
instance), as finding 5 describes. An `inputBuffer_` whose user leaves something
in it is then `stuck`: `readv` refuses the length that has wrapped around, and
every later `handleRead` ends in `handleError`, also at the end of file and after
a reset. The buffer does not recover, since only reads call user code that could
empty it. For `outputBuffer_`, `reach` says whether it was written up to
`size()`, past it into capacity that was reserved, or beyond the capacity, as a
second append may do because nothing is reserved once `writableBytes()` has
wrapped. To write there is undefined behaviour; the model goes on as if nobody
else used that memory, and `FinWhenDrained` and `NothingLost` say nothing of such
a connection.

### TcpServer

Each loop is used as the serial executor it was shown to be, with the poller in
front: `poll`, the callbacks of the active channels one at a time, the pending
functors. A step is one callback or one functor, whole: within it a loop's
thread shares with the others no more than one push to another loop's queue, at
its end. The test of `quit_` is merged with the end of a batch. The order of
the active channels is arbitrary, and each of several events of one channel is
handled in a step of its own, in the order of `handleEventWithGuard` (`FirstEvent`). `revents_` was stored by poll and can be stale
when a channel's turn comes. `Alive` states what keeps a connection alive; a
batch of functors keeps its shared pointers until its vector is destroyed. `accept()` may fail, which
leaves the peer in the backlog. The
destructor of the server runs in the base loop's thread after that loop was
left, or before the server was started, one connection at a time, while the loops of the pool go on.
`faults` collects failed assertions, which end the process.
`startloop` returns a loop that its thread has published but perhaps not entered
(`lpc = "starting"`, though the comment at EventLoopThreadPool.cpp:22 takes it to
have started): `EnterLoop` clears `quit_`, and a quit that came first is `lost`,
as in finding 1. `~TcpServer` then waits in `join` for ever, and
`DestructorEnds` says that this is the only way it does. A poll fills `events_`,
which is never resized, and leaves what does not fit to the next one (`Filled`);
the eventfd, which is not in the model, may take one of the places.

### TcpServerUsers

Adds threads that keep a `TcpConnectionPtr` and call `send` and `shutdown`:
test of `state_`, store of `state_`, and push are separate steps, and the
functors `sendInLoop` and `shutdownInLoop` carry the bare `this`.

### TimerQueue

`timers_` is a set of pairs (time, address), `activeTimers_` and
`caneclingTimers_` sets of pairs (address, sequence number), as in the code. An
address is a number, because `std::set` orders equal times by address and
`getExpired` compares with a Timer of its own, which may get any free address.
A freed address is handed out again. A Timer carries a `uid` that nothing but
the properties reads.

`Timestamp::now()` counts seconds and `addTime` adds microseconds to it
(Timestamp.cpp:12, Timestamp.h:32). The model keeps both, and makes the second
shorter. The time of a timer is therefore never the moment it is due; what makes
timers work is that the alarm is set to the difference and that `getExpired`
takes everything up to the first entry after `now`. `end->first` for `end()`
reads, in the build's libstdc++, the word behind the header node of the tree,
the number of its nodes; among the times of timers only those given to `runAt` can
be as small.

User code in the loop's thread runs in another handler before `handleRead`
(`pc = "polled"`), in a callback of the batch, or in a functor. It may ask for a
timer at any time (`runAt`) or after a delay (`runAfter`, `runEvery`). `addTimer`
is not one step: the constructor increments `s_numCreated` and loads it again, in
every thread, and in a thread that is not the loop's the push of the functor
(TimerQueue.cpp:99, `QueueTimer`) and the read of `timer->sequence()` for the
`TimerId` (:101, `ReturnTimerId`) are two more. Between these the loop may run
and delete the Timer, and give its address to another: the read then finds any
number, or the other timer's. Such an id is marked `late` and may take effect on
any timer. The build keeps assertions: the CMake files set no
`NDEBUG`. Of them only the one at TimerQueue.cpp:152 can fail, and the model
then ends in `aborted`.

### Buffer, HttpServer

A unit of the model's stream is a token: a request line, a header, a text, or
CRLF; a read ends after any token. Cells of a buffer are kept with what is in
them, those beyond `buffer_.size()` too: `reserve` gives them and nothing resizes
the vector; a larger block gets the first `size()` of them, which is all that
`reserve` copies, and what is written past the capacity is not in the cells.
`size_t` counts modulo `SizeMax + 1`, so `writableBytes()` wraps
around once the write index has passed the size, and `readv` then refuses the
length (`HandleReadError`); the connection stays open and reads nothing more.
One `readv` brings at most what the buffer can take and `ExtraSize` more, the
size of `extrabuf` (`ReadvLimit`).

Each `onMessage` makes a new parser, so `ParseRequest` is a function of what the
buffer holds: whether the first line is a request line, whether a line without
a colon has ended the headers, how much was retrieved. The user's callback may
leave `closeConnection_` or set it either way. `send` and `shutdown` are those of module
`TcpConnection`.

### LogFile, AsyncLogging

Lines are numbered and of equal length. `append` and the exchange of buffers are
one step each, as they hold `mutex_`. `wait_for` may time out at any moment.
Writing is one step per buffer, in which `fwrite` may fail and the rest of that
buffer is given up. `fflush` and `fclose` may fail too, and what stdio held is
gone: their results are ignored (FileUtil.cpp:17, 44). `disk` is what was passed
to the kernel, `stdio` what is still in the buffer of the `FILE`, which may pass
on more on its own, and `lost` what a failed call has cost; nobody is told of it.
A file that cannot be opened is not modelled. After the first
round `newBUffer1` is empty, because `reset()` at Aslogging.cpp:93 is that of
`unique_ptr`; a second round fails the assertion at :61 and the model ends in
`aborted`, as it does when `stop()` comes before the thread has tested `running_`
(:50). No property forbids these ends; `WrittenWhenIdle` says what is in the file
then, and `StopReturns` allows them.

## 3. Runs

| run | instance | checks | shows |
|---|---|---|---|
| `event_loop` | 2 threads, 3 functors | `TypeOK`, `NoSleepOnWork`, `NoEmptyRead`, `RunInOrder`, `ImplementsExecutor`, `EventuallyRun`, `QuitEndsLoop` | pushes and quits in every interleaving are neither lost, overtaken nor slept on |
| `event_loop_thread` | 2 functors | `PublishedLoopExists`, `ThreadEndsBeforeObject`, `StartloopReturns`, `RunningLoopIsJoined` | start, use and destruction of a loop thread |
| `event_loop_thread_lost_quit` | the same | `DestructorReturns`, **violated** | a quit before `loop()` is undone |
| `event_loop_thread_dead_loop` | the same | `QuitTargetsLiveLoop`, **violated** | the loop dies between the halves of `quit()` |
| `tcp_server` | 1 connection, 3 sends, buffers that overflow, pool of 0 or 1 | `PeerCloseCleansUp`, `DestructorEnds`, `FinWhenDrained`, `NothingLost` | clean-up and destruction come to an end, but for a stuck input and a lost quit; output is delivered and followed by the FIN |
| `tcp_server_pair` | 2 connections (symmetric), 1 send each, event list of 2, pool of 0 or 1 | `TypeOK`, `ErasedOnce`, `CtlNeverRefused`, `WatchedIsAlive`, `CallbackOrder` | safety of the connections' life, with the server destroyed at any time |
| `tcp_server_users` | 1 connection, 1 user | `ErasedOnce`, **violated** | a late `sendInLoop` revives a closed channel |
| `timer_queue` | 2 threads, 3 timers, 3 addresses, 1 functor waiting, a second of 2 ticks | `TypeOK`, `SetsAgree`, `IdNamesItsTimer`, `CancelledIsGone`, `AlarmForFirst` | adding, cancelling and expiry in every order |
| `timer_queue_assert` | 1 timer of one second | `BoundIsAfterNow`, **violated** | a one-shot timer meets itself in its second |
| `http_server` | 7 streams of up to 3 requests, buffer of 6 units | `TypeOK`, `BufferKeepsStream`, `RepliesInOrder`, `ClosingReplyIsLast`, `WholeRequestAnswered` | every way to split the streams into reads |
| `http_buffer_overflow` | the same | `IndicesOrdered`, **violated** | the write index passes the size |
| `async_logging` | 6 lines, buffers of 2, 3 seconds, 2 lost lines | `TypeOK`, `LinesInOrder`, `WrittenWhenIdle`, `BackExists`, `StopReturns` | the hand-over of buffers, rolling and stopping |

Each property of a passing run has a mutant, an operator next to the definition
it replaces, with a plausible slip in it, under which TLC finds the property
violated.

**Bounds, and why they are enough.** Three functors with two threads give two
pushes around a swap and one in the batch that runs, by the same and by
different threads; the theorems cover all other numbers. Two functors are enough
around an `EventLoopThread` for one before `loop()` and one after it; the
theorems cover the rest. One connection per loop meets every order of its own
close, reset, callbacks and the destructor; two share an iteration, a batch and
the map. `MaxSends` (messages of one connection) is 3 in `tcp_server`, where one message
is with the kernel while two wait and are written in part, and where an append
follows an overflow; it is 1 with two connections. The event list has two places
with two connections and a listening socket, so that `poll` leaves some out; in
the other runs it has the 16 of the code and is never full, since what it leaves
out is served only if the kernel takes turns, which `FairSpec` does not say.
`tcp_server_users` has one connection and one user, which is enough for its
counterexample. A peer has one unread message
at a time: `handleRead` empties the socket's data in one call. A pool of one loop
has the base loop and another thread, which is what the three-queue close needs;
`next_` wraps at each call.

Three timers of which two live at a time (`MaxTimers`, `Addr`: one address stays
free for the Timer of `getExpired`) are enough for an address that is used again
while a `TimerId` of its first timer is still around, and for two timers with
one sequence number. `runAt` is asked for a time long past, whose timer is run once
and deleted, and for one a second ahead, whose timer repeats like every other; a
restart with an interval differs only in the new time, which the theorems leave
open. `MaxClock` lets a timer expire, restart and expire again;
`MaxFunctors` is the number of functors that wait at once. A thread that is slow
in `addTimer` can be overtaken by the whole life of its timer and by the next one
at its address. In the failing run a
second has four ticks and the timer's delay is one second, so that the equality
of times comes from the restart and not from the scale. A buffer of six units is
filled to the end, moved to the front and overflowed by streams of up to fifteen
units; seven streams have bodies, both versions, both `Connection` headers and
a line that is no request, `MaxSends` is out of their reach, `outputBuffer_` may
overflow; an `extrabuf` of eight
units overflows the buffer and still splits the longest streams. Six lines in buffers
of two use up the current, the spare and a newly allocated buffer before an
exchange; `rollSize_`, `checkEveryN_` and a period of two seconds make each of
the branches of `append_unlock` happen, `MaxErrors` bounds the lines a failing
disk may cost: two are a whole flush of stdio, or one line each of two files.

**Deadlock** is checked in `event_loop`. In the other runs the system may stop:
the object is destroyed, an assertion has ended the process, or the peers are silent.

**Fairness.** The loop's thread is scheduled, a thread of the pool gets into its
loop, the user's callbacks and functors
return (`WF` of the loop's steps), and a thread that pushed or stored gets to its
`wakeup()`. A poll on a zero eventfd is not among the fair steps: no liveness
result depends on traffic or on the poll's time out. A condition variable need
not wake up spuriously, nobody is obliged to start, destroy or quit anything, and
peers do what they like. A socket need never become writable. The logging thread is scheduled and
its `wait_for` times out (`WF` of `ThreadFunc`); without the time out `StopReturns`
fails, as its mutant shows, because the predicate of the wait does not look at `running_`. `WF` is enough
because a step of one of these threads is only disabled by that thread.

## 4. Proofs

*For any sets of threads and functors* (`EventLoopProofs`; no assumption on the
constants):

- `TypeCorrect`, `LoopInvariant`: `LoopInv` is inductive. `NoSleepOnWork` alone
  is not: it says nothing of a loop that is about to enter `epoll_wait`.
  `LoopInv` says that outside the stretch between the return of poll and the
  swap, waiting functors come with a wakeup that is still to be consumed (the
  eventfd is readable or a caller is about to write it), a quit in `poll` does
  too, `callingPendingFunctors_` holds exactly while functors run, the batch is empty
  outside that phase, and the list of active channels is empty outside
  dispatching. A wakeup is consumed in `handle` only, which always leads to a
  swap; that is the argument.
- `NeverSleepsOnWork`, `NeverReadsEmpty`: `NoSleepOnWork` and `NoEmptyRead`
  follow from it.
- `LoopImplementsExecutor`: with `backlog <- functors \o pendingFunctions_` every
  step is a step of `SerialExecutor` or a stutter. The swap is a stutter because
  the batch is empty when it happens, which is the conjunct of `LoopInv` used.
- `RunsInOrder`: the FIFO equation.

*For any set of functors* (`EventLoopThreadProofs`): `OwnerInv` is inductive
(`OwnerInvariant`), and gives `PublishedNeverDangles` and
`ThreadNeverOutlivesObject`. Neither is inductive alone: they rest on `quit_` being set
by the destructor only, so that a loop that ends was asked to by an owner that
is waiting for its thread.

*For any number of connections, messages, loops and thread numbers*
(`TcpServerProofs`, from `PoolAssumption`, `ConnsAssumption`, `SendsAssumption`,
`OverflowsAssumption` and `EventListAssumption`: a pool does not have more
threads than there are loops to create, the connections are finitely many, any of
the two buffers may overflow, the event list has at least one place): `ServerInv` is inductive
(`ServerInvariant`), and gives `ServerTypes`, `ServerErasedOnce`,
`ServerCtlNeverRefused`, `ServerWatchedIsAlive`, `ServerCallbackOrder`,
`ServerFinWhenDrained` and `ServerNothingLost`. They do not stand alone: what a functor finds when its turn comes was decided when it was
queued, in another thread. `ServerInv` follows what still waits, `Waits[l]`, the
rest of the batch and the queue of each loop. `connectEstablished` waits at most
once, in the connection's loop, for a connection that is new;
`removeConnectionInLoop` waits at most once, in the base loop, for one that is
down and still in the map; `connectDestoryed` comes behind
`connectEstablished`, and it is there whenever the map has let go of a channel
that epoll still watches. While the server is up the map has every connection
that is not down. While the map has a connection that is up nothing takes its
channel out of epoll (`Kept`), and the channel listens for `EPOLLOUT` exactly while
`outputBuffer_` holds something (`Listens`). A channel that was reported and is still to be served is
watched, or its remaining events close nothing. Most steps concern one
connection; lemmas (`LifeFrame`, `ActiveFrame`, `Quiet`) leave the others alone.
What a handler does with its connection is in the lemmas of
`TcpConnectionProofs`, one for each operator: a well-formed channel agrees with
`channels_` and the kernel before and after, what `send` accepted is counted
once, and the FIN waits for the buffer.

*For any threads, addresses, times, intervals, seconds and bounds* (`TimerQueueProofs`,
from `ThreadAssumption`, `AddrAssumption`, `TimeAssumption` and `BoundAssumption`:
the loop's thread is one of the threads, addresses are finitely many positive
numbers, times and delays are natural numbers, and neither a second nor the first
value of the clock is 0): `QueueInv` is inductive
(`QueueInvariant`), and gives `QueueTypes`, `QueueSetsAgree`,
`QueueIdNamesItsTimer`, `QueueCancelledIsGone` and `QueueAlarmForFirst`.
`IdNamesItsTimer` alone is not inductive: that an old `TimerId` misses the next
timer at its address rests on the numbers. `Ids` says that such a timer was
constructed after the id's number was drawn, if the number was read while the
id's own timer was there, and `Numbers` that a timer's
sequence number is never less than the number of its construction, though it
may be greater and then the same as another's. `OnePlace` keeps each address in
one of queue, batch, functor and construction; `Dead` keeps a cancelled timer
that is still there in the batch, with its mark; `Armed` says, during a batch
too, what is known of the alarm and of the moment it was set. Nothing is proved of
the ids read late, and nothing of how long a timer waits: each new arming counts
from the clock of then.

*For any streams and a buffer of any size* (`HttpServerProofs`, from
`BufferAssumption` and `StreamsAssumption`: the buffer holds at least one unit,
twice its size and twice `extrabuf` are less than a `size_t` counts, streams
consist of tokens): `HttpInv` is inductive (`HttpInvariant`), and gives
`HttpTypes`, `HttpBufferKeepsStream`, `HttpClosingReplyIsLast` and, with the
parser's lemmas, the action property `HttpWholeRequestAnswered`. Its core is
`Holds`: the cells between the two indices are the part of the stream that was
read and not taken, also when they lie beyond `buffer_.size()`. That a read
after an overflow would write to a wrong place is excluded because the kernel
then refuses the length (`Writable`, `ReadFdOK`), and that `reserve`, which copies
`size()` cells only, drops a unit, because the buffer was within its size before
(`ReserveOK`). `HttpClosingReplyIsLast` speaks of the FIN too, from the lemmas of
`TcpConnectionProofs` on the counters of the output. `HttpRepliesInOrder` needs `OrderInv`:
as long as the connection is open, as many request lines were taken out as
there are answers, unless the parser was thrown away with half a request in it,
after which the next line parsed is an error. It has the hypothesis
`RequestsApart`, that an empty line lies between two request lines of a stream.
All streams of the runs satisfy it, and it cannot be dropped: on a stream
without that empty line half a request is followed by a request line, and TLC
then shows the second request answered in the place of the first.

*For buffers, files, periods and bounds of any size* (`AsyncLoggingProofs`, from
`LogFileAssumption` and `LoggingAssumption`: sizes are natural numbers, a buffer
holds at least one line): `LogInv` is inductive (`LoggingInvariant`), and gives
`LoggingType`, `BackIsValid` and `IdleMeansWritten`. `BackExists` alone is not
inductive: that the second `back()` finds a buffer rests on `nextBuffer_` being
empty only while a full buffer waits in `buffers_`, and on the thread waiting
with both of its own buffers in hand. Lemmas on the operators of `LogFile` show
that each returns a well-formed file, that `flush` and `rollFile` keep the lines,
but for those a failed call gives up, and that `flush` leaves nothing in `stdio`, whether it fails or not. `LinesStayInOrder` proves
`LinesInOrder` with `OrderInv`, which adds that nothing is in the file before the
thread starts. The places of the lines are the file, the thread's unwritten
buffers, the full buffers and the current one: line numbers ascend within and
between them, and together they hold the lines appended less those a failed
`fwrite`, `fflush` or `fclose` has cost. Said of any two lines rather than of the concatenation of the
buffers, it needs no induction over their number.

Each inductive invariant was first checked by TLC, as an invariant of the
instance its run uses.

*Only model-checked:* liveness (`EventuallyRun`, `QuitEndsLoop`,
`StartloopReturns`, `RunningLoopIsJoined`, `PeerCloseCleansUp`,
`DestructorEnds`, `StopReturns`), since fairness is out of the prover's reach.
Every safety property of a passing run has a theorem.

## 5. Findings

1. **Lost quit.** `loop()` clears `quit_` (Eventloop.cpp:50). An
   `EventLoopThread` destroyed after `startloop` returned and before its thread
   has entered `loop()` waits in `join` for ever. `RunningLoopIsJoined` shows
   that this is the only way: once the thread loops, it is joined. A `TcpServer`
   with a pool meets it as well, when it is destroyed right after `start()`
   (`DestructorEnds` leaves it out).
2. **quit() on a dead loop.** `quit()` stores first and wakes after
   (Eventloop.cpp:68-70); the loop may end in between, and `wakeup()` uses an
   object that is gone.
3. **A closed connection revived.** `sendInLoop` reports a disconnected
   connection and goes on (TcpConnection.cpp:132). After a `send()` of another
   thread that raced the close, the channel is added to epoll again, the next
   `EPOLLHUP` closes it again, and the assertion `n==1` of Tcpserver.cpp:90
   fails. Without such threads (`tcp_server_pair`) it holds.
4. **A one-shot timer aborts the process.** `Timer::repeat_` is set from the
   time and not from the interval (Timer.h:28), so a timer of `runAfter` is
   inserted again, with the current second as its time. Its alarm comes after
   100 microseconds, and if the Timer that `getExpired` compares with has the
   lower address, the assertion at TimerQueue.cpp:152 fails. With the higher
   address and no later timer `lower_bound` is `end()`, nothing is taken out, and
   the alarm comes again every 100 microseconds.
5. **The write index passes the size.** `makeSpace` reserves where it should
   resize (Buffer.h:167). A read that overflows the buffer leaves
   `writeIndex_ > buffer_.size()`, against the picture at Buffer.h:17;
   `writableBytes()` wraps around, and unless the handler of that read empties the
   buffer every later `readv` fails and the connection reads nothing more, not even the end
   of file, so that it is never cleaned up (`PeerCloseCleansUp` leaves it out).
   What the buffer holds stays right (`BufferKeepsStream`).

Seen while modelling, without a statement in the repository to check against:
the back end of the logger gets no further than its first round
(Aslogging.cpp:61, 93); a request that arrives in two reads is dropped or
answered with 400, as its parser is thrown away (HttpServer.cpp:46); a
pipelined request waits for the next read (HttpServer.cpp:57); timers set in
different seconds are ordered by seconds plus microseconds and can be taken in
the wrong order (Timestamp.cpp:12), and a timer can be late, as each re-arming of
the timerfd in its second counts the whole delay from the clock of then
(TimerQueue.cpp:25-38, against the delays of Eventloop.h:50-51); a thread that
adds a timer reads `timer->sequence()` after it has handed the Timer over, when
the loop may have deleted it (TimerQueue.cpp:101), so that its `TimerId` may name
a later timer; a second append to an `outputBuffer_` that has overflowed writes
past the capacity of the vector (Buffer.h:93, 102, 167).

## 6. Not modelled, and why

- `Socket`, `InetAddress`, `CurrentThread`, `Callbacks`: wrappers without
  control of their own.
- `LogStream`, `Logging`: formatting of numbers and lines; only the room test of
  `FixedBuffer` is part of `AsyncLogging`.
- `logger`: the text of log lines, which no component depends on.
- `threadsafe_queue`: no file of the repository uses it.
- The high water mark: nobody sets its callback, and the amount of output is not
  counted in the model.
- The text of HTTP responses, and that `to_string` sends the whole vector, the
  eight bytes in front included (Buffer.h:149).
- `Buffer::prepend`, `unwrite` and `swap`, which have no caller.
- The example programs and the programs in `out/`.
- Failing system calls at start-up (they end the process by `LOG_FATAL`).

## 7. Plan

Done, in this order: `SerialExecutor`, `EventLoop`, its proofs,
`EventLoopThread`, its proofs, `Channel`, `TcpConnection`, `TcpServer`,
`TcpServerUsers`, `TimerQueue`, `Buffer`, `HttpServer`, `LogFile`,
`AsyncLogging`, its proofs; then the proofs of `TimerQueue`, `TcpServer` on top of
`TcpConnection` and `Channel`, and `HttpServer` on top of `Buffer`, and the order of
the lines of `AsyncLogging`.

Next:

1. `TcpServerUsers`: which of the properties of `TcpServer` survive threads that
   call `send` and `shutdown` (`NothingLost` and `CtlNeverRefused` are the
   candidates, `ErasedOnce` is refuted), and their proofs, from the lemmas of
   `TcpConnectionProofs`.
2. The use of a loop as a serial executor in `TcpServer` is argued in section 2.
   It could be stated as a refinement: the projection of `TcpServer` to the
   queue of one loop implements `SerialExecutor`.
3. An abstract specification of a connection (new, up, closing, down) that
   `TcpServer` implements for each connection.
