------------------------------ MODULE TcpServer ------------------------------
(***************************************************************************)
(* class TcpServer (resoure/Tcpserver.cpp) with its Acceptor, its thread   *)
(* pool and its connections, from start() to the end of the destructor.    *)
(*                                                                         *)
(* Each loop is the serial executor of module EventLoop with the poller in *)
(* front of it: an iteration is poll, the callbacks of the active channels *)
(* one after the other, then the functors that were pending.  A step is    *)
(* one callback or one functor, whole: within it a loop thread shares with *)
(* the others no more than one push to another loop's queue, at its end.   *)
(* The eventfd is left out: module EventLoop shows that a loop with        *)
(* pending functors does not sleep.                                        *)
(***************************************************************************)
EXTENDS TcpConnection, FiniteSets, SequencesExt

CONSTANTS Conns,        \* the connections that peers may open
          IoLoops,      \* the loops the pool would create, in order
          ThreadNums,   \* the values of setThreadNum to consider
          KInitEventListSize \* events_.size(): nothing resizes events_

ASSUME PoolAssumption ==
    IoLoops \in Seq(Range(IoLoops)) /\ ThreadNums \subseteq 0..Len(IoLoops)
ASSUME EventListAssumption == KInitEventListSize \in Nat \ {0}
ASSUME ConnsAssumption == IsFiniteSet(Conns) /\ "acceptor" \notin Conns

VARIABLES
    server,        \* new, up, closing (in ~TcpServer), gone
    acceptChannel_,\* Acceptor::acceptChannel_, see module Channel
    numThread_,    \* EventLoopThreadPoll::numThread_
    loops_, next_, \* EventLoopThreadPoll::loops_ (sequence), next_ (from 0)
    socket,        \* none, backlog (before accept()), accepted
    connections_,  \* keys of TcpServer::connections_
    ioloop,        \* loop_ of each connection
    conn,          \* the connections, see module TcpConnection
    revents,       \* revents_ of each active channel, still to be handled
    active,        \* activechannels_ of each loop, the current one first
    guard,         \* connections that the guard of handleEvent keeps alive
    pending,       \* pendingFunctions_ of each loop
    functors, pos, \* the batch of each loop, and how many of it were called
    lpc,           \* where each loop is
    quit,          \* of each loop: quit() was not called, it has set quit_,
                   \* or it has and loop() has cleared it again (lost)
    faults         \* assertions that failed, dangling pointers that were used

serverVars == <<acceptChannel_, numThread_, loops_, next_>>
loopVars == <<active, revents, guard, pending, functors, pos, lpc, quit>>
connVars == <<socket, connections_, ioloop, conn>>
vars == <<server, acceptChannel_, numThread_, loops_, next_, socket, connections_,
          ioloop, conn, revents, active, guard, pending, functors, pos, lpc, quit, faults>>

Base == "base"
Loops == {Base} \cup Range(IoLoops)
Acceptor == "acceptor"

\* A functor: op is the bound member function, c its connection.  remove is
\* TcpServer::removeConnectionInLoop.  sendInLoop and shutdownInLoop are
\* bound to a bare this, the others to a TcpConnectionPtr.
Functor(op, c) == [op |-> op, c |-> c]
OwningOps == {"established", "destroyed", "remove", "complete"}
BareOps == {"sendInLoop", "shutdownInLoop"}
FunctorType == [op : OwningOps \cup BareOps, c : Conns]

\* What keeps connection c alive: the map, the guard that handleEvent took
\* from tie_, and the functors that wait or belong to a batch that is not
\* over (the vector dies with the batch).
Alive(c) ==
    \/ c \in connections_
    \/ c \in guard
    \/ \E l \in Loops : \E f \in Range(pending[l]) \cup Range(functors[l]) :
          f.c = c /\ f.op \in OwningOps

Init ==
    /\ server = "new"
    /\ acceptChannel_ = NewChannel
    /\ numThread_ \in ThreadNums
    /\ loops_ = <<>>
    /\ next_ = 0
    /\ socket = [c \in Conns |-> "none"]
    /\ connections_ = {}
    /\ ioloop = [c \in Conns |-> Base]
    /\ conn = [c \in Conns |-> NewConnection]
    /\ revents = [c \in Conns |-> {}]
    /\ active = [l \in Loops |-> <<>>]
    /\ guard = {}
    /\ pending = [l \in Loops |-> <<>>]
    /\ functors = [l \in Loops |-> <<>>]
    /\ pos = [l \in Loops |-> 0]
    /\ lpc = [l \in Loops |-> "none"]
    /\ quit = [l \in Loops |-> "no"]
    /\ faults = {}

-----------------------------------------------------------------------------
(* The peers.                                                              *)

PeerConnect(c) ==
    /\ server = "up"
    /\ socket[c] = "none"
    /\ socket' = [socket EXCEPT ![c] = "backlog"]
    /\ UNCHANGED <<server, connections_, ioloop, conn, serverVars, loopVars, faults>>

\* Bound: one unread message at a time.
PeerSend(c) ==
    /\ socket[c] # "none"
    /\ conn[c].peer = "open"
    /\ conn[c].rx = 0
    /\ conn' = [conn EXCEPT ![c].rx = 1]
    /\ UNCHANGED <<server, socket, connections_, ioloop, serverVars, loopVars, faults>>

PeerClose(c) ==
    /\ socket[c] # "none"
    /\ conn[c].peer = "open"
    /\ conn' = [conn EXCEPT ![c].peer = "fin"]
    /\ UNCHANGED <<server, socket, connections_, ioloop, serverVars, loopVars, faults>>

\* A reset leaves an error behind the data that was not read yet.
PeerReset(c) ==
    /\ socket[c] # "none"
    /\ conn[c].peer # "rst"
    /\ conn' = [conn EXCEPT ![c].peer = "rst", ![c].err = TRUE]
    /\ UNCHANGED <<server, socket, connections_, ioloop, serverVars, loopVars, faults>>

-----------------------------------------------------------------------------
(* Starting, and handing out loops.                                        *)

\* EventLoopThreadPoll::start: the threads are started one by one, and
\* startloop returns a loop that its thread has published and will enter.
StartPool ==
    /\ loops_' = SubSeq(IoLoops, 1, numThread_)
    /\ lpc' = [l \in Loops |-> IF l = Base THEN "poll"
                               ELSE IF l \in Range(loops_') THEN "starting" ELSE "none"]

\* Acceptor::listen
Listen == acceptChannel_' = EnableReading(acceptChannel_)

\* TcpServer::start; then the user calls loop() on the base loop.
Start ==
    /\ server = "new"
    /\ server' = "up"
    /\ StartPool
    /\ Listen
    /\ UNCHANGED <<numThread_, next_, connVars, active, revents, guard, pending,
                   functors, pos, quit, faults>>

\* Mutant: off by one in the wrap-around.
NextIndex_NoWrap == IF loops_ = <<>> THEN next_
                    ELSE IF next_ + 1 > Len(loops_) THEN 0 ELSE next_ + 1

\* EventLoopThreadPoll::getNextLoop: the loop, and next_ after the call.
NextLoop == IF loops_ = <<>> THEN Base ELSE loops_[next_ + 1]
NextIndex == IF loops_ = <<>> THEN next_
             ELSE IF next_ + 1 >= Len(loops_) THEN 0 ELSE next_ + 1

-----------------------------------------------------------------------------
(* What a handler of connection c in loop l leaves behind.                 *)

\* Functors fs are queued in loop l.
Queued(P, l, fs) == [P EXCEPT ![l] = @ \o fs]

\* removeConnectionInLoop in the base loop: the assertion n==1, then
\* connectDestoryed in the connection's loop.
Erase(c) ==
    /\ connections_' = connections_ \ {c}
    /\ faults' = IF c \in connections_ THEN faults ELSE faults \cup {"n==1"}

\* The handler ended with result r.  closeCallback_ is removeConnection: a
\* call when c lives in the base loop, a functor for the base loop if not.
Handled(l, c, r) ==
    \/ /\ r.call = "none"
       /\ conn' = [conn EXCEPT ![c] = r.k]
       /\ UNCHANGED <<connections_, pending, faults>>
    \/ /\ r.call = "complete"
       /\ conn' = [conn EXCEPT ![c] = r.k]
       /\ pending' = Queued(pending, l, <<Functor("complete", c)>>)
       /\ UNCHANGED <<connections_, faults>>
    \/ /\ r.call = "close"
       /\ l # Base
       /\ conn' = [conn EXCEPT ![c] = r.k]
       /\ pending' = Queued(pending, Base, <<Functor("remove", c)>>)
       /\ UNCHANGED <<connections_, faults>>
    \/ /\ r.call = "close"
       /\ l = Base
       /\ conn' = [conn EXCEPT ![c] = ConnectDestoryed(r.k)]
       /\ Erase(c)
       /\ UNCHANGED pending

-----------------------------------------------------------------------------
(* One iteration of loop l.                                                *)

\* What epoll reports for connection k when its socket can, or cannot, take
\* data.  EPOLLERR and EPOLLHUP come unasked, for an error that nobody has
\* read and when both directions are closed; EPOLLHUP is kept only without
\* EPOLLIN, as handleEventWithGuard tests it.
Reported(k, writable) ==
    LET in == Reading \in k.ch.epoll.events /\ (k.rx > 0 \/ k.peer # "open")
        out == Writing \in k.ch.epoll.events /\ (writable \/ Broken(k))
        hup == k.peer = "rst" \/ (k.peer = "fin" /\ k.fin)
    IN  {e \in {"HUP", "ERR", "IN", "OUT"} :
            /\ k.ch.epoll.watched
            /\ e = "HUP" => hup /\ ~in
            /\ e = "ERR" => k.err
            /\ e = "IN" => in
            /\ e = "OUT" => out}

\* A loop of the pool enters Eventloop::loop, which clears quit_.
EnterLoop(l) ==
    /\ lpc[l] = "starting"
    /\ lpc' = [lpc EXCEPT ![l] = "poll"]
    /\ quit' = [quit EXCEPT ![l] = IF @ = "set" THEN "lost" ELSE @]
    /\ UNCHANGED <<server, serverVars, connVars, active, revents, guard, pending,
                   functors, pos, faults>>

\* Mutant: quit() does not call wakeup().
Woken_ByFunctors(l) == pending[l] # <<>>

\* queueInLoop and quit() have written to the eventfd of loop l.
Woken(l) == pending[l] # <<>> \/ quit[l] = "set"

\* epoll_wait fills events_: what does not fit is for the next call.  The
\* eventfd may take one of the places.
Filled(ready) ==
    {R \in SUBSET ready :
        IF Cardinality(ready) < KInitEventListSize THEN R = ready
        ELSE Cardinality(R) \in {KInitEventListSize - 1, KInitEventListSize}}

\* A peer waits to be accepted on the listening socket.
AcceptorReady ==
    /\ Reading \in acceptChannel_.epoll.events
    /\ \E c \in Conns : socket[c] = "backlog"

\* EPollPoller::poll returns with channels that are ready, in any order; with
\* none when it was woken up.  Some of the sockets take data.
Poll(l) ==
    /\ lpc[l] = "poll"
    /\ \E W \in SUBSET {c \in Conns : ioloop[c] = l /\ IsWriting(conn[c].ch)} :
          LET rev == [c \in Conns |-> Reported(conn[c], c \in W)]
              ready == {c \in Conns : ioloop[c] = l /\ rev[c] # {}}
                       \cup (IF l = Base /\ AcceptorReady
                             THEN {Acceptor} ELSE {})
          IN  /\ ready # {} \/ Woken(l)
              /\ \E R \in Filled(ready) :
                    /\ \E order \in SetToSeqs(R) :
                          active' = [active EXCEPT ![l] = order]
                    /\ revents' = [c \in Conns |-> IF c \in R THEN rev[c] ELSE revents[c]]
    /\ lpc' = [lpc EXCEPT ![l] = "dispatch"]
    /\ UNCHANGED <<server, serverVars, connVars, guard, pending, functors, pos, quit, faults>>

\* TcpServer::newConnection: connectEstablished is called when there is no
\* pool, and queued in the next loop if there is.
NewConnectionFrom(c) ==
    /\ ioloop' = [ioloop EXCEPT ![c] = NextLoop]
    /\ next_' = NextIndex
    /\ connections_' = connections_ \cup {c}
    /\ IF NextLoop = Base
       THEN \E r \in ConnectEstablished(conn[c]) :
              /\ conn' = [conn EXCEPT ![c] = r.k]
              /\ pending' = IF r.call = "complete"
                            THEN Queued(pending, Base, <<Functor("complete", c)>>)
                            ELSE pending
       ELSE /\ pending' = Queued(pending, NextLoop, <<Functor("established", c)>>)
            /\ UNCHANGED conn

\* Acceptor::handleRead_: a peer is accepted, or accept() fails and the
\* peer stays in the backlog.
Accept ==
    /\ active[Base] # <<>>
    /\ Head(active[Base]) = Acceptor
    /\ \/ \E c \in Conns :
             /\ socket[c] = "backlog"
             /\ socket' = [socket EXCEPT ![c] = "accepted"]
             /\ NewConnectionFrom(c)
       \/ UNCHANGED <<connVars, next_, pending>>
    /\ active' = [active EXCEPT ![Base] = Tail(@)]
    /\ UNCHANGED <<server, acceptChannel_, numThread_, loops_, revents, guard,
                   functors, pos, lpc, quit, faults>>

\* handleEventWithGuard: close, error, read and write callback in this order.
FirstEvent(E) ==
    IF "HUP" \in E THEN "HUP"
    ELSE IF "ERR" \in E THEN "ERR"
    ELSE IF "IN" \in E THEN "IN" ELSE "OUT"

\* channel::handleEvent of the current channel, one callback at a time.
HandleEvent(l) ==
    /\ active[l] # <<>>
    /\ Head(active[l]) # Acceptor
    /\ LET c == Head(active[l])
           event == FirstEvent(revents[c])
           results == CASE event = "HUP" -> {HandleClose(conn[c])}
                        [] event = "ERR" -> {Result(HandleError(conn[c]), "none")}
                        [] event = "IN"  -> HandleRead(conn[c])
                        [] event = "OUT" -> HandleWrite(conn[c])
       IN  /\ \E r \in results : Handled(l, c, r)
           /\ revents' = [revents EXCEPT ![c] = @ \ {event}]
           /\ IF revents[c] = {event}
              THEN /\ active' = [active EXCEPT ![l] = Tail(@)]
                   /\ guard' = guard \ {c}
              ELSE /\ guard' = guard \cup {c}
                   /\ UNCHANGED active
    /\ UNCHANGED <<server, serverVars, socket, ioloop, functors, pos, lpc, quit>>

\* doPendingFunctors, up to the swap.
DoPendingFunctors(l) ==
    /\ lpc[l] = "dispatch"
    /\ active[l] = <<>>
    /\ functors' = [functors EXCEPT ![l] = pending[l]]
    /\ pending' = [pending EXCEPT ![l] = <<>>]
    /\ pos' = [pos EXCEPT ![l] = 0]
    /\ lpc' = [lpc EXCEPT ![l] = "functors"]
    /\ UNCHANGED <<server, serverVars, connVars, active, revents, guard, quit, faults>>

\* The functor of loop l that is called next.
Current(l) == functors[l][pos[l] + 1]
Calling(l, op) ==
    /\ lpc[l] = "functors"
    /\ pos[l] < Len(functors[l])
    /\ Current(l).op = op
    /\ pos' = [pos EXCEPT ![l] = @ + 1]
    /\ UNCHANGED <<server, serverVars, socket, ioloop, active, revents, guard, functors,
                   lpc, quit>>

RunEstablished(l) ==
    /\ Calling(l, "established")
    /\ LET c == Current(l).c
       IN  \E r \in ConnectEstablished(conn[c]) : Handled(l, c, r)

\* writeCompleteCallback_ is user code.
RunWriteComplete(l) ==
    /\ Calling(l, "complete")
    /\ LET c == Current(l).c
       IN  \E r \in UserCode(conn[c]) : Handled(l, c, r)

RunDestoryed(l) ==
    /\ Calling(l, "destroyed")
    /\ LET c == Current(l).c
       IN  conn' = [conn EXCEPT ![c] = ConnectDestoryed(@)]
    /\ UNCHANGED <<connections_, pending, faults>>

RunRemoveConnection(l) ==
    /\ Calling(l, "remove")
    /\ LET c == Current(l).c
       IN  /\ Erase(c)
           /\ pending' = Queued(pending, ioloop[c], <<Functor("destroyed", c)>>)
    /\ UNCHANGED conn

\* The batch is over: its vector is destroyed, and while(!quit_) is tested.
EndPendingFunctors(l) ==
    /\ lpc[l] = "functors"
    /\ pos[l] = Len(functors[l])
    /\ functors' = [functors EXCEPT ![l] = <<>>]
    /\ pos' = [pos EXCEPT ![l] = 0]
    /\ lpc' = [lpc EXCEPT ![l] = IF quit[l] = "set" THEN "exited" ELSE "poll"]
    /\ UNCHANGED <<server, serverVars, connVars, active, revents, guard, pending, quit,
                   faults>>

-----------------------------------------------------------------------------
(* Stopping: the base loop is left, then the TcpServer is destroyed; or it *)
(* is destroyed without ever having been started.                          *)

QuitBase ==
    /\ server = "up"
    /\ quit[Base] = "no"
    /\ quit' = [quit EXCEPT ![Base] = "set"]
    /\ UNCHANGED <<server, serverVars, connVars, active, revents, guard, pending,
                   functors, pos, lpc, faults>>

BeginDestroy ==
    /\ server = "new" \/ (server = "up" /\ lpc[Base] = "exited")
    /\ server' = "closing"
    /\ UNCHANGED <<serverVars, connVars, loopVars, faults>>

\* The loop of ~TcpServer: runInLoop is a call for a connection of the base
\* loop, whose thread this is.
DestroyConnection(c) ==
    /\ server = "closing"
    /\ c \in connections_
    /\ connections_' = connections_ \ {c}
    /\ IF ioloop[c] = Base
       THEN /\ conn' = [conn EXCEPT ![c] = ConnectDestoryed(@)]
            /\ UNCHANGED pending
       ELSE /\ pending' = Queued(pending, ioloop[c], <<Functor("destroyed", c)>>)
            /\ UNCHANGED conn
    /\ UNCHANGED <<server, serverVars, socket, ioloop, active, revents, guard, functors,
                   pos, lpc, quit, faults>>

\* ~EventLoopThreadPoll: each EventLoopThread quits its loop, and the next
\* one has its turn when the thread has been joined.
QuitLoop(i) ==
    /\ server = "closing"
    /\ connections_ = {}
    /\ quit[loops_[i]] = "no"
    /\ \A j \in 1..(i - 1) : lpc[loops_[j]] = "exited"
    /\ quit' = [quit EXCEPT ![loops_[i]] = "set"]
    /\ UNCHANGED <<server, serverVars, connVars, active, revents, guard, pending,
                   functors, pos, lpc, faults>>

\* ~Acceptor
DestroyAcceptor == acceptChannel_' = RemoveChannel(DisableAll(acceptChannel_))

\* The last thread is joined; the acceptor_ is the last member to go.
EndDestroy ==
    /\ server = "closing"
    /\ connections_ = {}
    /\ \A i \in 1..Len(loops_) : lpc[loops_[i]] = "exited"
    /\ server' = "gone"
    /\ DestroyAcceptor
    /\ UNCHANGED <<numThread_, loops_, next_, connVars, loopVars, faults>>

-----------------------------------------------------------------------------
LoopStep(l) ==
    \/ EnterLoop(l) \/ Poll(l) \/ HandleEvent(l) \/ DoPendingFunctors(l)
    \/ RunEstablished(l) \/ RunWriteComplete(l) \/ RunDestoryed(l)
    \/ RunRemoveConnection(l) \/ EndPendingFunctors(l)
    \/ l = Base /\ Accept

DestroyStep ==
    \/ BeginDestroy
    \/ \E c \in Conns : DestroyConnection(c)
    \/ \E i \in 1..Len(loops_) : QuitLoop(i)
    \/ EndDestroy

\* A failed assertion ends the process.
Next ==
    /\ faults = {}
    /\ \/ Start
       \/ \E c \in Conns : PeerConnect(c) \/ PeerSend(c) \/ PeerClose(c) \/ PeerReset(c)
       \/ \E l \in Loops : LoopStep(l)
       \/ QuitBase
       \/ DestroyStep

Spec == Init /\ [][Next]_vars

\* Every loop thread is scheduled, and so is the thread in the destructor.
\* Peers do what they like.
Fairness == (\A l \in Loops : WF_vars(faults = {} /\ LoopStep(l)))
            /\ WF_vars(faults = {} /\ DestroyStep)
FairSpec == Spec /\ Fairness

-----------------------------------------------------------------------------
TypeOK ==
    /\ server \in {"new", "up", "closing", "gone"}
    /\ acceptChannel_ \in ChannelType
    /\ numThread_ \in ThreadNums
    /\ loops_ \in Seq(Range(IoLoops))
    /\ next_ \in Nat /\ (next_ = 0 \/ next_ < Len(loops_))
    /\ socket \in [Conns -> {"none", "backlog", "accepted"}]
    /\ connections_ \subseteq Conns
    /\ ioloop \in [Conns -> Loops]
    /\ conn \in [Conns -> ConnectionType]
    /\ revents \in [Conns -> SUBSET {"HUP", "ERR", "IN", "OUT"}]
    /\ active \in [Loops -> Seq(Conns \cup {Acceptor})]
    /\ guard \subseteq Conns
    /\ pending \in [Loops -> Seq(FunctorType)]
    /\ functors \in [Loops -> Seq(FunctorType)]
    /\ pos \in [Loops -> Nat]
    /\ lpc \in [Loops -> {"none", "starting", "poll", "dispatch", "functors", "exited"}]
    /\ quit \in [Loops -> {"no", "set", "lost"}]
    /\ faults \subseteq {"n==1", "dangling"}

(* The assertion of removeConnectionInLoop (Tcpserver.cpp:90) holds: every *)
(* close finds its connection in the map, once.                            *)
ErasedOnce == "n==1" \notin faults

(* No epoll_ctl of a channel is refused, whatever order of handlers,       *)
(* functors and destructors there is: the LOG_FATAL of                     *)
(* EPollPoller::update (EpollPoll.cpp:114) is out of reach.                *)
CtlNeverRefused ==
    ~acceptChannel_.fatal /\ \A c \in Conns : ~conn[c].ch.fatal

(* The kernel, and the list of active channels, never hold a channel whose *)
(* connection is destroyed: the bare channel* in epoll_event does not      *)
(* dangle.                                                                 *)
WatchedIsAlive ==
    \A c \in Conns :
        conn[c].ch.epoll.watched \/ (\E l \in Loops : c \in Range(active[l]))
            => Alive(c)

(* The user hears of a connection first that it is up, then of messages,   *)
(* and last, at most once, that it is down, also when the peer's close and *)
(* the destructor of the server meet.                                      *)
CallbackOrder ==
    \A c \in Conns :
        conn[c].heard \in {<<>>, <<"up">>, <<"up", "down">>}

(* shutdown() closes the sending side exactly when everything accepted by  *)
(* send() before it has left outputBuffer_, as long as no append has       *)
(* written beyond its capacity.                                            *)
FinWhenDrained ==
    \A c \in Conns : conn[c].reach # "beyond" =>
        /\ conn[c].fin => conn[c].out = 0
        /\ conn[c].state = kDisconnecting => (conn[c].fin <=> conn[c].out = 0)

(* While a connection is in the server's map and up, and no append has     *)
(* written beyond the capacity of outputBuffer_: a message that send()     *)
(* accepted is with the kernel or in outputBuffer_, unless the peer reset  *)
(* the connection; and as long as one is in outputBuffer_, epoll watches   *)
(* for EPOLLOUT, so that handlewrite will be called.                       *)
NothingLost ==
    \A c \in connections_ :
        conn[c].state \in {kConnected, kDisconnecting} /\ conn[c].reach # "beyond" =>
            /\ conn[c].peer # "rst" => conn[c].sent = conn[c].wire + conn[c].out
            /\ conn[c].out > 0 => Writing \in conn[c].ch.epoll.events

(* A connection whose peer closed or reset it is taken out of the map, the *)
(* poller and the user's hands, unless the base loop is told to quit or    *)
(* inputBuffer_ has overflowed and the user left data in it.               *)
CleanedUp(c) ==
    /\ c \notin connections_
    /\ ~conn[c].ch.epoll.watched /\ ~conn[c].ch.mapped
    /\ "down" \in Range(conn[c].heard)
PeerCloseCleansUp ==
    \A c \in Conns :
        (socket[c] = "accepted" /\ conn[c].peer # "open")
            ~> (CleanedUp(c) \/ quit[Base] = "set" \/ conn[c].stuck)

(* ~TcpServer ends, with its threads joined, whatever its connections and  *)
(* loops are doing, unless it quits a loop of the pool that its thread has *)
(* published and not entered yet: loop() clears that quit.                 *)
DestructorEnds ==
    server = "closing" ~> (server = "gone" \/ \E l \in Loops : quit[l] = "lost")
=============================================================================
