------------------------- MODULE TcpConnectionProofs -------------------------
(***************************************************************************)
(* Lemmas about the operators of Channel and TcpConnection, for any number *)
(* of messages: what each handler of a connection promises the loop that   *)
(* calls it, whatever the kernel and the user's callbacks answer.  The     *)
(* proofs about TcpServer and HttpServer rest on them.                     *)
(***************************************************************************)
EXTENDS TcpConnection, SequenceTheorems, TLAPS

-----------------------------------------------------------------------------
(* A channel.                                                              *)

\* The kernel watches exactly the channels that index_ says are added, and
\* has never refused an epoll_ctl.
Registered(ch) == ~ch.fatal /\ (ch.epoll.watched <=> ch.index = KAdded)

\* And what it watches for is what the channel wants to hear of.
ChannelOK(ch) == Registered(ch) /\ (ch.epoll.watched => ch.epoll.events = ch.events)

\* A channel that was never added.
LEMMA NewChannelOK ==
    NewChannel \in ChannelType /\ ChannelOK(NewChannel)
BY DEF NewChannel, ChannelType, ChannelOK, Registered, Unwatched, KNew, KAdded, KDeleted

\* updateChannel is never refused; the channel is watched after it unless it
\* was and has lost its last event.
LEMMA UpdateChannelOK ==
    ASSUME NEW ch \in ChannelType, Registered(ch)
    PROVE  /\ UpdateChannel(ch) \in ChannelType
           /\ ChannelOK(UpdateChannel(ch))
           /\ UpdateChannel(ch).events = ch.events
           /\ UpdateChannel(ch).index =
                 IF ch.index = KAdded /\ ch.events = {} THEN KDeleted ELSE KAdded
<1> USE DEF ChannelType
<1> DEFINE u == UpdateChannel(ch)
<1>1. KNew # KAdded /\ KNew # KDeleted /\ KAdded # KDeleted
  BY DEF KNew, KAdded, KDeleted
<1>2. /\ Watching(ch.events) \in [watched : BOOLEAN, events : SUBSET {Reading, Writing}]
      /\ Watching(ch.events).watched = TRUE /\ Watching(ch.events).events = ch.events
      /\ Unwatched \in [watched : BOOLEAN, events : SUBSET {Reading, Writing}]
      /\ Unwatched.watched = FALSE
  BY DEF Watching, Unwatched
<1>3. CASE ch.index \in {KNew, KDeleted}
  <2> DEFINE b == ch.mapped \/ ch.index = KNew
             m == [ch EXCEPT !.index = KAdded, !.mapped = b]
  <2>1. ~ch.epoll.watched
    BY <1>1, <1>3 DEF Registered
  <2>2. b \in BOOLEAN
    BY Zenon
  <2> HIDE DEF b
  <2>3. m.epoll = ch.epoll /\ m.events = ch.events
    OBVIOUS
  <2>4. u = [m EXCEPT !.epoll = Watching(ch.events)]
    BY <1>3, <2>1, <2>3 DEF UpdateChannel, CtlAdd, b
  <2>5. /\ u \in ChannelType /\ u.events = ch.events /\ u.index = KAdded
        /\ u.fatal = ch.fatal /\ u.epoll = Watching(ch.events)
    <3> HIDE DEF u
    <3> QED
      BY <1>2, <2>2, <2>4
  <2>6. ChannelOK(u)
    <3> HIDE DEF u
    <3> QED
      BY <1>2, <2>5, Zenon DEF ChannelOK, Registered
  <2> QED
    BY <1>1, <1>3, <2>5, <2>6
<1>4. CASE ch.index = KAdded /\ ch.events = {}
  <2>1. u = [ch EXCEPT !.epoll = Unwatched, !.index = KDeleted]
    BY <1>1, <1>4 DEF UpdateChannel, CtlDel
  <2> HIDE DEF u
  <2>2. /\ u \in ChannelType /\ u.events = ch.events /\ u.index = KDeleted
        /\ u.fatal = ch.fatal /\ u.epoll = Unwatched
    BY <1>2, <2>1
  <2>3. ChannelOK(u)
    BY <1>1, <1>2, <2>2, Zenon DEF ChannelOK, Registered
  <2> QED
    BY <1>4, <2>2, <2>3 DEF u
<1>5. CASE ch.index = KAdded /\ ch.events # {}
  <2>1. ch.epoll.watched
    BY <1>5, Zenon DEF Registered
  <2>2. u = [ch EXCEPT !.epoll = Watching(ch.events)]
    BY <1>1, <1>5, <2>1 DEF UpdateChannel, CtlMod
  <2> HIDE DEF u
  <2>3. /\ u \in ChannelType /\ u.events = ch.events /\ u.index = KAdded
        /\ u.fatal = ch.fatal /\ u.epoll = Watching(ch.events)
    BY <1>2, <1>5, <2>2
  <2>4. ChannelOK(u)
    BY <1>2, <1>5, <2>3, Zenon DEF ChannelOK, Registered
  <2> QED
    BY <1>5, <2>3, <2>4 DEF u
<1> QED
  BY <1>3, <1>4, <1>5

\* removeChannel takes the channel out of epoll and of the map.
LEMMA RemoveChannelOK ==
    ASSUME NEW ch \in ChannelType, ChannelOK(ch)
    PROVE  /\ RemoveChannel(ch) \in ChannelType
           /\ ChannelOK(RemoveChannel(ch))
           /\ RemoveChannel(ch).events = ch.events
           /\ RemoveChannel(ch).index = KNew
<1> USE DEF ChannelType
<1> DEFINE u == RemoveChannel(ch)
           x == IF ch.index = KAdded THEN Unwatched ELSE ch.epoll
<1>1. KNew # KAdded
  BY DEF KNew, KAdded
<1>2. /\ Unwatched \in [watched : BOOLEAN, events : SUBSET {Reading, Writing}]
      /\ Unwatched.watched = FALSE
  BY DEF Unwatched
<1>3. x \in [watched : BOOLEAN, events : SUBSET {Reading, Writing}]
  BY <1>2
<1>4. ~x.watched
  BY <1>2, Zenon DEF ChannelOK, Registered
<1>5. u = [ch EXCEPT !.epoll = x, !.mapped = FALSE, !.index = KNew]
  BY DEF RemoveChannel, CtlDel
<1> HIDE DEF u, x
<1>6. /\ u \in ChannelType /\ u.events = ch.events /\ u.index = KNew
      /\ u.fatal = ch.fatal /\ u.epoll = x
  BY <1>3, <1>5
<1>7. ChannelOK(u)
  BY <1>1, <1>4, <1>6, Zenon DEF ChannelOK, Registered
<1> QED
  BY <1>6, <1>7 DEF u

\* enableReading and its relatives.
LEMMA EnableDisableOK ==
    ASSUME NEW ch \in ChannelType, ChannelOK(ch),
           NEW E \in SUBSET {Reading, Writing},
           NEW u, u = UpdateChannel([ch EXCEPT !.events = E])
    PROVE  /\ u \in ChannelType
           /\ ChannelOK(u)
           /\ u.events = E
           /\ u.index = IF ch.index = KAdded /\ E = {} THEN KDeleted ELSE KAdded
<1> DEFINE m == [ch EXCEPT !.events = E]
<1>1. m \in ChannelType /\ Registered(m) /\ m.events = E /\ m.index = ch.index
  BY DEF ChannelType, ChannelOK, Registered
<1> HIDE DEF m
<1> QED
  BY <1>1, UpdateChannelOK DEF m

-----------------------------------------------------------------------------
(* A connection.                                                           *)

Live(k) == k.state \in {kConnected, kDisconnecting}

\* handleEvent may call it: the channel was not removed.
Ready(k) == Live(k) /\ k.ch.index = KAdded

\* What send() accepted is with the kernel, in outputBuffer_, or lost to a
\* reset.
Counts(k) ==
    /\ k.wire + k.out <= k.sent
    /\ k.peer # "rst" => k.sent = k.wire + k.out

\* The FIN is sent when shutdown() was called and outputBuffer_ is empty.
Drains(k) ==
    /\ k.fin => k.out = 0 /\ k.state \in {kDisconnecting, kDisconnected}
    /\ k.state = kDisconnecting /\ k.out = 0 => k.fin

\* What the channel listens for in each state: before and after its life
\* nothing; during it messages of the peer, and EPOLLOUT exactly while
\* outputBuffer_ holds something.
Listens(k) ==
    /\ ChannelOK(k.ch)
    /\ k.state = kConnecting => k.ch = NewChannel /\ k.out = 0
    /\ Live(k) => /\ k.ch.index # KDeleted
                  /\ Reading \in k.ch.events
                  /\ Writing \in k.ch.events <=> k.out > 0
    /\ k.state = kConnected => k.ch.index = KAdded
    /\ k.state = kDisconnected => k.ch.index # KAdded /\ k.ch.events = {}

ConnOK(k) == k \in ConnectionType /\ Counts(k) /\ Drains(k) /\ Listens(k)

\* A handler that neither opens nor closes the connection.
Keeps(k, m) ==
    /\ m.ch.index = k.ch.index
    /\ Live(m) <=> Live(k)
    /\ m.state = k.state \/ Live(m)
    /\ m.heard = k.heard

\* The states are four.
LEMMA StatesDiffer ==
    /\ kConnecting # kConnected /\ kConnecting # kDisconnecting
    /\ kConnecting # kDisconnected /\ kConnected # kDisconnecting
    /\ kConnected # kDisconnected /\ kDisconnecting # kDisconnected
    /\ KNew # KAdded /\ KNew # KDeleted /\ KAdded # KDeleted
    /\ Reading # Writing
BY DEF kConnecting, kConnected, kDisconnecting, kDisconnected, KNew, KAdded, KDeleted,
       Reading, Writing

\* The fields of a connection.
LEMMA ConnectionFields ==
    ASSUME NEW k \in ConnectionType
    PROVE  /\ k.state \in {kConnecting, kConnected, kDisconnecting, kDisconnected}
           /\ k.ch \in ChannelType /\ k.ch.events \in SUBSET {Reading, Writing}
           /\ k.ch.index \in {KNew, KAdded, KDeleted}
           /\ k.sent \in 0..MaxSends /\ k.wire \in 0..MaxSends /\ k.out \in 0..MaxSends
           /\ k.sent \in Nat /\ k.wire \in Nat /\ k.out \in Nat
           /\ k.fin \in BOOLEAN /\ k.rx \in {0, 1} /\ k.peer \in {"open", "fin", "rst"}
           /\ k.err \in BOOLEAN /\ k.heard \in Seq({"up", "message", "down"})
           /\ k.reach \in {"size", "capacity", "beyond"} /\ k.stuck \in BOOLEAN
<1>1. MaxSends \in Nat
  BY SendsAssumption
<1>2. /\ k.state \in {kConnecting, kConnected, kDisconnecting, kDisconnected}
      /\ k.ch \in ChannelType
      /\ k.sent \in 0..MaxSends /\ k.wire \in 0..MaxSends /\ k.out \in 0..MaxSends
      /\ k.fin \in BOOLEAN /\ k.rx \in {0, 1} /\ k.peer \in {"open", "fin", "rst"}
      /\ k.err \in BOOLEAN /\ k.heard \in Seq({"up", "message", "down"})
      /\ k.reach \in {"size", "capacity", "beyond"} /\ k.stuck \in BOOLEAN
  BY Zenon DEF ConnectionType
<1>3. k.ch.events \in SUBSET {Reading, Writing} /\ k.ch.index \in {KNew, KAdded, KDeleted}
  BY <1>2, Zenon DEF ChannelType
<1> QED
  BY <1>1, <1>2, <1>3

\* A new connection.
LEMMA NewConnectionOK ==
    ConnOK(NewConnection) /\ NewConnection.state = kConnecting /\ NewConnection.heard = <<>>
<1> DEFINE k == NewConnection
<1>1. /\ k.state = kConnecting /\ k.ch = NewChannel /\ k.sent = 0 /\ k.wire = 0 /\ k.out = 0
      /\ k.fin = FALSE /\ k.peer = "open" /\ k.heard = <<>>
  BY DEF NewConnection
<1>2. k \in ConnectionType
  BY NewChannelOK, SendsAssumption DEF NewConnection, ConnectionType
<1> HIDE DEF k
<1>3. Counts(k)
  BY <1>1 DEF Counts
<1>4. Drains(k)
  BY <1>1, StatesDiffer, Zenon DEF Drains
<1>5. Listens(k)
  BY <1>1, StatesDiffer, NewChannelOK, Zenon DEF Listens, Live
<1> QED
  BY <1>1, <1>2, <1>3, <1>4, <1>5 DEF ConnOK, k

\* send(): accepted messages go to the kernel or to outputBuffer_; only a
\* reset connection loses one.
LEMMA SendOK ==
    ASSUME NEW k, ConnOK(k), NEW r \in Send(k)
    PROVE  ConnOK(r.k) /\ Keeps(k, r.k) /\ r.k.state = k.state /\ r.call \in {"none", "complete"}
<1>1. k \in ConnectionType /\ Counts(k) /\ Drains(k) /\ Listens(k)
  BY DEF ConnOK
<1>2. CASE ~(k.state = kConnected /\ k.sent < MaxSends)
  BY <1>2 DEF Send, Result, Keeps
<1>3. CASE k.state = kConnected /\ k.sent < MaxSends
  <2> DEFINE a == [k EXCEPT !.sent = @ + 1]
             n == k.sent + 1
  <2>1. k.sent \in Nat /\ k.wire \in Nat /\ k.out \in Nat /\ MaxSends \in Nat
        /\ k.wire <= MaxSends /\ k.out <= MaxSends
    BY <1>1, ConnectionFields, SendsAssumption
  <2>2. k.fin = FALSE
    BY <1>1, <1>3, StatesDiffer, ConnectionFields, Zenon DEF Drains
  <2>3. /\ Live(k) /\ k.ch \in ChannelType /\ ChannelOK(k.ch) /\ k.ch.index = KAdded
        /\ Reading \in k.ch.events /\ k.ch.events \in SUBSET {Reading, Writing}
        /\ Writing \in k.ch.events <=> k.out > 0
    BY <1>1, <1>3, ConnectionFields, Zenon DEF Listens, Live
  <2>4. n \in 0..MaxSends /\ n \in Nat /\ k.wire + k.out < n
    BY <1>1, <1>3, <2>1 DEF Counts
  <2>5. /\ a \in ConnectionType
        /\ a.state = k.state /\ a.ch = k.ch /\ a.sent = n /\ a.wire = k.wire /\ a.out = k.out
        /\ a.fin = k.fin /\ a.peer = k.peer /\ a.heard = k.heard
    BY <1>1, <2>4 DEF ConnectionType
  <2>6. r \in SendInLoop(a)
    BY <1>3 DEF Send
  <2> HIDE DEF a, n
  <2> DEFINE e == IF IsWriting(a.ch) THEN a.ch ELSE EnableWriting(a.ch)
             written == [a EXCEPT !.wire = @ + 1]
             Buffered(reach) == [a EXCEPT !.out = @ + 1, !.reach = reach, !.ch = e]
             lost == [a EXCEPT !.err = FALSE]
  <2>0. PICK reach \in {"size", "capacity", "beyond"} :
           \/ r = Result(written, "complete")
           \/ r = Result(Buffered(reach), "none")
           \/ r = Result(lost, "none") /\ Broken(a)
    <3>1. Appended(a) \subseteq {"size", "capacity", "beyond"}
      BY <2>5, ConnectionFields DEF Appended
    <3>2. \/ r = Result(written, "complete")
          \/ \E reach \in Appended(a) : r = Result(Buffered(reach), "none")
          \/ r = Result(lost, "none") /\ Broken(a)
      BY <2>6 DEF SendInLoop
    <3> HIDE DEF e, written, Buffered, lost
    <3> QED
      BY <3>1, <3>2
  <2> DEFINE buffered == Buffered(reach)
  <2>7. \/ r = Result(written, "complete")
        \/ r = Result(buffered, "none")
        \/ r = Result(lost, "none") /\ Broken(a)
    BY <2>0
  <2>8. e \in ChannelType /\ ChannelOK(e) /\ e.index = KAdded /\ e.events = k.ch.events \cup {Writing}
    <3>1. CASE Writing \in k.ch.events
      BY <2>3, <2>5, <3>1 DEF IsWriting
    <3>2. CASE Writing \notin k.ch.events
      <4> DEFINE E == k.ch.events \cup {Writing}
      <4>1. e = UpdateChannel([k.ch EXCEPT !.events = E])
        BY <2>5, <3>2 DEF IsWriting, EnableWriting
      <4>2. E \in SUBSET {Reading, Writing} /\ E # {}
        BY <2>3
      <4> HIDE DEF E, e
      <4>3. e \in ChannelType /\ ChannelOK(e) /\ e.index = KAdded /\ e.events = E
        BY <2>3, <4>1, <4>2, EnableDisableOK
      <4> QED
        BY <4>3 DEF E
    <3> QED
      BY <3>1, <3>2
  <2>9. k.peer # "rst" => n = k.wire + k.out + 1
    BY <1>1, <2>1 DEF Counts, n
  <2> HIDE DEF e
  <2>10. CASE r = Result(written, "complete")
    <3>1. /\ written \in ConnectionType
          /\ written.state = k.state /\ written.ch = k.ch /\ written.sent = n
          /\ written.wire = k.wire + 1 /\ written.out = k.out /\ written.fin = FALSE
          /\ written.peer = k.peer /\ written.heard = k.heard
      <4>1. k.wire + 1 \in 0..MaxSends
        BY <2>1, <2>4
      <4> QED
        BY <2>2, <2>5, <4>1 DEF ConnectionType
    <3> HIDE DEF written
    <3>2. Counts(written)
      BY <2>1, <2>4, <2>9, <3>1 DEF Counts
    <3>3. Drains(written) /\ Live(written)
      BY <1>3, <2>3, <3>1, StatesDiffer, Zenon DEF Drains, Live
    <3>4. Listens(written)
      BY <1>1, <3>1 DEF Listens, Live
    <3>5. r.k = written /\ r.call = "complete"
      BY <2>10 DEF Result
    <3> QED
      BY <2>3, <3>1, <3>2, <3>3, <3>4, <3>5 DEF ConnOK, Keeps
  <2>11. CASE r = Result(buffered, "none")
    <3>1. /\ buffered \in ConnectionType
          /\ buffered.state = k.state /\ buffered.ch = e /\ buffered.sent = n
          /\ buffered.wire = k.wire /\ buffered.out = k.out + 1 /\ buffered.fin = FALSE
          /\ buffered.peer = k.peer /\ buffered.heard = k.heard
      <4>1. k.out + 1 \in 0..MaxSends
        BY <2>1, <2>4
      <4> QED
        BY <2>2, <2>5, <2>8, <4>1 DEF ConnectionType
    <3> HIDE DEF buffered
    <3>2. Counts(buffered)
      BY <2>1, <2>4, <2>9, <3>1 DEF Counts
    <3>3. Drains(buffered) /\ Live(buffered)
      BY <1>3, <2>3, <3>1, StatesDiffer, Zenon DEF Drains, Live
    <3>4. Listens(buffered)
      <4>1. k.out + 1 > 0
        BY <2>1
      <4>2. Reading \in e.events /\ Writing \in e.events
        BY <2>3, <2>8
      <4> QED
        BY <1>3, <2>8, <3>1, <4>1, <4>2, StatesDiffer DEF Listens, Live
    <3>5. r.k = buffered /\ r.call = "none"
      BY <2>11 DEF Result
    <3> QED
      BY <2>3, <2>8, <3>1, <3>2, <3>3, <3>4, <3>5 DEF ConnOK, Keeps
  <2>12. CASE r = Result(lost, "none") /\ Broken(a)
    <3>1. /\ lost \in ConnectionType
          /\ lost.state = k.state /\ lost.ch = k.ch /\ lost.sent = n
          /\ lost.wire = k.wire /\ lost.out = k.out /\ lost.fin = FALSE
          /\ lost.peer = k.peer /\ lost.heard = k.heard
      BY <2>2, <2>5 DEF ConnectionType
    <3> HIDE DEF lost
    <3>2. k.peer = "rst"
      BY <2>2, <2>5, <2>12, Zenon DEF Broken
    <3>3. Counts(lost)
      BY <2>1, <2>4, <3>1, <3>2 DEF Counts
    <3>4. Drains(lost) /\ Live(lost)
      BY <1>3, <2>3, <3>1, StatesDiffer, Zenon DEF Drains, Live
    <3>5. Listens(lost)
      BY <1>1, <3>1 DEF Listens, Live
    <3>6. r.k = lost /\ r.call = "none"
      BY <2>12 DEF Result
    <3> QED
      BY <2>3, <3>1, <3>3, <3>4, <3>5, <3>6 DEF ConnOK, Keeps
  <2> QED
    BY <2>7, <2>10, <2>11, <2>12
<1> QED
  BY <1>2, <1>3

\* shutdown() in the loop's thread: the FIN now, or when outputBuffer_ is
\* empty.
LEMMA ShutdownOK ==
    ASSUME NEW k, ConnOK(k)
    PROVE  /\ ConnOK(Shutdown(k)) /\ Keeps(k, Shutdown(k))
           /\ Shutdown(k).state # kConnected
           /\ k.state # kConnected => Shutdown(k) = k
<1>1. k \in ConnectionType /\ Counts(k) /\ Drains(k) /\ Listens(k)
  BY DEF ConnOK
<1>2. CASE k.state # kConnected
  BY <1>2 DEF Shutdown, Keeps
<1>3. CASE k.state = kConnected
  <2> DEFINE a == [k EXCEPT !.state = kDisconnecting]
             b == [a EXCEPT !.fin = TRUE]
             m == Shutdown(k)
  <2>1. m = IF Writing \in k.ch.events THEN a ELSE b
    <3>1. a.ch = k.ch
      BY <1>1 DEF ConnectionType
    <3> HIDE DEF a
    <3> QED
      BY <1>3, <3>1 DEF Shutdown, ShutdownInLoop, IsWriting, a
  <2>2. k.fin = FALSE
    BY <1>1, <1>3, StatesDiffer, ConnectionFields, Zenon DEF Drains
  <2>3. /\ a \in ConnectionType /\ a.state = kDisconnecting /\ a.ch = k.ch
        /\ a.sent = k.sent /\ a.wire = k.wire /\ a.out = k.out /\ a.fin = FALSE
        /\ a.peer = k.peer /\ a.heard = k.heard
    BY <1>1, <2>2 DEF ConnectionType
  <2> HIDE DEF a
  <2>4. /\ b \in ConnectionType /\ b.state = kDisconnecting /\ b.ch = k.ch
        /\ b.sent = k.sent /\ b.wire = k.wire /\ b.out = k.out /\ b.fin = TRUE
        /\ b.peer = k.peer /\ b.heard = k.heard
    BY <2>3 DEF ConnectionType
  <2> HIDE DEF b, m
  <2>5. /\ m \in ConnectionType /\ m.state = kDisconnecting /\ m.ch = k.ch
        /\ m.sent = k.sent /\ m.wire = k.wire /\ m.out = k.out
        /\ m.fin = (Writing \notin k.ch.events)
        /\ m.peer = k.peer /\ m.heard = k.heard
    BY <2>1, <2>3, <2>4, Zenon
  <2>6. Writing \in k.ch.events <=> k.out > 0
    BY <1>1, <1>3, Zenon DEF Listens, Live
  <2>7. Writing \notin k.ch.events <=> k.out = 0
    BY <1>1, <2>6, ConnectionFields
  <2>8. Counts(m)
    BY <1>1, <2>5 DEF Counts
  <2>9. Drains(m)
    BY <2>5, <2>7, Zenon DEF Drains
  <2>10. Live(m) /\ Live(k) /\ m.state # kConnected
    BY <1>3, <2>5, StatesDiffer, Zenon DEF Live
  <2>11. Listens(m)
    BY <1>1, <1>3, <2>5, <2>10, StatesDiffer, Zenon DEF Listens
  <2> QED
    BY <1>3, <2>5, <2>8, <2>9, <2>10, <2>11 DEF ConnOK, Keeps, m
<1> QED
  BY <1>2, <1>3

\* User code in a callback keeps a connection as it is, or shuts it down.
LEMMA UserCodeOK ==
    ASSUME NEW k, ConnOK(k), NEW r \in UserCode(k)
    PROVE  ConnOK(r.k) /\ Keeps(k, r.k) /\ r.call \in {"none", "complete"}
<1>1. CASE r = Result(k, "none")
  BY <1>1 DEF Result, Keeps
<1>2. CASE r = Result(Shutdown(k), "none")
  BY <1>2, ShutdownOK DEF Result
<1>3. CASE r \in Send(k)
  BY <1>3, SendOK
<1>4. ASSUME NEW q \in Send(k), r = Result(Shutdown(q.k), q.call)
      PROVE  ConnOK(r.k) /\ Keeps(k, r.k) /\ r.call \in {"none", "complete"}
  <2>1. ConnOK(q.k) /\ Keeps(k, q.k) /\ q.call \in {"none", "complete"}
    BY SendOK
  <2>2. ConnOK(Shutdown(q.k)) /\ Keeps(q.k, Shutdown(q.k))
    BY <2>1, ShutdownOK
  <2>3. r.k = Shutdown(q.k) /\ r.call = q.call
    BY <1>4 DEF Result
  <2> QED
    BY <2>1, <2>2, <2>3, Zenon DEF Keeps
<1> QED
  BY <1>1, <1>2, <1>3, <1>4 DEF UserCode

\* The user hears of an event: nothing else of the connection changes.
LEMMA HearOK ==
    ASSUME NEW k, ConnOK(k), NEW what \in {"up", "message", "down"}
    PROVE  /\ ConnOK(Hear(k, what))
           /\ Hear(k, what).state = k.state /\ Hear(k, what).ch = k.ch
           /\ Hear(k, what).out = k.out /\ Hear(k, what).peer = k.peer
           /\ Hear(k, what).heard = IF what = "message" /\ k.heard = <<"up">> THEN k.heard
                                    ELSE Append(k.heard, what)
<1> DEFINE h == IF what = "message" /\ k.heard = <<"up">> THEN k.heard ELSE Append(k.heard, what)
           m == Hear(k, what)
<1>1. k \in ConnectionType /\ Counts(k) /\ Drains(k) /\ Listens(k)
  BY DEF ConnOK
<1>2. h \in Seq({"up", "message", "down"})
  <2>1. k.heard \in Seq({"up", "message", "down"})
    BY <1>1, ConnectionFields
  <2> QED
    BY <2>1
<1>3. m = [k EXCEPT !.heard = h]
  BY DEF Hear
<1> HIDE DEF h, m
<1>4. /\ m \in ConnectionType
      /\ m.state = k.state /\ m.ch = k.ch /\ m.sent = k.sent /\ m.wire = k.wire /\ m.out = k.out
      /\ m.fin = k.fin /\ m.peer = k.peer /\ m.heard = h
  BY <1>1, <1>2, <1>3 DEF ConnectionType
<1>5. Counts(m) /\ Drains(m) /\ Listens(m)
  BY <1>1, <1>4, Zenon DEF Counts, Drains, Listens, Live
<1> QED
  BY <1>4, <1>5 DEF ConnOK, m, h

\* A new connection that starts to listen is up, and watched.
LEMMA EnabledOK ==
    ASSUME NEW k, ConnOK(k), k.state = kConnecting
    PROVE  LET m == [k EXCEPT !.state = kConnected, !.ch = EnableReading(k.ch)] IN
           ConnOK(m) /\ Ready(m) /\ m.state = kConnected /\ m.heard = k.heard
<1> DEFINE e == EnableReading(k.ch)
           m == [k EXCEPT !.state = kConnected, !.ch = e]
<1>1. k \in ConnectionType /\ Counts(k) /\ Drains(k) /\ Listens(k)
  BY DEF ConnOK
<1>2. k.ch = NewChannel /\ k.out = 0 /\ ~k.fin
  BY <1>1, StatesDiffer, Zenon DEF Listens, Drains
<1>3. k.ch \in ChannelType /\ ChannelOK(k.ch) /\ k.ch.events = {} /\ k.ch.index = KNew
  BY <1>2, NewChannelOK DEF NewChannel
<1>4. e \in ChannelType /\ ChannelOK(e) /\ e.index = KAdded /\ e.events = {Reading}
  <2> DEFINE E == {Reading}
  <2>0. k.ch.events \cup {Reading} = E
    BY <1>3
  <2>1. e = UpdateChannel([k.ch EXCEPT !.events = E])
    BY <2>0, Zenon DEF EnableReading
  <2>2. E \in SUBSET {Reading, Writing} /\ E # {}
    OBVIOUS
  <2> HIDE DEF e, E
  <2>3. k.ch \in ChannelType /\ ChannelOK(k.ch)
    BY <1>3
  <2>4. e \in ChannelType /\ ChannelOK(e) /\ e.index = KAdded /\ e.events = E
    BY <2>1, <2>2, <2>3, EnableDisableOK
  <2> QED
    BY <2>4 DEF E
<1> HIDE DEF e
<1>5. /\ m \in ConnectionType
      /\ m.state = kConnected /\ m.ch = e /\ m.sent = k.sent /\ m.wire = k.wire /\ m.out = k.out
      /\ m.fin = k.fin /\ m.peer = k.peer /\ m.heard = k.heard
  BY <1>1, <1>4 DEF ConnectionType
<1> HIDE DEF m
<1>6. ConnOK(m)
  <2>1. Counts(m)
    BY <1>1, <1>5, Zenon DEF Counts
  <2>2. Drains(m)
    BY <1>2, <1>5, StatesDiffer, Zenon DEF Drains
  <2>3. Listens(m)
    <3>1. Writing \notin e.events /\ Reading \in e.events /\ ~(m.out > 0)
      BY <1>2, <1>4, <1>5, StatesDiffer
    <3> QED
      BY <1>4, <1>5, <3>1, StatesDiffer, Zenon DEF Listens, Live
  <2> QED
    BY <1>5, <2>1, <2>2, <2>3 DEF ConnOK
<1>7. Ready(m)
  BY <1>4, <1>5, Zenon DEF Ready, Live
<1> QED
  BY <1>5, <1>6, <1>7 DEF m, e

\* connectEstablished of a new connection: the user hears that it is up.
LEMMA ConnectEstablishedOK ==
    ASSUME NEW k, ConnOK(k), k.state = kConnecting, k.heard = <<>>,
           NEW r \in ConnectEstablished(k)
    PROVE  ConnOK(r.k) /\ Ready(r.k) /\ r.k.heard = <<"up">> /\ r.call \in {"none", "complete"}
<1> DEFINE m == [k EXCEPT !.state = kConnected, !.ch = EnableReading(k.ch)]
           h == Hear(m, "up")
<1>1. ConnOK(m) /\ Ready(m) /\ m.state = kConnected /\ m.heard = <<>>
  BY EnabledOK
<1>2. r \in UserCode(h)
  BY DEF ConnectEstablished
<1> HIDE DEF m
<1>3. ConnOK(h) /\ Ready(h) /\ h.heard = <<"up">>
  <2>1. /\ ConnOK(h) /\ h.state = m.state /\ h.ch = m.ch
        /\ h.heard = Append(m.heard, "up")
    BY <1>1, HearOK
  <2> HIDE DEF h
  <2>2. Ready(h)
    BY <1>1, <2>1, Zenon DEF Ready, Live
  <2> QED
    BY <1>1, <2>1, <2>2
<1> HIDE DEF h
<1>4. ConnOK(r.k) /\ Keeps(h, r.k) /\ r.call \in {"none", "complete"}
  BY <1>2, <1>3, UserCodeOK
<1> QED
  BY <1>3, <1>4, Zenon DEF Keeps, Ready, Live

\* handleClose: the connection is down, and not watched any more.
LEMMA HandleCloseOK ==
    ASSUME NEW k, ConnOK(k), Ready(k)
    PROVE  LET r == HandleClose(k) IN
           /\ ConnOK(r.k) /\ r.k.state = kDisconnected /\ r.call = "close"
           /\ r.k.heard = Append(k.heard, "down")
<1> DEFINE e == DisableAll(k.ch)
           m == [k EXCEPT !.state = kDisconnected, !.ch = e]
           h == Hear(m, "down")
<1>1. k \in ConnectionType /\ Counts(k) /\ Drains(k) /\ Listens(k)
  BY DEF ConnOK
<1>2. k.ch \in ChannelType /\ ChannelOK(k.ch) /\ k.ch.index = KAdded
  BY <1>1, ConnectionFields DEF Listens, Ready
<1>3. e \in ChannelType /\ ChannelOK(e) /\ e.index = KDeleted /\ e.events = {}
  <2>1. e = UpdateChannel([k.ch EXCEPT !.events = {}])
    BY DEF DisableAll
  <2> HIDE DEF e
  <2>2. {} \in SUBSET {Reading, Writing}
    OBVIOUS
  <2> QED
    BY <1>2, <2>1, <2>2, EnableDisableOK, ZenonT(40)
<1> HIDE DEF e
<1>4. /\ m \in ConnectionType
      /\ m.state = kDisconnected /\ m.ch = e /\ m.sent = k.sent /\ m.wire = k.wire
      /\ m.out = k.out /\ m.fin = k.fin /\ m.peer = k.peer /\ m.heard = k.heard
  BY <1>1, <1>3 DEF ConnectionType
<1>5. HandleClose(k) = Result(h, "close")
  BY DEF HandleClose, e
<1> HIDE DEF m
<1>6. ConnOK(m)
  <2>1. Counts(m)
    BY <1>1, <1>4, Zenon DEF Counts
  <2>2. Drains(m)
    BY <1>1, <1>4, StatesDiffer, Zenon DEF Drains
  <2>3. Listens(m)
    BY <1>3, <1>4, StatesDiffer, Zenon DEF Listens, Live
  <2> QED
    BY <1>4, <2>1, <2>2, <2>3 DEF ConnOK
<1>7. ConnOK(h) /\ h.state = kDisconnected /\ h.heard = Append(k.heard, "down")
  <2>1. ConnOK(h) /\ h.state = m.state /\ h.heard = Append(m.heard, "down")
    BY <1>6, HearOK
  <2> HIDE DEF h
  <2> QED
    BY <1>4, <2>1
<1> HIDE DEF h
<1> QED
  BY <1>5, <1>7 DEF Result

\* handleError: the error is taken.
LEMMA HandleErrorOK ==
    ASSUME NEW k, ConnOK(k)
    PROVE  ConnOK(HandleError(k)) /\ Keeps(k, HandleError(k)) /\ HandleError(k).state = k.state
<1> DEFINE m == [k EXCEPT !.err = FALSE]
<1>1. k \in ConnectionType /\ Counts(k) /\ Drains(k) /\ Listens(k)
  BY DEF ConnOK
<1>2. /\ m \in ConnectionType
      /\ m.state = k.state /\ m.ch = k.ch /\ m.sent = k.sent /\ m.wire = k.wire /\ m.out = k.out
      /\ m.fin = k.fin /\ m.peer = k.peer /\ m.heard = k.heard
  BY <1>1 DEF ConnectionType
<1>3. HandleError(k) = m
  BY DEF HandleError
<1> HIDE DEF m
<1>4. Counts(m) /\ Drains(m) /\ Listens(m)
  BY <1>1, <1>2, Zenon DEF Counts, Drains, Listens, Live
<1>5. Keeps(k, m)
  BY <1>2, Zenon DEF Keeps, Live
<1> QED
  BY <1>2, <1>3, <1>4, <1>5 DEF ConnOK

\* Up, then down.
LEMMA UpThenDown == Append(<<"up">>, "down") = <<"up", "down">>
<1> DEFINE s == Append(<<"up">>, "down")
           t == <<"up", "down">>
<1>1. <<"up">> \in Seq({"up", "down"}) /\ Len(<<"up">>) = 1 /\ <<"up">>[1] = "up"
  OBVIOUS
<1>2. s \in Seq({"up", "down"}) /\ Len(s) = 2 /\ s[1] = "up" /\ s[2] = "down"
  BY <1>1
<1>3. t \in Seq({"up", "down"}) /\ Len(t) = 2 /\ t[1] = "up" /\ t[2] = "down"
  OBVIOUS
<1> HIDE DEF s, t
<1>4. \A i \in 1..Len(s) : s[i] = t[i]
  BY <1>2, <1>3
<1>5. s = t
  BY <1>2, <1>3, <1>4, SeqEqual
<1> QED
  BY <1>5 DEF s, t

\* handleRead of a channel that is watched: the connection stays up, or its
\* end of file closes it.
LEMMA HandleReadOK ==
    ASSUME NEW k, ConnOK(k), Ready(k), k.heard = <<"up">>, NEW r \in HandleRead(k)
    PROVE  /\ ConnOK(r.k)
           /\ \/ Keeps(k, r.k) /\ r.call \in {"none", "complete"}
              \/ r.call = "close" /\ r.k.state = kDisconnected /\ r.k.heard = <<"up", "down">>
<1>1. CASE ~k.stuck /\ k.rx > 0
  <2>0. PICK left \in BOOLEAN : r \in UserCode(Hear([k EXCEPT !.rx = 0, !.stuck = left], "message"))
    <3>1. r \in Message(k)
      BY <1>1 DEF HandleRead
    <3> DEFINE U(left) == UserCode(Hear([k EXCEPT !.rx = 0, !.stuck = left], "message"))
               B == IF "inputBuffer_" \in Overflows THEN BOOLEAN ELSE {FALSE}
    <3>2. r \in UNION {U(left) : left \in B}
      BY <3>1 DEF Message
    <3>3. B \subseteq BOOLEAN
      OBVIOUS
    <3> HIDE DEF U, B
    <3>4. PICK left \in B : r \in U(left)
      BY <3>2
    <3> QED
      BY <3>3, <3>4 DEF U
  <2> DEFINE m == [k EXCEPT !.rx = 0, !.stuck = left]
             h == Hear(m, "message")
  <2>1. k \in ConnectionType /\ Counts(k) /\ Drains(k) /\ Listens(k)
    BY DEF ConnOK
  <2>2. /\ m \in ConnectionType
        /\ m.state = k.state /\ m.ch = k.ch /\ m.sent = k.sent /\ m.wire = k.wire
        /\ m.out = k.out /\ m.fin = k.fin /\ m.peer = k.peer /\ m.heard = k.heard
    BY <2>1 DEF ConnectionType
  <2>3. r \in UserCode(h)
    BY <2>0
  <2> HIDE DEF m
  <2>4. ConnOK(m)
    BY <2>1, <2>2, Zenon DEF ConnOK, Counts, Drains, Listens, Live
  <2>5. ConnOK(h) /\ h.state = k.state /\ h.ch = k.ch /\ h.heard = k.heard /\ h.peer = k.peer
    BY <2>2, <2>4, HearOK
  <2> HIDE DEF h
  <2>6. ConnOK(r.k) /\ Keeps(h, r.k) /\ r.call \in {"none", "complete"}
    BY <2>3, <2>5, UserCodeOK
  <2> QED
    BY <2>5, <2>6, Zenon DEF Keeps, Live
<1>2. CASE k.stuck \/ (~(k.rx > 0) /\ k.err)
  <2>1. r = Result(HandleError(k), "none")
    BY <1>2 DEF HandleRead
  <2>2. r.k = HandleError(k) /\ r.call = "none"
    BY <2>1 DEF Result
  <2> QED
    BY <2>2, HandleErrorOK
<1>3. CASE ~k.stuck /\ ~(k.rx > 0) /\ ~k.err
  <2>1. r = HandleClose(k)
    BY <1>3 DEF HandleRead
  <2>2. r.call = "close" /\ ConnOK(r.k) /\ r.k.state = kDisconnected /\ r.k.heard = Append(k.heard, "down")
    BY <2>1, HandleCloseOK
  <2>3. Append(<<"up">>, "down") = <<"up", "down">>
    BY UpThenDown
  <2> QED
    BY <2>2, <2>3
<1> QED
  BY <1>1, <1>2, <1>3

\* handlewrite: what the kernel takes leaves outputBuffer_, and with the
\* last of it go EPOLLOUT and, after a shutdown(), the FIN.
LEMMA HandleWriteOK ==
    ASSUME NEW k, ConnOK(k), Ready(k) \/ k.state = kDisconnected, NEW r \in HandleWrite(k)
    PROVE  /\ ConnOK(r.k) /\ Keeps(k, r.k) /\ r.k.state = k.state
           /\ r.call \in {"none", "complete"}
<1>1. k \in ConnectionType /\ Counts(k) /\ Drains(k) /\ Listens(k)
  BY DEF ConnOK
<1>2. CASE r = Result(k, "none")
  BY <1>2 DEF Result, Keeps
<1>3. CASE r = Result(HandleError(k), "none")
  BY <1>3, HandleErrorOK DEF Result
<1>4. CASE r # Result(k, "none") /\ r # Result(HandleError(k), "none")
  <2>1. Writing \in k.ch.events
    BY <1>4 DEF HandleWrite, IsWriting
  <2>2. ~Broken(k)
    BY <1>4, <2>1 DEF HandleWrite, IsWriting, HandleError
  <2>3. /\ Ready(k) /\ Live(k) /\ k.ch \in ChannelType /\ ChannelOK(k.ch) /\ k.ch.index = KAdded
        /\ Reading \in k.ch.events /\ k.ch.events \in SUBSET {Reading, Writing}
        /\ Writing \in k.ch.events <=> k.out > 0
    <3>1. Ready(k)
      BY <1>1, <2>1 DEF Listens
    <3> QED
      BY <1>1, <3>1, ConnectionFields, Zenon DEF Listens, Live, Ready
  <2>4. k.fin = FALSE /\ k.peer # "rst"
    BY <1>1, <2>2, ConnectionFields, Zenon DEF Broken
  <2>5. PICK n \in 1..k.out :
          r = LET w == [k EXCEPT !.out = @ - n, !.wire = @ + n]
                  drained == [w EXCEPT !.ch = DisableWriting(@), !.reach = Emptied(@)]
              IN  IF w.out > 0 THEN Result(w, "none")
                  ELSE Result(IF k.state = kDisconnecting
                              THEN ShutdownInLoop(drained) ELSE drained,
                              "complete")
    BY <1>4, <2>1, <2>2 DEF HandleWrite, IsWriting
  <2> DEFINE w == [k EXCEPT !.out = @ - n, !.wire = @ + n]
             e == DisableWriting(k.ch)
             drained == [w EXCEPT !.ch = e, !.reach = Emptied(k.reach)]
             ended == [drained EXCEPT !.fin = TRUE]
  <2>6. /\ k.sent \in Nat /\ k.wire \in Nat /\ k.out \in Nat /\ MaxSends \in Nat /\ n \in Nat
        /\ k.sent <= MaxSends /\ k.wire <= MaxSends /\ k.out <= MaxSends /\ n <= k.out
        /\ k.sent = k.wire + k.out
    BY <1>1, <2>4, ConnectionFields, SendsAssumption DEF Counts
  <2>7. k.out - n \in 0..MaxSends /\ k.wire + n \in 0..MaxSends
    BY <2>6
  <2>8. /\ w \in ConnectionType
        /\ w.state = k.state /\ w.ch = k.ch /\ w.sent = k.sent /\ w.wire = k.wire + n
        /\ w.out = k.out - n /\ w.fin = FALSE /\ w.peer = k.peer /\ w.heard = k.heard
        /\ w.reach = k.reach
    BY <1>1, <2>4, <2>7 DEF ConnectionType
  <2>9. \/ r = Result(w, "none") /\ w.out > 0
        \/ r = Result(IF k.state = kDisconnecting THEN ShutdownInLoop(drained) ELSE drained,
                      "complete") /\ ~(w.out > 0)
    <3>1. drained = [w EXCEPT !.ch = DisableWriting(@), !.reach = Emptied(@)]
      BY <2>8
    <3> HIDE DEF drained
    <3> QED
      BY <2>5, <3>1
  <2> HIDE DEF w
  <2>10. e \in ChannelType /\ ChannelOK(e) /\ e.index = KAdded /\ e.events = k.ch.events \ {Writing}
    <3> DEFINE E == k.ch.events \ {Writing}
    <3>1. e = UpdateChannel([k.ch EXCEPT !.events = E])
      BY DEF DisableWriting
    <3>2. E \in SUBSET {Reading, Writing} /\ E # {}
      BY <2>3, StatesDiffer
    <3> HIDE DEF E, e
    <3>3. e \in ChannelType /\ ChannelOK(e) /\ e.index = KAdded /\ e.events = E
      BY <2>3, <3>1, <3>2, EnableDisableOK
    <3> QED
      BY <3>3 DEF E
  <2> HIDE DEF e
  <2>11. Counts(w)
    BY <2>6, <2>8 DEF Counts
  <2>12. CASE r = Result(w, "none") /\ w.out > 0
    <3>1. w.out # 0 /\ k.out > 0
      BY <2>6, <2>8, <2>12
    <3>2. Drains(w)
      BY <2>8, <3>1, Zenon DEF Drains
    <3>3. Listens(w) /\ Keeps(k, w)
      BY <1>1, <2>3, <2>8, <2>12, <3>1, StatesDiffer, Zenon DEF Listens, Keeps, Live
    <3>4. r.k = w /\ r.call = "none"
      BY <2>12 DEF Result
    <3> QED
      BY <2>8, <2>11, <3>2, <3>3, <3>4 DEF ConnOK
  <2>13. CASE r = Result(IF k.state = kDisconnecting THEN ShutdownInLoop(drained) ELSE drained,
                         "complete") /\ ~(w.out > 0)
    <3>1. w.out = 0
      BY <2>6, <2>7, <2>8, <2>13
    <3>2. /\ drained \in ConnectionType
          /\ drained.state = k.state /\ drained.ch = e /\ drained.sent = k.sent
          /\ drained.wire = k.wire + n /\ drained.out = 0 /\ drained.fin = FALSE
          /\ drained.peer = k.peer /\ drained.heard = k.heard
      <4>1. Emptied(k.reach) \in {"size", "capacity", "beyond"}
        BY <1>1, ConnectionFields DEF Emptied
      <4> QED
        BY <2>8, <2>10, <3>1, <4>1 DEF ConnectionType
    <3>3. Writing \notin e.events /\ Reading \in e.events /\ ~(drained.out > 0)
      BY <2>3, <2>10, <3>2, StatesDiffer
    <3> HIDE DEF drained
    <3>4. /\ ended \in ConnectionType
          /\ ended.state = k.state /\ ended.ch = e /\ ended.sent = k.sent
          /\ ended.wire = k.wire + n /\ ended.out = 0 /\ ended.fin = TRUE
          /\ ended.peer = k.peer /\ ended.heard = k.heard
      BY <3>2 DEF ConnectionType
    <3> HIDE DEF ended
    <3>5. r = Result(IF k.state = kDisconnecting THEN ended ELSE drained, "complete")
      BY <2>13, <3>2, <3>3 DEF ShutdownInLoop, IsWriting, ended
    <3>6. r.k = (IF k.state = kDisconnecting THEN ended ELSE drained) /\ r.call = "complete"
      BY <3>5 DEF Result
    <3> DEFINE m == r.k
    <3>7. /\ m \in ConnectionType
          /\ m.state = k.state /\ m.ch = e /\ m.sent = k.sent /\ m.wire = k.wire + n /\ m.out = 0
          /\ m.peer = k.peer /\ m.heard = k.heard
          /\ m.fin <=> k.state = kDisconnecting
      BY <3>2, <3>4, <3>6, Zenon
    <3> HIDE DEF m
    <3>8. Counts(m)
      BY <2>6, <2>8, <3>1, <3>7 DEF Counts
    <3>9. Drains(m)
      BY <3>7, Zenon DEF Drains
    <3>10. ~(m.out > 0)
      BY <3>7
    <3>11. Listens(m) /\ Keeps(k, m)
      BY <2>3, <2>10, <3>3, <3>7, <3>10, StatesDiffer, Zenon DEF Listens, Keeps, Live
    <3> QED
      BY <3>6, <3>7, <3>8, <3>9, <3>11 DEF ConnOK, m
  <2> QED
    BY <2>9, <2>12, <2>13
<1> QED
  BY <1>2, <1>3, <1>4

\* connectDestoryed, whoever calls it: the channel is removed, and a user
\* who had not heard that the connection is down hears it.
LEMMA ConnectDestoryedOK ==
    ASSUME NEW k, ConnOK(k)
    PROVE  LET m == ConnectDestoryed(k) IN
           /\ ConnOK(m) /\ m.ch.index = KNew /\ m.peer = k.peer
           /\ \/ k.state = kConnected /\ m.state = kDisconnected /\ m.heard = Append(k.heard, "down")
              \/ k.state # kConnected /\ m.state = k.state /\ m.heard = k.heard
<1> DEFINE e == DisableAll(k.ch)
           a == [k EXCEPT !.state = kDisconnected, !.ch = e]
           h == Hear(a, "down")
           d == IF k.state = kConnected THEN h ELSE k
           m == ConnectDestoryed(k)
<1>1. k \in ConnectionType /\ Counts(k) /\ Drains(k) /\ Listens(k)
  BY DEF ConnOK
<1>2. k.ch \in ChannelType /\ ChannelOK(k.ch)
  BY <1>1, ConnectionFields DEF Listens
<1>3. m = [d EXCEPT !.ch = RemoveChannel(@)]
  BY DEF ConnectDestoryed
<1>4. /\ ConnOK(d) /\ d.state # kConnected /\ d.peer = k.peer
      /\ \/ k.state = kConnected /\ d.state = kDisconnected /\ d.heard = Append(k.heard, "down")
         \/ k.state # kConnected /\ d.state = k.state /\ d.heard = k.heard
  <2>1. CASE k.state = kConnected
    <3>0. k.ch.index = KAdded
      BY <1>1, <2>1 DEF Listens
    <3>1. e \in ChannelType /\ ChannelOK(e) /\ e.index = KDeleted /\ e.events = {}
      <4>1. e = UpdateChannel([k.ch EXCEPT !.events = {}])
        BY DEF DisableAll
      <4> HIDE DEF e
      <4>2. {} \in SUBSET {Reading, Writing}
        OBVIOUS
      <4> QED
        BY <1>2, <3>0, <4>1, <4>2, EnableDisableOK, ZenonT(40)
    <3> HIDE DEF e
    <3>2. /\ a \in ConnectionType
          /\ a.state = kDisconnected /\ a.ch = e /\ a.sent = k.sent /\ a.wire = k.wire
          /\ a.out = k.out /\ a.fin = k.fin /\ a.peer = k.peer /\ a.heard = k.heard
      BY <1>1, <3>1 DEF ConnectionType
    <3> HIDE DEF a
    <3>3. ConnOK(a)
      <4>1. Counts(a)
        BY <1>1, <3>2, Zenon DEF Counts
      <4>2. Drains(a)
        BY <1>1, <3>2, StatesDiffer, Zenon DEF Drains
      <4>3. Listens(a)
        BY <3>1, <3>2, StatesDiffer, Zenon DEF Listens, Live
      <4> QED
        BY <3>2, <4>1, <4>2, <4>3 DEF ConnOK
    <3>4. ConnOK(h) /\ h.state = a.state /\ h.peer = a.peer /\ h.heard = Append(a.heard, "down")
      BY <3>3, HearOK
    <3> HIDE DEF h
    <3> QED
      BY <2>1, <3>2, <3>4, StatesDiffer
  <2>2. CASE k.state # kConnected
    BY <2>2
  <2> QED
    BY <2>1, <2>2
<1> HIDE DEF d
<1>5. d \in ConnectionType /\ Counts(d) /\ Drains(d) /\ Listens(d)
  BY <1>4 DEF ConnOK
<1>6. d.ch \in ChannelType /\ ChannelOK(d.ch)
  BY <1>5, ConnectionFields DEF Listens
<1> DEFINE x == RemoveChannel(d.ch)
<1>7. x \in ChannelType /\ ChannelOK(x) /\ x.events = d.ch.events /\ x.index = KNew
  BY <1>6, RemoveChannelOK
<1>8. d.ch = NewChannel => x = NewChannel
  <2>1. NewChannel.index # KAdded
    BY StatesDiffer DEF NewChannel
  <2>2. RemoveChannel(NewChannel) = [NewChannel EXCEPT !.mapped = FALSE, !.index = KNew]
    BY <2>1 DEF RemoveChannel
  <2>3. RemoveChannel(NewChannel) = NewChannel
    BY <2>2 DEF NewChannel
  <2> QED
    BY <2>3
<1>9. m = [d EXCEPT !.ch = x]
  BY <1>3
<1> HIDE DEF x, m
<1>10. /\ m \in ConnectionType
       /\ m.state = d.state /\ m.ch = x /\ m.sent = d.sent /\ m.wire = d.wire
       /\ m.out = d.out /\ m.fin = d.fin /\ m.peer = d.peer /\ m.heard = d.heard
  BY <1>5, <1>7, <1>9 DEF ConnectionType
<1>11. Counts(m) /\ Drains(m)
  BY <1>5, <1>10, Zenon DEF Counts, Drains
<1>12. Listens(m)
  BY <1>4, <1>5, <1>7, <1>8, <1>10, StatesDiffer, Zenon DEF Listens, Live
<1> QED
  BY <1>4, <1>7, <1>10, <1>11, <1>12 DEF ConnOK, m
=============================================================================
